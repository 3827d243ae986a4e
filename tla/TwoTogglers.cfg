CONSTANTS
  Caller = {http1, http2}
  Nobody = nobody
  Others = others
SPECIFICATION ThreadSpec
INVARIANTS
  NeverTerminates

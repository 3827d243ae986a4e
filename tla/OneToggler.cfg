CONSTANTS
  Caller = {http1}
  Nobody = nobody
  Others = others
SPECIFICATION FairThreadSpec
INVARIANTS
  NeverTerminates
  AnswerIsTrue
PROPERTIES
  TogglesReturn

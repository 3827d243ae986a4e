----------------------------- MODULE MCWsServer -----------------------------
(* Small instances of WsServer for TLC. *)
EXTENDS WsServer, TLC

\* Clients are compared for equality only.
Peers == Permutations(Client)
=============================================================================

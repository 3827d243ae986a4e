---------------------------- MODULE MCWebClient ----------------------------
(* A small instance of WebClient for TLC.                                  *)
EXTENDS WebClient

TwoUsers == {<<1, 2>>}

=============================================================================

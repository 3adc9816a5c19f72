------------------------------ MODULE MCSession ------------------------------
(* Session with events nested two deep: the engine may deliver any event   *)
(* inside a running handler.                                               *)
EXTENDS Session

CONSTANTS s1, s2

NestedAll == Events

=============================================================================

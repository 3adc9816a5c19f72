---------------------------- MODULE MCObjectArray ----------------------------
(* ObjectArray with chunks of three cells, searched two ids at a time: the  *)
(* array begins within the first chunk, at its end, at an unseen cell, in   *)
(* the middle of the second chunk, or full.                                 *)
EXTENDS ObjectArray

CONSTANTS game, worker

UsersDef == {game, worker}

StartsDef ==
  {<<"other", "wanted">>,
   <<"other", "null", "wanted">>,
   <<"null", "wanted", "other", "wanted">>,
   <<"null", "other", "wanted", "null", "wanted">>,
   <<"other", "other", "other", "wanted", "null", "wanted">>}

=============================================================================

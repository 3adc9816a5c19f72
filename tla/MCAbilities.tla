----------------------------- MODULE MCAbilities -----------------------------
(* Abilities with four default abilities, one of them not found, and two   *)
(* script threads that grant another ability or the first one again.       *)
EXTENDS Abilities

CONSTANTS purple, sprint, jump, search, vehicle, none, s1, s2

DefaultRequestsDef == <<sprint, none, jump, search>>

=============================================================================

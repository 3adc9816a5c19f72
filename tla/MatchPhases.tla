----------------------------- MODULE MatchPhases -----------------------------
(***************************************************************************)
(* What the dispatcher promises of one match: it goes through its phases   *)
(* in order, never back, and enters a phase only when what the handlers of *)
(* that phase use is there; what is there stays.                           *)
(***************************************************************************)
CONSTANTS
  Resources,   \* everything that is set up during a match
  StartNeeds   \* what must be there for the match to have started

VARIABLES phase, have

mvars == <<phase, have>>

Init == phase = "lobby" /\ have = {}

Prepare == have' \subseteq Resources /\ have \subseteq have' /\ UNCHANGED phase

Start == phase = "lobby" /\ phase' = "started"
         /\ StartNeeds \subseteq have /\ UNCHANGED have
Load  == phase = "started" /\ phase' = "loaded"
         /\ have = Resources /\ UNCHANGED have
Jump  == phase = "loaded" /\ phase' = "jumped" /\ UNCHANGED have

Next == Prepare \/ Start \/ Load \/ Jump

Spec == Init /\ [][Next]_mvars

=============================================================================

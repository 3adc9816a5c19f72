---------------------------- MODULE ItemExchange ----------------------------
(***************************************************************************)
(* What the inventory promises, without arrays, slots or threads: items    *)
(* are carried or lie in the world, a pickup becomes one item of the same  *)
(* definition, an item put down becomes one pickup of its definition, and  *)
(* nothing else takes an item away.                                        *)
(***************************************************************************)
EXTENDS Naturals

CONSTANT Definitions

VARIABLES open,     \* the inventory has been stocked
          carried,  \* items the player carries: [id, def]
          lying     \* pickups in the world: [id, def]

xvars == <<open, carried, lying>>

Thing(n, def) == [id |-> n, def |-> def]
Fresh(n, S)   == \A x \in S : x.id # n

Init == open = FALSE /\ carried = {} /\ lying = {}

Stock ==
  /\ ~open /\ open' = TRUE
  /\ \A x, y \in carried' : x.id = y.id => x = y
  /\ UNCHANGED lying

Spawn ==
  /\ \E x \in lying' : Fresh(x.id, lying) /\ lying' = lying \cup {x}
  /\ UNCHANGED <<open, carried>>

Give ==
  /\ open
  /\ \E x \in carried' : Fresh(x.id, carried) /\ carried' = carried \cup {x}
  /\ UNCHANGED <<open, lying>>

Take(p) ==
  /\ open
  /\ \E x \in carried' :
       /\ Fresh(x.id, carried) /\ x.def = p.def
       /\ carried' = carried \cup {x}
  /\ lying' = lying \ {p}
  /\ UNCHANGED open

Drop(o) ==
  /\ open
  /\ \E q \in lying' :
       /\ Fresh(q.id, lying) /\ q.def = o.def
       /\ lying' = lying \cup {q}
  /\ carried' = carried \ {o}
  /\ UNCHANGED open

Swap(p, o) ==
  /\ open
  /\ \E x \in carried' :
       /\ Fresh(x.id, carried) /\ x.def = p.def
       /\ carried' = (carried \ {o}) \cup {x}
  /\ \E q \in lying' :
       /\ Fresh(q.id, lying) /\ q.def = o.def
       /\ lying' = (lying \ {p}) \cup {q}
  /\ UNCHANGED open

Next ==
  \/ Stock \/ Spawn \/ Give
  \/ \E p \in lying : Take(p)
  \/ \E o \in carried : Drop(o)
  \/ \E p \in lying, o \in carried : Swap(p, o)

Spec == Init /\ [][Next]_xvars

=============================================================================

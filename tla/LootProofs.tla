----------------------------- MODULE LootProofs -----------------------------
(***************************************************************************)
(* Proofs about Loot, for every table, every set of containers and every   *)
(* number of calls of clear().                                             *)
(***************************************************************************)
EXTENDS Loot, SequenceTheorems, WellFoundedInduction, TLAPS

DrawnKinds == {"Weapon", "Resource", "Consumables"}

(* The two arrays of a kind: no cell outlives its block; what is in the    *)
(* first is what the table offers of the kind; as long as no script has    *)
(* cleared either they have the same length, but for the row whose count   *)
(* is still to come, and where both can be read they hold one row.         *)
AddingTo(k) == adding /\ KindOf(NextRow.def) = k

PairOK(k) ==
  /\ block[<<k, "ItemDefs">>] # "live" => ItemDefs[k] = <<>>
  /\ block[<<k, "ItemCount">>] # "live" => ItemCount[k] = <<>>
  /\ (\A a \in PairOf(k) : block[a] # "freed") =>
       /\ ~AddingTo(k) => Len(ItemDefs[k]) = Len(ItemCount[k])
       /\ AddingTo(k) => /\ Len(ItemDefs[k]) = Len(ItemCount[k]) + 1
                         /\ ItemDefs[k][Len(ItemDefs[k])] = NextRow.def
  /\ \A j \in DOMAIN ItemDefs[k] :
       ItemDefs[k][j] \in Offered \cap GItemDefs /\ KindOf(ItemDefs[k][j]) = k
  /\ \A j \in DOMAIN ItemDefs[k] \cap DOMAIN ItemCount[k] : Entry(k, j) \in Stacks

PairsOK == \A k \in Kinds : PairOK(k)

(* A count is awaited only for a row that is taken.                        *)
AddingOK == adding => step < Len(Rows) /\ Taken(NextRow)

(* As long as no script clears anything, every row that was taken is there *)
(* and no block is gone.                                                   *)
AllTaken ==
  clears = 0 =>
    /\ \A a \in Arrays : block[a] # "freed"
    /\ \A i \in DOMAIN Rows : i <= step /\ Taken(Rows[i]) =>
         \E j \in DOMAIN ItemDefs[KindOf(Rows[i].def)] :
           ItemDefs[KindOf(Rows[i].def)][j] = Rows[i].def

(* A container being emptied has not been searched, and the arrays were    *)
(* prepared before it was opened; the indices drawn for a chest are good.  *)
VisitOK ==
  visit # NoVisit =>
    /\ Prepared /\ ~bAlreadySearched[visit]
    /\ Group[visit] = "Loot_Treasure" /\ clears = 0 =>
         \A k \in DrawnKinds : pick[k] \in DOMAIN ItemDefs[k]

(* A chest is empty-handed until it has given everything.                  *)
Complete(things) ==
  /\ Len(things) \in 3 .. 4
  /\ KindOf(things[1].def) = "Weapon" /\ KindOf(things[2].def) = "Resource"
  /\ KindOf(things[3].def) = "Consumables"
  /\ AmmoOf[things[1].def] \in AmmoOffered /\ clears = 0 =>
       Len(things) = 4 /\ things[4].def = AmmoOf[things[1].def]

ChestsOK ==
  \A c \in Containers : Group[c] = "Loot_Treasure" =>
    IF bAlreadySearched[c] THEN Complete(loot[c]) ELSE loot[c] = <<>>

IInv ==
  /\ TypeOK /\ PairsOK /\ AddingOK /\ AllTaken /\ VisitOK /\ ChestsOK
  /\ LootIsFromTable /\ FaultsAreEmptiness

----------------------------------------------------------------------------
(* The model's operators.                                                  *)

(* A set of natural numbers that is not empty has a least element.         *)
LEMMA LeastPosition ==
  ASSUME NEW S, S \subseteq Nat, S # {}
  PROVE  \E m \in S : \A l \in S : m <= l
<1>1. PICK m \in S : \A l \in S : ~ (<<l, m>> \in OpToRel(<, Nat))
  BY NatLessThanWellFounded, WFMin
<1>2. ASSUME NEW l \in S PROVE m <= l
  <2>1. ~(l < m)
    BY <1>1 DEF OpToRel
  <2> QED
    BY <2>1
<1> QED
  BY <1>2

(* The search for a weapon's ammo finds it, or it is not there.            *)
LEMMA AmmoForFinds ==
  ASSUME ItemDefs["Ammo"] \in Seq(Definitions), NEW def
  PROVE  /\ AmmoFor(def) = 0 =>
              \A j \in DOMAIN ItemDefs["Ammo"] : ItemDefs["Ammo"][j] # AmmoOf[def]
         /\ AmmoFor(def) # 0 =>
              /\ AmmoFor(def) \in DOMAIN ItemDefs["Ammo"]
              /\ ItemDefs["Ammo"][AmmoFor(def)] = AmmoOf[def]
<1> DEFINE matches == {j \in DOMAIN ItemDefs["Ammo"] : ItemDefs["Ammo"][j] = AmmoOf[def]}
<1>1. matches \subseteq Nat /\ 0 \notin matches
  OBVIOUS
<1>2. CASE matches = {}
  BY <1>2 DEF AmmoFor
<1>3. CASE matches # {}
  <2>1. \E j \in matches : \A l \in matches : j <= l
    BY <1>1, <1>3, LeastPosition
  <2>2. AmmoFor(def) = CHOOSE j \in matches : \A l \in matches : j <= l
    BY <1>3 DEF AmmoFor
  <2>3. AmmoFor(def) \in matches
    BY <2>1, <2>2
  <2> QED
    BY <1>1, <2>3
<1> QED
  BY <1>2, <1>3

(* A definition of GItemDefs has one of four kinds.                        *)
LEMMA KindsTaken ==
  ASSUME NEW d \in GItemDefs
  PROVE  KindOf(d) \in {"Ammo", "Weapon", "Consumables", "Resource"}
BY DEF GItemDefs, ItemDefClasses, KindOf

(* The rows are a sequence, which has a length, and the counters count.    *)
LEMMA RowsAreSeq ==
  ASSUME LootAssumption, TypeOK
  PROVE  /\ Rows \in Seq([def : Definitions \cup {NoDef}, weight : Nat, count : Nat])
         /\ Len(Rows) \in Nat /\ DOMAIN Rows = 1 .. Len(Rows)
         /\ FloorSpots \in Nat /\ step \in Nat /\ step <= Len(Rows) + FloorSpots
         /\ clears \in Nat
<1> DEFINE R == [def : Definitions \cup {NoDef}, weight : Nat, count : Nat]
<1>1. Rows \in Seq(R)
  BY DEF LootAssumption, TypeOK
<1> HIDE DEF R
<1>2. Len(Rows) \in Nat /\ DOMAIN Rows = 1 .. Len(Rows)
  BY <1>1
<1>3. FloorSpots \in Nat
  BY DEF LootAssumption
<1>4. step \in 0 .. Len(Rows) + FloorSpots
  BY DEF TypeOK
<1>5. step \in Nat /\ step <= Len(Rows) + FloorSpots
  BY <1>2, <1>3, <1>4
<1>6. clears \in Nat
  <2>1. clears \in 0 .. MaxClears
    BY DEF TypeOK
  <2>2. MaxClears \in Nat
    BY DEF LootAssumption
  <2> QED
    BY <2>1, <2>2
<1> QED
  BY <1>1, <1>2, <1>3, <1>5, <1>6 DEF R

(* A row is taken exactly if its definition is known and its weight is at  *)
(* least one whole.                                                        *)
LEMMA TakenIsOffered ==
  ASSUME LootAssumption, TypeOK, NEW i \in DOMAIN Rows
  PROVE  /\ Rows[i] \in [def : Definitions \cup {NoDef}, weight : Nat, count : Nat]
         /\ Taken(Rows[i]) <=> Rows[i].def \in GItemDefs /\ Rows[i].weight >= 100
         /\ Rows[i].def \in GItemDefs => Rows[i].def \in Definitions
<1>1. Rows \in Seq([def : Definitions \cup {NoDef}, weight : Nat, count : Nat])
  BY RowsAreSeq
<1>2. Rows[i] \in [def : Definitions \cup {NoDef}, weight : Nat, count : Nat]
  <2> DEFINE R == [def : Definitions \cup {NoDef}, weight : Nat, count : Nat]
  <2>1. Rows \in Seq(R)
    BY <1>1
  <2> HIDE DEF R
  <2>2. Rows[i] \in R
    BY <2>1
  <2> QED
    BY <2>2 DEF R
<1>3. Rows[i].weight \in Nat
  BY <1>2
<1>4. ASSUME NEW w \in Nat PROVE w \div 100 > 0 <=> w >= 100
  OBVIOUS
<1>5. Rows[i].weight \div 100 > 0 <=> Rows[i].weight >= 100
  BY <1>3, <1>4
<1> QED
  BY <1>2, <1>5 DEF Taken, GItemDefs

----------------------------------------------------------------------------
(* What the invariant says about reading.                                  *)

(* Where both arrays of a kind can be read they give a row of the table,   *)
(* of that kind.                                                           *)
LEMMA EntryIsRow ==
  ASSUME TypeOK, PairsOK, NEW k \in Kinds, NEW i, Readable(k, i)
  PROVE  /\ Entry(k, i) \in Thing /\ Entry(k, i) \in Stacks
         /\ Entry(k, i).def = ItemDefs[k][i]
         /\ KindOf(Entry(k, i).def) = k
<1>1. i \in DOMAIN ItemDefs[k] /\ i \in DOMAIN ItemCount[k]
  BY DEF Readable
<1>2. ItemDefs[k] \in Seq(Definitions) /\ ItemCount[k] \in Seq(Nat)
  BY DEF TypeOK
<1>3. ItemDefs[k][i] \in Definitions /\ ItemCount[k][i] \in Nat
  BY <1>1, <1>2
<1>4. PairOK(k)
  BY DEF PairsOK
<1>5. Entry(k, i) \in Stacks /\ KindOf(ItemDefs[k][i]) = k
  BY <1>1, <1>4 DEF PairOK
<1> QED
  BY <1>3, <1>5 DEF Entry, Thing

(* Once the table has been sorted no count is awaited.                     *)
LEMMA PreparedAdds ==
  ASSUME LootAssumption, TypeOK, AddingOK, Prepared
  PROVE  ~adding
<1>1. Len(Rows) \in Nat /\ step \in Nat
  BY RowsAreSeq
<1> QED
  BY <1>1 DEF AddingOK, Prepared

(* Until a script clears something, whatever is in the first array of a    *)
(* kind can be read.                                                       *)
LEMMA ReadableUntilCleared ==
  ASSUME TypeOK, PairsOK, AllTaken, ~adding, clears = 0,
         NEW k \in Kinds, NEW i \in DOMAIN ItemDefs[k]
  PROVE  Readable(k, i)
<1>1. \A a \in PairOf(k) : a \in Arrays /\ block[a] # "freed"
  BY DEF AllTaken, PairOf, Arrays
<1>2. Len(ItemDefs[k]) = Len(ItemCount[k])
  BY <1>1 DEF PairsOK, PairOK, AddingTo
<1>3. ItemDefs[k] \in Seq(Definitions) /\ ItemCount[k] \in Seq(Nat)
  BY DEF TypeOK
<1> QED
  BY <1>2, <1>3 DEF Readable

(* ... and once the table has been sorted everything it offers is there.   *)
LEMMA OfferedIsThere ==
  ASSUME LootAssumption, TypeOK, AllTaken, Prepared, clears = 0, NEW d \in Offered \cap GItemDefs
  PROVE  \E j \in DOMAIN ItemDefs[KindOf(d)] : ItemDefs[KindOf(d)][j] = d
<1>1. PICK i \in DOMAIN Rows : Rows[i].weight >= 100 /\ d = Rows[i].def
  BY DEF Offered
<1>2. Taken(Rows[i])
  BY <1>1, TakenIsOffered
<1>3. Len(Rows) \in Nat /\ DOMAIN Rows = 1 .. Len(Rows) /\ step \in Nat
  BY RowsAreSeq
<1>4. i <= step
  BY <1>3 DEF Prepared
<1> QED
  BY <1>1, <1>2, <1>4 DEF AllTaken

(* The ammo of a weapon, if a weapon has one there: readable unless a      *)
(* script has cleared, and found if the table offers it.                   *)
LEMMA AmmoIsThere ==
  ASSUME LootAssumption, TypeOK, PairsOK, AddingOK, AllTaken, Prepared, clears = 0, NEW def
  PROVE  /\ AmmoReadable(def)
         /\ AmmoOf[def] \in AmmoOffered => AmmoFor(def) # 0
<1>1. ItemDefs["Ammo"] \in Seq(Definitions)
  BY DEF TypeOK, Kinds
<1>2. AmmoReadable(def)
  BY <1>1, AmmoForFinds, PreparedAdds, ReadableUntilCleared DEF AmmoReadable, Kinds
<1>3. ASSUME AmmoOf[def] \in AmmoOffered PROVE AmmoFor(def) # 0
  <2>1. AmmoOf[def] \in Offered \cap GItemDefs /\ KindOf(AmmoOf[def]) = "Ammo"
    BY <1>3 DEF AmmoOffered
  <2>2. \E j \in DOMAIN ItemDefs["Ammo"] : ItemDefs["Ammo"][j] = AmmoOf[def]
    BY <2>1, OfferedIsThere
  <2> QED
    BY <1>1, <2>2, AmmoForFinds
<1> QED
  BY <1>2, <1>3

(* A weapon and its ammo, if it can be read: one thing more, or none.      *)
LEMMA WithAmmoAdds ==
  ASSUME TypeOK, PairsOK, NEW things \in Seq(Thing), NEW def, AmmoReadable(def)
  PROVE  /\ AmmoFor(def) = 0 => WithAmmo(things, def) = things
         /\ AmmoFor(def) # 0 =>
              /\ WithAmmo(things, def) = Append(things, Entry("Ammo", AmmoFor(def)))
              /\ Entry("Ammo", AmmoFor(def)).def = AmmoOf[def]
         /\ WithAmmo(things, def) \in Seq(Thing)
         /\ \A i \in DOMAIN WithAmmo(things, def) :
              \/ i \in DOMAIN things /\ WithAmmo(things, def)[i] = things[i]
              \/ WithAmmo(things, def)[i] \in Stacks
<1>1. ItemDefs["Ammo"] \in Seq(Definitions)
  BY DEF TypeOK, Kinds
<1>2. CASE AmmoFor(def) = 0
  BY <1>2 DEF WithAmmo
<1>3. CASE AmmoFor(def) # 0
  <2>1. Readable("Ammo", AmmoFor(def))
    BY <1>3 DEF AmmoReadable
  <2> DEFINE e == Entry("Ammo", AmmoFor(def))
  <2>2. e \in Thing /\ e \in Stacks /\ e.def = ItemDefs["Ammo"][AmmoFor(def)]
    BY <2>1, EntryIsRow DEF Kinds
  <2>3. e.def = AmmoOf[def]
    BY <1>1, <1>3, <2>2, AmmoForFinds
  <2>4. WithAmmo(things, def) = Append(things, e)
    BY <1>3 DEF WithAmmo
  <2> HIDE DEF e
  <2>5. Append(things, e) \in Seq(Thing)
    BY <2>2
  <2>6. \A i \in DOMAIN Append(things, e) :
           \/ i \in DOMAIN things /\ Append(things, e)[i] = things[i]
           \/ Append(things, e)[i] = e
    BY <2>2
  <2> QED
    BY <1>3, <2>2, <2>3, <2>4, <2>5, <2>6 DEF e
<1> QED
  BY <1>2, <1>3

----------------------------------------------------------------------------
(* What the actions share.                                                 *)

(* A step that leaves the arrays alone leaves what is known of them.       *)
LEMMA PairsKept ==
  ASSUME PairsOK, AddingOK, UNCHANGED <<Rows, block, ItemDefs, ItemCount, adding, clears>>,
         step' = step \/ ~adding
  PROVE  PairsOK' /\ AddingOK'
<1>1. Offered' = Offered /\ Stacks' = Stacks
  BY DEF Offered, Stacks
<1>2. adding' => step' = step /\ NextRow' = NextRow
  BY DEF NextRow
<1>3. ASSUME NEW k \in Kinds PROVE PairOK(k)'
  <2>1. PairOK(k) /\ \A j : Entry(k, j)' = Entry(k, j)
    BY DEF PairsOK, Entry
  <2>2. AddingTo(k)' <=> AddingTo(k)
    BY <1>2 DEF AddingTo
  <2>3. AddingTo(k) => NextRow' = NextRow
    BY <1>2 DEF AddingTo
  <2> QED
    BY <1>1, <2>1, <2>2, <2>3 DEF PairOK
<1>4. AddingOK'
  BY <1>2 DEF AddingOK, Taken, GItemDefs
<1> QED
  BY <1>3, <1>4 DEF PairsOK

LEMMA ArraysKept ==
  ASSUME LootAssumption, TypeOK, PairsOK, AddingOK, AllTaken, UNCHANGED arrays,
         step' = step \/ Prepared
  PROVE  PairsOK' /\ AddingOK' /\ AllTaken'
<1>1. UNCHANGED <<Rows, block, ItemDefs, ItemCount, adding, clears>>
  BY DEF arrays
<1>2. PairsOK' /\ AddingOK'
  BY <1>1, PairsKept, PreparedAdds
<1>3. \A i \in DOMAIN Rows : i <= step' => i <= step
  <2>1. Len(Rows) \in Nat /\ DOMAIN Rows = 1 .. Len(Rows) /\ step \in Nat
    BY RowsAreSeq
  <2> QED
    BY <2>1 DEF Prepared
<1>4. AllTaken'
  BY <1>1, <1>3 DEF AllTaken
<1> QED
  BY <1>2, <1>4

(* Putting down rows of the table at one source.                           *)
LEMMA PuttingDown ==
  ASSUME TypeOK, LootIsFromTable, NEW s \in Sources, NEW es \in Seq(Thing),
         \A i \in DOMAIN es : es[i] \in Stacks, PutDown(s, es), UNCHANGED Rows
  PROVE  /\ loot' \in [Sources -> Seq(Thing)]
         /\ LootIsFromTable'
         /\ loot'[s] = loot[s] \o es
         /\ \A t \in Sources \ {s} : loot'[t] = loot[t]
<1>1. loot \in [Sources -> Seq(Thing)]
  BY DEF TypeOK
<1>2. loot' = [loot EXCEPT ![s] = @ \o es]
  BY DEF PutDown
<1>3. loot[s] \o es \in Seq(Thing)
  BY <1>1
<1>4. loot' \in [Sources -> Seq(Thing)] /\ loot'[s] = loot[s] \o es
      /\ \A t \in Sources \ {s} : loot'[t] = loot[t]
  BY <1>1, <1>2, <1>3
<1>5. Stacks' = Stacks
  BY DEF Stacks
<1>6. ASSUME NEW t \in Sources, NEW i \in DOMAIN loot'[t] PROVE loot'[t][i] \in Stacks
  <2>1. CASE t = s
    <3>1. loot[s] \in Seq(Thing) /\ i \in DOMAIN (loot[s] \o es)
          /\ loot'[t][i] = (loot[s] \o es)[i]
      BY <1>1, <1>4, <1>6, <2>1
    <3>2. \/ i \in DOMAIN loot[s] /\ (loot[s] \o es)[i] = loot[s][i]
          \/ i - Len(loot[s]) \in DOMAIN es /\ (loot[s] \o es)[i] = es[i - Len(loot[s])]
      BY <3>1
    <3> QED
      BY <3>1, <3>2 DEF LootIsFromTable
  <2>2. CASE t # s
    BY <1>4, <1>6, <2>2 DEF LootIsFromTable
  <2> QED
    BY <2>1, <2>2
<1>7. LootIsFromTable'
  BY <1>5, <1>6 DEF LootIsFromTable
<1> QED
  BY <1>4, <1>7

(* With nothing put down what has been put down stays good.                *)
LEMMA LootKept ==
  ASSUME LootIsFromTable, UNCHANGED <<Rows, loot>>
  PROVE  LootIsFromTable'
BY DEF LootIsFromTable, Stacks

(* A chest that keeps what it gave is as complete as before.               *)
LEMMA ChestKept ==
  ASSUME TypeOK, UNCHANGED Rows, clears' = 0 => clears = 0,
         NEW c \in Containers, Group[c] = "Loot_Treasure",
         IF bAlreadySearched[c] THEN Complete(loot[c]) ELSE loot[c] = <<>>,
         bAlreadySearched'[c] = bAlreadySearched[c], loot'[c] = loot[c]
  PROVE  (IF bAlreadySearched[c] THEN Complete(loot[c]) ELSE loot[c] = <<>>)'
<1>1. AmmoOffered' = AmmoOffered
  BY DEF AmmoOffered, Offered
<1> QED
  BY <1>1 DEF Complete

LEMMA ChestsKept ==
  ASSUME TypeOK, ChestsOK, UNCHANGED Rows, clears' = 0 => clears = 0,
         \A c \in Containers : Group[c] = "Loot_Treasure" =>
           bAlreadySearched'[c] = bAlreadySearched[c] /\ loot'[c] = loot[c]
  PROVE  ChestsOK'
BY ChestKept DEF ChestsOK

(* A fault is excused by what has been cleared or by the table.            *)
Excused == clears > 0 \/ ~({"Weapon", "Consumables", "Resource", "Ammo"} \subseteq KindsOffered)

LEMMA FaultExcused ==
  ASSUME FaultsAreEmptiness, UNCHANGED <<Rows, clears>>, fault' = fault \/ Excused
  PROVE  FaultsAreEmptiness'
BY DEF FaultsAreEmptiness, Excused, KindsOffered, Offered

(* An array found empty once the table is sorted: it was cleared, or the   *)
(* table has nothing of its kind.                                          *)
LEMMA EmptyIsExcused ==
  ASSUME LootAssumption, TypeOK, AllTaken, Prepared,
         NEW k \in {"Weapon", "Consumables", "Resource", "Ammo"}, ItemDefs[k] = <<>>
  PROVE  Excused
<1> SUFFICES ASSUME ~(clears > 0) PROVE k \notin KindsOffered
  BY DEF Excused
<1>1. clears = 0
  <2>1. clears \in Nat
    BY RowsAreSeq
  <2> QED
    BY <2>1
<1>2. ASSUME k \in KindsOffered PROVE FALSE
  <2>1. PICK d \in Offered \cap GItemDefs : KindOf(d) = k
    BY <1>2 DEF KindsOffered
  <2>2. \E j \in DOMAIN ItemDefs[k] : ItemDefs[k][j] = d
    BY <1>1, <2>1, OfferedIsThere
  <2> QED
    BY <2>2
<1> QED
  BY <1>2

----------------------------------------------------------------------------
(* Every step keeps the invariant, action by action.                       *)

LEMMA InitIInv ==
  ASSUME LootAssumption, Init
  PROVE  IInv
<1>1. TypeOK
  <2>1. Rows \in Tables /\ Len(Rows) \in Nat
    BY DEF Init, LootAssumption
  <2>2. 0 \in 0 .. MaxClears /\ 0 \in 0 .. Len(Rows) + FloorSpots
    BY <2>1 DEF LootAssumption
  <2>3. adding \in BOOLEAN
    BY DEF Init
  <2> QED
    BY <2>1, <2>2, <2>3 DEF Init, TypeOK, Thing, NoPick
<1>2. PairsOK /\ AddingOK
  BY DEF Init, PairsOK, PairOK, PairOf, AddingTo, AddingOK, Kinds, Arrays
<1>3. AllTaken
  <2>1. Len(Rows) \in Nat /\ DOMAIN Rows = 1 .. Len(Rows)
    BY <1>1, RowsAreSeq
  <2> QED
    BY <2>1 DEF Init, AllTaken
<1>4. VisitOK /\ FaultsAreEmptiness
  BY DEF Init, VisitOK, FaultsAreEmptiness
<1>5. ChestsOK
  BY DEF Init, ChestsOK, Sources
<1>6. LootIsFromTable
  BY DEF Init, LootIsFromTable
<1> QED
  BY <1>1, <1>2, <1>3, <1>4, <1>5, <1>6 DEF IInv

(* The cells of a sequence after an Append.                                *)
LEMMA AppendCells ==
  ASSUME NEW S, NEW s \in Seq(S), NEW e \in S
  PROVE  /\ Append(s, e) \in Seq(S) /\ Len(Append(s, e)) = Len(s) + 1
         /\ DOMAIN s = 1 .. Len(s) /\ DOMAIN Append(s, e) = 1 .. Len(s) + 1
         /\ \A j \in 1 .. Len(s) : Append(s, e)[j] = s[j]
         /\ Append(s, e)[Len(s) + 1] = e
         /\ Len(s) \in Nat
OBVIOUS

(* A kind whose two arrays, blocks and awaited row are as before.          *)
LEMMA PairKept ==
  ASSUME NEW k \in Kinds, PairOK(k), UNCHANGED Rows,
         ItemDefs'[k] = ItemDefs[k], ItemCount'[k] = ItemCount[k],
         \A a \in PairOf(k) : block'[a] = block[a],
         ~AddingTo(k), ~AddingTo(k)'
  PROVE  PairOK(k)'
<1>1. Offered' = Offered /\ Stacks' = Stacks
  BY DEF Offered, Stacks
<1>2. \A j : Entry(k, j)' = Entry(k, j)
  BY DEF Entry
<1> QED
  BY <1>1, <1>2 DEF PairOK, PairOf

(* A row's definition goes to the first array of its kind.                 *)
LEMMA DefinitionsGrow ==
  ASSUME TypeOK, PairsOK, UNCHANGED <<Rows, ItemCount, step>>, ~adding, adding',
         NEW k \in Kinds, NEW d \in Offered \cap GItemDefs, KindOf(d) = k, NextRow.def = d,
         block[<<k, "ItemDefs">>] # "freed",
         block' = [block EXCEPT ![<<k, "ItemDefs">>] = "live"],
         ItemDefs' = [ItemDefs EXCEPT ![k] = Append(@, d)]
  PROVE  /\ PairsOK'
         /\ block' \in [Arrays -> {"null", "live", "freed"}]
         /\ ItemDefs' \in [Kinds -> Seq(Definitions)]
         /\ \A l \in Kinds : \A j \in DOMAIN ItemDefs[l] :
              j \in DOMAIN ItemDefs'[l] /\ ItemDefs'[l][j] = ItemDefs[l][j]
         /\ \A a \in Arrays : block[a] # "freed" => block'[a] # "freed"
<1>1. d \in Definitions
  BY DEF GItemDefs
<1>2. Offered' = Offered /\ Stacks' = Stacks /\ NextRow' = NextRow
  BY DEF Offered, Stacks, NextRow
<1>3. /\ block \in [Arrays -> {"null", "live", "freed"}]
      /\ ItemDefs \in [Kinds -> Seq(Definitions)] /\ ItemCount \in [Kinds -> Seq(Nat)]
  BY DEF TypeOK
<1>4. <<k, "ItemDefs">> \in Arrays /\ <<k, "ItemCount">> \in Arrays
  BY DEF Arrays
<1>5. /\ block' \in [Arrays -> {"null", "live", "freed"}]
      /\ block'[<<k, "ItemDefs">>] = "live"
      /\ \A a \in Arrays \ {<<k, "ItemDefs">>} : block'[a] = block[a]
  BY <1>3, <1>4
<1>6. block'[<<k, "ItemCount">>] = block[<<k, "ItemCount">>]
  BY <1>4, <1>5
<1>7. /\ ItemDefs'[k] = Append(ItemDefs[k], d)
      /\ \A l \in Kinds \ {k} : ItemDefs'[l] = ItemDefs[l]
  BY <1>3
<1>8. /\ ItemDefs'[k] \in Seq(Definitions) /\ Len(ItemDefs'[k]) = Len(ItemDefs[k]) + 1
      /\ DOMAIN ItemDefs[k] = 1 .. Len(ItemDefs[k])
      /\ DOMAIN ItemDefs'[k] = 1 .. Len(ItemDefs[k]) + 1
      /\ \A j \in 1 .. Len(ItemDefs[k]) : ItemDefs'[k][j] = ItemDefs[k][j]
      /\ ItemDefs'[k][Len(ItemDefs[k]) + 1] = d
      /\ Len(ItemDefs[k]) \in Nat
  BY <1>1, <1>3, <1>7, AppendCells
<1>9. ItemDefs' \in [Kinds -> Seq(Definitions)]
  BY <1>3, <1>8
<1>10. PairOK(k) /\ ~AddingTo(k) /\ AddingTo(k)'
  BY <1>2 DEF PairsOK, AddingTo
<1>11. ItemCount[k] \in Seq(Nat) /\ Len(ItemCount[k]) \in Nat
       /\ DOMAIN ItemCount[k] = 1 .. Len(ItemCount[k]) /\ ItemCount'[k] = ItemCount[k]
  BY <1>3
<1>12. block[<<k, "ItemCount">>] # "freed" => Len(ItemDefs[k]) = Len(ItemCount[k])
  BY <1>10 DEF PairOK, PairOf
<1>13. PairOK(k)'
  <2>1. ASSUME NEW j \in DOMAIN ItemDefs'[k]
        PROVE  ItemDefs'[k][j] \in Offered \cap GItemDefs /\ KindOf(ItemDefs'[k][j]) = k
    <3>1. j \in 1 .. Len(ItemDefs[k]) \/ j = Len(ItemDefs[k]) + 1
      BY <1>8, <2>1
    <3> QED
      BY <1>8, <1>10, <3>1 DEF PairOK
  <2>2. ASSUME NEW j \in DOMAIN ItemDefs'[k], j \in DOMAIN ItemCount[k]
        PROVE  [def |-> ItemDefs'[k][j], count |-> ItemCount[k][j]] \in Stacks
    <3>1. Len(ItemDefs[k]) = Len(ItemCount[k])
      <4>1. ItemCount[k] # <<>>
        BY <2>2
      <4> QED
        BY <1>10, <1>12, <4>1 DEF PairOK
    <3>2. j \in DOMAIN ItemDefs[k] /\ ItemDefs'[k][j] = ItemDefs[k][j]
      BY <1>8, <1>11, <2>2, <3>1
    <3>3. Entry(k, j) \in Stacks
      BY <1>10, <2>2, <3>2 DEF PairOK
    <3> QED
      BY <3>2, <3>3 DEF Entry
  <2>3. (\A a \in PairOf(k) : block'[a] # "freed") =>
          /\ Len(ItemDefs'[k]) = Len(ItemCount[k]) + 1
          /\ ItemDefs'[k][Len(ItemDefs'[k])] = d
    BY <1>6, <1>8, <1>12 DEF PairOf
  <2> QED
    BY <1>2, <1>5, <1>6, <1>10, <1>11, <2>1, <2>2, <2>3 DEF PairOK, PairOf, Entry
<1>14. ASSUME NEW l \in Kinds \ {k} PROVE PairOK(l)'
  <2>1. \A a \in PairOf(l) : block'[a] = block[a]
    BY <1>5 DEF PairOf, Arrays
  <2>2. ~AddingTo(l) /\ ~AddingTo(l)' /\ PairOK(l)
    BY <1>2 DEF AddingTo, PairsOK
  <2> QED
    BY <1>7, <2>1, <2>2, PairKept
<1>15. ASSUME NEW l \in Kinds, NEW j \in DOMAIN ItemDefs[l]
       PROVE  j \in DOMAIN ItemDefs'[l] /\ ItemDefs'[l][j] = ItemDefs[l][j]
  <2>1. CASE l = k
    BY <1>8, <1>15, <2>1
  <2>2. CASE l # k
    BY <1>7, <1>15, <2>2
  <2> QED
    BY <2>1, <2>2
<1>16. ASSUME NEW a \in Arrays, block[a] # "freed" PROVE block'[a] # "freed"
  <2>1. CASE a = <<k, "ItemDefs">>
    BY <1>5, <2>1
  <2>2. CASE a # <<k, "ItemDefs">>
    BY <1>5, <1>16, <2>2
  <2> QED
    BY <2>1, <2>2
<1> QED
  BY <1>5, <1>9, <1>13, <1>14, <1>15, <1>16 DEF PairsOK

(* ... and then its count to the second.                                   *)
LEMMA CountsGrow ==
  ASSUME TypeOK, PairsOK, UNCHANGED <<Rows, ItemDefs>>, adding, ~adding',
         NEW k \in Kinds, NEW d, KindOf(d) = k, NextRow.def = d,
         NEW n \in Nat, [def |-> d, count |-> n] \in Stacks,
         block[<<k, "ItemCount">>] # "freed",
         block' = [block EXCEPT ![<<k, "ItemCount">>] = "live"],
         ItemCount' = [ItemCount EXCEPT ![k] = Append(@, n)]
  PROVE  /\ PairsOK'
         /\ block' \in [Arrays -> {"null", "live", "freed"}]
         /\ ItemCount' \in [Kinds -> Seq(Nat)]
         /\ \A a \in Arrays : block[a] # "freed" => block'[a] # "freed"
<1>1. Offered' = Offered /\ Stacks' = Stacks
  BY DEF Offered, Stacks
<1>2. /\ block \in [Arrays -> {"null", "live", "freed"}]
      /\ ItemDefs \in [Kinds -> Seq(Definitions)] /\ ItemCount \in [Kinds -> Seq(Nat)]
  BY DEF TypeOK
<1>3. <<k, "ItemDefs">> \in Arrays /\ <<k, "ItemCount">> \in Arrays
  BY DEF Arrays
<1>4. /\ block' \in [Arrays -> {"null", "live", "freed"}]
      /\ block'[<<k, "ItemCount">>] = "live"
      /\ \A a \in Arrays \ {<<k, "ItemCount">>} : block'[a] = block[a]
  BY <1>2, <1>3
<1>5. block'[<<k, "ItemDefs">>] = block[<<k, "ItemDefs">>]
  BY <1>3, <1>4
<1>6. /\ ItemCount'[k] = Append(ItemCount[k], n)
      /\ \A l \in Kinds \ {k} : ItemCount'[l] = ItemCount[l]
  BY <1>2
<1>7. /\ ItemCount'[k] \in Seq(Nat) /\ Len(ItemCount'[k]) = Len(ItemCount[k]) + 1
      /\ DOMAIN ItemCount[k] = 1 .. Len(ItemCount[k])
      /\ DOMAIN ItemCount'[k] = 1 .. Len(ItemCount[k]) + 1
      /\ \A j \in 1 .. Len(ItemCount[k]) : ItemCount'[k][j] = ItemCount[k][j]
      /\ ItemCount'[k][Len(ItemCount[k]) + 1] = n
      /\ Len(ItemCount[k]) \in Nat
  BY <1>2, <1>6, AppendCells
<1>8. ItemCount' \in [Kinds -> Seq(Nat)]
  BY <1>2, <1>7
<1>9. PairOK(k) /\ AddingTo(k) /\ ~AddingTo(k)'
  BY DEF PairsOK, AddingTo
<1>10. ItemDefs[k] \in Seq(Definitions) /\ Len(ItemDefs[k]) \in Nat
       /\ DOMAIN ItemDefs[k] = 1 .. Len(ItemDefs[k]) /\ ItemDefs'[k] = ItemDefs[k]
  BY <1>2
<1>11. block[<<k, "ItemDefs">>] # "freed" =>
         /\ Len(ItemDefs[k]) = Len(ItemCount[k]) + 1
         /\ ItemDefs[k][Len(ItemDefs[k])] = d
  BY <1>9 DEF PairOK, PairOf
<1>12. PairOK(k)'
  <2>1. ASSUME NEW j \in DOMAIN ItemDefs[k], j \in DOMAIN ItemCount'[k]
        PROVE  [def |-> ItemDefs[k][j], count |-> ItemCount'[k][j]] \in Stacks
    <3>1. ItemDefs[k] # <<>>
      BY <2>1
    <3>2. Len(ItemDefs[k]) = Len(ItemCount[k]) + 1 /\ ItemDefs[k][Len(ItemDefs[k])] = d
      BY <1>9, <1>11, <3>1 DEF PairOK
    <3>3. CASE j = Len(ItemCount[k]) + 1
      BY <1>7, <3>2, <3>3
    <3>4. CASE j \in 1 .. Len(ItemCount[k])
      <4>1. j \in DOMAIN ItemCount[k] /\ ItemCount'[k][j] = ItemCount[k][j]
        BY <1>7, <3>4
      <4>2. Entry(k, j) \in Stacks
        BY <1>9, <2>1, <4>1 DEF PairOK
      <4> QED
        BY <4>1, <4>2 DEF Entry
    <3> QED
      BY <1>7, <2>1, <3>3, <3>4
  <2>2. (\A a \in PairOf(k) : block'[a] # "freed") => Len(ItemDefs[k]) = Len(ItemCount'[k])
    BY <1>5, <1>7, <1>11 DEF PairOf
  <2> QED
    BY <1>1, <1>4, <1>5, <1>9, <1>10, <2>1, <2>2 DEF PairOK, PairOf, Entry
<1>13. ASSUME NEW l \in Kinds \ {k} PROVE PairOK(l)'
  <2>1. \A a \in PairOf(l) : block'[a] = block[a]
    BY <1>4 DEF PairOf, Arrays
  <2>2. ~AddingTo(l) /\ ~AddingTo(l)' /\ PairOK(l)
    BY DEF AddingTo, PairsOK
  <2> QED
    BY <1>6, <2>1, <2>2, PairKept
<1>14. ASSUME NEW a \in Arrays, block[a] # "freed" PROVE block'[a] # "freed"
  <2>1. CASE a = <<k, "ItemCount">>
    BY <1>4, <2>1
  <2>2. CASE a # <<k, "ItemCount">>
    BY <1>4, <1>14, <2>2
  <2> QED
    BY <2>1, <2>2
<1> QED
  BY <1>3, <1>4, <1>8, <1>12, <1>13, <1>14 DEF PairsOK

(* Between the two Adds of a row its definition is in its array.           *)
LEMMA DefinitionIsThere ==
  ASSUME TypeOK, PairsOK, adding, NEW k \in Kinds, KindOf(NextRow.def) = k,
         \A a \in Arrays : block[a] # "freed"
  PROVE  \E j \in DOMAIN ItemDefs[k] : ItemDefs[k][j] = NextRow.def
<1>1. ItemDefs[k] \in Seq(Definitions) /\ ItemCount[k] \in Seq(Nat)
  BY DEF TypeOK
<1>2. AddingTo(k) /\ \A a \in PairOf(k) : block[a] # "freed"
  BY DEF AddingTo, PairOf, Arrays
<1>3. /\ Len(ItemDefs[k]) = Len(ItemCount[k]) + 1
      /\ ItemDefs[k][Len(ItemDefs[k])] = NextRow.def
  BY <1>2 DEF PairsOK, PairOK
<1> QED
  BY <1>1, <1>3

(* What the row being sorted is, and what a step on it leaves alone: no    *)
(* container is open before the table is sorted.                           *)
LEMMA RowTaken ==
  ASSUME LootAssumption, TypeOK, step < Len(Rows), Taken(NextRow)
  PROVE  /\ NextRow.def \in Offered \cap GItemDefs /\ KindOf(NextRow.def) \in Kinds
         /\ NextRow.count \in Nat
         /\ [def |-> NextRow.def, count |-> NextRow.count] \in Stacks
<1>1. Len(Rows) \in Nat /\ DOMAIN Rows = 1 .. Len(Rows) /\ step \in Nat
  BY RowsAreSeq
<1>2. step + 1 \in DOMAIN Rows
  BY <1>1
<1>3. NextRow.def \in GItemDefs /\ NextRow.weight >= 100 /\ NextRow.count \in Nat
  BY <1>2, TakenIsOffered DEF NextRow
<1> QED
  BY <1>2, <1>3, KindsTaken DEF Offered, Stacks, NextRow, Kinds

LEMMA RestKept ==
  ASSUME LootAssumption, IInv, step < Len(Rows),
         UNCHANGED <<Rows, clears, visit, pick, bAlreadySearched, LastItemDefinition, loot>>
  PROVE  VisitOK' /\ ChestsOK' /\ LootIsFromTable'
<1>1. TypeOK /\ VisitOK /\ ChestsOK /\ LootIsFromTable
  BY DEF IInv
<1>2. visit = NoVisit
  <2>1. Len(Rows) \in Nat /\ step \in Nat
    BY <1>1, RowsAreSeq
  <2> QED
    BY <1>1, <2>1 DEF VisitOK, Prepared
<1>3. VisitOK'
  BY <1>2 DEF VisitOK
<1> QED
  BY <1>1, <1>3, ChestsKept, LootKept

(* An Add on an array that was cleared: nothing but the fault changes.     *)
LEMMA FaultKeeps ==
  ASSUME LootAssumption, IInv, step < Len(Rows), fault' = "freed block", clears > 0,
         UNCHANGED <<arrays, step, visit, pick, bAlreadySearched, LastItemDefinition, loot>>
  PROVE  IInv'
<1>1. /\ TypeOK /\ PairsOK /\ AddingOK /\ AllTaken /\ VisitOK /\ ChestsOK
      /\ LootIsFromTable /\ FaultsAreEmptiness
  BY DEF IInv
<1>2. UNCHANGED <<Rows, block, ItemDefs, ItemCount, adding, clears>>
  BY DEF arrays
<1>3. TypeOK'
  BY <1>1, <1>2 DEF TypeOK
<1>4. PairsOK' /\ AddingOK' /\ AllTaken'
  BY <1>1, ArraysKept
<1>5. VisitOK' /\ ChestsOK' /\ LootIsFromTable'
  BY <1>2, RestKept
<1>6. FaultsAreEmptiness'
  <2>1. Excused
    BY DEF Excused
  <2> QED
    BY <1>1, <1>2, <2>1, FaultExcused
<1> QED
  BY <1>3, <1>4, <1>5, <1>6 DEF IInv

LEMMA SkipRowKeeps ==
  ASSUME LootAssumption, IInv, SkipRow
  PROVE  IInv'
<1>1. /\ TypeOK /\ PairsOK /\ AddingOK /\ AllTaken /\ VisitOK /\ ChestsOK
      /\ LootIsFromTable /\ FaultsAreEmptiness
  BY DEF IInv
<1>2. /\ step < Len(Rows) /\ step' = step + 1 /\ ~Taken(NextRow)
      /\ UNCHANGED <<Rows, block, ItemDefs, ItemCount, adding, clears>>
      /\ UNCHANGED <<visit, pick, bAlreadySearched, LastItemDefinition, loot, fault>>
  BY DEF SkipRow, arrays
<1>3. /\ Len(Rows) \in Nat /\ DOMAIN Rows = 1 .. Len(Rows) /\ step \in Nat
      /\ FloorSpots \in Nat
  BY <1>1, RowsAreSeq
<1>4. step' \in 0 .. Len(Rows) + FloorSpots
  BY <1>2, <1>3
<1>5. TypeOK'
  BY <1>1, <1>2, <1>4 DEF TypeOK
<1>6. PairsOK' /\ AddingOK'
  BY <1>1, <1>2, PairsKept DEF AddingOK
<1>7. AllTaken'
  <2>1. \A i \in DOMAIN Rows : i <= step' => i <= step \/ i = step + 1
    BY <1>2, <1>3
  <2> QED
    BY <1>1, <1>2, <2>1 DEF AllTaken, NextRow
<1>8. VisitOK' /\ ChestsOK' /\ LootIsFromTable'
  BY <1>2, RestKept
<1>9. FaultsAreEmptiness'
  BY <1>1, <1>2, FaultExcused
<1> QED
  BY <1>5, <1>6, <1>7, <1>8, <1>9 DEF IInv

LEMMA AddItemDefKeeps ==
  ASSUME LootAssumption, IInv, AddItemDef
  PROVE  IInv'
<1>1. /\ TypeOK /\ PairsOK /\ AddingOK /\ AllTaken /\ VisitOK /\ ChestsOK
      /\ LootIsFromTable /\ FaultsAreEmptiness
  BY DEF IInv
<1>2. PICK k, d : k = KindOf(NextRow.def) /\ d = NextRow.def
  OBVIOUS
<1>3. /\ step < Len(Rows) /\ Taken(NextRow) /\ ~adding
      /\ UNCHANGED <<Rows, ItemCount, clears, step, visit, pick, bAlreadySearched,
                     LastItemDefinition, loot>>
  BY DEF AddItemDef
<1>4. d \in Offered \cap GItemDefs /\ k \in Kinds /\ KindOf(d) = k
  BY <1>1, <1>2, <1>3, RowTaken
<1>5. <<k, "ItemDefs">> \in Arrays
  BY <1>4 DEF Arrays
<1>6. CASE block[<<k, "ItemDefs">>] = "freed"
  <2>1. fault' = "freed block" /\ UNCHANGED <<block, ItemDefs, adding>>
    BY <1>2, <1>6 DEF AddItemDef
  <2>2. clears > 0
    <3>1. clears # 0 /\ clears \in Nat
      BY <1>1, <1>5, <1>6, RowsAreSeq DEF AllTaken
    <3> QED
      BY <3>1
  <2> QED
    BY <1>3, <2>1, <2>2, FaultKeeps DEF arrays
<1>7. CASE block[<<k, "ItemDefs">>] # "freed"
  <2>1. /\ block' = [block EXCEPT ![<<k, "ItemDefs">>] = "live"]
        /\ ItemDefs' = [ItemDefs EXCEPT ![k] = Append(@, d)]
        /\ adding' = TRUE /\ UNCHANGED fault
    BY <1>2, <1>7 DEF AddItemDef
  <2>2. /\ PairsOK'
        /\ block' \in [Arrays -> {"null", "live", "freed"}]
        /\ ItemDefs' \in [Kinds -> Seq(Definitions)]
        /\ \A l \in Kinds : \A j \in DOMAIN ItemDefs[l] :
             j \in DOMAIN ItemDefs'[l] /\ ItemDefs'[l][j] = ItemDefs[l][j]
        /\ \A a \in Arrays : block[a] # "freed" => block'[a] # "freed"
    BY <1>1, <1>2, <1>3, <1>4, <1>7, <2>1, DefinitionsGrow
  <2>3. TypeOK'
    BY <1>1, <1>3, <2>1, <2>2 DEF TypeOK
  <2>4. AddingOK'
    BY <1>3 DEF AddingOK, Taken, GItemDefs, NextRow
  <2>5. AllTaken'
    <3>1. ASSUME clears = 0, NEW i \in DOMAIN Rows, i <= step, Taken(Rows[i])
          PROVE  \E j \in DOMAIN ItemDefs'[KindOf(Rows[i].def)] :
                   ItemDefs'[KindOf(Rows[i].def)][j] = Rows[i].def
      <4>1. \E j \in DOMAIN ItemDefs[KindOf(Rows[i].def)] :
              ItemDefs[KindOf(Rows[i].def)][j] = Rows[i].def
        BY <1>1, <3>1 DEF AllTaken
      <4>2. KindOf(Rows[i].def) \in Kinds
        BY <1>1, <3>1, TakenIsOffered, KindsTaken DEF Kinds
      <4> QED
        BY <2>2, <4>1, <4>2
    <3> QED
      BY <1>1, <1>3, <2>2, <3>1 DEF AllTaken
  <2>6. VisitOK' /\ ChestsOK' /\ LootIsFromTable'
    BY <1>3, RestKept
  <2>7. FaultsAreEmptiness'
    BY <1>1, <1>3, <2>1, FaultExcused
  <2> QED
    BY <2>2, <2>3, <2>4, <2>5, <2>6, <2>7 DEF IInv
<1> QED
  BY <1>6, <1>7

LEMMA AddItemCountKeeps ==
  ASSUME LootAssumption, IInv, AddItemCount
  PROVE  IInv'
<1>1. /\ TypeOK /\ PairsOK /\ AddingOK /\ AllTaken /\ VisitOK /\ ChestsOK
      /\ LootIsFromTable /\ FaultsAreEmptiness
  BY DEF IInv
<1>2. PICK k, d, n : k = KindOf(NextRow.def) /\ d = NextRow.def /\ n = NextRow.count
  OBVIOUS
<1>3. /\ adding /\ step < Len(Rows) /\ Taken(NextRow)
      /\ UNCHANGED <<Rows, ItemDefs, clears, visit, pick, bAlreadySearched,
                     LastItemDefinition, loot>>
  BY <1>1 DEF AddItemCount, AddingOK
<1>4. k \in Kinds /\ KindOf(d) = k /\ n \in Nat /\ [def |-> d, count |-> n] \in Stacks
  BY <1>1, <1>2, <1>3, RowTaken
<1>5. <<k, "ItemCount">> \in Arrays
  BY <1>4 DEF Arrays
<1>6. CASE block[<<k, "ItemCount">>] = "freed"
  <2>1. fault' = "freed block" /\ UNCHANGED <<block, ItemCount, adding, step>>
    BY <1>2, <1>6 DEF AddItemCount
  <2>2. clears > 0
    <3>1. clears # 0 /\ clears \in Nat
      BY <1>1, <1>5, <1>6, RowsAreSeq DEF AllTaken
    <3> QED
      BY <3>1
  <2> QED
    BY <1>3, <2>1, <2>2, FaultKeeps DEF arrays
<1>7. CASE block[<<k, "ItemCount">>] # "freed"
  <2>1. /\ block' = [block EXCEPT ![<<k, "ItemCount">>] = "live"]
        /\ ItemCount' = [ItemCount EXCEPT ![k] = Append(@, n)]
        /\ adding' = FALSE /\ ~adding' /\ step' = step + 1 /\ UNCHANGED fault
    BY <1>2, <1>7 DEF AddItemCount, CountAdded
  <2>2. /\ PairsOK'
        /\ block' \in [Arrays -> {"null", "live", "freed"}]
        /\ ItemCount' \in [Kinds -> Seq(Nat)]
        /\ \A a \in Arrays : block[a] # "freed" => block'[a] # "freed"
    <3>1. TypeOK /\ PairsOK /\ UNCHANGED <<Rows, ItemDefs>> /\ adding /\ ~adding'
      BY <1>1, <1>3, <2>1
    <3>2. NextRow.def = d
      BY <1>2
    <3>3. /\ block' = [block EXCEPT ![<<k, "ItemCount">>] = "live"]
          /\ ItemCount' = [ItemCount EXCEPT ![k] = Append(@, n)]
      BY <2>1
    <3>4. block[<<k, "ItemCount">>] # "freed"
      BY <1>7
    <3> QED
      BY ONLY <1>4, <3>1, <3>2, <3>3, <3>4, CountsGrow, Zenon
  <2>3. /\ Len(Rows) \in Nat /\ DOMAIN Rows = 1 .. Len(Rows) /\ step \in Nat
        /\ FloorSpots \in Nat
    BY <1>1, RowsAreSeq
  <2>4. step' \in 0 .. Len(Rows) + FloorSpots
    BY <1>3, <2>1, <2>3
  <2>5. TypeOK'
    BY <1>1, <1>3, <2>1, <2>2, <2>4 DEF TypeOK
  <2>6. AddingOK'
    BY <2>1 DEF AddingOK
  <2>7. AllTaken'
    <3>1. ASSUME clears = 0, NEW i \in DOMAIN Rows, i <= step', Taken(Rows[i])
          PROVE  \E j \in DOMAIN ItemDefs[KindOf(Rows[i].def)] :
                   ItemDefs[KindOf(Rows[i].def)][j] = Rows[i].def
      <4>1. CASE i = step + 1
        <5>1. adding /\ KindOf(NextRow.def) \in Kinds
          BY <1>2, <1>3, <1>4
        <5>2. \E j \in DOMAIN ItemDefs[KindOf(NextRow.def)] :
                ItemDefs[KindOf(NextRow.def)][j] = NextRow.def
          BY <1>1, <3>1, <5>1, DefinitionIsThere DEF AllTaken
        <5> QED
          BY <4>1, <5>2 DEF NextRow
      <4>2. CASE i <= step
        BY <1>1, <3>1, <4>2 DEF AllTaken
      <4> QED
        BY <2>1, <2>3, <3>1, <4>1, <4>2
    <3> QED
      BY <1>1, <1>3, <2>2, <3>1 DEF AllTaken
  <2>8. VisitOK' /\ ChestsOK' /\ LootIsFromTable'
    BY <1>3, RestKept
  <2>9. FaultsAreEmptiness'
    BY <1>1, <1>3, <2>1, FaultExcused
  <2> QED
    BY <2>2, <2>5, <2>6, <2>7, <2>8, <2>9 DEF IInv
<1> QED
  BY <1>6, <1>7

LEMMA SpawnOnFloorKeeps ==
  ASSUME LootAssumption, IInv, SpawnOnFloor
  PROVE  IInv'
<1>1. /\ TypeOK /\ PairsOK /\ AddingOK /\ AllTaken /\ VisitOK /\ ChestsOK
      /\ LootIsFromTable /\ FaultsAreEmptiness
  BY DEF IInv
<1>2. /\ fault = "none" /\ Len(Rows) <= step /\ step < Len(Rows) + FloorSpots
      /\ step' = step + 1
      /\ UNCHANGED <<arrays, visit, pick, bAlreadySearched, LastItemDefinition>>
      /\ UNCHANGED <<Rows, block, ItemDefs, ItemCount, adding, clears>>
  BY DEF SpawnOnFloor, FloorLeft, arrays
<1>3. /\ Len(Rows) \in Nat /\ DOMAIN Rows = 1 .. Len(Rows) /\ step \in Nat
      /\ FloorSpots \in Nat /\ clears \in Nat
  BY <1>1, RowsAreSeq
<1>4. step' \in 0 .. Len(Rows) + FloorSpots
  BY <1>2, <1>3
<1>5. Prepared /\ Prepared'
  BY <1>2, <1>3 DEF Prepared
<1>6. PairsOK' /\ AddingOK' /\ AllTaken'
  BY <1>1, <1>2, <1>5, ArraysKept
<1>7. VisitOK'
  BY <1>1, <1>2, <1>5 DEF VisitOK
<1>8. PICK n \in 0 .. 3 :
        IF NothingOnFloor(n) THEN UNCHANGED <<loot, fault>>
        ELSE LET k == KindOnFloor(n)
             IN  IF ItemDefs[k] = <<>>
                 THEN fault' = "empty array" /\ UNCHANGED loot
                 ELSE \E i \in RandomIntegerInRange(0, Len(ItemDefs[k])) :
                        LET def == ItemDefs[k][i + 1]
                        IN  IF Readable(k, i + 1) /\ (k = "Weapon" => AmmoReadable(def))
                            THEN /\ PutDown(step - Len(Rows) + 1,
                                      IF k = "Weapon" THEN WithAmmo(<<Entry(k, i + 1)>>, def)
                                      ELSE <<Entry(k, i + 1)>>)
                                 /\ UNCHANGED fault
                            ELSE fault' = "freed block" /\ UNCHANGED loot
  <2>1. RandomIntegerInRange(0, 4) = 0 .. 3
    BY DEF RandomIntegerInRange
  <2> QED
    BY <2>1 DEF SpawnOnFloor
<1>9. ASSUME UNCHANGED loot,
             fault' \in {"none", "freed block", "division by zero", "empty array"},
             fault' = fault \/ Excused
      PROVE  IInv'
  <2>1. TypeOK'
    BY <1>1, <1>2, <1>4, <1>9 DEF TypeOK
  <2>2. ChestsOK'
    BY <1>1, <1>2, <1>9, ChestsKept
  <2>3. LootIsFromTable'
    BY <1>1, <1>2, <1>9, LootKept
  <2>4. FaultsAreEmptiness'
    BY <1>1, <1>2, <1>9, FaultExcused
  <2> QED
    BY <1>6, <1>7, <2>1, <2>2, <2>3, <2>4 DEF IInv
<1>10. CASE NothingOnFloor(n)
  BY <1>2, <1>8, <1>9, <1>10
<1>11. CASE ~NothingOnFloor(n)
  <2>1. PICK k : k = KindOnFloor(n)
    OBVIOUS
  <2>2. /\ k \in {"Weapon", "Consumables", "Traps"}
        /\ k = "Traps" => ItemDefs[k] # <<>>
    BY <1>11, <2>1 DEF NothingOnFloor, KindOnFloor
  <2>3. k \in Kinds
    BY <2>2 DEF Kinds
  <2>4. CASE ItemDefs[k] = <<>>
    <3>1. Excused
      BY <1>1, <1>5, <2>2, <2>4, EmptyIsExcused
    <3> QED
      BY <1>8, <1>9, <1>11, <2>1, <2>4, <3>1
  <2>5. CASE ItemDefs[k] # <<>>
    <3>1. PICK i \in RandomIntegerInRange(0, Len(ItemDefs[k])) :
             IF Readable(k, i + 1) /\ (k = "Weapon" => AmmoReadable(ItemDefs[k][i + 1]))
             THEN /\ PutDown(step - Len(Rows) + 1,
                       IF k = "Weapon" THEN WithAmmo(<<Entry(k, i + 1)>>, ItemDefs[k][i + 1])
                       ELSE <<Entry(k, i + 1)>>)
                  /\ UNCHANGED fault
             ELSE fault' = "freed block" /\ UNCHANGED loot
      BY <1>8, <1>11, <2>1, <2>5
    <3>2. i + 1 \in DOMAIN ItemDefs[k]
      <4>1. ItemDefs[k] \in Seq(Definitions)
        BY <1>1, <2>3 DEF TypeOK
      <4> QED
        BY <4>1 DEF RandomIntegerInRange
    <3>3. CASE ~(Readable(k, i + 1) /\ (k = "Weapon" => AmmoReadable(ItemDefs[k][i + 1])))
      <4>1. clears # 0
        BY <1>1, <1>5, <2>3, <3>2, <3>3, PreparedAdds, ReadableUntilCleared, AmmoIsThere
      <4>2. Excused
        BY <1>3, <4>1 DEF Excused
      <4> QED
        BY <1>9, <3>1, <3>3, <4>2
    <3>4. CASE Readable(k, i + 1) /\ (k = "Weapon" => AmmoReadable(ItemDefs[k][i + 1]))
      <4>1. PICK s : s = step - Len(Rows) + 1
        OBVIOUS
      <4>2. s \in Sources /\ s \notin Containers
        BY <1>2, <1>3, <4>1 DEF Sources, Spots, LootAssumption
      <4>3. PICK es : es = IF k = "Weapon" THEN WithAmmo(<<Entry(k, i + 1)>>, ItemDefs[k][i + 1])
                           ELSE <<Entry(k, i + 1)>>
        OBVIOUS
      <4>4. Entry(k, i + 1) \in Thing /\ Entry(k, i + 1) \in Stacks
        BY <1>1, <2>3, <3>4, EntryIsRow
      <4>5. es \in Seq(Thing) /\ \A j \in DOMAIN es : es[j] \in Stacks
        <5>1. PICK e : e = Entry(k, i + 1)
          OBVIOUS
        <5>2. <<e>> \in Seq(Thing) /\ \A j \in DOMAIN <<e>> : <<e>>[j] \in Stacks
          BY <4>4, <5>1
        <5>3. CASE k = "Weapon"
          BY <1>1, <3>4, <4>3, <5>1, <5>2, <5>3, WithAmmoAdds
        <5>4. CASE k # "Weapon"
          BY <4>3, <5>1, <5>2, <5>4
        <5> QED
          BY <5>3, <5>4
      <4>6. PutDown(s, es) /\ UNCHANGED fault
        BY <3>1, <3>4, <4>1, <4>3
      <4>7. /\ loot' \in [Sources -> Seq(Thing)] /\ LootIsFromTable'
            /\ \A t \in Sources \ {s} : loot'[t] = loot[t]
        BY <1>1, <1>2, <4>2, <4>5, <4>6, PuttingDown
      <4>8. TypeOK'
        BY <1>1, <1>2, <1>4, <4>6, <4>7 DEF TypeOK
      <4>9. ChestsOK'
        BY <1>1, <1>2, <4>2, <4>7, ChestsKept DEF Sources
      <4>10. FaultsAreEmptiness'
        BY <1>1, <1>2, <4>6, FaultExcused
      <4> QED
        BY <1>6, <1>7, <4>7, <4>8, <4>9, <4>10 DEF IInv
    <3> QED
      BY <3>3, <3>4
  <2> QED
    BY <2>4, <2>5
<1> QED
  BY <1>10, <1>11

(* What the steps on containers share: the arrays stay as they are, and    *)
(* the loot is kept or rows are put down.                                  *)
LEMMA SearchOtherKeeps ==
  ASSUME LootAssumption, IInv, NEW c \in Containers, SearchOther(c)
  PROVE  IInv'
<1>1. /\ TypeOK /\ PairsOK /\ AddingOK /\ AllTaken /\ VisitOK /\ ChestsOK
      /\ LootIsFromTable /\ FaultsAreEmptiness
  BY DEF IInv
<1>2. /\ visit = NoVisit /\ Group[c] = "other"
      /\ bAlreadySearched' = [bAlreadySearched EXCEPT ![c] = TRUE]
      /\ UNCHANGED <<arrays, step, visit, pick, LastItemDefinition, loot, fault>>
      /\ UNCHANGED <<Rows, block, ItemDefs, ItemCount, adding, clears>>
  BY DEF SearchOther, MaySearch, arrays
<1>3. TypeOK'
  BY <1>1, <1>2 DEF TypeOK
<1>4. PairsOK' /\ AddingOK' /\ AllTaken'
  BY <1>1, <1>2, ArraysKept
<1>5. VisitOK'
  BY <1>2 DEF VisitOK
<1>6. \A x \in Containers : Group[x] = "Loot_Treasure" => bAlreadySearched'[x] = bAlreadySearched[x]
  BY <1>1, <1>2 DEF TypeOK
<1>7. ChestsOK'
  BY <1>1, <1>2, <1>6, ChestsKept
<1>8. LootIsFromTable' /\ FaultsAreEmptiness'
  BY <1>1, <1>2, LootKept, FaultExcused
<1> QED
  BY <1>3, <1>4, <1>5, <1>7, <1>8 DEF IInv

LEMMA OpenChestKeeps ==
  ASSUME LootAssumption, IInv, NEW c \in Containers, OpenChest(c)
  PROVE  IInv'
<1>1. /\ TypeOK /\ PairsOK /\ AddingOK /\ AllTaken /\ VisitOK /\ ChestsOK
      /\ LootIsFromTable /\ FaultsAreEmptiness
  BY DEF IInv
<1>2. /\ fault = "none" /\ step = Len(Rows) + FloorSpots /\ visit = NoVisit
      /\ Group[c] = "Loot_Treasure" /\ ~bAlreadySearched[c]
      /\ UNCHANGED <<arrays, step, bAlreadySearched, LastItemDefinition, loot>>
      /\ UNCHANGED <<Rows, block, ItemDefs, ItemCount, adding, clears>>
  BY DEF OpenChest, MaySearch, Searchable, arrays
<1>3. Len(Rows) \in Nat /\ FloorSpots \in Nat /\ step \in Nat
  BY <1>1, RowsAreSeq
<1>4. Prepared /\ Prepared'
  BY <1>2, <1>3 DEF Prepared
<1>5. PairsOK' /\ AddingOK' /\ AllTaken'
  BY <1>1, <1>2, ArraysKept
<1>6. ChestsOK' /\ LootIsFromTable'
  BY <1>1, <1>2, ChestsKept, LootKept
<1>7. DOMAIN pick = DrawnKinds
  BY <1>1 DEF TypeOK, DrawnKinds
<1>8. CASE \E k \in DrawnKinds : ItemDefs[k] = <<>>
  <2>1. fault' = "division by zero" /\ UNCHANGED <<visit, pick>>
    BY <1>7, <1>8 DEF OpenChest
  <2>2. TypeOK'
    BY <1>1, <1>2, <2>1 DEF TypeOK
  <2>3. VisitOK'
    BY <1>2, <2>1 DEF VisitOK
  <2>4. Excused
    BY <1>1, <1>4, <1>8, EmptyIsExcused DEF DrawnKinds
  <2>5. FaultsAreEmptiness'
    BY <1>1, <1>2, <2>4, FaultExcused
  <2> QED
    BY <1>5, <1>6, <2>2, <2>3, <2>5 DEF IInv
<1>9. CASE ~ \E k \in DrawnKinds : ItemDefs[k] = <<>>
  <2>1. /\ \E p \in [DrawnKinds -> 1 .. Len(Rows)] :
             (\A k \in DrawnKinds : p[k] \in Drawable(k)) /\ pick' = p
        /\ visit' = c /\ UNCHANGED fault
    BY <1>7, <1>9 DEF OpenChest
  <2>2. /\ pick' \in [DrawnKinds -> Nat]
        /\ \A k \in DrawnKinds : pick'[k] \in Drawable(k)
    BY <1>3, <2>1
  <2>3. TypeOK'
    BY <1>1, <1>2, <2>1, <2>2 DEF TypeOK, DrawnKinds
  <2>4. \A k \in DrawnKinds : Drawable(k) = DOMAIN ItemDefs[k]
    <3>1. \A k \in DrawnKinds : ItemDefs[k] \in Seq(Definitions)
      BY <1>1 DEF TypeOK, DrawnKinds, Kinds
    <3> QED
      BY <3>1 DEF Drawable
  <2>5. VisitOK'
    BY <1>2, <1>4, <2>1, <2>2, <2>4 DEF VisitOK
  <2>6. FaultsAreEmptiness'
    BY <1>1, <1>2, <2>1, FaultExcused
  <2> QED
    BY <1>5, <1>6, <2>3, <2>5, <2>6 DEF IInv
<1> QED
  BY <1>8, <1>9

LEMMA EmptyChestKeeps ==
  ASSUME LootAssumption, IInv, EmptyChest
  PROVE  IInv'
<1>1. /\ TypeOK /\ PairsOK /\ AddingOK /\ AllTaken /\ VisitOK /\ ChestsOK
      /\ LootIsFromTable /\ FaultsAreEmptiness
  BY DEF IInv
<1>2. /\ fault = "none" /\ visit # NoVisit /\ Group[visit] = "Loot_Treasure"
      /\ UNCHANGED <<arrays, step, LastItemDefinition>>
      /\ UNCHANGED <<Rows, block, ItemDefs, ItemCount, adding, clears>>
  BY DEF EmptyChest, arrays
<1>3. visit \in Containers /\ visit \in Sources /\ DOMAIN pick = DrawnKinds
  BY <1>1, <1>2 DEF TypeOK, Sources, DrawnKinds
<1>4. Prepared /\ ~bAlreadySearched[visit] /\ loot[visit] = <<>> /\ clears \in Nat
  BY <1>1, <1>2, <1>3, RowsAreSeq DEF VisitOK, ChestsOK
<1>5. PairsOK' /\ AddingOK' /\ AllTaken'
  BY <1>1, <1>2, ArraysKept
<1> DEFINE def == ItemDefs["Weapon"][pick["Weapon"]]
           good == (\A k \in DrawnKinds : Readable(k, pick[k])) /\ AmmoReadable(def)
<1>6. CASE ~good
  <2>1. fault' = "freed block" /\ UNCHANGED <<loot, bAlreadySearched, visit, pick>>
    BY <1>3, <1>6 DEF EmptyChest
  <2>2. clears # 0
    <3>1. CASE clears = 0
      <4>1. \A k \in DrawnKinds : Readable(k, pick[k])
        BY <1>1, <1>2, <3>1, PreparedAdds, ReadableUntilCleared DEF VisitOK, DrawnKinds, Kinds
      <4>2. AmmoReadable(def)
        BY <1>1, <1>4, <3>1, AmmoIsThere
      <4> QED
        BY <1>6, <4>1, <4>2
    <3> QED
      BY <3>1
  <2>3. Excused
    BY <1>4, <2>2 DEF Excused
  <2>4. TypeOK'
    BY <1>1, <1>2, <2>1 DEF TypeOK
  <2>5. VisitOK'
    BY <1>1, <1>2, <2>1 DEF VisitOK, Prepared
  <2>6. ChestsOK' /\ LootIsFromTable'
    BY <1>1, <1>2, <2>1, ChestsKept, LootKept
  <2>7. FaultsAreEmptiness'
    BY <1>1, <1>2, <2>3, FaultExcused
  <2> QED
    BY <1>5, <2>4, <2>5, <2>6, <2>7 DEF IInv
<1>7. CASE good
  <2>1. PICK v, d, w, r, p :
           /\ v = visit /\ d = def
           /\ w = Entry("Weapon", pick["Weapon"])
           /\ r = Entry("Resource", pick["Resource"])
           /\ p = Entry("Consumables", pick["Consumables"])
    OBVIOUS
  <2>2. /\ PutDown(v, WithAmmo(<<w, r, p>>, d))
        /\ bAlreadySearched' = [bAlreadySearched EXCEPT ![v] = TRUE]
        /\ visit' = NoVisit /\ pick' = NoPick
        /\ UNCHANGED fault
    BY <1>3, <1>7, <2>1 DEF EmptyChest
  <2>3. /\ w \in Thing /\ w \in Stacks /\ KindOf(w.def) = "Weapon" /\ w.def = d
        /\ r \in Thing /\ r \in Stacks /\ KindOf(r.def) = "Resource"
        /\ p \in Thing /\ p \in Stacks /\ KindOf(p.def) = "Consumables"
    BY <1>1, <1>7, <2>1, EntryIsRow DEF DrawnKinds, Kinds
  <2>4. AmmoReadable(d)
    BY <1>7, <2>1
  <2>5. PICK es : es = WithAmmo(<<w, r, p>>, d)
    OBVIOUS
  <2>6. <<w, r, p>> \in Seq(Thing) /\ \A i \in DOMAIN <<w, r, p>> : <<w, r, p>>[i] \in Stacks
    BY <2>3
  <2>7. /\ es \in Seq(Thing) /\ \A i \in DOMAIN es : es[i] \in Stacks
        /\ AmmoFor(d) = 0 => es = <<w, r, p>>
        /\ AmmoFor(d) # 0 => /\ es = Append(<<w, r, p>>, Entry("Ammo", AmmoFor(d)))
                             /\ Entry("Ammo", AmmoFor(d)).def = AmmoOf[d]
    BY <1>1, <2>4, <2>5, <2>6, WithAmmoAdds
  <2>8. /\ Len(es) \in 3 .. 4 /\ es[1] = w /\ es[2] = r /\ es[3] = p
        /\ AmmoFor(d) # 0 => Len(es) = 4 /\ es[4].def = AmmoOf[d]
    <3>1. PICK s : s = <<w, r, p>>
      OBVIOUS
    <3>2. s \in Seq(Thing) /\ Len(s) = 3 /\ s[1] = w /\ s[2] = r /\ s[3] = p
      BY <2>6, <3>1
    <3>3. CASE AmmoFor(d) = 0
      BY <2>7, <3>1, <3>2, <3>3
    <3>4. CASE AmmoFor(d) # 0
      <4>1. PICK e : e = Entry("Ammo", AmmoFor(d))
        OBVIOUS
      <4>2. e \in Thing
        BY <1>1, <2>4, <3>4, <4>1, EntryIsRow DEF AmmoReadable, Kinds
      <4>3. es = Append(s, e) /\ e.def = AmmoOf[d]
        BY <2>7, <3>1, <3>4, <4>1
      <4>4. /\ Len(Append(s, e)) = 4 /\ Append(s, e)[4] = e
            /\ \A j \in 1 .. 3 : Append(s, e)[j] = s[j]
        <5>1. /\ Len(Append(s, e)) = Len(s) + 1 /\ Append(s, e)[Len(s) + 1] = e
              /\ \A j \in 1 .. Len(s) : Append(s, e)[j] = s[j]
          <6>1. s \in Seq(Thing) /\ e \in Thing
            BY <3>2, <4>2
          <6> HIDE DEF Thing
          <6> QED
            BY ONLY <6>1, AppendCells
        <5> QED
          BY <3>2, <5>1
      <4> QED
        BY <3>2, <4>3, <4>4
    <3> QED
      BY <3>3, <3>4
  <2>9. AmmoOf[d] \in AmmoOffered /\ clears = 0 => AmmoFor(d) # 0
    BY <1>1, <1>4, AmmoIsThere
  <2>10. Complete(es)
    BY <2>3, <2>8, <2>9 DEF Complete
  <2>11. v \in Containers /\ v \in Sources /\ loot[v] = <<>>
    BY <1>3, <1>4, <2>1
  <2>12. PutDown(v, es)
    BY <2>2, <2>5
  <2>13. /\ loot' \in [Sources -> Seq(Thing)] /\ LootIsFromTable'
         /\ loot'[v] = loot[v] \o es
         /\ \A t \in Sources \ {v} : loot'[t] = loot[t]
    BY <1>1, <1>2, <2>7, <2>11, <2>12, PuttingDown
  <2>14. loot'[v] = es
    BY <2>7, <2>11, <2>13
  <2>15. TypeOK'
    BY <1>1, <1>2, <2>2, <2>13 DEF TypeOK, NoPick
  <2>16. VisitOK'
    BY <2>2 DEF VisitOK
  <2>17. ChestsOK'
    <3>1. ASSUME NEW c \in Containers, Group[c] = "Loot_Treasure"
          PROVE  (IF bAlreadySearched[c] THEN Complete(loot[c]) ELSE loot[c] = <<>>)'
      <4>1. CASE c = v
        <5>1. AmmoOffered' = AmmoOffered
          BY <1>2 DEF AmmoOffered, Offered
        <5>2. bAlreadySearched'[c] = TRUE
          BY <1>1, <2>2, <2>11, <4>1 DEF TypeOK
        <5> QED
          BY <1>2, <2>10, <2>14, <4>1, <5>1, <5>2 DEF Complete
      <4>2. CASE c # v
        <5>1. bAlreadySearched'[c] = bAlreadySearched[c] /\ loot'[c] = loot[c]
          BY <1>1, <2>2, <2>13, <4>2 DEF TypeOK, Sources
        <5> QED
          BY <1>1, <1>2, <3>1, <5>1, ChestKept DEF ChestsOK
      <4> QED
        BY <4>1, <4>2
    <3> QED
      BY <3>1 DEF ChestsOK
  <2>18. FaultsAreEmptiness'
    BY <1>1, <1>2, <2>2, FaultExcused
  <2> QED
    BY <1>5, <2>13, <2>15, <2>16, <2>17, <2>18 DEF IInv
<1> QED
  BY <1>6, <1>7

LEMMA OpenAmmoBoxKeeps ==
  ASSUME LootAssumption, IInv, NEW c \in Containers, OpenAmmoBox(c)
  PROVE  IInv'
<1>1. /\ TypeOK /\ PairsOK /\ AddingOK /\ AllTaken /\ VisitOK /\ ChestsOK
      /\ LootIsFromTable /\ FaultsAreEmptiness
  BY DEF IInv
<1>2. /\ step = Len(Rows) + FloorSpots /\ Group[c] = "Loot_Ammo" /\ ~bAlreadySearched[c]
      /\ visit' = c
      /\ UNCHANGED <<arrays, step, pick, bAlreadySearched, LastItemDefinition, loot, fault>>
      /\ UNCHANGED <<Rows, block, ItemDefs, ItemCount, adding, clears>>
  BY DEF OpenAmmoBox, MaySearch, Searchable, arrays
<1>3. Prepared'
  <2>1. Len(Rows) \in Nat /\ FloorSpots \in Nat
    BY <1>1, RowsAreSeq
  <2> QED
    BY <1>2, <2>1 DEF Prepared
<1>4. TypeOK'
  BY <1>1, <1>2 DEF TypeOK
<1>5. PairsOK' /\ AddingOK' /\ AllTaken'
  BY <1>1, <1>2, ArraysKept
<1>6. VisitOK'
  BY <1>2, <1>3 DEF VisitOK
<1>7. ChestsOK' /\ LootIsFromTable' /\ FaultsAreEmptiness'
  BY <1>1, <1>2, ChestsKept, LootKept, FaultExcused
<1> QED
  BY <1>4, <1>5, <1>6, <1>7 DEF IInv

LEMMA DropAmmoKeeps ==
  ASSUME LootAssumption, IInv, DropAmmo
  PROVE  IInv'
<1>1. /\ TypeOK /\ PairsOK /\ AddingOK /\ AllTaken /\ VisitOK /\ ChestsOK
      /\ LootIsFromTable /\ FaultsAreEmptiness
  BY DEF IInv
<1>2. /\ visit # NoVisit /\ Group[visit] = "Loot_Ammo"
      /\ UNCHANGED <<arrays, step, visit, pick, bAlreadySearched>>
      /\ UNCHANGED <<Rows, block, ItemDefs, ItemCount, adding, clears>>
  BY DEF DropAmmo, arrays
<1>3. visit \in Containers /\ visit \in Sources
  BY <1>1, <1>2 DEF TypeOK, Sources
<1>4. Prepared /\ clears \in Nat
  BY <1>1, <1>2, RowsAreSeq DEF VisitOK
<1>5. PairsOK' /\ AddingOK' /\ AllTaken'
  BY <1>1, <1>2, ArraysKept
<1>6. VisitOK'
  BY <1>1, <1>2 DEF VisitOK, Prepared
<1>7. ASSUME UNCHANGED <<loot, LastItemDefinition>>, Excused,
             fault' \in {"freed block", "division by zero"}
      PROVE  IInv'
  <2>1. TypeOK'
    BY <1>1, <1>2, <1>7 DEF TypeOK
  <2>2. ChestsOK' /\ LootIsFromTable' /\ FaultsAreEmptiness'
    BY <1>1, <1>2, <1>7, ChestsKept, LootKept, FaultExcused
  <2> QED
    BY <1>5, <1>6, <2>1, <2>2 DEF IInv
<1>8. CASE ItemDefs["Ammo"] = <<>>
  <2>1. fault' = "division by zero" /\ UNCHANGED <<loot, LastItemDefinition>>
    BY <1>8 DEF DropAmmo
  <2>2. Excused
    BY <1>1, <1>4, <1>8, EmptyIsExcused
  <2> QED
    BY <1>7, <2>1, <2>2
<1>9. CASE ItemDefs["Ammo"] # <<>>
  <2>1. PICK i \in Drawable("Ammo") :
          IF Readable("Ammo", i)
          THEN /\ PutDown(visit, <<Entry("Ammo", i)>>)
               /\ LastItemDefinition' = ItemDefs["Ammo"][i]
               /\ UNCHANGED fault
          ELSE fault' = "freed block" /\ UNCHANGED <<loot, LastItemDefinition>>
    BY <1>9 DEF DropAmmo, LastAfter
  <2>2. i \in DOMAIN ItemDefs["Ammo"] /\ ItemDefs["Ammo"][i] \in Definitions
    <3>1. ItemDefs["Ammo"] \in Seq(Definitions)
      BY <1>1 DEF TypeOK, Kinds
    <3> QED
      BY <3>1 DEF Drawable
  <2>3. CASE ~Readable("Ammo", i)
    <3>1. clears # 0
      BY <1>1, <1>4, <2>2, <2>3, PreparedAdds, ReadableUntilCleared DEF Kinds
    <3>2. Excused
      BY <1>4, <3>1 DEF Excused
    <3> QED
      BY <1>7, <2>1, <2>3, <3>2
  <2>4. CASE Readable("Ammo", i)
    <3>1. PICK v, e, es : v = visit /\ e = Entry("Ammo", i) /\ es = <<e>>
      OBVIOUS
    <3>2. e \in Thing /\ e \in Stacks
      BY <1>1, <2>4, <3>1, EntryIsRow DEF Kinds
    <3>3. es \in Seq(Thing) /\ \A j \in DOMAIN es : es[j] \in Stacks
      BY <3>1, <3>2
    <3>4. PutDown(v, es) /\ LastItemDefinition' \in Definitions /\ UNCHANGED fault
      BY <2>1, <2>2, <2>4, <3>1
    <3>5. v \in Containers /\ v \in Sources /\ Group[v] = "Loot_Ammo"
      BY <1>2, <1>3, <3>1
    <3>6. /\ loot' \in [Sources -> Seq(Thing)] /\ LootIsFromTable'
          /\ \A t \in Sources \ {v} : loot'[t] = loot[t]
      BY <1>1, <1>2, <3>3, <3>4, <3>5, PuttingDown
    <3>7. TypeOK'
      BY <1>1, <1>2, <3>4, <3>6 DEF TypeOK
    <3>8. ChestsOK'
      BY <1>1, <1>2, <3>5, <3>6, ChestsKept DEF Sources
    <3>9. FaultsAreEmptiness'
      BY <1>1, <1>2, <3>4, FaultExcused
    <3> QED
      BY <1>5, <1>6, <3>6, <3>7, <3>8, <3>9 DEF IInv
  <2> QED
    BY <2>3, <2>4
<1> QED
  BY <1>8, <1>9

LEMMA CloseAmmoBoxKeeps ==
  ASSUME LootAssumption, IInv, CloseAmmoBox
  PROVE  IInv'
<1>1. /\ TypeOK /\ PairsOK /\ AddingOK /\ AllTaken /\ VisitOK /\ ChestsOK
      /\ LootIsFromTable /\ FaultsAreEmptiness
  BY DEF IInv
<1>2. /\ visit # NoVisit /\ Group[visit] = "Loot_Ammo"
      /\ bAlreadySearched' = [bAlreadySearched EXCEPT ![visit] = TRUE]
      /\ visit' = NoVisit
      /\ UNCHANGED <<arrays, step, pick, LastItemDefinition, loot, fault>>
      /\ UNCHANGED <<Rows, block, ItemDefs, ItemCount, adding, clears>>
  BY DEF CloseAmmoBox, arrays
<1>3. TypeOK'
  BY <1>1, <1>2 DEF TypeOK
<1>4. PairsOK' /\ AddingOK' /\ AllTaken'
  BY <1>1, <1>2, ArraysKept
<1>5. VisitOK'
  BY <1>2 DEF VisitOK
<1>6. \A x \in Containers : Group[x] = "Loot_Treasure" => bAlreadySearched'[x] = bAlreadySearched[x]
  BY <1>1, <1>2 DEF TypeOK
<1>7. ChestsOK' /\ LootIsFromTable' /\ FaultsAreEmptiness'
  BY <1>1, <1>2, <1>6, ChestsKept, LootKept, FaultExcused
<1> QED
  BY <1>3, <1>4, <1>5, <1>7 DEF IInv

(* A script that clears one array of a pair empties it and takes its block *)
(* away for good; an array that never had a block was empty before.        *)
LEMMA ScriptClearKeeps ==
  ASSUME LootAssumption, IInv, NEW a \in Arrays, ScriptClear(a)
  PROVE  IInv'
<1>1. /\ TypeOK /\ PairsOK /\ AddingOK /\ AllTaken /\ VisitOK /\ ChestsOK
      /\ LootIsFromTable /\ FaultsAreEmptiness
  BY DEF IInv
<1>2. PICK k \in Kinds, w \in {"ItemDefs", "ItemCount"} : a = <<k, w>>
  BY DEF Arrays
<1>3. /\ fault = "none" /\ clears < MaxClears /\ clears' = clears + 1
      /\ IF block[a] = "freed" THEN fault' = "freed block" ELSE UNCHANGED fault
      /\ block' = [block EXCEPT ![a] = IF @ = "null" THEN "null" ELSE "freed"]
      /\ IF w = "ItemDefs"
         THEN ItemDefs' = [ItemDefs EXCEPT ![k] = <<>>] /\ UNCHANGED ItemCount
         ELSE ItemCount' = [ItemCount EXCEPT ![k] = <<>>] /\ UNCHANGED ItemDefs
      /\ UNCHANGED <<Rows, adding, step, visit, pick, bAlreadySearched, LastItemDefinition, loot>>
  BY <1>2 DEF ScriptClear
<1>4. clears \in Nat /\ MaxClears \in Nat
  BY <1>1, RowsAreSeq DEF LootAssumption
<1>5. clears' \in 0 .. MaxClears /\ clears' > 0 /\ clears' # 0
  <2>1. clears < MaxClears /\ clears' = clears + 1
    BY <1>3
  <2> QED
    BY <1>4, <2>1
<1>6. /\ block' \in [Arrays -> {"null", "live", "freed"}]
      /\ block'[a] # "live" /\ (block'[a] = "null" <=> block[a] = "null")
      /\ \A b \in Arrays \ {a} : block'[b] = block[b]
  BY <1>1, <1>3 DEF TypeOK
<1>7. /\ ItemDefs' \in [Kinds -> Seq(Definitions)] /\ ItemCount' \in [Kinds -> Seq(Nat)]
      /\ w = "ItemDefs" => ItemDefs'[k] = <<>> /\ ItemCount'[k] = ItemCount[k]
      /\ w = "ItemCount" => ItemDefs'[k] = ItemDefs[k] /\ ItemCount'[k] = <<>>
      /\ \A l \in Kinds \ {k} : ItemDefs'[l] = ItemDefs[l] /\ ItemCount'[l] = ItemCount[l]
  <2>1. ItemDefs \in [Kinds -> Seq(Definitions)] /\ ItemCount \in [Kinds -> Seq(Nat)]
    BY <1>1 DEF TypeOK
  <2>2. CASE w = "ItemDefs"
    <3>1. ItemDefs' = [ItemDefs EXCEPT ![k] = <<>>] /\ UNCHANGED ItemCount
      BY <1>3, <2>2
    <3> QED
      BY <2>1, <2>2, <3>1
  <2>3. CASE w = "ItemCount"
    <3>1. ItemCount' = [ItemCount EXCEPT ![k] = <<>>] /\ UNCHANGED ItemDefs
      BY <1>3, <2>3
    <3> QED
      BY <2>1, <2>3, <3>1
  <2> QED
    BY <2>2, <2>3
<1>8. TypeOK'
  BY <1>1, <1>3, <1>5, <1>6, <1>7 DEF TypeOK
<1>9. /\ Offered' = Offered /\ Stacks' = Stacks /\ NextRow' = NextRow
      /\ \A l : AddingTo(l)' <=> AddingTo(l)
  BY <1>3 DEF Offered, Stacks, AddingTo, NextRow
<1>10. PairOK(k)'
  <2>1. PairOK(k)
    BY <1>1 DEF PairsOK
  <2>2. CASE w = "ItemDefs"
    <3>1. a = <<k, "ItemDefs">> /\ block'[<<k, "ItemCount">>] = block[<<k, "ItemCount">>]
      BY <1>2, <1>6, <2>2 DEF Arrays
    <3>2. block'[a] # "freed" => ItemDefs[k] = <<>> /\ block[a] # "freed"
      BY <1>1, <1>6, <2>1, <3>1 DEF PairOK, TypeOK
    <3> QED
      BY <1>7, <1>9, <2>1, <2>2, <3>1, <3>2 DEF PairOK, PairOf, Entry
  <2>3. CASE w = "ItemCount"
    <3>1. a = <<k, "ItemCount">> /\ block'[<<k, "ItemDefs">>] = block[<<k, "ItemDefs">>]
      BY <1>2, <1>6, <2>3 DEF Arrays
    <3>2. block'[a] # "freed" => ItemCount[k] = <<>> /\ block[a] # "freed"
      BY <1>1, <1>6, <2>1, <3>1 DEF PairOK, TypeOK
    <3>3. ItemDefs'[k] = ItemDefs[k] /\ ItemCount'[k] = <<>>
      BY <1>7, <2>3
    <3>4. (\A b \in PairOf(k) : block'[b] # "freed") =>
            /\ ~AddingTo(k) => Len(ItemDefs'[k]) = Len(ItemCount'[k])
            /\ AddingTo(k) => /\ Len(ItemDefs'[k]) = Len(ItemCount'[k]) + 1
                              /\ ItemDefs'[k][Len(ItemDefs'[k])] = NextRow.def
      BY <2>1, <3>1, <3>2, <3>3 DEF PairOK, PairOf
    <3>5. \A j \in DOMAIN ItemDefs'[k] :
            ItemDefs'[k][j] \in Offered \cap GItemDefs /\ KindOf(ItemDefs'[k][j]) = k
      BY <2>1, <3>3 DEF PairOK
    <3>6. /\ block'[<<k, "ItemDefs">>] # "live" => ItemDefs'[k] = <<>>
          /\ DOMAIN ItemCount'[k] = {}
      BY <2>1, <3>1, <3>3 DEF PairOK
    <3> QED
      BY <1>9, <3>3, <3>4, <3>5, <3>6 DEF PairOK, Entry
  <2> QED
    BY <2>2, <2>3
<1>11. ASSUME NEW l \in Kinds \ {k} PROVE PairOK(l)'
  <2>1. \A b \in PairOf(l) : block'[b] = block[b]
    BY <1>2, <1>6 DEF PairOf, Arrays
  <2>2. ItemDefs'[l] = ItemDefs[l] /\ ItemCount'[l] = ItemCount[l] /\ PairOK(l)
    BY <1>1, <1>7 DEF PairsOK
  <2> QED
    BY <1>9, <2>1, <2>2 DEF PairOK, PairOf, Entry
<1>12. PairsOK' /\ AddingOK'
  <2>1. AddingOK'
    BY <1>1, <1>3 DEF AddingOK, Taken, GItemDefs, NextRow
  <2> QED
    BY <1>10, <1>11, <2>1 DEF PairsOK
<1>13. AllTaken' /\ FaultsAreEmptiness'
  BY <1>5 DEF AllTaken, FaultsAreEmptiness
<1>14. VisitOK'
  BY <1>1, <1>3, <1>5 DEF VisitOK, Prepared
<1>15. ChestsOK' /\ LootIsFromTable'
  BY <1>1, <1>3, <1>5, ChestsKept, LootKept
<1> QED
  BY <1>8, <1>12, <1>13, <1>14, <1>15 DEF IInv

LEMMA StutterKeeps ==
  ASSUME IInv, UNCHANGED vars
  PROVE  IInv'
<1>1. /\ UNCHANGED <<Rows, block, ItemDefs, ItemCount, adding, clears>>
      /\ UNCHANGED <<step, visit, pick, bAlreadySearched, LastItemDefinition, loot, fault>>
  BY DEF vars, arrays
<1>2. /\ TypeOK /\ PairsOK /\ AddingOK /\ AllTaken /\ VisitOK /\ ChestsOK
      /\ LootIsFromTable /\ FaultsAreEmptiness
  BY DEF IInv
<1>3. TypeOK' /\ AllTaken' /\ VisitOK'
  BY <1>1, <1>2 DEF TypeOK, AllTaken, VisitOK, Prepared
<1>4. PairsOK' /\ AddingOK' /\ ChestsOK' /\ LootIsFromTable' /\ FaultsAreEmptiness'
  BY <1>1, <1>2, PairsKept, ChestsKept, LootKept, FaultExcused
<1> QED
  BY <1>3, <1>4 DEF IInv

(* The invariant is inductive.                                             *)
LEMMA NextKeeps ==
  ASSUME LootAssumption, IInv, [Next]_vars
  PROVE  IInv'
<1>1. CASE PrepareRow
  BY <1>1, SkipRowKeeps, AddItemDefKeeps, AddItemCountKeeps DEF PrepareRow
<1>2. CASE SpawnOnFloor
  BY <1>2, SpawnOnFloorKeeps
<1>3. ASSUME NEW c \in Containers, SearchOther(c) \/ OpenChest(c) \/ OpenAmmoBox(c)
      PROVE  IInv'
  BY <1>3, SearchOtherKeeps, OpenChestKeeps, OpenAmmoBoxKeeps
<1>4. CASE EmptyChest
  BY <1>4, EmptyChestKeeps
<1>5. CASE DropAmmo \/ CloseAmmoBox
  BY <1>5, DropAmmoKeeps, CloseAmmoBoxKeeps
<1>6. ASSUME NEW a \in Arrays, ScriptClear(a)
      PROVE  IInv'
  BY <1>6, ScriptClearKeeps
<1>7. CASE UNCHANGED vars
  BY <1>7, StutterKeeps
<1> QED
  BY <1>1, <1>2, <1>3, <1>4, <1>5, <1>6, <1>7 DEF Next

LEMMA Inductive == Spec => []IInv
<1>1. Init => IInv
  BY LootAssumption, InitIInv
<1>2. IInv /\ [Next]_vars => IInv'
  BY LootAssumption, NextKeeps
<1> QED
  BY <1>1, <1>2, PTL DEF Spec

----------------------------------------------------------------------------
(* The theorems.                                                           *)

(* Every variable keeps its type, whatever the table, the containers and   *)
(* the scripts.                                                            *)
THEOREM TypeCorrect == Spec => []TypeOK
<1>1. IInv => TypeOK
  BY DEF IInv
<1> QED
  BY <1>1, Inductive, PTL

(* Everything the floor, a chest or an ammo box puts down is a row of the  *)
(* table, whatever a script clears between the rows.                       *)
THEOREM OnlyRowsAreLooted == Spec => []LootIsFromTable
<1>1. IInv => LootIsFromTable
  BY DEF IInv
<1> QED
  BY <1>1, Inductive, PTL

(* A chest that was searched gave a weapon, a resource and a consumable,   *)
(* and the weapon's ammo if the table offers it and nothing was cleared.   *)
THEOREM SearchedChestsAreComplete == Spec => []ChestsAreComplete
<1>1. IInv => ChestsAreComplete
  <2> SUFFICES ASSUME IInv, NEW c \in Containers,
                      Group[c] = "Loot_Treasure", bAlreadySearched[c]
               PROVE  LET kinds == [i \in DOMAIN loot[c] |-> KindOf(loot[c][i].def)]
                      IN  /\ SubSeq(kinds, 1, 3) = <<"Weapon", "Resource", "Consumables">>
                          /\ AmmoOf[loot[c][1].def] \in AmmoOffered /\ clears = 0
                               => Len(kinds) = 4 /\ loot[c][4].def = AmmoOf[loot[c][1].def]
    BY DEF ChestsAreComplete
  <2> DEFINE kinds == [i \in DOMAIN loot[c] |-> KindOf(loot[c][i].def)]
  <2>1. Complete(loot[c])
    BY DEF IInv, ChestsOK
  <2>2. loot[c] \in Seq(Thing)
    BY DEF IInv, TypeOK, Sources
  <2>3. PICK n \in 3 .. 4 : Len(loot[c]) = n /\ DOMAIN loot[c] = 1 .. n
    BY <2>1, <2>2 DEF Complete
  <2>4. kinds = [i \in 1 .. n |-> KindOf(loot[c][i].def)]
    BY <2>3
  <2>5. Len(kinds) = n
    BY <2>3, <2>4
  <2>6. kinds[1] = "Weapon" /\ kinds[2] = "Resource" /\ kinds[3] = "Consumables"
    BY <2>1, <2>3, <2>4 DEF Complete
  <2> HIDE DEF kinds
  <2>7. kinds \in Seq({kinds[i] : i \in DOMAIN kinds})
    BY <2>4
  <2>8. SubSeq(kinds, 1, 3) = <<"Weapon", "Resource", "Consumables">>
    <3>1. PICK k : k = kinds
      OBVIOUS
    <3>2. k \in Seq({k[i] : i \in DOMAIN k}) /\ Len(k) \in 3 .. 4
          /\ k[1] = "Weapon" /\ k[2] = "Resource" /\ k[3] = "Consumables"
      BY <2>3, <2>5, <2>6, <2>7, <3>1
    <3>3. PICK s : s = SubSeq(k, 1, 3)
      OBVIOUS
    <3>4. ASSUME NEW i \in 1 .. 3 PROVE k[i] \in DrawnKinds
      <4>1. i = 1 \/ i = 2 \/ i = 3
        OBVIOUS
      <4> QED
        BY <3>2, <4>1 DEF DrawnKinds
    <3>5. s \in Seq(DrawnKinds) /\ Len(s) = 3 /\ \A i \in 1 .. 3 : s[i] = k[i]
      <4>1. /\ SubSeq(k, 1, 3) \in Seq(DrawnKinds) /\ Len(SubSeq(k, 1, 3)) = 3
            /\ \A i \in 1 .. 3 : SubSeq(k, 1, 3)[i] = k[1 + i - 1]
        BY ONLY <3>4, SubSeqProperties
      <4>2. \A i \in 1 .. 3 : 1 + i - 1 = i
        OBVIOUS
      <4> QED
        BY <3>3, <4>1, <4>2
    <3>6. s = <<"Weapon", "Resource", "Consumables">>
      <4>1. PICK u : u = <<"Weapon", "Resource", "Consumables">>
        OBVIOUS
      <4>2. u \in Seq(DrawnKinds) /\ Len(u) = 3
            /\ u[1] = "Weapon" /\ u[2] = "Resource" /\ u[3] = "Consumables"
        BY <4>1 DEF DrawnKinds
      <4>3. \A i \in 1 .. 3 : s[i] = u[i]
        BY <3>2, <3>5, <4>2
      <4>4. s = u
        BY ONLY <3>5, <4>2, <4>3, SeqEqual
      <4> QED
        BY <4>1, <4>4
    <3> QED
      BY <3>1, <3>3, <3>6
  <2> QED
    BY <2>1, <2>3, <2>5, <2>8 DEF Complete, kinds
<1> QED
  BY <1>1, Inductive, PTL

(* The game thread meets no fault while no script clears an array and the  *)
(* table offers the four kinds that are drawn without a test.              *)
THEOREM FaultsNeedAReason == Spec => []FaultsAreEmptiness
<1>1. IInv => FaultsAreEmptiness
  BY DEF IInv
<1> QED
  BY <1>1, Inductive, PTL

=============================================================================

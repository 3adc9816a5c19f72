--------------------------- MODULE ObjectArrayProofs ---------------------------
(***************************************************************************)
(* Proofs for ObjectArray, for every chunk size, number of chunks, set of  *)
(* searching threads and contents of the array.                            *)
(***************************************************************************)
EXTENDS ObjectArray, TLAPS

(* Place and Visible for an engine with chunks or without.                 *)
PlaceIn(chunked, id) == IF chunked THEN id + ChunkIndex(id) ELSE id

Has(f, n)     == \E k \in DOMAIN f : f[k] = n
HasUpTo(f, n) == \E k \in DOMAIN f : f[k] <= n
Distinct(f)   == \A k, l \in DOMAIN f : f[k] = f[l] => k = l

(* Nothing lies beyond ObjectCount.                                        *)
EndIsNull == \A n \in Cells : n >= ObjectCount => cell[n] = "null"

(* What stood all along still stands.                                      *)
StillStands == \A u \in Users : \A n \in stood[u] : cell[n] = "wanted"

(* A search that has not begun remembers nothing.                          *)
NotBegun ==
  \A u \in Users : at[u] \in {"idle", "waiting"} =>
    stood[u] = {} /\ found[u] = <<>> /\ i[u] = 0

(* A search has found what stood behind its index, and nothing else: no    *)
(* cell twice, none ahead of it.                                           *)
Behind ==
  \A u \in Users : at[u] \in {"scanning", "comparing"} =>
    /\ \A n \in stood[u] : n < bound[u]
    /\ \A j \in Nat : j < i[u] /\ PlaceIn(NewGObjectsPointer, j) \in stood[u]
         => kind[u] = "all" /\ Has(found[u], PlaceIn(NewGObjectsPointer, j))
    /\ \A k \in DOMAIN found[u] : found[u][k] < PlaceIn(NewGObjectsPointer, i[u])
    /\ kind[u] # "all" => found[u] = <<>>

(* The object whose name is compared is the one at the index, and if it    *)
(* was destroyed it has not stood all along.                               *)
Compared ==
  \A u \in Users : at[u] = "comparing" =>
    /\ i[u] < bound[u]
    /\ held[u] = PlaceIn(NewGObjectsPointer, i[u])
    /\ freed[u] => held[u] \notin stood[u]

(* An answer has what the search promises, by id.                          *)
Answered ==
  \A u \in Users : at[u] = "answered" =>
    \A j \in Nat : PlaceIn(NewGObjectsPointer, j) \in stood[u] =>
      IF kind[u] = "all" THEN Has(found[u], PlaceIn(NewGObjectsPointer, j))
      ELSE HasUpTo(found[u], PlaceIn(NewGObjectsPointer, j))

NoneTwice == Distinct(cached) /\ \A u \in Users : Distinct(found[u])

IInv == /\ TypeOK /\ EndIsNull /\ StillStands /\ NotBegun /\ Behind
        /\ Compared /\ Answered /\ NoneTwice

----------------------------------------------------------------------------
LEMMA Division ==
  ASSUME NEW a \in Nat, NEW c \in Nat, c > 0
  PROVE  /\ a \div c \in Nat
         /\ c * (a \div c) <= a
         /\ a < c * (a \div c) + c
         /\ a % c = a - c * (a \div c)
  OBVIOUS

LEMMA Products ==
  ASSUME NEW a \in Int, NEW b \in Int, NEW c \in Nat, a < b
  PROVE  c * a + c <= c * b
  OBVIOUS

LEMMA Chunk ==
  ASSUME NEW id \in Nat
  PROVE  /\ ChunkIndex(id) \in Nat
         /\ \/ id = 0 /\ ChunkIndex(id) = 0
            \/ ChunkSize * ChunkIndex(id) < id
         /\ id <= ChunkSize * ChunkIndex(id) + ChunkSize
  <1> DEFINE q == id \div ChunkSize
  <1>1. /\ q \in Nat /\ ChunkSize \in Nat /\ ChunkSize > 0
        /\ ChunkSize * q <= id /\ id < ChunkSize * q + ChunkSize
    BY Division, ArrayAssumption
  <1>2. ChunkIndex(id) = IF ChunkSize * q # 0 /\ ChunkSize * q = id THEN q - 1 ELSE q
    BY DEF ChunkIndex
  <1> HIDE DEF q
  <1>3. CASE ChunkSize * q # 0 /\ ChunkSize * q = id
    <2>1. q # 0 BY <1>1, <1>3
    <2>2. ChunkSize * (q - 1) = ChunkSize * q - ChunkSize BY <1>1
    <2> QED BY <2>1, <2>2, <1>1, <1>2, <1>3
  <1>4. CASE ~(ChunkSize * q # 0 /\ ChunkSize * q = id)
    <2>1. ChunkSize * q = 0 => q = 0 BY <1>1
    <2> QED BY <2>1, <1>1, <1>2, <1>4
  <1> QED BY <1>3, <1>4

LEMMA PlaceIs ==
  ASSUME NEW id \in Nat
  PROVE  /\ Place(id) = PlaceIn(NewGObjectsPointer, id)
         /\ Place(id) \in Nat
  <1>1. /\ ChunkIndex(id) \in Nat /\ ChunkSize \in Nat
    BY Chunk, ArrayAssumption
  <1>2. ChunkIndex(id) * ChunkCells = ChunkSize * ChunkIndex(id) + ChunkIndex(id)
    BY <1>1 DEF ChunkCells
  <1>3. ChunkSize * ChunkIndex(id) \in Nat
    BY <1>1
  <1> HIDE DEF ChunkIndex
  <1> QED BY <1>1, <1>2, <1>3 DEF Place, PlaceIn

LEMMA PlacesIncrease ==
  ASSUME NEW j \in Nat, NEW id \in Nat, j < id, NEW chunked
  PROVE  PlaceIn(chunked, j) < PlaceIn(chunked, id)
  <1>1. ChunkIndex(j) <= ChunkIndex(id)
    <2> DEFINE a == ChunkIndex(j)  b == ChunkIndex(id)
    <2>1. /\ a \in Nat /\ b \in Nat /\ ChunkSize \in Nat /\ ChunkSize > 0
          /\ (j = 0 /\ a = 0) \/ ChunkSize * a < j
          /\ id <= ChunkSize * b + ChunkSize
      BY Chunk, ArrayAssumption
    <2> HIDE DEF a, b
    <2>2. SUFFICES ASSUME b < a PROVE FALSE
      BY <2>1 DEF a, b
    <2>3. ChunkSize * b + ChunkSize <= ChunkSize * a
      BY <2>1, <2>2, Products
    <2>4. ChunkSize * b \in Nat /\ ChunkSize * a \in Nat
      BY <2>1
    <2> QED BY <2>1, <2>2, <2>3, <2>4
  <1> QED BY <1>1, Chunk DEF PlaceIn

LEMMA VisiblePlace ==
  ASSUME NEW n \in Nat, Visible(n)
  PROVE  \E j \in Nat : j <= n /\ Place(j) = n
  <1>1. CASE ~NewGObjectsPointer
    BY <1>1, PlaceIs DEF PlaceIn
  <1>2. CASE NewGObjectsPointer
    <2> DEFINE k == n \div ChunkCells  j == n - k  c == ChunkIndex(j)
    <2>1. /\ ChunkSize \in Nat /\ ChunkSize > 0 /\ ChunkCells = ChunkSize + 1
      BY ArrayAssumption DEF ChunkCells
    <2>2. /\ k \in Nat /\ ChunkCells * k <= n /\ n < ChunkCells * k + ChunkCells
          /\ n % ChunkCells = n - ChunkCells * k
      BY <2>1, Division
    <2>3. n >= ChunkCells => n # ChunkCells * k
      BY <1>2, <2>1, <2>2 DEF Visible
    <2> HIDE DEF k
    <2>4. ChunkCells * k = ChunkSize * k + k /\ ChunkSize * k \in Nat
      BY <2>1, <2>2
    <2>5. j \in Nat /\ ChunkSize * k <= j /\ j <= ChunkSize * k + ChunkSize
      BY <2>1, <2>2, <2>4
    <2>6. n < ChunkCells => k = 0
      <3>1. k >= 1 => ChunkCells * k >= ChunkCells
        BY <2>1, <2>2, Products
      <3> QED BY <3>1, <2>1, <2>2, <2>4
    <2>7. k = 0 \/ ChunkSize * k < j
      BY <2>1, <2>2, <2>3, <2>4, <2>6
    <2>8. /\ c \in Nat
          /\ (j = 0 /\ c = 0) \/ ChunkSize * c < j
          /\ j <= ChunkSize * c + ChunkSize
      BY <2>5, Chunk
    <2> HIDE DEF c, j
    <2>9. c = k
      <3>1. ASSUME c < k PROVE FALSE
        <4>1. ChunkSize * c + ChunkSize <= ChunkSize * k
          BY <3>1, <2>1, <2>2, <2>8, Products
        <4> QED BY <4>1, <3>1, <2>1, <2>2, <2>4, <2>7, <2>8, <2>5
      <3>2. ASSUME k < c PROVE FALSE
        <4>1. ChunkSize * k + ChunkSize <= ChunkSize * c
          BY <3>2, <2>1, <2>2, <2>8, Products
        <4>2. ChunkSize * c < j
          BY <3>2, <2>2, <2>8
        <4> QED BY <4>1, <4>2, <2>1, <2>2, <2>4, <2>5, <2>8
      <3> QED BY <3>1, <3>2, <2>2, <2>8
    <2>10. Place(j) = n
      BY <1>2, <2>2, <2>5, <2>9, PlaceIs DEF PlaceIn, j, c
    <2> QED BY <2>2, <2>5, <2>10 DEF j
  <1> QED BY <1>1, <1>2

LEMMA ReadableCell ==
  ASSUME TypeOK, NEW id \in Nat, Readable(id), id < Chunks * ChunkCells
  PROVE  Place(id) \in Cells
  <1> DEFINE c == ChunkIndex(id)  S == ChunkCells
  <1>1. /\ c \in Nat /\ S \in Nat /\ S > 0 /\ Chunks \in Nat
        /\ ChunkSize \in Nat /\ S = ChunkSize + 1
        /\ ObjectCount <= S * Chunks /\ ObjectCount \in Nat
        /\ Chunks * ChunkCells = S * Chunks
    BY Chunk, ArrayAssumption DEF TypeOK, ChunkCells
  <1>2. CASE ~NewGObjectsPointer
    BY <1>2, PlaceIs, <1>1 DEF Cells, PlaceIn
  <1>3. CASE NewGObjectsPointer
    <2>1. S * c < ObjectCount
      BY <1>1, <1>3 DEF Readable, HasChunk
    <2>2. id <= ChunkSize * c + ChunkSize
      BY Chunk
    <2>3. Place(id) = id + c /\ Place(id) \in Nat
      BY <1>3, PlaceIs, <1>1 DEF PlaceIn
    <2> HIDE DEF c, S
    <2>4. S * c = ChunkSize * c + c /\ ChunkSize * c \in Nat
      BY <1>1
    <2>5. c < Chunks
      <3>1. ASSUME Chunks <= c PROVE FALSE
        <4>1. Chunks = c \/ S * Chunks + S <= S * c
          BY <3>1, <1>1, Products
        <4>2. S * Chunks \in Nat /\ S * c \in Nat
          BY <1>1
        <4> QED BY <4>1, <4>2, <2>1, <1>1
      <3> QED BY <3>1, <1>1
    <2>6. S * c + S <= S * Chunks
      BY <2>5, <1>1, Products
    <2> QED BY <2>2, <2>3, <2>4, <2>6, <1>1 DEF Cells
  <1> QED BY <1>2, <1>3

LEMMA UnreadablePlace ==
  ASSUME TypeOK, NEW id \in Nat, ~Readable(id)
  PROVE  Place(id) >= ObjectCount
  <1> DEFINE c == ChunkIndex(id)
  <1>1. /\ c \in Nat /\ ChunkSize \in Nat /\ NewGObjectsPointer
        /\ ~(c * ChunkCells < ObjectCount)
    BY Chunk, ArrayAssumption DEF Readable, HasChunk
  <1>2. Place(id) = id + c
    BY <1>1, PlaceIs DEF PlaceIn
  <1>4. (id = 0 /\ c = 0) \/ ChunkSize * c < id
    BY Chunk
  <1>5. ObjectCount \in Nat
    BY ArrayAssumption DEF TypeOK, ChunkCells
  <1> HIDE DEF c
  <1>3. c * ChunkCells = ChunkSize * c + c /\ ChunkSize * c \in Nat
    BY <1>1 DEF ChunkCells
  <1> QED BY <1>1, <1>2, <1>3, <1>4, <1>5

LEMMA PlaceType ==
  ASSUME NEW id \in Nat, NEW chunked
  PROVE  PlaceIn(chunked, id) \in Nat
  BY Chunk DEF PlaceIn

----------------------------------------------------------------------------
(* Types.                                                                  *)

LEMMA CellsAreNat == Cells \subseteq Nat
  BY DEF Cells

LEMMA TypeInit == Init => TypeOK
<1> USE DEF Places
<1>. SUFFICES ASSUME Init PROVE TypeOK
  OBVIOUS
<1>1. PICK s \in Starts : /\ ObjectCount = Len(s)
                          /\ cell = [n \in Cells |-> IF n < Len(s) THEN s[n + 1] ELSE "null"]
  BY DEF Init
<1>2. /\ s \in Seq({"null", "other", "wanted"}) /\ Len(s) \in Nat
      /\ Len(s) <= Chunks * ChunkCells
  BY ArrayAssumption DEF ChunkCells
<1>3. Chunks * ChunkCells \in Nat /\ Chunks * ChunkCells > 0
  BY ArrayAssumption DEF ChunkCells
<1>4. ObjectCount \in 0 .. Chunks * ChunkCells
  BY <1>1, <1>2, <1>3
<1>5. cell \in [Cells -> {"null", "other", "wanted"}]
  <2>1. ASSUME NEW n \in Cells, n < Len(s) PROVE s[n + 1] \in {"null", "other", "wanted"}
    BY <2>1, <1>2, CellsAreNat
  <2>. QED
    BY <2>1, <1>1
<1>6. 0 \in Cells /\ 0 \in 0 .. Chunks * ChunkCells
  BY <1>3 DEF Cells
<1>. QED
  BY <1>4, <1>5, <1>6, ArrayAssumption DEF Init, TypeOK, Kinds

LEMMA TypeStep == TypeOK /\ [Next]_vars => TypeOK'
<1> USE DEF Places
<1>. SUFFICES ASSUME TypeOK, [Next]_vars PROVE TypeOK'
  OBVIOUS
<1>0. Chunks * ChunkCells \in Nat
  BY ArrayAssumption DEF ChunkCells
<1>a. /\ at \in [Users -> Places]
      /\ i \in [Users -> Nat] /\ freed \in [Users -> BOOLEAN]
  BY DEF TypeOK
<1>b. ASSUME NEW u \in Users PROVE [i EXCEPT ![u] = i[u] + 1] \in [Users -> Nat]
  BY <1>a
<1>1. ASSUME NEW u \in Users, NEW k \in Kinds, Search(u, k) PROVE TypeOK'
  BY <1>1 DEF TypeOK, Search, Start, array, static
<1>2. ASSUME NEW u \in Users, InitialiseStatic(u) PROVE TypeOK'
  BY <1>2 DEF TypeOK, InitialiseStatic, Start, array, Kinds
<1>3. ASSUME NEW u \in Users, WaitForStatic(u) PROVE TypeOK'
  BY <1>3 DEF TypeOK, WaitForStatic, array, static
<1>4. ASSUME NEW u \in Users, TakeStatic(u) PROVE TypeOK'
  BY <1>4 DEF TypeOK, TakeStatic, array, static, Kinds
<1>5. ASSUME NEW u \in Users, Fetch(u) PROVE TypeOK'
  <2>1. /\ at' \in [Users -> Places]
        /\ i' \in [Users -> Nat] /\ freed' \in [Users -> BOOLEAN]
    <3>1. CASE Readable(i[u]) /\ cell[Place(i[u])] # "null"
      BY <1>5, <3>1, <1>a DEF Fetch
    <3>2. CASE ~(Readable(i[u]) /\ cell[Place(i[u])] # "null")
      BY <1>5, <3>2, <1>a, <1>b DEF Fetch, After
    <3>. QED
      BY <3>1, <3>2
  <2>3. UNCHANGED <<array, static, kind, bound, found, stood>>
    BY <1>5 DEF Fetch
  <2>2. held' \in [Users -> Cells]
    <3>1. i[u] \in Nat /\ i[u] < Chunks * ChunkCells
      BY <1>5, <1>0 DEF TypeOK, Fetch
    <3>2. Readable(i[u]) => Place(i[u]) \in Cells
      BY <3>1, ReadableCell
    <3>. QED
      BY <3>2, <1>5 DEF TypeOK, Fetch
  <2>. QED
    BY <2>1, <2>2, <2>3 DEF TypeOK, array, static
<1>6. ASSUME NEW u \in Users, Compare(u) PROVE TypeOK'
  <2>1. PICK fits \in Fits(u) :
          IF fits /\ kind[u] # "all"
          THEN Answer(u, <<held[u]>>) /\ UNCHANGED i
          ELSE /\ at' = [at EXCEPT ![u] = "scanning"]
               /\ i' = [i EXCEPT ![u] = @ + 1]
               /\ found' = [found EXCEPT ![u] = IF fits THEN Append(@, held[u]) ELSE @]
               /\ UNCHANGED static
    BY <1>6 DEF Compare
  <2>2. held[u] \in Cells /\ found[u] \in Seq(Cells) /\ <<held[u]>> \in Seq(Cells)
    BY DEF TypeOK
  <2>3. Append(found[u], held[u]) \in Seq(Cells)
    BY <2>2
  <2>4. CASE fits /\ kind[u] # "all"
    <3>1. /\ found' \in [Users -> Seq(Cells)] /\ at' \in [Users -> Places]
          /\ cached' \in Seq(Cells) /\ initialising' \in {"unset", "busy", "done"}
      BY <2>1, <2>2, <2>4 DEF TypeOK, Answer, static
    <3>. QED
      BY <3>1, <2>1, <2>4, <1>6 DEF TypeOK, Compare, array
  <2>5. CASE ~(fits /\ kind[u] # "all")
    <3>1. found' \in [Users -> Seq(Cells)]
      BY <2>1, <2>2, <2>3, <2>5 DEF TypeOK
    <3>2. /\ at' \in [Users -> Places]
          /\ i' \in [Users -> Nat]
      BY <2>1, <2>5, <1>a, <1>b
    <3>3. UNCHANGED <<array, static, kind, bound, held, freed, stood>>
      BY <2>1, <2>5, <1>6 DEF Compare
    <3>. QED
      BY <3>1, <3>2, <3>3 DEF TypeOK, array, static
  <2>. QED
    BY <2>4, <2>5
<1>7. ASSUME NEW u \in Users, EndOfArray(u) PROVE TypeOK'
  BY <1>7 DEF TypeOK, EndOfArray, Answer, array, static
<1>8. ASSUME NEW n \in Cells, Destroy(n) PROVE TypeOK'
  BY <1>8, ArrayAssumption DEF TypeOK, Destroy, static
<1>9. ASSUME NEW n \in Cells, NEW what \in {"other", "wanted"}, Create(n, what) PROVE TypeOK'
  <2>1. ObjectCount' \in 0 .. Chunks * ChunkCells
    BY <1>9, <1>0 DEF TypeOK, Create, Cells
  <2>. QED
    BY <2>1, <1>9, ArrayAssumption DEF TypeOK, Create, static, search
<1>10. CASE UNCHANGED vars
  BY <1>10 DEF TypeOK, vars, array, static, search
<1>11. ASSUME NEW u \in Users, WalkFreed(u) PROVE TypeOK'
  BY <1>11 DEF TypeOK, WalkFreed, array, static, Places
<1>. QED
  BY <1>1, <1>2, <1>3, <1>4, <1>5, <1>6, <1>7, <1>8, <1>9, <1>10, <1>11 DEF Next, User, Engine

----------------------------------------------------------------------------
(* The invariant, one lemma per kind of step.                              *)

(* The part of TypeOK that the arguments below need.                       *)
SearchTypes ==
  /\ at \in [Users -> Places]
  /\ kind \in [Users -> Kinds] /\ i \in [Users -> Nat] /\ bound \in [Users -> Nat]
  /\ held \in [Users -> Nat] /\ freed \in [Users -> BOOLEAN]
  /\ found \in [Users -> Seq(Cells)] /\ stood \in [Users -> SUBSET Nat]
  /\ cell \in [Cells -> {"null", "other", "wanted"}] /\ ObjectCount \in Nat

LEMMA TypesOfSearch == TypeOK => SearchTypes
  <1>3. Chunks * ChunkCells \in Nat
    BY ArrayAssumption DEF ChunkCells
  <1>4. TypeOK => bound \in [Users -> Nat] /\ ObjectCount \in Nat
    BY <1>3 DEF TypeOK
  <1>. QED
    BY <1>4, CellsAreNat DEF TypeOK, SearchTypes

Parts == EndIsNull /\ StillStands /\ NotBegun /\ Behind /\ Compared /\ Answered /\ NoneTwice

LEMMA PartsInit == Init => Parts
  <1>. SUFFICES ASSUME Init PROVE Parts
    OBVIOUS
  <1>1. EndIsNull
    <2>1. PICK s \in Starts : /\ ObjectCount = Len(s)
                              /\ cell = [n \in Cells |-> IF n < Len(s) THEN s[n + 1] ELSE "null"]
      BY DEF Init
    <2>2. Len(s) \in Nat
      BY ArrayAssumption
    <2>. QED
      BY <2>1, <2>2, CellsAreNat DEF EndIsNull
  <1>. QED
    BY <1>1 DEF Init, Parts, StillStands, NotBegun, Behind, Compared, Answered,
      NoneTwice, Distinct

(* A search that starts sees the whole array before it.                    *)
LEMMA StartStep ==
  ASSUME SearchTypes, Parts, NEW u \in Users, NEW k \in Kinds,
         at[u] = "idle", Start(u, k), cached' = cached
  PROVE  Parts'
  <1> USE DEF Parts
  <1>1. /\ \A v \in Users : v # u => /\ at'[v] = at[v] /\ kind'[v] = kind[v]
                                     /\ bound'[v] = bound[v] /\ stood'[v] = stood[v]
        /\ at'[u] = "scanning" /\ kind'[u] = k /\ bound'[u] = ObjectCount
        /\ stood'[u] = {n \in Cells : cell[n] = "wanted"}
        /\ UNCHANGED <<array, i, held, freed, found, cached>>
    BY DEF Start, SearchTypes
  <1>2. found[u] = <<>> /\ i[u] = 0
    BY DEF NotBegun
  <1>3. \A n \in stood'[u] : n < bound'[u]
    <2>1. ASSUME NEW n \in Cells, cell[n] = "wanted" PROVE n < ObjectCount
      BY <2>1, CellsAreNat DEF EndIsNull, SearchTypes
    <2>. QED
      BY <2>1, <1>1
  <1>4. Behind'
    <2>. SUFFICES ASSUME NEW v \in Users, at'[v] \in {"scanning", "comparing"}
                  PROVE  /\ \A n \in stood'[v] : n < bound'[v]
                         /\ \A j \in Nat : j < i'[v] /\ PlaceIn(NewGObjectsPointer', j) \in stood'[v]
                              => kind'[v] = "all" /\ Has(found'[v], PlaceIn(NewGObjectsPointer', j))
                         /\ \A n \in DOMAIN found'[v] :
                              found'[v][n] < PlaceIn(NewGObjectsPointer', i'[v])
                         /\ kind'[v] # "all" => found'[v] = <<>>
      BY DEF Behind
    <2>1. CASE v = u
      BY <1>1, <1>2, <1>3, <2>1
    <2>2. CASE v # u
      BY <1>1, <2>2 DEF Behind, array
    <2>. QED
      BY <2>1, <2>2
  <1>5. StillStands'
    <2>. SUFFICES ASSUME NEW v \in Users, NEW n \in stood'[v] PROVE cell[n] = "wanted"
      BY <1>1 DEF StillStands, array
    <2>. QED
      BY <1>1 DEF StillStands
  <1>6. (EndIsNull /\ NotBegun /\ NoneTwice)'
    BY <1>1 DEF EndIsNull, NotBegun, NoneTwice, array
  <1>7. (Compared /\ Answered)'
    BY <1>1 DEF Compared, Answered, array
  <1>. QED
    BY <1>4, <1>5, <1>6, <1>7

LEMMA TakeStaticStep ==
  ASSUME SearchTypes, Parts, NEW u \in Users, TakeStatic(u)
  PROVE  Parts'
  <1> USE DEF Parts
  <1>1. /\ \A v \in Users : v # u => /\ at'[v] = at[v] /\ kind'[v] = kind[v]
                                     /\ found'[v] = found[v]
        /\ at'[u] = "answered" /\ found'[u] = cached /\ at[u] \in {"idle", "waiting"}
        /\ UNCHANGED <<array, static, i, bound, held, freed, stood>>
    BY DEF TakeStatic, SearchTypes
  <1>2. stood'[u] = {}
    BY <1>1 DEF NotBegun
  <1>3. (EndIsNull /\ StillStands /\ NotBegun /\ Compared /\ NoneTwice)'
    BY <1>1 DEF EndIsNull, StillStands, NotBegun, Compared, NoneTwice, array, static
  <1>4. Behind'
    BY <1>1 DEF Behind, array
  <1>5. Answered'
    BY <1>1, <1>2 DEF Answered, array
  <1>. QED
    BY <1>3, <1>4, <1>5

LEMMA FetchStep ==
  ASSUME SearchTypes, TypeOK, Parts, NEW u \in Users, Fetch(u)
  PROVE  Parts'
  <1> USE DEF Parts
  <1> DEFINE here == PlaceIn(NewGObjectsPointer, i[u])
  <1>0. /\ i[u] \in Nat /\ here \in Nat /\ Place(i[u]) = here
        /\ at[u] = "scanning" /\ i[u] < bound[u]
    BY PlaceIs, PlaceType DEF SearchTypes, Fetch
  <1>1. CASE Readable(i[u]) /\ cell[Place(i[u])] # "null"
    <2>1. /\ \A v \in Users : v # u => /\ at'[v] = at[v] /\ held'[v] = held[v]
                                       /\ freed'[v] = freed[v]
          /\ at'[u] = "comparing" /\ held'[u] = here /\ freed'[u] = FALSE
          /\ UNCHANGED <<array, static, i, kind, bound, found, stood>>
      BY <1>0, <1>1 DEF Fetch, SearchTypes
    <2>. QED
      BY <1>0, <2>1 DEF EndIsNull, StillStands, NotBegun, Behind, Compared, Answered, NoneTwice,
        array, static, SearchTypes
  <1>2. CASE ~(Readable(i[u]) /\ cell[Place(i[u])] # "null")
    <2>1. /\ \A v \in Users : v # u => i'[v] = i[v]
          /\ i'[u] = i[u] + 1
          /\ UNCHANGED <<array, static, kind, bound, found, stood, at, held, freed>>
      BY <1>0, <1>2 DEF Fetch, After, SearchTypes
    <2>2. here \notin stood[u]
      <3>1. ~Readable(i[u]) => here >= ObjectCount
        BY <1>0, UnreadablePlace
      <3>2. stood[u] \subseteq Cells
        BY DEF TypeOK
      <3>. QED
        BY <1>0, <1>2, <3>1, <3>2 DEF EndIsNull, StillStands
    <2>3. ASSUME NEW j \in Nat, j < i'[u], PlaceIn(NewGObjectsPointer, j) \in stood[u]
          PROVE  kind[u] = "all" /\ Has(found[u], PlaceIn(NewGObjectsPointer, j))
      <3>1. j < i[u]
        BY <1>0, <2>1, <2>2, <2>3
      <3>. QED
        BY <1>0, <2>3, <3>1 DEF Behind
    <2>4. here < PlaceIn(NewGObjectsPointer, i'[u])
      BY <1>0, <2>1, PlacesIncrease
    <2>5. ASSUME NEW k \in DOMAIN found[u]
          PROVE  found[u][k] < PlaceIn(NewGObjectsPointer, i'[u])
      <3>1. found[u][k] < here
        BY <1>0 DEF Behind
      <3>2. found[u] \in Seq(Cells)
        BY DEF SearchTypes
      <3>3. found[u][k] \in Nat
        <4>1. found[u][k] \in Cells
          BY <3>2
        <4>. QED
          BY <4>1, CellsAreNat
      <3>4. PlaceIn(NewGObjectsPointer, i'[u]) \in Nat
        BY <1>0, <2>1, PlaceType
      <3>. QED
        BY <3>1, <3>3, <3>4, <2>4, <1>0
    <2>6. Behind'
      BY <1>0, <2>1, <2>3, <2>5 DEF Behind, array
    <2>. QED
      BY <1>0, <2>1, <2>6 DEF EndIsNull, StillStands, NotBegun, Compared, Answered, NoneTwice,
        array, static
  <1>. QED
    BY <1>1, <1>2

LEMMA CompareStep ==
  ASSUME SearchTypes, TypeOK, Parts, NEW u \in Users, Compare(u)
  PROVE  Parts'
  <1> USE DEF Parts
  <1> DEFINE here == PlaceIn(NewGObjectsPointer, i[u])
  <1>0. /\ i[u] \in Nat /\ here \in Nat /\ held[u] = here
        /\ at[u] = "comparing" /\ found[u] \in Seq(Cells) /\ here \in Cells
    BY PlaceType DEF SearchTypes, Compare, Compared, TypeOK
  <1>1. PICK fits \in Fits(u) :
          IF fits /\ kind[u] # "all"
          THEN Answer(u, <<held[u]>>) /\ UNCHANGED i
          ELSE /\ at' = [at EXCEPT ![u] = "scanning"]
               /\ i' = [i EXCEPT ![u] = @ + 1]
               /\ found' = [found EXCEPT ![u] = IF fits THEN Append(@, held[u]) ELSE @]
               /\ UNCHANGED static
    BY DEF Compare
  <1>2. UNCHANGED <<array, kind, bound, held, freed, stood>>
    BY DEF Compare
  <1>3. CASE fits /\ kind[u] # "all"
    <2>1. /\ \A v \in Users : v # u => at'[v] = at[v] /\ found'[v] = found[v]
          /\ at'[u] = "answered" /\ found'[u] = <<here>>
          /\ cached' \in {cached, <<here>>}
          /\ UNCHANGED i
      BY <1>0, <1>1, <1>3 DEF Answer, static, SearchTypes
    <2>2. ASSUME NEW j \in Nat, PlaceIn(NewGObjectsPointer, j) \in stood[u]
          PROVE  HasUpTo(<<here>>, PlaceIn(NewGObjectsPointer, j))
      <3>1. ~(j < i[u])
        BY <1>0, <1>3, <2>2 DEF Behind
      <3>2. here <= PlaceIn(NewGObjectsPointer, j)
        BY <1>0, <3>1, PlacesIncrease, PlaceType
      <3>. QED
        BY <3>2 DEF HasUpTo
    <2>3. Distinct(<<here>>)
      BY DEF Distinct
    <2>4. Answered'
      BY <1>2, <1>3, <2>1, <2>2 DEF Answered, array
    <2>5. NoneTwice'
      BY <2>1, <2>3 DEF NoneTwice
    <2>6. (EndIsNull /\ StillStands /\ NotBegun /\ Compared)'
      BY <1>2, <2>1 DEF EndIsNull, StillStands, NotBegun, Compared, array
    <2>7. Behind'
      BY <1>2, <2>1 DEF Behind, array
    <2>. QED
      BY <2>4, <2>5, <2>6, <2>7
  <1>4. CASE ~(fits /\ kind[u] # "all")
    <2> DEFINE more == IF fits THEN Append(found[u], here) ELSE found[u]
    <2>1. /\ \A v \in Users : v # u => at'[v] = at[v] /\ found'[v] = found[v] /\ i'[v] = i[v]
          /\ at'[u] = "scanning" /\ found'[u] = more /\ i'[u] = i[u] + 1
          /\ UNCHANGED cached
      BY <1>0, <1>1, <1>4 DEF static, SearchTypes
    <2>2. here \in stood[u] => fits
      <3>1. here \in stood[u] => ~freed[u] /\ cell[here] = "wanted"
        BY <1>0 DEF Compared, StillStands
      <3>. QED
        BY <1>0, <3>1 DEF Fits
    <2>3. /\ \A k \in DOMAIN found[u] : found[u][k] < here /\ found[u][k] \in Nat
          /\ \A n : Has(found[u], n) => Has(more, n)
          /\ fits => Has(more, here)
          /\ \A k \in DOMAIN more : more[k] <= here /\ more[k] \in Nat
          /\ Distinct(more)
      <3>1. ASSUME NEW k \in DOMAIN found[u] PROVE found[u][k] < here /\ found[u][k] \in Nat
        <4>1. found[u][k] \in Cells
          BY <1>0
        <4>. QED
          BY <1>0, <4>1, CellsAreNat DEF Behind
      <3>2. CASE ~fits
        BY <1>0, <3>1, <3>2 DEF NoneTwice
      <3>3. CASE fits
        <4> DEFINE f == found[u]
        <4>1. /\ DOMAIN f = 1 .. Len(f) /\ Len(f) \in Nat
              /\ more = Append(f, here) /\ DOMAIN more = 1 .. Len(f) + 1
              /\ \A k \in 1 .. Len(f) : more[k] = f[k]
              /\ more[Len(f) + 1] = here
          BY <1>0, <3>3
        <4>2. Distinct(f)
          BY DEF NoneTwice
        <4>3. /\ \A n : Has(f, n) => Has(more, n)
              /\ Has(more, here)
          BY <4>1 DEF Has
        <4>4. \A k \in DOMAIN more : more[k] <= here /\ more[k] \in Nat
          BY <4>1, <3>1, <1>0
        <4>5. Distinct(more)
          BY <4>1, <4>2, <3>1, <1>0 DEF Distinct
        <4>. QED
          BY <3>1, <3>3, <4>3, <4>4, <4>5
      <3>. QED
        BY <3>2, <3>3
    <2> HIDE DEF more
    <2>4. ASSUME NEW j \in Nat, j < i'[u], PlaceIn(NewGObjectsPointer, j) \in stood[u]
          PROVE  kind[u] = "all" /\ Has(more, PlaceIn(NewGObjectsPointer, j))
      <3>1. CASE j < i[u]
        BY <1>0, <2>3, <2>4, <3>1 DEF Behind
      <3>2. CASE j = i[u]
        BY <1>4, <2>2, <2>3, <2>4, <3>2
      <3>. QED
        BY <3>1, <3>2, <2>4, <2>1, <1>0
    <2>5. ASSUME NEW k \in DOMAIN more PROVE more[k] < PlaceIn(NewGObjectsPointer, i'[u])
      <3>1. here < PlaceIn(NewGObjectsPointer, i'[u]) /\ PlaceIn(NewGObjectsPointer, i'[u]) \in Nat
        BY <1>0, <2>1, PlacesIncrease, PlaceType
      <3>. QED
        BY <3>1, <2>3, <1>0
    <2>6. kind[u] # "all" => more = <<>>
      BY <1>0, <1>4 DEF Behind, more
    <2>7. Behind'
      <3>. SUFFICES ASSUME NEW v \in Users, at'[v] \in {"scanning", "comparing"}
                    PROVE  /\ \A n \in stood'[v] : n < bound'[v]
                           /\ \A j \in Nat : j < i'[v] /\ PlaceIn(NewGObjectsPointer', j) \in stood'[v]
                                => kind'[v] = "all" /\ Has(found'[v], PlaceIn(NewGObjectsPointer', j))
                           /\ \A n \in DOMAIN found'[v] :
                                found'[v][n] < PlaceIn(NewGObjectsPointer', i'[v])
                           /\ kind'[v] # "all" => found'[v] = <<>>
        BY DEF Behind
      <3>1. CASE v = u
        BY <1>0, <1>2, <2>1, <2>4, <2>5, <2>6, <3>1 DEF Behind, array
      <3>2. CASE v # u
        BY <1>2, <2>1, <3>2 DEF Behind, array
      <3>. QED
        BY <3>1, <3>2
    <2>8. NoneTwice'
      BY <2>1, <2>3 DEF NoneTwice
    <2>. QED
      BY <1>2, <2>1, <2>7, <2>8 DEF EndIsNull, StillStands, NotBegun, Compared, Answered, array
  <1>. QED
    BY <1>3, <1>4

LEMMA EndOfArrayStep ==
  ASSUME SearchTypes, Parts, NEW u \in Users, EndOfArray(u)
  PROVE  Parts'
  <1> USE DEF Parts
  <1>1. /\ \A v \in Users : v # u => at'[v] = at[v]
        /\ at[u] = "scanning" /\ at'[u] = "answered"
        /\ cached' \in {cached, found[u]}
        /\ UNCHANGED <<array, kind, i, bound, held, freed, stood, found>>
        /\ i[u] \in Nat /\ bound[u] \in Nat /\ i[u] >= bound[u]
    BY DEF EndOfArray, Answer, static, SearchTypes
  <1>2. ASSUME NEW j \in Nat, PlaceIn(NewGObjectsPointer, j) \in stood[u]
        PROVE  kind[u] = "all" /\ Has(found[u], PlaceIn(NewGObjectsPointer, j))
    <2>1. PlaceIn(NewGObjectsPointer, j) < bound[u]
      BY <1>1, <1>2 DEF Behind
    <2>2. j <= PlaceIn(NewGObjectsPointer, j) /\ PlaceIn(NewGObjectsPointer, j) \in Nat
      BY Chunk, PlaceType DEF PlaceIn
    <2>3. j < i[u]
      BY <1>1, <2>1, <2>2
    <2>. QED
      BY <1>1, <1>2, <2>3 DEF Behind
  <1>3. Answered'
    BY <1>1, <1>2 DEF Answered, array
  <1>4. NoneTwice'
    BY <1>1 DEF NoneTwice
  <1>5. Behind'
    BY <1>1 DEF Behind, array
  <1>6. (EndIsNull /\ StillStands /\ NotBegun /\ Compared)'
    BY <1>1 DEF EndIsNull, StillStands, NotBegun, Compared, array
  <1>. QED
    BY <1>3, <1>4, <1>5, <1>6

LEMMA WaitStep ==
  ASSUME SearchTypes, Parts, NEW u \in Users, WaitForStatic(u)
  PROVE  Parts'
  <1> USE DEF Parts
  <1>1. /\ \A v \in Users : v # u => at'[v] = at[v]
        /\ at[u] = "idle" /\ at'[u] = "waiting"
        /\ UNCHANGED <<array, static, kind, i, bound, held, freed, stood, found>>
    BY DEF WaitForStatic, SearchTypes
  <1>. QED
    BY <1>1 DEF EndIsNull, StillStands, NotBegun, Behind, Compared, Answered, NoneTwice,
      array, static

(* A new object stood nowhere before.                                      *)
LEMMA WalkFreedStep ==
  ASSUME SearchTypes, Parts, NEW u \in Users, WalkFreed(u)
  PROVE  Parts'
  <1>1. /\ \A v \in Users : v # u => at'[v] = at[v]
        /\ at'[u] \in {"lost", "crashed"}
        /\ UNCHANGED <<array, static, kind, i, bound, held, freed, found, stood>>
    BY DEF WalkFreed, SearchTypes
  <1>2. at[u] = "comparing"
    BY DEF WalkFreed
  <1>. QED
    BY <1>1, <1>2 DEF Parts, EndIsNull, StillStands, NotBegun, Behind, Compared, Answered,
      NoneTwice, array, static, SearchTypes

LEMMA CreateStep ==
  ASSUME SearchTypes, Parts, NEW n \in Cells, NEW what \in {"other", "wanted"}, Create(n, what)
  PROVE  Parts'
  <1> USE DEF Parts
  <1>1. /\ cell[n] = "null" /\ n <= ObjectCount /\ n \in Nat /\ ObjectCount \in Nat
        /\ \A m \in Cells : m # n => cell'[m] = cell[m]
        /\ ObjectCount' = IF n = ObjectCount THEN n + 1 ELSE ObjectCount
        /\ UNCHANGED <<NewGObjectsPointer, static, search, stood>>
    BY CellsAreNat DEF Create, SearchTypes
  <1>2. EndIsNull'
    <2>. SUFFICES ASSUME NEW m \in Cells, m >= ObjectCount' PROVE cell'[m] = "null"
      BY DEF EndIsNull
    <2>1. m \in Nat
      BY CellsAreNat
    <2>2. m >= ObjectCount /\ m # n
      BY <1>1, <2>1
    <2>. QED
      BY <1>1, <2>2 DEF EndIsNull
  <1>3. StillStands'
    <2>. SUFFICES ASSUME NEW u \in Users, NEW m \in stood[u] PROVE cell'[m] = "wanted"
      BY <1>1 DEF StillStands
    <2>1. cell[m] = "wanted"
      BY DEF StillStands
    <2>2. cell'[m] = cell[m]
      BY <1>1, <2>1 DEF Create, SearchTypes
    <2>. QED
      BY <2>1, <2>2
  <1>. QED
    BY <1>1, <1>2, <1>3 DEF NotBegun, Behind, Compared, Answered, NoneTwice, static, search

LEMMA DestroyStep ==
  ASSUME SearchTypes, Parts, NEW n \in Cells, Destroy(n)
  PROVE  Parts'
  <1> USE DEF Parts
  <1>1. /\ \A m \in Cells : m # n => cell'[m] = cell[m]
        /\ cell'[n] = "null"
        /\ \A u \in Users : /\ stood'[u] = stood[u] \ {n}
                            /\ freed'[u] = (freed[u] \/ (at[u] = "comparing" /\ held[u] = n))
        /\ UNCHANGED <<NewGObjectsPointer, ObjectCount, static, at, kind, i, bound, held, found>>
    BY DEF Destroy, SearchTypes
  <1>2. EndIsNull'
    BY <1>1 DEF EndIsNull
  <1>3. StillStands'
    <2>. SUFFICES ASSUME NEW u \in Users, NEW m \in stood[u], m # n PROVE cell'[m] = "wanted"
      BY <1>1 DEF StillStands
    <2>. QED
      BY DEF StillStands, Destroy, SearchTypes
  <1>4. Compared'
    BY <1>1 DEF Compared
  <1>5. Behind'
    BY <1>1 DEF Behind
  <1>6. (NotBegun /\ Answered /\ NoneTwice)'
    BY <1>1 DEF NotBegun, Answered, NoneTwice, static
  <1>. QED
    BY <1>2, <1>3, <1>4, <1>5, <1>6

LEMMA PartsStep == TypeOK /\ Parts /\ [Next]_vars => Parts'
<1>. SUFFICES ASSUME TypeOK, Parts, [Next]_vars PROVE Parts'
  OBVIOUS
<1>0. SearchTypes
  BY TypesOfSearch
<1>1. ASSUME NEW u \in Users, NEW k \in Kinds, Search(u, k) PROVE Parts'
  BY <1>0, <1>1, StartStep DEF Search, static
<1>2. ASSUME NEW u \in Users, InitialiseStatic(u) PROVE Parts'
  <2>1. "static" \in Kinds
    BY DEF Kinds
  <2>. QED
    BY <1>0, <1>2, <2>1, StartStep DEF InitialiseStatic
<1>3. CASE UNCHANGED vars
  BY <1>3 DEF Parts, EndIsNull, StillStands, NotBegun, Behind, Compared, Answered, NoneTwice,
    vars, array, static, search
<1>. QED
  BY <1>0, <1>1, <1>2, <1>3, WaitStep, TakeStaticStep, FetchStep, CompareStep, EndOfArrayStep,
    WalkFreedStep, CreateStep, DestroyStep DEF Next, User, Engine

THEOREM Invariance == Spec => [](TypeOK /\ Parts)
<1>1. TypeOK /\ Parts /\ [Next]_vars => TypeOK' /\ Parts'
  BY TypeStep, PartsStep
<1>. QED
  BY <1>1, TypeInit, PartsInit, PTL DEF Spec

(* The loops and the array stay in their types.                            *)
THEOREM TypeCorrect == Spec => []TypeOK
<1>. QED
  BY Invariance, PTL

(* Whatever is created and destroyed during a search, it overlooks no      *)
(* visible object that stood all along, and collects none twice.           *)
THEOREM NothingIsOverlooked == Spec => []SearchesComplete
<1>1. TypeOK /\ Parts => SearchesComplete
  <2>. SUFFICES ASSUME TypeOK, Parts, NEW u \in Users, at[u] = "answered"
                PROVE  /\ \A n \in stood[u] : Visible(n) =>
                            IF kind[u] = "all" THEN Among(u, n) ELSE Before(u, n)
                       /\ \A k, l \in DOMAIN found[u] : found[u][k] = found[u][l] => k = l
    BY DEF SearchesComplete
  <2>1. ASSUME NEW n \in stood[u], Visible(n)
        PROVE  IF kind[u] = "all" THEN Among(u, n) ELSE Before(u, n)
    <3>1. n \in Nat
      BY CellsAreNat DEF TypeOK
    <3>2. PICK j \in Nat : Place(j) = n
      BY <3>1, <2>1, VisiblePlace
    <3>3. PlaceIn(NewGObjectsPointer, j) = n
      BY <3>2, PlaceIs
    <3>. QED
      BY <3>3 DEF Parts, Answered, Has, HasUpTo, Among, Before
  <2>. QED
    BY <2>1 DEF Parts, NoneTwice, Distinct
<1>. QED
  BY Invariance, <1>1, PTL

(* In an engine with chunks no two ids name the same cell, and every cell  *)
(* is named by one but the first of each chunk after the first.            *)
THEOREM IdsNameCells ==
  ASSUME NEW n \in Nat
  PROVE  /\ Visible(n) <=> \E id \in Nat : Place(id) = n
         /\ \A id, j \in Nat : Place(id) = n /\ Place(j) = n => id = j
<1>1. ASSUME NEW id \in Nat, NEW j \in Nat, Place(id) = Place(j) PROVE id = j
  <2>1. id < j \/ id = j \/ j < id
    OBVIOUS
  <2>2. id < j => Place(id) < Place(j)
    BY PlacesIncrease, PlaceIs
  <2>3. j < id => Place(j) < Place(id)
    BY PlacesIncrease, PlaceIs
  <2>4. Place(id) \in Nat
    BY PlaceIs
  <2>. QED
    BY <1>1, <2>1, <2>2, <2>3, <2>4
<1>2. ASSUME NEW id \in Nat, Place(id) = n PROVE Visible(n)
  <2>. SUFFICES ASSUME NewGObjectsPointer, n >= ChunkCells, n % ChunkCells = 0 PROVE FALSE
    BY DEF Visible
  <2> DEFINE k == n \div ChunkCells  c == ChunkIndex(id)
  <2>1. /\ ChunkSize \in Nat /\ ChunkSize > 0 /\ ChunkCells = ChunkSize + 1
    BY ArrayAssumption DEF ChunkCells
  <2>2. k \in Nat /\ n = ChunkCells * k
    BY <2>1, Division
  <2>3. /\ c \in Nat
        /\ (id = 0 /\ c = 0) \/ ChunkSize * c < id
        /\ id <= ChunkSize * c + ChunkSize
    BY Chunk
  <2>4. n = id + c
    BY <1>2, PlaceIs DEF PlaceIn
  <2> HIDE DEF k, c
  <2>5. ChunkCells * c = ChunkSize * c + c /\ ChunkSize * c \in Nat
    BY <2>1, <2>3
  <2>6. k <= c \/ ChunkCells * c + ChunkCells <= ChunkCells * k
    BY <2>1, <2>2, <2>3, Products
  <2>7. c < k => ChunkCells * c + ChunkCells <= n
    BY <2>6, <2>2, <2>3
  <2>8. n < ChunkCells * c + ChunkCells
    BY <2>1, <2>3, <2>4, <2>5
  <2>9. k <= c
    BY <2>2, <2>3, <2>7, <2>8, <2>1, <2>5
  <2>10. ChunkCells * k <= ChunkCells * c
    BY <2>1, <2>2, <2>3, <2>9, Products
  <2>. QED
    BY <2>1, <2>2, <2>3, <2>4, <2>5, <2>10
<1>. QED
  BY <1>1, <1>2, VisiblePlace

=============================================================================

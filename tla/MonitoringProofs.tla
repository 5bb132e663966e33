-------------------------- MODULE MonitoringProofs --------------------------
(***************************************************************************)
(* Proofs about Monitoring, for any finite set of samples and whether or   *)
(* not Redis fails.                                                        *)
(***************************************************************************)
EXTENDS Monitoring, FiniteSetTheorems, SequenceTheorems, TLAPS

-----------------------------------------------------------------------------
(***************************************************************************)
(* Backing arrays: what a write to one of them leaves of all.              *)
(***************************************************************************)

Cell == Samples \cup {Blank}

\* An array that is written over keeps its length, and the others are as before.
LEMMA Rewritten ==
    ASSUME arrays \in Seq(Seq(Cell)), NEW a \in 1..Len(arrays),
           NEW t \in Seq(Cell), Len(t) = Len(arrays[a]), arrays' = [arrays EXCEPT ![a] = t]
    PROVE  /\ arrays' \in Seq(Seq(Cell)) /\ Len(arrays') = Len(arrays)
           /\ arrays'[a] = t
           /\ \A b \in 1..Len(arrays) : b # a => arrays'[b] = arrays[b]
           /\ \A b \in 1..Len(arrays) : Len(arrays'[b]) = Len(arrays[b])
  <1>1. arrays' \in Seq(Seq(Cell)) /\ Len(arrays') = Len(arrays)
        /\ \A b \in 1..Len(arrays) : arrays'[b] = IF b = a THEN t ELSE arrays[b]
    BY ExceptSeq
  <1> QED BY <1>1

-----------------------------------------------------------------------------
(***************************************************************************)
(* What a header shows: cells that were written by appends that are done.  *)
(***************************************************************************)

Held == {x \in Samples : stage[x] = "stored"}

\* a slice of one of the arrays that shows no more elements than there are in
\* held, each of them one of these
Shows(arrs, held, s) ==
    /\ s \in [arr : 0..Len(arrs), len : 0..Cardinality(held)]
    /\ s.len > 0 => s.arr # 0 /\ s.len <= Len(arrs[s.arr])
    /\ \A k \in 1..s.len : arrs[s.arr][k] \in held

Shown(s) == Shows(arrays, Held, s)

Steps == {"idle", "connect", "visit", "hmset", "sadd", "remove", "panic"}

\* the parts of TypeOK that say nothing of headers
Typed ==
    /\ arrays \in Seq(Seq(Cell))
    /\ stage \in [Samples -> Stages]
    /\ pc \in Steps
    /\ i \in 0..Cardinality(Samples) /\ monitor \in Cell
    /\ old \subseteq Samples /\ hashes \subseteq Cell /\ index \subseteq Cell
    /\ begun \in Seq(Samples) /\ overlapped \in BOOLEAN

\* every header in use shows only what was appended, and none is used once
\* accesses have overlapped
Headers ==
    /\ Shown(slice)
    /\ IF overlapped THEN slice = Nil ELSE Shown(ranged)

\* how far the flush is with the element it visits
Loop ==
    /\ ~overlapped /\ pc \in {"hmset", "sadd", "remove"} => i < ranged.len
    /\ ~overlapped /\ pc = "hmset" => monitor \in old
    /\ pc = "sadd" => monitor \in hashes
    /\ index \subseteq hashes

TypeInv == Typed /\ Headers /\ Loop

\* The samples held are no more than all of them.
LEMMA HeldIsBounded ==
    IsFiniteSet(Held) /\ Cardinality(Held) \in Nat /\ Cardinality(Samples) \in Nat
      /\ Cardinality(Held) <= Cardinality(Samples)
  BY SamplesAreFinite, FS_Subset, FS_CardinalityType DEF Held

\* the first places of something that holds values of S there
LEMMA Prefix ==
    ASSUME NEW S, NEW c, NEW l \in Nat, \A k \in 1..l : c[k] \in S
    PROVE  /\ SubSeq(c, 1, l) \in Seq(S) /\ Len(SubSeq(c, 1, l)) = l
           /\ \A k \in 1..l : SubSeq(c, 1, l)[k] = c[k]
  <1>1. SubSeq(c, 1, l) \in Seq(S)
    BY SubSeqProperties
  <1>2. Len(SubSeq(c, 1, l)) = l
    BY SubSeqProperties
  <1>3. \A k \in 1..l : SubSeq(c, 1, l)[k] = c[k]
    BY SubSeqProperties
  <1> QED BY <1>1, <1>2, <1>3

\* A slice that shows something shows the cells of its array.
LEMMA ShownCells ==
    ASSUME arrays \in Seq(Seq(Cell)), NEW s, Shown(s)
    PROVE  /\ s = [arr |-> s.arr, len |-> s.len] /\ s.arr \in 0..Len(arrays) /\ s.len \in Nat
           /\ s.len <= Len(Cells(s.arr)) /\ Len(arrays) \in Nat /\ Len(Cells(s.arr)) \in Nat
           /\ s.len <= Cardinality(Held) /\ s.len <= Cardinality(Samples)
           /\ \A k \in 1..s.len : Cells(s.arr)[k] \in Held /\ Elements(s)[k] = Cells(s.arr)[k]
           /\ Elements(s) \in Seq(Samples) /\ Len(Elements(s)) = s.len
  <1>1. /\ s = [arr |-> s.arr, len |-> s.len] /\ s.arr \in 0..Len(arrays) /\ s.len \in Nat
        /\ Len(arrays) \in Nat
        /\ s.len <= Cardinality(Held) /\ s.len <= Cardinality(Samples)
    BY HeldIsBounded DEF Shown, Shows
  <1>2. s.len <= Len(Cells(s.arr)) /\ Len(Cells(s.arr)) \in Nat
    <2>1. CASE s.arr = 0
      BY <2>1, <1>1 DEF Shown, Shows, Cells
    <2>2. CASE s.arr # 0
      <3>1. arrays[s.arr] \in Seq(Cell)
        BY <1>1, <2>2
      <3> QED BY <3>1, <2>2, <1>1 DEF Shown, Shows, Cells
    <2> QED BY <2>1, <2>2
  <1>3. \A k \in 1..s.len : Cells(s.arr)[k] \in Held
    BY <1>1 DEF Shown, Shows, Cells
  <1>4. \A k \in 1..s.len : Cells(s.arr)[k] \in Samples
    BY <1>3 DEF Held
  <1>5. /\ Elements(s) \in Seq(Samples) /\ Len(Elements(s)) = s.len
        /\ \A k \in 1..s.len : Elements(s)[k] = Cells(s.arr)[k]
    <2> DEFINE c == Cells(s.arr)
               l == s.len
    <2>1. l \in Nat /\ \A k \in 1..l : c[k] \in Samples
      BY <1>1, <1>4
    <2>2. Elements(s) = SubSeq(c, 1, l)
      BY DEF Elements
    <2> HIDE DEF c, l
    <2>3. /\ SubSeq(c, 1, l) \in Seq(Samples) /\ Len(SubSeq(c, 1, l)) = l
          /\ \A k \in 1..l : SubSeq(c, 1, l)[k] = c[k]
      BY <2>1, Prefix
    <2> QED BY <2>2, <2>3 DEF c, l
  <1> QED BY <1>1, <1>2, <1>3, <1>5

\* A header that shows held samples is one of TypeOK's.
LEMMA ShownIsWellFormed ==
    ASSUME arrays \in Seq(Seq(Cell)), NEW s, Shown(s)
    PROVE  WellFormed(s)
  BY ShownCells, HeldIsBounded DEF WellFormed, Slices

\* the types, and what TypeInv adds, follow from it
LEMMA TypeInvImplies == TypeInv => TypeOK /\ IndexedHasHash
  <1> SUFFICES ASSUME TypeInv PROVE TypeOK /\ IndexedHasHash
    OBVIOUS
  <1>1. TypeOK
    <2>1. \A a \in 1..Len(arrays) : \A k \in 1..Len(arrays[a]) : arrays[a][k] \in Cell
      BY DEF TypeInv, Typed
    <2>2. WellFormed(slice) /\ (~overlapped => WellFormed(ranged))
      BY ShownIsWellFormed DEF TypeInv, Headers, Typed
    <2>3. ~overlapped /\ pc = "hmset" => monitor \in old
      BY DEF TypeInv, Loop
    <2> QED BY <2>1, <2>2, <2>3 DEF TypeInv, Typed, TypeOK, Cell, Steps
  <1> QED BY <1>1 DEF TypeInv, Loop, IndexedHasHash

\* the empty slice shows nothing
LEMMA NilShows ==
    ASSUME NEW arrs, arrs \in Seq(Seq(Cell)), NEW held, IsFiniteSet(held)
    PROVE  Shows(arrs, held, Nil)
  <1>1. Len(arrs) \in Nat /\ Cardinality(held) \in Nat
    BY FS_CardinalityType
  <1> QED BY <1>1 DEF Shows, Nil

\* An access that meets no other leaves memory as it is, and one that does
\* leaves nothing of it.
LEMMA AccessTypes ==
    ASSUME TypeInv, NEW busy, Access(busy), UNCHANGED stage
    PROVE  /\ arrays' \in Seq(Seq(Cell)) /\ overlapped' \in BOOLEAN
           /\ Shown(slice)' /\ (overlapped' => slice' = Nil)
           /\ ~overlapped' => ~overlapped /\ ~busy /\ UNCHANGED <<arrays, slice>>
           /\ Held' = Held
  <1>1. Held' = Held
    BY DEF Held
  <1>2. CASE busy \/ overlapped
    <2>1. overlapped' = TRUE /\ arrays' = <<>> /\ slice' = Nil
      BY <1>2 DEF Access
    <2>2. <<>> \in Seq(Seq(Cell))
      BY EmptySeq
    <2>3. Shows(<<>>, Held, Nil)
      BY <2>2, NilShows, HeldIsBounded
    <2> QED BY <1>1, <2>1, <2>2, <2>3 DEF Shown
  <1>3. CASE ~(busy \/ overlapped)
    <2>1. UNCHANGED <<arrays, slice, overlapped>>
      BY <1>3 DEF Access, memory
    <2> QED BY <1>1, <1>3, <2>1 DEF TypeInv, Typed, Headers, Shown
  <1> QED BY <1>2, <1>3

\* cells only change to held samples, arrays only become more and samples stay
\* held
Grew(arrs, H, more, G) ==
    /\ arrs \in Seq(Seq(Cell)) /\ more \in Seq(Seq(Cell)) /\ Len(arrs) <= Len(more)
    /\ IsFiniteSet(G) /\ H \subseteq G
    /\ \A a \in 1..Len(arrs) : Len(more[a]) = Len(arrs[a])
    /\ \A a \in 1..Len(arrs) : \A k \in 1..Len(arrs[a]) :
          more[a][k] = arrs[a][k] \/ more[a][k] \in G

\* A slice then goes on showing held samples.
LEMMA ShowsOn ==
    ASSUME NEW arrs, NEW more, NEW H, NEW G, Grew(arrs, H, more, G), NEW s, Shows(arrs, H, s)
    PROVE  Shows(more, G, s)
  <1>0. /\ arrs \in Seq(Seq(Cell)) /\ more \in Seq(Seq(Cell)) /\ Len(arrs) <= Len(more)
        /\ IsFiniteSet(G) /\ H \subseteq G
        /\ \A a \in 1..Len(arrs) : Len(more[a]) = Len(arrs[a])
        /\ \A a \in 1..Len(arrs) : \A k \in 1..Len(arrs[a]) :
              more[a][k] = arrs[a][k] \/ more[a][k] \in G
    BY DEF Grew
  <1>1. Cardinality(H) <= Cardinality(G) /\ Cardinality(H) \in Nat /\ Cardinality(G) \in Nat
    BY <1>0, FS_Subset, FS_CardinalityType
  <1>2. Len(arrs) \in Nat /\ Len(more) \in Nat
    BY <1>0
  <1>3. s \in [arr : 0..Len(more), len : 0..Cardinality(G)] /\ s.arr \in 0..Len(arrs) /\ s.len \in Nat
    BY <1>0, <1>1, <1>2 DEF Shows
  <1>4. CASE s.len = 0
    BY <1>3, <1>4 DEF Shows
  <1>5. CASE s.len > 0
    <2>1. s.arr \in 1..Len(arrs) /\ s.len <= Len(arrs[s.arr]) /\ Len(arrs[s.arr]) \in Nat
      <3>1. s.arr \in 1..Len(arrs) /\ s.len <= Len(arrs[s.arr])
        BY <1>2, <1>3, <1>5 DEF Shows
      <3>2. arrs[s.arr] \in Seq(Cell)
        BY <1>0, <3>1
      <3> QED BY <3>1, <3>2
    <2>2. ASSUME NEW k \in 1..s.len PROVE more[s.arr][k] \in G
      <3>1. k \in 1..Len(arrs[s.arr]) /\ arrs[s.arr][k] \in G
        BY <1>0, <1>3, <2>1 DEF Shows
      <3> QED BY <1>0, <2>1, <3>1
    <2> QED BY <1>0, <1>3, <2>1, <2>2 DEF Shows
  <1> QED BY <1>3, <1>4, <1>5

\* An append by itself holds one sample more: the header it stores shows it, and
\* all others go on showing held samples, whichever array they share with it.
LEMMA AppendShows ==
    ASSUME TypeInv, NEW x \in Samples, EndAppend(x), ~overlapped
    PROVE  /\ arrays' \in Seq(Seq(Cell))
           /\ \A s : Shown(s) => Shows(arrays', Held', s)
           /\ Shows(arrays', Held', slice')
           /\ slice'.len = slice.len + 1
  <1> DEFINE s == slice
  <1>1. /\ Typed /\ Shown(s) /\ stage[x] = "append"
        /\ stage' = [stage EXCEPT ![x] = "stored"]
        /\ arrays \in Seq(Seq(Cell)) /\ Len(arrays) \in Nat
    BY DEF TypeInv, Typed, Headers, EndAppend, Advance
  <1>2. Held' = Held \cup {x} /\ x \notin Held
    BY <1>1 DEF Held, Typed
  <1>3. /\ IsFiniteSet(Held') /\ Held \subseteq Held'
        /\ Cardinality(Held) \in Nat /\ Cardinality(Held') = Cardinality(Held) + 1
    BY <1>2, HeldIsBounded, FS_AddElement
  <1>4. /\ s = [arr |-> s.arr, len |-> s.len] /\ s.arr \in 0..Len(arrays) /\ s.len \in Nat
        /\ s.len <= Len(Cells(s.arr)) /\ Len(Cells(s.arr)) \in Nat
        /\ s.len <= Cardinality(Held)
        /\ \A k \in 1..s.len : Cells(s.arr)[k] \in Held
    BY <1>1, ShownCells
  <1>5. CASE Room(s)
    <2>1. s.arr \in 1..Len(arrays) /\ s.len + 1 \in 1..Len(arrays[s.arr])
      <3>1. s.arr # 0
        BY <1>5, <1>4 DEF Room, Cells
      <3> QED BY <3>1, <1>4, <1>5 DEF Room, Cells
    <2> DEFINE t == [arrays[s.arr] EXCEPT ![s.len + 1] = x]
    <2>2. arrays' = [arrays EXCEPT ![s.arr] = t] /\ slice' = [s EXCEPT !.len = @ + 1]
      BY <1>5 DEF EndAppend
    <2>3. /\ t \in Seq(Cell) /\ Len(t) = Len(arrays[s.arr])
          /\ \A k \in 1..Len(arrays[s.arr]) : t[k] = IF k = s.len + 1 THEN x ELSE arrays[s.arr][k]
      <3>1. arrays[s.arr] \in Seq(Cell) /\ x \in Cell
        BY <1>1, <2>1 DEF Cell
      <3> QED BY <3>1, <2>1, ExceptSeq
    <2> HIDE DEF t
    <2>4. /\ arrays' \in Seq(Seq(Cell)) /\ Len(arrays') = Len(arrays) /\ arrays'[s.arr] = t
          /\ \A b \in 1..Len(arrays) : b # s.arr => arrays'[b] = arrays[b]
          /\ \A b \in 1..Len(arrays) : Len(arrays'[b]) = Len(arrays[b])
      BY <1>1, <2>1, <2>2, <2>3, Rewritten
    <2>5. ASSUME NEW b \in 1..Len(arrays), NEW k \in 1..Len(arrays[b])
          PROVE  arrays'[b][k] = arrays[b][k] \/ arrays'[b][k] \in Held'
      <3>1. CASE b = s.arr
        BY <3>1, <2>3, <2>4, <1>2
      <3>2. CASE b # s.arr
        BY <3>2, <2>4
      <3> QED BY <3>1, <3>2
    <2>6. ASSUME NEW u, Shown(u) PROVE Shows(arrays', Held', u)
      <3>1. Grew(arrays, Held, arrays', Held')
        BY <1>1, <1>3, <2>4, <2>5 DEF Grew
      <3> QED BY <2>6, <3>1, ShowsOn DEF Shown
    <2>7. slice' = [arr |-> s.arr, len |-> s.len + 1]
      BY <2>2, <1>4
    <2>8. ASSUME NEW k \in 1..s.len + 1 PROVE arrays'[s.arr][k] \in Held'
      <3>1. k \in 1..Len(arrays[s.arr])
        BY <1>4, <2>1
      <3>2. CASE k = s.len + 1
        BY <3>1, <3>2, <2>3, <2>4, <1>2
      <3>3. CASE k # s.len + 1
        <4>1. k \in 1..s.len
          BY <3>3, <1>4
        <4>2. arrays'[s.arr][k] = Cells(s.arr)[k]
          BY <3>1, <3>3, <2>1, <2>3, <2>4 DEF Cells
        <4> QED BY <4>1, <4>2, <1>2, <1>4
      <3> QED BY <3>2, <3>3
    <2>9. s.arr \in 0..Len(arrays') /\ s.len + 1 \in 0..Cardinality(Held')
          /\ s.len + 1 <= Len(arrays'[s.arr])
      BY <1>1, <1>3, <1>4, <2>1, <2>3, <2>4
    <2>10. Shows(arrays', Held', slice')
      BY <2>1, <2>7, <2>8, <2>9 DEF Shows
    <2> QED BY <2>4, <2>6, <2>7, <2>10
  <1>6. CASE ~Room(s)
    <2> DEFINE g == Grown(s)
               more == [k \in 1..g |-> CASE k <= s.len    -> Cells(s.arr)[k]
                                          [] k = s.len + 1 -> x
                                          [] OTHER         -> Blank]
    <2>1. /\ arrays' = Append(arrays, more)
          /\ slice' = [arr |-> Len(arrays) + 1, len |-> s.len + 1]
      BY <1>6 DEF EndAppend
    <2>2. g \in Nat /\ g >= s.len + 1
      BY <1>4 DEF Grown
    <2>3. /\ \A k \in 1..s.len : more[k] = Cells(s.arr)[k]
          /\ more[s.len + 1] = x
      BY <1>4, <2>2
    <2>4. more \in Seq(Cell) /\ Len(more) = g
      <3>1. \A k \in 1..g : more[k] \in Cell
        BY <1>4 DEF Cell, Held
      <3>2. more \in [1..g -> Cell]
        BY <3>1
      <3> HIDE DEF more
      <3> QED BY <3>2, <2>2
    <2> HIDE DEF more, g
    <2>5. /\ arrays' \in Seq(Seq(Cell)) /\ Len(arrays') = Len(arrays) + 1
          /\ \A b \in 1..Len(arrays) : arrays'[b] = arrays[b]
          /\ arrays'[Len(arrays) + 1] = more
      BY <1>1, <2>1, <2>4, AppendProperties
    <2>6. ASSUME NEW u, Shown(u) PROVE Shows(arrays', Held', u)
      <3>1. Grew(arrays, Held, arrays', Held')
        BY <1>1, <1>3, <2>5 DEF Grew
      <3> QED BY <2>6, <3>1, ShowsOn DEF Shown
    <2>7. ASSUME NEW k \in 1..s.len + 1 PROVE more[k] \in Held'
      <3>1. CASE k = s.len + 1
        BY <3>1, <2>3, <1>2
      <3>2. CASE k # s.len + 1
        <4>1. k \in 1..s.len
          BY <3>2, <1>4
        <4> QED BY <4>1, <2>3, <1>2, <1>4
      <3> QED BY <3>1, <3>2
    <2>8. s.len + 1 \in 0..Cardinality(Held') /\ s.len + 1 <= Len(more)
          /\ Len(arrays) + 1 \in 0..Len(arrays')
      BY <1>1, <1>3, <1>4, <2>2, <2>4, <2>5
    <2>9. Shows(arrays', Held', slice')
      BY <1>1, <2>1, <2>5, <2>7, <2>8 DEF Shows
    <2> QED BY <2>1, <2>5, <2>6, <2>9
  <1> QED BY <1>5, <1>6

\* A removal in range moves held samples to cells of the same array, so every
\* header goes on showing held samples, although not the same ones.
LEMMA RemovalShows ==
    ASSUME TypeInv, i < slice.len, arrays' = Shifted(i), UNCHANGED stage
    PROVE  /\ slice.arr \in 1..Len(arrays) /\ slice.len <= Len(arrays[slice.arr])
           /\ arrays' \in Seq(Seq(Cell)) /\ Len(arrays') = Len(arrays)
           /\ Len(arrays'[slice.arr]) = Len(arrays[slice.arr])
           /\ \A j \in 1..Len(arrays[slice.arr]) : arrays'[slice.arr][j] =
                 IF i + 1 <= j /\ j <= slice.len - 1 THEN arrays[slice.arr][j + 1]
                 ELSE arrays[slice.arr][j]
           /\ \A s : Shown(s) => Shows(arrays', Held', s)
           /\ Shows(arrays', Held', [slice EXCEPT !.len = @ - 1])
  <1> DEFINE a == slice.arr
             t == [j \in 1..Len(arrays[a]) |-> IF j \in (i + 1)..(slice.len - 1)
                                              THEN arrays[a][j + 1] ELSE arrays[a][j]]
  <1>1. /\ Shown(slice) /\ i \in Nat /\ arrays \in Seq(Seq(Cell)) /\ Len(arrays) \in Nat
        /\ Held' = Held
    BY HeldIsBounded DEF TypeInv, Typed, Headers, Held
  <1>2. /\ slice = [arr |-> a, len |-> slice.len] /\ a \in 0..Len(arrays) /\ slice.len \in Nat
        /\ slice.len <= Len(Cells(a)) /\ slice.len <= Cardinality(Held)
        /\ \A k \in 1..slice.len : Cells(a)[k] \in Held
    BY <1>1, ShownCells
  <1>3. a \in 1..Len(arrays) /\ slice.len <= Len(arrays[a]) /\ arrays[a] \in Seq(Cell)
        /\ Len(arrays[a]) \in Nat
    <2>1. a # 0
      BY <1>1, <1>2 DEF Cells
    <2> QED BY <1>1, <1>2, <2>1 DEF Cells
  <1>4. \A k \in 1..slice.len : arrays[a][k] \in Held
    BY <1>2, <1>3 DEF Cells
  <1>5. ASSUME NEW j \in 1..Len(arrays[a])
        PROVE  /\ t[j] = arrays[a][j] \/ t[j] \in Held
               /\ t[j] = IF i + 1 <= j /\ j <= slice.len - 1 THEN arrays[a][j + 1]
                         ELSE arrays[a][j]
               /\ t[j] \in Cell
    <2>0. arrays[a][j] \in Cell
      BY <1>3
    <2>1. CASE j \in (i + 1)..(slice.len - 1)
      <3>1. j + 1 \in 1..slice.len /\ t[j] = arrays[a][j + 1]
        BY <1>1, <1>2, <2>1
      <3> QED BY <2>1, <3>1, <1>1, <1>2, <1>4 DEF Held, Cell
    <2>2. CASE j \notin (i + 1)..(slice.len - 1)
      BY <2>0, <2>2, <1>1, <1>2
    <2> QED BY <2>1, <2>2
  <1>6. t \in Seq(Cell) /\ Len(t) = Len(arrays[a])
    <2>1. t \in [1..Len(arrays[a]) -> Cell]
      BY <1>5
    <2> HIDE DEF t
    <2> QED BY <1>3, <2>1
  <1>7. arrays' = [arrays EXCEPT ![a] = t]
    BY <1>3 DEF Shifted
  <1> HIDE DEF t
  <1>8. /\ arrays' \in Seq(Seq(Cell)) /\ Len(arrays') = Len(arrays) /\ arrays'[a] = t
        /\ \A b \in 1..Len(arrays) : b # a => arrays'[b] = arrays[b]
        /\ \A b \in 1..Len(arrays) : Len(arrays'[b]) = Len(arrays[b])
    BY <1>1, <1>3, <1>6, <1>7, Rewritten
  <1>9. ASSUME NEW s, Shown(s) PROVE Shows(arrays', Held', s)
    <2>1. ASSUME NEW b \in 1..Len(arrays), NEW k \in 1..Len(arrays[b])
          PROVE  arrays'[b][k] = arrays[b][k] \/ arrays'[b][k] \in Held
      <3>1. CASE b = a
        BY <3>1, <1>5, <1>8
      <3>2. CASE b # a
        BY <3>2, <1>8
      <3> QED BY <3>1, <3>2
    <2>2. Grew(arrays, Held, arrays', Held')
      BY <1>1, <1>8, <2>1, HeldIsBounded DEF Grew
    <2> QED BY <1>9, <2>2, ShowsOn DEF Shown
  <1>10. Shows(arrays', Held', [slice EXCEPT !.len = @ - 1])
    <2>1. [slice EXCEPT !.len = @ - 1] = [arr |-> a, len |-> slice.len - 1]
      BY <1>2
    <2>2. Shows(arrays', Held', slice)
      BY <1>1, <1>9
    <2>3. \A k \in 1..slice.len - 1 : arrays'[a][k] \in Held'
      BY <1>2, <2>2 DEF Shows
    <2>4. slice.len - 1 \in 0..Cardinality(Held') /\ slice.len - 1 <= Len(arrays'[a])
          /\ a \in 0..Len(arrays') /\ a # 0
      BY <1>1, <1>2, <1>3, <1>8, HeldIsBounded
    <2> QED BY <2>1, <2>3, <2>4 DEF Shows
  <1> QED BY <1>3, <1>5, <1>8, <1>9, <1>10

\* Initially nothing is held, and every header is nil.
LEMMA InitTypes == Init => TypeInv
  <1> SUFFICES ASSUME Init PROVE TypeInv
    OBVIOUS
  <1>1. <<>> \in Seq(Seq(Cell)) /\ <<>> \in Seq(Samples)
    BY EmptySeq
  <1>2. Shows(<<>>, Held, Nil)
    BY <1>1, NilShows, HeldIsBounded
  <1>3. Headers
    BY <1>2 DEF Init, Headers, Shown
  <1>4. Typed
    <2>1. 0 \in 0..Cardinality(Samples)
      BY HeldIsBounded
    <2> QED BY <1>1, <2>1 DEF Init, Typed, Stages, Steps, Cell
  <1> QED BY <1>3, <1>4 DEF Init, TypeInv, Loop

\* Every step keeps the types, the headers and the place in the loop.
LEMMA NextTypes == TypeInv /\ [Next]_vars => TypeInv'
  <1> SUFFICES ASSUME TypeInv, [Next]_vars PROVE TypeInv'
    OBVIOUS
  <1> USE DEF memory, loop, redis
  <1>a. Typed /\ Headers /\ Loop
    BY DEF TypeInv
  <1>b. Cardinality(Samples) \in Nat /\ i \in Nat /\ <<>> \in Seq(Samples)
    BY <1>a, HeldIsBounded, EmptySeq DEF Typed
  <1>c. /\ Elements(slice) \in Seq(Samples) /\ slice.len \in Nat
        /\ ~overlapped => /\ \A k \in 1..ranged.len : Cells(ranged.arr)[k] \in Held
                          /\ ranged.len \in Nat /\ ranged.len <= Cardinality(Samples)
    BY <1>a, ShownCells DEF Headers, Typed
  <1>n. Shown(Nil)
    BY <1>a, NilShows, HeldIsBounded DEF Shown, Typed
  <1>1. ASSUME NEW x \in Samples, Stamp(x)
        PROVE  TypeInv'
    <2>1. stage' \in [Samples -> Stages] /\ Held' = Held
      BY <1>a, <1>1 DEF Stamp, Advance, Typed, Stages, Held
    <2>2. Headers'
      BY <1>a, <1>1, <2>1 DEF Stamp, Headers, Shown
    <2>3. Typed' /\ Loop'
      BY <1>a, <1>1, <2>1 DEF Stamp, Typed, Loop
    <2> QED BY <2>2, <2>3 DEF TypeInv
  <1>2. ASSUME NEW x \in Samples, BeginAppend(x)
        PROVE  TypeInv'
    <2>1. stage' \in [Samples -> Stages] /\ Held' = Held
      BY <1>a, <1>2 DEF BeginAppend, Advance, Typed, Stages, Held
    <2>2. CASE Appending # {} \/ Looping \/ overlapped
      <3>1. overlapped' = TRUE /\ arrays' = <<>> /\ slice' = Nil
        BY <1>2, <2>2 DEF BeginAppend, Access
      <3>2. arrays' \in Seq(Seq(Cell)) /\ Shown(slice)'
        <4>1. <<>> \in Seq(Seq(Cell))
          BY EmptySeq
        <4>2. Shows(<<>>, Held, Nil)
          BY <4>1, NilShows, HeldIsBounded
        <4> QED BY <2>1, <3>1, <4>1, <4>2 DEF Shown
      <3>3. Headers'
        BY <3>1, <3>2 DEF Headers
      <3>4. Typed' /\ Loop'
        BY <1>a, <1>2, <2>1, <3>1, <3>2 DEF BeginAppend, Typed, Loop
      <3> QED BY <3>3, <3>4 DEF TypeInv
    <2>3. CASE ~(Appending # {} \/ Looping \/ overlapped)
      <3>1. UNCHANGED <<memory, pc, loop, redis, begun>>
        BY <1>2, <2>3 DEF BeginAppend, Access
      <3>2. Headers'
        BY <1>a, <2>1, <3>1 DEF Headers, Shown
      <3>3. Typed' /\ Loop'
        BY <1>a, <2>1, <3>1 DEF Typed, Loop
      <3> QED BY <3>2, <3>3 DEF TypeInv
    <2> QED BY <2>2, <2>3
  <1>3. ASSUME NEW x \in Samples, EndAppend(x)
        PROVE  TypeInv'
    <2>1. /\ arrays' \in Seq(Seq(Cell)) /\ Shown(slice)'
          /\ overlapped => slice' = Nil
          /\ ~overlapped => Shown(ranged)'
      <3>1. CASE overlapped
        <4>1. UNCHANGED <<arrays, slice>>
          BY <1>3, <3>1 DEF EndAppend
        <4>2. IsFiniteSet(Held')
          <5>1. Held' \subseteq Samples
            BY DEF Held
          <5> QED BY <5>1, SamplesAreFinite, FS_Subset
        <4>3. Shows(arrays, Held', Nil)
          BY <1>a, <4>2, NilShows DEF Typed
        <4> QED BY <1>a, <3>1, <4>1, <4>3 DEF Headers, Typed, Shown
      <3>2. CASE ~overlapped
        <4>1. /\ arrays' \in Seq(Seq(Cell))
              /\ \A s : Shown(s) => Shows(arrays', Held', s)
              /\ Shows(arrays', Held', slice')
          BY <1>3, <3>2, AppendShows
        <4>2. ranged' = ranged
          BY <1>3 DEF EndAppend
        <4> QED BY <1>a, <3>2, <4>1, <4>2 DEF Headers, Shown
      <3> QED BY <3>1, <3>2
    <2>2. stage' \in [Samples -> Stages]
      BY <1>a, <1>3 DEF EndAppend, Advance, Typed, Stages
    <2>3. begun' = <<>> /\ UNCHANGED <<overlapped, pc, loop, redis>>
      BY <1>3 DEF EndAppend
    <2>4. Headers'
      BY <1>a, <2>1, <2>3 DEF Headers, Typed
    <2>5. Typed' /\ Loop'
      BY <1>a, <1>b, <2>1, <2>2, <2>3 DEF Typed, Loop
    <2> QED BY <2>4, <2>5 DEF TypeInv
  <1>4. ASSUME Return, hashes' \in SUBSET Cell, index' \subseteq hashes'
        PROVE  TypeInv'
    <2>1. Headers'
      BY <1>a, <1>4, <1>n DEF Return, Headers, Shown, Held
    <2>2. Typed' /\ Loop'
      BY <1>a, <1>4, <1>b DEF Return, Typed, Loop, Steps, Cell
    <2> QED BY <2>1, <2>2 DEF TypeInv
  <1>5. ASSUME Tick
        PROVE  TypeInv'
    <2>1. /\ arrays' \in Seq(Seq(Cell)) /\ overlapped' \in BOOLEAN
          /\ Shown(slice)' /\ (overlapped' => slice' = Nil)
          /\ ~overlapped' => ~overlapped /\ UNCHANGED <<arrays, slice>>
          /\ Held' = Held
      BY <1>5, AccessTypes DEF Tick
    <2>2. Headers'
      BY <1>a, <1>5, <2>1 DEF Tick, Headers, Shown
    <2>3. Typed' /\ Loop'
      BY <1>a, <1>5, <2>1 DEF Tick, Typed, Loop, Steps
    <2> QED BY <2>2, <2>3 DEF TypeInv
  <1>6. ASSUME BeginLoop
        PROVE  TypeInv'
    <2>1. CASE Return /\ UNCHANGED redis
      BY <1>a, <1>4, <2>1 DEF Typed, Loop
    <2>2. CASE /\ Access(Appending # {})
               /\ pc' = "visit" /\ ranged' = slice' /\ i' = 0
               /\ begun' = Elements(slice')
               /\ UNCHANGED <<stage, monitor, old, redis>>
      <3>1. /\ arrays' \in Seq(Seq(Cell)) /\ overlapped' \in BOOLEAN
            /\ Shown(slice)' /\ (overlapped' => slice' = Nil)
            /\ ~overlapped' => ~overlapped /\ UNCHANGED <<arrays, slice>>
        BY <2>2, AccessTypes
      <3>2. Headers'
        BY <2>2, <3>1 DEF Headers, Shown
      <3>3. begun' \in Seq(Samples)
        <4>1. CASE overlapped'
          BY <1>b, <2>2, <3>1, <4>1, SubSeqEmpty DEF Elements, Nil, Cells
        <4>2. CASE ~overlapped'
          BY <1>c, <2>2, <3>1, <4>2
        <4> QED BY <4>1, <4>2
      <3>4. Typed' /\ Loop'
        BY <1>a, <1>b, <2>2, <3>1, <3>3 DEF Typed, Loop, Steps
      <3> QED BY <3>2, <3>4 DEF TypeInv
    <2> QED BY <1>6, <2>1, <2>2 DEF BeginLoop
  <1>7. ASSUME Visit
        PROVE  TypeInv'
    <2> DEFINE m == Cells(ranged.arr)[i + 1]
    <2>0. ~overlapped /\ UNCHANGED redis /\ (i < ranged.len => m \in Samples)
      BY <1>7, <1>b, <1>c DEF Held, Visit
    <2>1. CASE Return
      BY <1>a, <1>4, <2>0, <2>1 DEF Typed, Loop
    <2>2. CASE /\ i < ranged.len /\ i' = i + 1
               /\ UNCHANGED <<memory, stage, pc, ranged, monitor, old, begun>>
      <3>1. Headers'
        BY <1>a, <2>2 DEF Headers, Shown, Held
      <3>2. i' \in 0..Cardinality(Samples)
        BY <1>b, <1>c, <2>0, <2>2
      <3>3. Typed' /\ Loop'
        BY <1>a, <1>7, <2>0, <2>2, <3>2 DEF Typed, Loop, Visit
      <3> QED BY <3>1, <3>3 DEF TypeInv
    <2>3. CASE /\ i < ranged.len /\ Older(m) /\ monitor' = m /\ pc' = "hmset"
               /\ UNCHANGED <<memory, stage, ranged, i, old, begun>>
      <3>1. Headers'
        BY <1>a, <2>3 DEF Headers, Shown, Held
      <3>2. Typed' /\ Loop'
        BY <1>a, <2>0, <2>3 DEF Typed, Loop, Steps, Cell, Older
      <3> QED BY <3>1, <3>2 DEF TypeInv
    <2> QED BY <1>7, <2>1, <2>2, <2>3 DEF Visit
  <1>8. ASSUME Hmset
        PROVE  TypeInv'
    <2>0. WithHash(monitor) \subseteq Cell /\ index \subseteq WithHash(monitor)
          /\ hashes \subseteq Cell
      BY <1>a DEF Typed, Loop, WithHash
    <2>1. CASE Return
      <3>1. UNCHANGED index /\ hashes' \in {hashes, WithHash(monitor)}
        BY <1>8, <2>1 DEF Hmset, Return
      <3> QED BY <1>a, <1>4, <2>0, <2>1, <3>1 DEF Loop
    <2>2. CASE /\ hashes' = WithHash(monitor) /\ pc' = "sadd"
               /\ UNCHANGED <<memory, stage, loop, begun, index>>
      <3>1. Headers'
        BY <1>a, <2>2 DEF Headers, Shown, Held
      <3>2. Typed' /\ Loop'
        BY <1>a, <1>8, <2>0, <2>2 DEF Typed, Loop, Hmset, Steps, WithHash
      <3> QED BY <3>1, <3>2 DEF TypeInv
    <2> QED BY <1>8, <2>1, <2>2 DEF Hmset
  <1>9. ASSUME Sadd
        PROVE  TypeInv'
    <2>1. CASE Return
      <3>1. index' \subseteq index \cup {monitor} /\ UNCHANGED hashes /\ pc = "sadd"
        BY <1>9, <2>1 DEF Sadd, Return
      <3> QED BY <1>a, <1>4, <2>1, <3>1 DEF Typed, Loop
    <2>2. CASE /\ index' = index \cup {monitor} /\ pc' = "remove"
               /\ Access(Appending # {})
               /\ UNCHANGED <<stage, loop, hashes, begun>>
      <3>1. /\ arrays' \in Seq(Seq(Cell)) /\ overlapped' \in BOOLEAN
            /\ Shown(slice)' /\ (overlapped' => slice' = Nil)
            /\ ~overlapped' => ~overlapped /\ UNCHANGED <<arrays, slice>>
            /\ Held' = Held
        BY <2>2, AccessTypes
      <3>2. Headers'
        BY <1>a, <2>2, <3>1 DEF Headers, Shown
      <3>3. Typed' /\ Loop'
        BY <1>a, <1>9, <2>2, <3>1 DEF Typed, Loop, Sadd, Steps
      <3> QED BY <3>2, <3>3 DEF TypeInv
    <2> QED BY <1>9, <2>1, <2>2 DEF Sadd
  <1>10. ASSUME Remove
         PROVE  TypeInv'
    <2>0. /\ pc = "remove" /\ ~overlapped /\ i < ranged.len
          /\ UNCHANGED <<overlapped, stage, ranged, monitor, old, redis, begun>>
      BY <1>a, <1>10 DEF Remove, Loop
    <2>1. CASE /\ slice' = Nil \/ slice' = slice
               /\ UNCHANGED arrays /\ pc' \in {"visit", "panic"} /\ i' \in {i, i + 1}
      <3>1. Headers'
        BY <1>a, <1>n, <2>0, <2>1 DEF Headers, Shown, Held
      <3>2. i' \in 0..Cardinality(Samples)
        BY <1>b, <1>c, <2>0, <2>1
      <3>3. Typed' /\ Loop'
        BY <1>a, <2>0, <2>1, <3>2 DEF Typed, Loop, Steps
      <3> QED BY <3>1, <3>3 DEF TypeInv
    <2>2. CASE /\ i < slice.len /\ arrays' = Shifted(i)
               /\ slice' = [slice EXCEPT !.len = @ - 1]
               /\ pc' = "visit" /\ i' = i + 1
      <3>1. /\ arrays' \in Seq(Seq(Cell))
            /\ \A s : Shown(s) => Shows(arrays', Held', s)
            /\ Shows(arrays', Held', slice')
        BY <2>0, <2>2, RemovalShows
      <3>2. Headers'
        BY <1>a, <2>0, <3>1 DEF Headers, Shown
      <3>3. i' \in 0..Cardinality(Samples)
        BY <1>b, <1>c, <2>0, <2>2
      <3>4. Typed' /\ Loop'
        BY <1>a, <2>0, <2>2, <3>1, <3>3 DEF Typed, Loop, Steps
      <3> QED BY <3>2, <3>4 DEF TypeInv
    <2> QED BY <1>10, <2>1, <2>2 DEF Remove
  <1>11. ASSUME Astray
         PROVE  TypeInv'
    <2>0. overlapped /\ UNCHANGED redis
      BY <1>11 DEF Astray
    <2>1. CASE Return
      BY <1>a, <1>4, <2>0, <2>1 DEF Typed, Loop
    <2>2. CASE /\ pc' = "hmset" /\ monitor' \in Samples \cup {Blank}
               /\ ranged' = Nil /\ i' = 0 /\ old' = {} /\ begun' = <<>>
               /\ UNCHANGED <<memory, stage>>
      <3>1. Headers'
        BY <1>a, <2>0, <2>2 DEF Headers, Shown, Held
      <3>2. Typed' /\ Loop'
        BY <1>a, <1>b, <2>0, <2>2 DEF Typed, Loop, Steps, Cell
      <3> QED BY <3>1, <3>2 DEF TypeInv
    <2>3. CASE pc' = "panic" /\ UNCHANGED <<memory, stage, loop, begun>>
      <3>1. Headers'
        BY <1>a, <2>0, <2>3 DEF Headers, Shown, Held
      <3>2. Typed' /\ Loop'
        BY <1>a, <2>0, <2>3 DEF Typed, Loop, Steps
      <3> QED BY <3>1, <3>2 DEF TypeInv
    <2> QED BY <1>11, <2>1, <2>2, <2>3 DEF Astray
  <1>12. ASSUME UNCHANGED vars
         PROVE  TypeInv'
    BY <1>a, <1>12 DEF vars, TypeInv, Typed, Headers, Shown, Held, Loop
  <1> QED BY <1>1, <1>2, <1>3, <1>5, <1>6, <1>7, <1>8, <1>9, <1>10, <1>11, <1>12 DEF Next

\* Every reachable state has the types of TypeOK, and more.
LEMMA TypesHold == Spec => []TypeInv
  BY InitTypes, NextTypes, PTL DEF Spec

\* Every header lies within its array and shows no more than the samples there
\* are, in whatever order appends and the flush use memory one after the other.
THEOREM TypeCorrectness == Spec => []TypeOK
  BY TypeInvImplies, TypesHold, PTL

\* Every pointer in the index of Redis has its hash, whichever command fails.
THEOREM PointersHaveHashes == Spec => []IndexedHasHash
  BY TypeInvImplies, TypesHold, PTL

-----------------------------------------------------------------------------
(***************************************************************************)
(* Removals in range: without an overlap the slice only grows while Redis  *)
(* answers, so it never shrinks behind the loop's back.                    *)
(***************************************************************************)

\* the test of the visit still holds at the removal
Apart == pc # "panic" /\ (pc \in {"hmset", "sadd", "remove"} => i <= slice.len)

ApartInv == TypeInv /\ (~overlapped => Apart)

\* Until accesses overlap, every step keeps the index in range.
LEMMA NextApart == ApartInv /\ [Next]_vars => ApartInv'
  <1> SUFFICES ASSUME TypeInv, ~overlapped => Apart, [Next]_vars, ~overlapped' PROVE Apart'
    BY NextTypes DEF ApartInv
  <1> USE DEF memory, loop, redis
  <1>a. overlapped \in BOOLEAN /\ i \in Nat /\ slice.len \in Nat
    BY ShownCells, HeldIsBounded DEF TypeInv, Typed, Headers
  <1>1. ASSUME NEW x \in Samples, Stamp(x)
        PROVE  Apart'
    BY <1>1 DEF Stamp, Apart
  <1>2. ASSUME NEW x \in Samples, BeginAppend(x)
        PROVE  Apart'
    BY <1>a, <1>2 DEF BeginAppend, Access, Apart
  <1>3. ASSUME NEW x \in Samples, EndAppend(x)
        PROVE  Apart'
    <2>1. ~overlapped /\ Apart /\ UNCHANGED <<pc, i>>
      BY <1>3 DEF EndAppend
    <2>2. slice'.len = slice.len + 1
      BY <1>3, <2>1, AppendShows
    <2> QED BY <1>a, <2>1, <2>2 DEF Apart
  <1>4. ASSUME Tick \/ BeginLoop
        PROVE  Apart'
    BY <1>4 DEF Tick, BeginLoop, Access, Return, Apart
  <1>5. ASSUME Visit \/ Hmset
        PROVE  Apart'
    BY <1>5 DEF Visit, Hmset, Return, Apart
  <1>6. ASSUME Sadd
        PROVE  Apart'
    BY <1>6 DEF Sadd, Access, Return, Apart
  <1>7. ASSUME Remove
        PROVE  Apart'
    BY <1>a, <1>7 DEF Remove, AtEnd, Apart
  <1>8. ASSUME Astray
        PROVE  Apart'
    BY <1>8 DEF Astray, Return
  <1>9. ASSUME UNCHANGED vars
        PROVE  Apart'
    BY <1>9 DEF vars, Apart
  <1> QED BY <1>1, <1>2, <1>3, <1>4, <1>5, <1>6, <1>7, <1>8, <1>9 DEF Next

\* No removal is out of range, and the process does not end in a panic, before
\* two accesses to the slice have overlapped.
THEOREM NoPanicApart == Spec => []RemovalsInRange
  <1>1. Init => ApartInv
    BY InitTypes DEF Init, ApartInv, Apart
  <1>2. ApartInv => RemovalsInRange
    BY DEF ApartInv, Apart, RemovalsInRange
  <1> QED BY <1>1, <1>2, NextApart, PTL DEF Spec

-----------------------------------------------------------------------------
(***************************************************************************)
(* A flush that nothing disturbs: where the elements of the collection are *)
(* when the loop has taken out r of them.                                  *)
(***************************************************************************)

AllOld == \A k \in DOMAIN begun : begun[k] \in old

\* The cells of the array after r removals.
ShiftedBy(r) ==
    LET n == Len(begun)
    IN  \A j \in 1..n : arrays[ranged.arr][j] =
          IF j > n - r THEN begun[n] ELSE IF j <= r THEN begun[2 * j] ELSE begun[j + r]

\* the elements that were sent before each of them
VisitedBy(r) == \A k \in 1..r : begun[2 * k - 1] \in index

\* the slice has shrunk with every removal
Shrunk(r) ==
    /\ 2 * r <= Len(begun) + 1
    /\ slice = [arr |-> ranged.arr, len |-> Len(begun) - r]
    /\ ShiftedBy(r) /\ VisitedBy(r)

\* the removal at the end of the slice, which drops it, was the next
Dropped(r) ==
    /\ 2 * r = Len(begun)
    /\ ShiftedBy(r) /\ VisitedBy(r)
    /\ begun[Len(begun)] \in index

Flush ==
    LET n == Len(begun)
    IN  /\ pc \in {"visit", "hmset", "sadd", "remove"}
        /\ ranged.len = n /\ ranged.arr # 0
        /\ pc = "visit" => Shrunk(i) \/ (slice = Nil /\ i > 0 /\ Dropped(i - 1))
        /\ pc \in {"hmset", "sadd", "remove"} =>
             /\ Shrunk(i) /\ 2 * i <= n
             /\ monitor = IF 2 * i = n THEN begun[n] ELSE begun[2 * i + 1]
        /\ pc = "remove" => monitor \in index

FlushInv ==
    /\ TypeInv
    /\ pc \in {"idle", "connect"} => begun = <<>>
    /\ begun # <<>> /\ AllOld /\ ~overlapped => Flush

\* The loop visits an element of the collection at every index.
LEMMA VisitsOldOnes ==
    ASSUME TypeInv, begun # <<>>, Flush, pc = "visit", i < ranged.len
    PROVE  /\ \E k \in 1..Len(begun) : Cells(ranged.arr)[i + 1] = begun[k]
           /\ Shrunk(i) /\ 2 * i <= Len(begun) => Cells(ranged.arr)[i + 1] =
                 IF 2 * i = Len(begun) THEN begun[Len(begun)] ELSE begun[2 * i + 1]
  <1> DEFINE n == Len(begun)
  <1>1. /\ begun \in Seq(Samples) /\ n \in Nat /\ i \in Nat /\ ranged.len = n /\ n > 0 /\ i < n
        /\ Cells(ranged.arr)[i + 1] = arrays[ranged.arr][i + 1]
    BY HeldIsBounded, EmptySeq DEF TypeInv, Typed, Flush, Cells
  <1>2. CASE Shrunk(i)
    <2>1. arrays[ranged.arr][i + 1] =
            IF i + 1 > n - i THEN begun[n] ELSE IF i + 1 <= i THEN begun[2 * (i + 1)]
            ELSE begun[i + 1 + i]
      <3>1. \A j \in 1..n : arrays[ranged.arr][j] =
              IF j > n - i THEN begun[n] ELSE IF j <= i THEN begun[2 * j] ELSE begun[j + i]
        BY <1>2 DEF Shrunk, ShiftedBy
      <3>2. i + 1 \in 1..n
        BY <1>1
      <3> QED BY <3>1, <3>2
    <2>2. CASE i + 1 > n - i
      <3>1. arrays[ranged.arr][i + 1] = begun[n] /\ n \in 1..n
        BY <2>1, <2>2, <1>1
      <3>2. 2 * i <= n => 2 * i = n
        BY <2>2, <1>1
      <3> QED BY <3>1, <3>2, <1>1
    <2>3. CASE i + 1 <= n - i
      <3>1. i + 1 + i = 2 * i + 1 /\ 2 * i + 1 \in 1..n /\ 2 * i # n
        BY <2>3, <1>1
      <3> QED BY <2>1, <2>3, <3>1, <1>1
    <2> QED BY <2>2, <2>3, <1>1
  <1>3. CASE slice = Nil /\ i > 0 /\ Dropped(i - 1)
    <2>1. i + 1 > n - (i - 1) /\ i + 1 \in 1..n
      BY <1>1, <1>3 DEF Dropped
    <2>2. arrays[ranged.arr][i + 1] = begun[n]
      BY <2>1, <1>3 DEF Dropped, ShiftedBy
    <2>3. ~Shrunk(i)
      BY <1>1, <1>3 DEF Shrunk, Nil, Flush
    <2> QED BY <1>1, <2>2, <2>3
  <1> QED BY <1>2, <1>3 DEF Flush

\* A removal in range takes out the element that was visited, and moves those
\* after it one place nearer.
LEMMA RemovalShifts ==
    ASSUME TypeInv, ~overlapped, begun # <<>>, Flush, pc = "remove", i < slice.len,
           arrays' = Shifted(i), i' = i + 1, UNCHANGED <<begun, ranged, stage, index>>
    PROVE  /\ 2 * i < Len(begun)
           /\ slice = [arr |-> ranged.arr, len |-> Len(begun) - i]
           /\ ShiftedBy(i)' /\ VisitedBy(i)'
  <1> DEFINE n == Len(begun)
             a == ranged.arr
  <1>1. /\ n \in Nat /\ i \in Nat /\ Shrunk(i) /\ 2 * i <= n
        /\ slice = [arr |-> a, len |-> n - i]
        /\ ranged.len = n /\ ranged.arr # 0
        /\ monitor \in index /\ monitor = IF 2 * i = n THEN begun[n] ELSE begun[2 * i + 1]
    BY HeldIsBounded DEF TypeInv, Typed, Flush, Shrunk
  <1>2. 2 * i < n /\ slice.len = n - i /\ slice.arr = a
    BY <1>1
  <1>3. /\ n <= Len(arrays[a])
        /\ Len(arrays[a]) \in Nat
    <2>1. Shown(ranged) /\ arrays \in Seq(Seq(Cell))
      BY DEF TypeInv, Headers, Typed
    <2>2. ranged.len <= Len(Cells(ranged.arr)) /\ Len(Cells(ranged.arr)) \in Nat
      BY <2>1, ShownCells
    <2> QED BY <1>1, <2>2 DEF Cells
  <1>4. \A j \in 1..n : arrays'[a][j] =
          IF i + 1 <= j /\ j <= n - i - 1 THEN arrays[a][j + 1] ELSE arrays[a][j]
    <2>1. \A j \in 1..Len(arrays[slice.arr]) : arrays'[slice.arr][j] =
            IF i + 1 <= j /\ j <= slice.len - 1 THEN arrays[slice.arr][j + 1]
            ELSE arrays[slice.arr][j]
      BY RemovalShows
    <2> QED BY <2>1, <1>2, <1>3
  <1>5. \A j \in 1..n : arrays[a][j] =
          IF j > n - i THEN begun[n] ELSE IF j <= i THEN begun[2 * j] ELSE begun[j + i]
    BY <1>1 DEF Shrunk, ShiftedBy
  <1>6. ASSUME NEW j \in 1..n
        PROVE  arrays'[a][j] = IF j > n - (i + 1) THEN begun[n]
                               ELSE IF j <= i + 1 THEN begun[2 * j] ELSE begun[j + (i + 1)]
    <2>1. CASE j <= i
      <3>1. arrays'[a][j] = begun[2 * j]
        BY <2>1, <1>1, <1>2, <1>4, <1>5
      <3> QED BY <3>1, <2>1, <1>1, <1>2
    <2>2. CASE i + 1 <= j /\ j <= n - i - 1
      <3>1. arrays'[a][j] = arrays[a][j + 1] /\ j + 1 \in 1..n
        BY <2>2, <1>1, <1>4
      <3>2. arrays[a][j + 1] = begun[j + 1 + i]
        BY <2>2, <3>1, <1>1, <1>5
      <3>3. CASE j = i + 1
        <4>1. j + 1 + i = 2 * j
          BY <3>3, <1>1
        <4> QED BY <4>1, <3>1, <3>2, <3>3, <2>2, <1>1
      <3>4. CASE j # i + 1
        <4>1. j + 1 + i = j + (i + 1)
          BY <1>1
        <4> QED BY <4>1, <3>1, <3>2, <3>4, <2>2, <1>1
      <3> QED BY <3>3, <3>4
    <2>3. CASE j > n - i - 1 /\ j > i
      <3>1. arrays'[a][j] = arrays[a][j]
        <4>1. ~(i + 1 <= j /\ j <= n - i - 1)
          BY <2>3, <1>1
        <4> QED BY <4>1, <1>4
      <3>2. CASE j > n - i
        BY <3>1, <3>2, <1>1, <1>5
      <3>3. CASE j = n - i
        <4>1. arrays[a][j] = begun[j + i] /\ j + i = n
          BY <2>3, <3>3, <1>1, <1>5
        <4>2. arrays'[a][j] = begun[n]
          BY <3>1, <4>1
        <4>3. j > n - (i + 1)
          BY <3>3, <1>1
        <4> QED BY <4>2, <4>3
      <3> QED BY <2>3, <3>2, <3>3, <1>1
    <2> QED BY <2>1, <2>2, <2>3, <1>1
  <1>7. ShiftedBy(i)'
    BY <1>6 DEF ShiftedBy
  <1>8. VisitedBy(i)'
    <2>1. begun[2 * i + 1] \in index
      BY <1>1, <1>2
    <2>2. 2 * (i + 1) - 1 = 2 * i + 1
      BY <1>1
    <2>3. \A k \in 1..i : begun[2 * k - 1] \in index
      BY <1>1 DEF Shrunk, VisitedBy
    <2>4. ASSUME NEW k \in 1..i + 1 PROVE begun[2 * k - 1] \in index
      BY <1>1, <2>1, <2>2, <2>3
    <2> QED BY <2>4 DEF VisitedBy
  <1> QED BY <1>1, <1>2, <1>7, <1>8

\* Every step of an undisturbed flush keeps the elements where Flush says.
LEMMA NextFlush == FlushInv /\ [Next]_vars => FlushInv'
  <1> SUFFICES ASSUME FlushInv, [Next]_vars
               PROVE  /\ (pc \in {"idle", "connect"} => begun = <<>>)'
                      /\ (begun # <<>> /\ AllOld /\ ~overlapped => Flush)'
    BY NextTypes DEF FlushInv
  <1> USE DEF memory, loop, redis
  <1>a. /\ TypeInv /\ begun \in Seq(Samples) /\ Len(begun) \in Nat /\ i \in Nat
        /\ begun # <<>> => Len(begun) > 0
    BY HeldIsBounded, EmptySeq DEF FlushInv, TypeInv, Typed
  <1> DEFINE Quietly == (pc \in {"idle", "connect"} => begun = <<>>)'
             Goal == (begun # <<>> /\ AllOld /\ ~overlapped => Flush)'
  <1>1. ASSUME UNCHANGED <<memory, pc, loop, index, begun>>
        PROVE  Quietly /\ Goal
    BY <1>1 DEF FlushInv, AllOld, Flush, Shrunk, Dropped, ShiftedBy, VisitedBy
  <1>2. ASSUME begun' = <<>>
        PROVE  Quietly /\ Goal
    BY <1>2
  <1>3. ASSUME NEW x \in Samples, Stamp(x)
        PROVE  Quietly /\ Goal
    <2>1. UNCHANGED <<memory, pc, loop, index, begun>>
      BY <1>3 DEF Stamp
    <2> QED BY <2>1, <1>1
  <1>4. ASSUME NEW x \in Samples, BeginAppend(x) \/ EndAppend(x)
        PROVE  Quietly /\ Goal
    <2>1. CASE EndAppend(x)
      BY <1>2, <2>1 DEF EndAppend
    <2>2. CASE BeginAppend(x) /\ overlapped'
      BY <2>2 DEF BeginAppend, FlushInv
    <2>3. CASE BeginAppend(x) /\ ~overlapped'
      <3>1. UNCHANGED <<memory, pc, loop, index, begun>>
        BY <2>3 DEF BeginAppend, Access
      <3> QED BY <3>1, <1>1
    <2> QED BY <1>4, <2>1, <2>2, <2>3
  <1>5. ASSUME Tick
        PROVE  Quietly /\ Goal
    BY <1>2, <1>5 DEF Tick, FlushInv
  <1>6. ASSUME BeginLoop
        PROVE  Quietly /\ Goal
    <2>1. CASE Return
      BY <1>2, <2>1 DEF Return
    <2>2. CASE ~Return
      <3>0. /\ pc' = "visit" /\ ranged' = slice' /\ i' = 0
            /\ begun' = Elements(slice')
            /\ Access(Appending # {}) /\ UNCHANGED index
        BY <1>6, <2>2 DEF BeginLoop
      <3>2. ASSUME begun' # <<>>, ~overlapped' PROVE Flush'
        <4>0. UNCHANGED memory
          BY <3>0, <3>2 DEF Access
        <4>a. /\ pc' = "visit" /\ ranged' = slice /\ i' = 0
              /\ begun' = Elements(slice)
              /\ UNCHANGED <<memory, index>>
          BY <3>0, <4>0
        <4>1. Shown(slice) /\ arrays \in Seq(Seq(Cell))
          BY <1>a DEF TypeInv, Headers, Typed
        <4>2. /\ slice = [arr |-> slice.arr, len |-> slice.len] /\ slice.len \in Nat
              /\ slice.arr \in Nat
              /\ Elements(slice) \in Seq(Samples) /\ Len(Elements(slice)) = slice.len
              /\ \A k \in 1..slice.len : Elements(slice)[k] = Cells(slice.arr)[k]
          BY <4>1, ShownCells
        <4>3. Len(begun') = slice.len /\ slice.len > 0
          BY <4>a, <3>2, <4>2, EmptySeq
        <4>4. slice.arr # 0
          BY <4>1, <4>3 DEF Shown, Shows
        <4>5. \A k \in 1..slice.len : arrays[slice.arr][k] = begun'[k]
          BY <4>a, <4>2, <4>4 DEF Cells
        <4>6. ShiftedBy(i)'
          <5> SUFFICES ASSUME NEW j \in 1..slice.len
                       PROVE  arrays'[ranged'.arr][j] =
                                IF j > slice.len - i' THEN begun'[slice.len]
                                ELSE IF j <= i' THEN begun'[2 * j] ELSE begun'[j + i']
            BY <4>3 DEF ShiftedBy
          <5>1. ~(j > slice.len - 0) /\ ~(j <= 0) /\ j + 0 = j
            BY <4>2
          <5>2. arrays'[ranged'.arr][j] = begun'[j]
            BY <4>a, <4>5
          <5> QED BY <4>a, <5>1, <5>2
        <4>7. VisitedBy(i)'
          BY <4>a DEF VisitedBy
        <4>8. Shrunk(i)'
          <5>1. slice' = [arr |-> ranged'.arr, len |-> Len(begun') - i'] /\ 2 * i' <= Len(begun') + 1
            BY <4>a, <4>2, <4>3
          <5> QED BY <5>1, <4>6, <4>7 DEF Shrunk
        <4> QED BY <4>a, <4>3, <4>4, <4>8 DEF Flush
      <3> QED BY <3>0, <3>2
    <2> QED BY <2>1, <2>2
  <1>7. ASSUME Visit
        PROVE  Quietly /\ Goal
    <2> DEFINE m == Cells(ranged.arr)[i + 1]
    <2>1. CASE Return
      BY <1>2, <2>1 DEF Return
    <2>2. CASE ~Return
      <3>0. pc = "visit" /\ ~overlapped /\ i < ranged.len /\ pc' \in {"visit", "hmset"}
            /\ UNCHANGED <<memory, ranged, old, index, begun>>
        BY <1>7, <2>2 DEF Visit
      <3>1. ASSUME begun' # <<>>, AllOld' PROVE Flush'
        <4>1. begun # <<>> /\ AllOld /\ Flush
          BY <3>0, <3>1 DEF AllOld, FlushInv
        <4>2. /\ \E k \in 1..Len(begun) : m = begun[k]
              /\ Shrunk(i) /\ 2 * i <= Len(begun) => m =
                    IF 2 * i = Len(begun) THEN begun[Len(begun)] ELSE begun[2 * i + 1]
          BY <1>a, <3>0, <4>1, VisitsOldOnes
        <4>3. Older(m)
          BY <1>a, <4>1, <4>2 DEF AllOld, Older
        <4>4. i <= slice.len /\ monitor' = m /\ pc' = "hmset" /\ UNCHANGED i
          BY <1>7, <2>2, <4>3 DEF Visit
        <4>5. Shrunk(i) /\ 2 * i <= Len(begun)
          <5>1. ~(slice = Nil /\ i > 0)
            BY <1>a, <4>4 DEF Nil
          <5>2. Shrunk(i)
            BY <3>0, <4>1, <5>1 DEF Flush
          <5> QED BY <1>a, <4>4, <5>2 DEF Shrunk
        <4>6. Shrunk(i)'
          BY <3>0, <4>4, <4>5 DEF Shrunk, ShiftedBy, VisitedBy
        <4> QED BY <3>0, <4>1, <4>2, <4>4, <4>5, <4>6 DEF Flush
      <3> QED BY <3>0, <3>1
    <2> QED BY <2>1, <2>2
  <1>8. ASSUME Hmset
        PROVE  Quietly /\ Goal
    <2>1. CASE Return
      BY <1>2, <2>1 DEF Return
    <2>2. CASE ~Return
      <3>0. pc = "hmset" /\ pc' = "sadd" /\ UNCHANGED <<memory, loop, index, begun>>
        BY <1>8, <2>2 DEF Hmset
      <3>1. ASSUME begun' # <<>>, AllOld', ~overlapped' PROVE Flush'
        <4>1. Flush
          BY <3>0, <3>1 DEF AllOld, FlushInv
        <4>2. Shrunk(i)'
          BY <3>0, <4>1 DEF Flush, Shrunk, ShiftedBy, VisitedBy
        <4> QED BY <3>0, <4>1, <4>2 DEF Flush
      <3> QED BY <3>0, <3>1
    <2> QED BY <2>1, <2>2
  <1>9. ASSUME Sadd
        PROVE  Quietly /\ Goal
    <2>1. CASE Return
      BY <1>2, <2>1 DEF Return
    <2>2. CASE ~Return
      <3>0. /\ pc = "sadd" /\ pc' = "remove" /\ index' = index \cup {monitor}
            /\ Access(Appending # {}) /\ UNCHANGED <<loop, begun>>
        BY <1>9, <2>2 DEF Sadd
      <3>1. ASSUME begun' # <<>>, AllOld', ~overlapped' PROVE Flush'
        <4>0. ~overlapped /\ UNCHANGED memory
          BY <3>0, <3>1 DEF Access
        <4>1. Flush
          BY <3>0, <3>1, <4>0 DEF AllOld, FlushInv
        <4>2. Shrunk(i)'
          BY <3>0, <4>0, <4>1 DEF Flush, Shrunk, ShiftedBy, VisitedBy
        <4> QED BY <3>0, <4>1, <4>2 DEF Flush
      <3> QED BY <3>0, <3>1
    <2> QED BY <2>1, <2>2
  <1>10. ASSUME Remove
         PROVE  Quietly /\ Goal
    <2>0. /\ pc = "remove" /\ ~overlapped /\ pc' \in {"visit", "panic"}
          /\ UNCHANGED <<overlapped, stage, ranged, monitor, old, index, begun>>
      BY <1>10 DEF Remove
    <2>1. ASSUME begun' # <<>>, AllOld' PROVE Flush'
      <3>1. begun # <<>> /\ AllOld /\ Flush
        BY <2>0, <2>1 DEF AllOld, FlushInv
      <3>2. /\ Shrunk(i) /\ 2 * i <= Len(begun) /\ monitor \in index
            /\ monitor = IF 2 * i = Len(begun) THEN begun[Len(begun)] ELSE begun[2 * i + 1]
            /\ slice.len = Len(begun) - i
        BY <2>0, <3>1 DEF Flush, Shrunk
      <3>3. CASE AtEnd(i)
        <4>1. slice' = Nil /\ pc' = "visit" /\ i' = i + 1 /\ UNCHANGED arrays
          BY <1>a, <1>10, <3>3 DEF Remove, AtEnd
        <4>2. 2 * i = Len(begun)
          BY <1>a, <3>2, <3>3 DEF AtEnd
        <4>3. i' > 0 /\ i' - 1 = i
          BY <1>a, <4>1
        <4>4. Dropped(i - 1)'
          BY <2>0, <3>2, <4>1, <4>2, <4>3 DEF Dropped, Shrunk, ShiftedBy, VisitedBy
        <4> QED BY <2>0, <3>1, <4>1, <4>3, <4>4 DEF Flush
      <3>4. CASE ~AtEnd(i)
        <4>1. i < slice.len
          BY <1>a, <3>2, <3>4 DEF AtEnd
        <4>2. /\ arrays' = Shifted(i) /\ slice' = [slice EXCEPT !.len = @ - 1]
              /\ pc' = "visit" /\ i' = i + 1
          BY <1>a, <1>10, <3>2, <3>4, <4>1 DEF Remove
        <4>3. /\ 2 * i < Len(begun)
              /\ slice = [arr |-> ranged.arr, len |-> Len(begun) - i]
              /\ ShiftedBy(i)' /\ VisitedBy(i)'
          BY <1>a, <2>0, <3>1, <4>1, <4>2, RemovalShifts
        <4>4. slice' = [arr |-> ranged.arr, len |-> Len(begun) - (i + 1)]
          BY <1>a, <4>2, <4>3
        <4>5. 2 * (i + 1) <= Len(begun) + 1
          BY <1>a, <4>3
        <4>6. Shrunk(i)'
          BY <2>0, <4>2, <4>3, <4>4, <4>5 DEF Shrunk
        <4> QED BY <2>0, <3>1, <4>2, <4>6 DEF Flush
      <3> QED BY <3>3, <3>4
    <2> QED BY <2>0, <2>1
  <1>11. ASSUME Astray
         PROVE  Quietly /\ Goal
    BY <1>2, <1>11 DEF Astray, Return, Looping, FlushInv
  <1>12. ASSUME UNCHANGED vars
         PROVE  Quietly /\ Goal
    BY <1>1, <1>12 DEF vars
  <1> QED BY <1>3, <1>4, <1>5, <1>6, <1>7, <1>8, <1>9, <1>10, <1>11, <1>12 DEF Next

\* Where the loop ends, every other element is sent, and the last one.
LEMMA EndOfFlush ==
    ASSUME FlushInv, ~overlapped, begun # <<>>, AllOld, pc = "visit",
           i >= ranged.len \/ i > slice.len
    PROVE  Sent(begun) \subseteq index /\ Elements(slice) = Kept(begun)
  <1> DEFINE n == Len(begun)
  <1>1. /\ begun \in Seq(Samples) /\ n \in Nat /\ i \in Nat /\ n > 0
        /\ Flush /\ ranged.len = n /\ ranged.arr # 0
    BY HeldIsBounded, EmptySeq DEF FlushInv, TypeInv, Typed, Flush
  <1>2. ASSUME NEW r \in Nat, 2 * r >= n, VisitedBy(r),
               n % 2 = 0 => begun[n] \in index
        PROVE  Sent(begun) \subseteq index
    <2> SUFFICES ASSUME NEW k \in 1..n, k % 2 = 1 \/ k = n
                 PROVE  begun[k] \in index
      BY DEF Sent
    <2>1. CASE k % 2 = 1
      <3>1. PICK q \in 1..n : k = 2 * q - 1
        <4>1. (k + 1) \div 2 \in 1..n /\ k = 2 * ((k + 1) \div 2) - 1
          BY <2>1, <1>1
        <4> QED BY <4>1
      <3>2. q \in 1..r
        BY <3>1, <1>1, <1>2
      <3> QED BY <3>1, <3>2, <1>2 DEF VisitedBy
    <2>2. CASE k % 2 # 1
      <3>1. k = n /\ n % 2 = 0
        BY <2>2, <1>1
      <3> QED BY <3>1, <1>2
    <2> QED BY <2>1, <2>2
  <1>3. CASE slice = Nil /\ i > 0 /\ Dropped(i - 1)
    <2>1. 2 * (i - 1) = n /\ n % 2 = 0 /\ i - 1 \in Nat
      BY <1>1, <1>3 DEF Dropped
    <2>2. Sent(begun) \subseteq index
      BY <1>1, <1>2, <1>3, <2>1 DEF Dropped
    <2>3. Elements(slice) = <<>>
      BY <1>3, SubSeqEmpty DEF Elements, Nil
    <2> QED BY <2>1, <2>2, <2>3 DEF Kept
  <1>4. CASE Shrunk(i)
    <2>1. 2 * i = n + 1 /\ slice.len = n - i /\ slice.arr = ranged.arr
      <3>1. 2 * i <= n + 1 /\ slice.len = n - i /\ slice.arr = ranged.arr
        BY <1>4 DEF Shrunk
      <3>2. i >= n \/ i > n - i
        BY <1>1, <3>1
      <3> QED BY <1>1, <3>1, <3>2
    <2>2. n % 2 = 1 /\ n \div 2 = n - i
      BY <1>1, <2>1
    <2>3. Sent(begun) \subseteq index
      <3>1. VisitedBy(i) /\ 2 * i >= n
        BY <1>1, <1>4, <2>1 DEF Shrunk
      <3> QED BY <1>1, <1>2, <2>2, <3>1
    <2>4. /\ Elements(slice) \in Seq(Samples) /\ Len(Elements(slice)) = n - i
          /\ \A k \in 1..n - i : Elements(slice)[k] = begun[2 * k]
      <3>1. Shown(slice) /\ arrays \in Seq(Seq(Cell))
        BY DEF FlushInv, TypeInv, Headers, Typed
      <3>2. /\ Elements(slice) \in Seq(Samples) /\ Len(Elements(slice)) = slice.len
            /\ \A k \in 1..slice.len : Elements(slice)[k] = Cells(slice.arr)[k]
        BY <3>1, ShownCells
      <3>3. \A k \in 1..n : arrays[ranged.arr][k] =
              IF k > n - i THEN begun[n] ELSE IF k <= i THEN begun[2 * k] ELSE begun[k + i]
        BY <1>4 DEF Shrunk, ShiftedBy
      <3>4. ASSUME NEW k \in 1..n - i PROVE Elements(slice)[k] = begun[2 * k]
        <4>1. k \in 1..n /\ ~(k > n - i) /\ k <= i
          BY <1>1, <2>1
        <4>2. arrays[ranged.arr][k] = begun[2 * k]
          BY <3>3, <4>1
        <4> QED BY <4>2, <3>2, <2>1, <1>1 DEF Cells
      <3> QED BY <2>1, <3>2, <3>4
    <2>5. Kept(begun) = [k \in 1..n - i |-> begun[2 * k]]
      BY <2>2 DEF Kept
    <2>6. \A k \in 1..n - i : begun[2 * k] \in Samples
      <3>1. \A k \in 1..n - i : 2 * k \in 1..n
        BY <1>1, <2>1
      <3> QED BY <1>1, <3>1
    <2>7. Elements(slice) = [k \in 1..n - i |-> begun[2 * k]]
      <3>1. Elements(slice) \in [1..n - i -> Samples]
        BY <2>4, LenProperties
      <3> QED BY <3>1, <2>4
    <2> QED BY <2>3, <2>5, <2>7
  <1> QED BY <1>1, <1>3, <1>4 DEF Flush

\* A flush that nothing disturbs, of a collection of any length, sends every
\* other sample and the last; what it leaves in memory are the others, or
\* nothing where their number is even.
THEOREM FlushesEveryOther == Spec => UndisturbedFlush
  <1>1. Init => FlushInv
    BY InitTypes DEF Init, FlushInv
  <1>2. FlushInv /\ [Next]_vars =>
          [pc = "visit" /\ pc' = "idle" /\ ~overlapped /\ begun # <<>>
             /\ (\A k \in DOMAIN begun : begun[k] \in old)
           => Sent(begun) \subseteq index /\ (Elements(slice))' = Kept(begun)]_vars
    <2> SUFFICES ASSUME FlushInv, Next, pc = "visit", pc' = "idle", ~overlapped, begun # <<>>, AllOld
                 PROVE  Sent(begun) \subseteq index /\ (Elements(slice))' = Kept(begun)
      BY DEF AllOld
    <2>1. Visit
      BY DEF Next, Stamp, BeginAppend, EndAppend, Tick, BeginLoop, Hmset, Sadd, Remove, Astray
    <2>2. (i >= ranged.len \/ i > slice.len) /\ UNCHANGED <<arrays, slice>> /\ index' = index
      BY <2>1 DEF Visit, Return, memory, redis
    <2>3. (Elements(slice))' = Elements(slice)
      BY <2>2 DEF Elements, Cells
    <2> QED BY <2>2, <2>3, EndOfFlush
  <1> QED BY <1>1, <1>2, NextFlush, PTL DEF Spec, UndisturbedFlush
=============================================================================

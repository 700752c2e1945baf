----------------------------- MODULE FifoProofs -----------------------------
(***************************************************************************)
(* Theorems about the linked containers of one thread: tw_Stack and tw_FIFO, *)
(* for every set of links and elements.                                     *)
(*                                                                          *)
(* StackHolds and QueuesHold speak of what a loop over the links visits.  The *)
(* inductive invariants StackKept and FifoKept name that sequence of links: *)
(* it is a chain without repetition from top or out to the null pointer, the *)
(* data on it is what the calls put there, every live link is on a chain and *)
(* on one only, and (tw_FIFO) the last link is the one in points to and the *)
(* cursor is on a link of its queue whose rest is what the iterator shows.  *)
(***************************************************************************)
EXTENDS MCContainers, SharedLemmas

PileNext(c) == [x \in Cell |-> c[x].next]
\* s is the chain of a stack: its L links are the ones that are allocated, and hold its
\* elements, the last one first.
PileIs(s, L, c, o, e) ==
    /\ IsThread(s, L, Cell, o, PileNext(c), 0)
    /\ \A x \in Cell : c[x].live <=> \E i \in 1..L : s[i] = x
    /\ e = [i \in 1..L |-> c[s[L - i + 1]].data]
StackKept ==
    /\ cell \in [Cell -> [data : Datum \cup {"none"}, next : Cell \cup {0}, live : BOOLEAN]]
    /\ cnt \in Nat /\ \E s : PileIs(s, cnt, cell, top, stacked)

\* The walk of the instance is the walk the lemmas are about.
LEMMA PileFollow == \A o, f, z, N : Pile!Follow(o, f, z, N) = Follow(o, f, z, N)
<1>1. \A S : Pile!Cardinality(S) = Cardinality(S)
  BY DEF Pile!Cardinality, Cardinality
<1> QED
  BY <1>1 DEF Pile!Follow, Follow

\* What PileIs says of a stack, in parts.
LEMMA PileParts ==
  ASSUME NEW L \in Nat, NEW s, NEW c, NEW o, NEW e, PileIs(s, L, c, o, e)
  PROVE  /\ s \in [1..L -> Cell] /\ \A i, j \in 1..L : s[i] = s[j] => i = j
         /\ L = 0 => o = 0
         /\ L > 0 => o = s[1] /\ c[s[L]].next = 0
         /\ \A i \in 1..L : i < L => c[s[i]].next = s[i + 1]
         /\ \A x \in Cell : c[x].live <=> \E i \in 1..L : s[i] = x
         /\ e = [i \in 1..L |-> c[s[L - i + 1]].data]
<1>1. /\ s \in [1..L -> Cell] /\ \A i, j \in 1..L : s[i] = s[j] => i = j
      /\ L = 0 => o = 0
      /\ L > 0 => o = s[1] /\ PileNext(c)[s[L]] = 0
      /\ \A i \in 1..L : i < L => PileNext(c)[s[i]] = s[i + 1]
  BY DEF PileIs, IsThread
<1>2. \A x \in Cell : PileNext(c)[x] = c[x].next
  BY DEF PileNext
<1>3. L > 0 => L \in 1..L
  OBVIOUS
<1>4. /\ L > 0 => c[s[L]].next = 0
      /\ \A i \in 1..L : i < L => c[s[i]].next = s[i + 1]
  BY <1>1, <1>2, <1>3
<1> QED
  BY <1>1, <1>4 DEF PileIs

\* FromTop is the chain.
LEMMA FromTopIs ==
  ASSUME StackKept, NEW s, PileIs(s, cnt, cell, top, stacked)
  PROVE  Pile!FromTop = s
<1>1. \A S : Pile!Cardinality(S) = Cardinality(S)
  BY DEF Pile!Cardinality, Cardinality
<1>2. Follow(top, PileNext(cell), 0, Cardinality(Cell)) = s
  <2>1. IsFiniteSet(Cell) /\ 0 \notin Cell
    BY StackAssumption DEF StackAssumption
  <2>2. cnt \in Nat /\ IsThread(s, cnt, Cell, top, PileNext(cell), 0)
    BY DEF StackKept, PileIs
  <2> QED
    BY ONLY <2>1, <2>2, FollowIs
<1> QED
  BY <1>1, <1>2, PileFollow DEF Pile!FromTop, PileNext, Pile!NoCell

\* Min() of the unused cells is one of them.
LEMMA UnusedCell ==
  ASSUME Pile!Unused # {}
  PROVE  Pile!Min(Pile!Unused) \in Cell /\ ~cell[Pile!Min(Pile!Unused)].live
<1>1. Pile!Unused \in SUBSET Nat
  BY StackAssumption DEF StackAssumption, Pile!Unused
<1>2. \E x \in Pile!Unused : \A y \in Pile!Unused : x <= y
  BY <1>1, LeastExists
<1>3. Pile!Min(Pile!Unused) \in Pile!Unused
  BY <1>2 DEF Pile!Min
<1> QED
  BY <1>3 DEF Pile!Unused

\* push(): the new link is in front of the chain.
LEMMA PushKeeps ==
  ASSUME StackKept, NEW v \in Datum, Pile!Push(v)
  PROVE  StackKept'
<1> DEFINE n == Pile!Min(Pile!Unused)
<1>1. n \in Cell /\ ~cell[n].live
  BY UnusedCell DEF Pile!Push
<1>2. /\ cell' = [cell EXCEPT ![n] = [data |-> v, next |-> top, live |-> TRUE]]
      /\ top' = n /\ cnt' = cnt + 1 /\ stacked' = Append(stacked, v)
  BY DEF Pile!Push
<1> HIDE DEF n
<1>3. PICK s : PileIs(s, cnt, cell, top, stacked)
  BY DEF StackKept
<1> DEFINE L == cnt
           t == [i \in 1..(L + 1) |-> IF i = 1 THEN n ELSE s[i - 1]]
<1>4. L \in Nat /\ cell \in [Cell -> [data : Datum \cup {"none"}, next : Cell \cup {0}, live : BOOLEAN]]
  BY DEF StackKept
<1> HIDE DEF L
<1>5. /\ s \in [1..L -> Cell] /\ \A i, j \in 1..L : s[i] = s[j] => i = j
      /\ L = 0 => top = 0
      /\ L > 0 => top = s[1] /\ cell[s[L]].next = 0
      /\ \A i \in 1..L : i < L => cell[s[i]].next = s[i + 1]
      /\ \A x \in Cell : cell[x].live <=> \E i \in 1..L : s[i] = x
      /\ stacked = [i \in 1..L |-> cell[s[L - i + 1]].data]
  <2>1. PileIs(s, L, cell, top, stacked)
    BY <1>3 DEF L
  <2> QED
    BY <1>4, <2>1, PileParts
<1>6. top \in Cell \cup {0}
  BY <1>4, <1>5
<1>7. cell' \in [Cell -> [data : Datum \cup {"none"}, next : Cell \cup {0}, live : BOOLEAN]]
  BY <1>1, <1>2, <1>4, <1>6
<1>8. /\ \A x \in Cell : x # n => cell'[x] = cell[x]
      /\ cell'[n].data = v /\ cell'[n].next = top /\ cell'[n].live
  BY <1>1, <1>2, <1>4
<1>9. /\ t \in [1..(L + 1) -> Cell] /\ t[1] = n
      /\ \A i \in 1..L : t[i + 1] = s[i] /\ s[i] # n /\ cell'[s[i]] = cell[s[i]]
      /\ \A i \in 1..(L + 1) : i > 1 => i - 1 \in 1..L /\ t[i] = s[i - 1]
  BY <1>1, <1>4, <1>5, <1>8
<1> HIDE DEF t
<1>10. IsThread(t, L + 1, Cell, n, PileNext(cell'), 0)
  <2>1. ASSUME NEW i \in 1..(L + 1), NEW j \in 1..(L + 1), t[i] = t[j] PROVE i = j
    BY <1>4, <1>5, <1>9, <2>1
  <2>2. cell'[t[L + 1]].next = 0
    <3>1. CASE L = 0
      BY <1>5, <1>8, <1>9, <3>1
    <3>2. CASE L > 0
      <4>1. L \in 1..L
        BY <1>4, <3>2
      <4> QED
        BY <1>5, <1>9, <3>2, <4>1
    <3> QED
      BY <1>4, <3>1, <3>2
  <2>3. ASSUME NEW i \in 1..(L + 1), i < L + 1 PROVE cell'[t[i]].next = t[i + 1]
    <3>1. CASE i = 1
      <4>1. L > 0 /\ 1 \in 1..L
        BY <1>4, <2>3, <3>1
      <4> QED
        BY <1>5, <1>8, <1>9, <3>1, <4>1
    <3>2. CASE i > 1
      <4>1. i - 1 \in 1..L /\ i \in 1..L /\ i - 1 < L /\ (i - 1) + 1 = i
        BY <1>4, <2>3, <3>2
      <4>2. t[i] = s[i - 1] /\ t[i + 1] = s[i] /\ cell'[s[i - 1]] = cell[s[i - 1]]
        BY <1>9, <3>2, <4>1
      <4>3. cell[s[i - 1]].next = s[(i - 1) + 1]
        BY <1>5, <4>1
      <4> QED
        BY <4>1, <4>2, <4>3
    <3> QED
      BY <3>1, <3>2
  <2>4. \A i \in 1..(L + 1) : PileNext(cell')[t[i]] = cell'[t[i]].next
    BY <1>9 DEF PileNext
  <2>5. L + 1 \in 1..(L + 1) /\ L + 1 # 0
    BY <1>4
  <2> QED
    BY <1>9, <2>1, <2>2, <2>3, <2>4, <2>5 DEF IsThread
<1>11. \A x \in Cell : cell'[x].live <=> \E i \in 1..(L + 1) : t[i] = x
  <2> SUFFICES ASSUME NEW x \in Cell PROVE cell'[x].live <=> \E i \in 1..(L + 1) : t[i] = x
    OBVIOUS
  <2>0. 1 \in 1..(L + 1) /\ \A i \in 1..L : i + 1 \in 1..(L + 1)
    BY <1>4
  <2>1. CASE x = n
    BY <1>8, <1>9, <2>0, <2>1
  <2>2. CASE x # n
    <3>1. cell'[x].live <=> \E i \in 1..L : s[i] = x
      BY <1>5, <1>8, <2>2
    <3>2. ASSUME NEW i \in 1..L, s[i] = x PROVE \E j \in 1..(L + 1) : t[j] = x
      BY <1>9, <2>0, <3>2
    <3>3. ASSUME NEW i \in 1..(L + 1), t[i] = x PROVE \E j \in 1..L : s[j] = x
      <4>1. i > 1
        BY <1>9, <2>2, <3>3
      <4> QED
        BY <1>9, <3>3, <4>1
    <3> QED
      BY <3>1, <3>2, <3>3
  <2> QED
    BY <2>1, <2>2
<1>12. stacked' = [i \in 1..(L + 1) |-> cell'[t[(L + 1) - i + 1]].data]
  <2>0. \A i \in 1..L : L - i + 1 \in 1..L
    BY <1>4
  <2>1. stacked \in [1..L -> Datum \cup {"none"}]
    BY <1>4, <1>5, <2>0
  <2>2. Append(stacked, v) = [i \in 1..(L + 1) |-> IF i = L + 1 THEN v ELSE stacked[i]]
    <3> DEFINE T == Datum \cup {"none"}
    <3>1. v \in T /\ L \in Nat /\ stacked \in [1..L -> T]
      BY <1>4, <2>1
    <3> HIDE DEF T
    <3> QED
      BY ONLY <3>1, AppendFn
  <2>3. ASSUME NEW i \in 1..(L + 1)
        PROVE  (IF i = L + 1 THEN v ELSE stacked[i]) = cell'[t[(L + 1) - i + 1]].data
    <3>1. CASE i = L + 1
      <4>1. (L + 1) - i + 1 = 1
        BY <1>4, <3>1
      <4> QED
        BY <1>8, <1>9, <3>1, <4>1
    <3>2. CASE i # L + 1
      <4>1. i \in 1..L /\ (L - i + 1) \in 1..L /\ (L + 1) - i + 1 = (L - i + 1) + 1
        BY <1>4, <3>2
      <4>2. t[(L + 1) - i + 1] = s[L - i + 1] /\ cell'[s[L - i + 1]] = cell[s[L - i + 1]]
        BY <1>9, <4>1
      <4>3. stacked[i] = cell[s[L - i + 1]].data
        BY <1>5, <4>1
      <4> QED
        BY <3>2, <4>2, <4>3
    <3> QED
      BY <3>1, <3>2
  <2> QED
    BY <1>2, <2>2, <2>3
<1>13. PileIs(t, L + 1, cell', top', stacked')
  BY <1>2, <1>10, <1>11, <1>12 DEF PileIs
<1>14. PileIs(t, cnt', cell', top', stacked') /\ cnt' \in Nat
  BY <1>2, <1>4, <1>13 DEF L
<1>15. \E u : PileIs(u, cnt', cell', top', stacked')
  BY <1>14
<1> QED
  BY <1>7, <1>14, <1>15 DEF StackKept, PileIs, IsThread, PileNext

\* pop(): the chain loses its first link, which is freed.
LEMMA PopKeeps ==
  ASSUME StackKept, Pile!Pop
  PROVE  StackKept'
<1>3. PICK s : PileIs(s, cnt, cell, top, stacked)
  BY DEF StackKept
<1> DEFINE L == cnt
           t == [i \in 1..(L - 1) |-> s[i + 1]]
<1>4. L \in Nat /\ cell \in [Cell -> [data : Datum \cup {"none"}, next : Cell \cup {0}, live : BOOLEAN]]
  BY DEF StackKept
<1>2. /\ cell' = [cell EXCEPT ![top] = Pile!Freed] /\ top # 0
      /\ top' = cell[top].next /\ cnt' = L - 1 /\ stacked' = SubSeq(stacked, 1, Len(stacked) - 1)
  BY DEF Pile!Pop, Pile!Front, Pile!NoCell
<1>50. L = cnt
  OBVIOUS
<1> HIDE DEF L
<1>5. /\ s \in [1..L -> Cell] /\ \A i, j \in 1..L : s[i] = s[j] => i = j
      /\ L = 0 => top = 0
      /\ L > 0 => top = s[1] /\ cell[s[L]].next = 0
      /\ \A i \in 1..L : i < L => cell[s[i]].next = s[i + 1]
      /\ \A x \in Cell : cell[x].live <=> \E i \in 1..L : s[i] = x
      /\ stacked = [i \in 1..L |-> cell[s[L - i + 1]].data]
  <2>1. PileIs(s, L, cell, top, stacked)
    BY <1>3 DEF L
  <2> QED
    BY <1>4, <2>1, PileParts
<1>6. L > 0 /\ top = s[1] /\ top \in Cell /\ L - 1 \in Nat /\ 1 \in 1..L
  BY <1>2, <1>4, <1>5
<1>7. cell' \in [Cell -> [data : Datum \cup {"none"}, next : Cell \cup {0}, live : BOOLEAN]]
  BY <1>2, <1>4, <1>6 DEF Pile!Freed, Pile!NoCell
<1>8. (\A x \in Cell : x # top => cell'[x] = cell[x]) /\ ~cell'[top].live
  BY <1>2, <1>4, <1>6 DEF Pile!Freed
<1>9. /\ t \in [1..(L - 1) -> Cell]
      /\ \A i \in 1..(L - 1) : /\ i + 1 \in 1..L /\ t[i] = s[i + 1] /\ t[i] # top
                               /\ cell'[t[i]] = cell[s[i + 1]]
  <2>1. \A i \in 1..(L - 1) : i + 1 \in 1..L /\ i + 1 # 1
    BY <1>4
  <2>2. t \in [1..(L - 1) -> Cell] /\ \A i \in 1..(L - 1) : t[i] = s[i + 1] /\ s[i + 1] # s[1]
    BY <1>5, <1>6, <2>1
  <2> HIDE DEF t
  <2> QED
    BY <1>5, <1>6, <1>8, <2>1, <2>2
<1> HIDE DEF t
<1>10. IsThread(t, L - 1, Cell, top', PileNext(cell'), 0)
  <2>1. ASSUME NEW i \in 1..(L - 1), NEW j \in 1..(L - 1), t[i] = t[j] PROVE i = j
    <3>1. i + 1 = j + 1
      BY <1>5, <1>9, <2>1
    <3> QED
      BY <3>1
  <2>2. ASSUME L - 1 = 0 PROVE top' = 0
    BY <1>2, <1>4, <1>5, <1>6, <2>2
  <2>3. ASSUME L - 1 > 0 PROVE top' = t[1] /\ cell'[t[L - 1]].next = 0
    <3>1. 1 \in 1..(L - 1) /\ L - 1 \in 1..(L - 1) /\ (L - 1) + 1 = L /\ 1 < L
      BY <1>4, <2>3
    <3>2. cell[s[1]].next = s[1 + 1]
      BY <1>5, <1>6, <3>1
    <3>3. t[1] = s[1 + 1]
      BY <1>9, <3>1
    <3>4. cell'[t[L - 1]] = cell[s[L]]
      BY <1>9, <3>1
    <3> QED
      BY <1>2, <1>5, <1>6, <3>2, <3>3, <3>4
  <2>4. ASSUME NEW i \in 1..(L - 1), i < L - 1 PROVE cell'[t[i]].next = t[i + 1]
    <3>1. i + 1 \in 1..(L - 1) /\ i + 1 \in 1..L /\ i + 1 < L
      BY <1>4, <2>4
    <3>2. cell[s[i + 1]].next = s[(i + 1) + 1]
      BY <1>5, <3>1
    <3> QED
      BY <1>9, <3>1, <3>2
  <2>5. \A i \in 1..(L - 1) : PileNext(cell')[t[i]] = cell'[t[i]].next
    BY <1>9 DEF PileNext
  <2>6. L - 1 > 0 => L - 1 \in 1..(L - 1)
    BY <1>4
  <2> QED
    BY <1>9, <2>1, <2>2, <2>3, <2>4, <2>5, <2>6 DEF IsThread
<1>11. \A x \in Cell : cell'[x].live <=> \E i \in 1..(L - 1) : t[i] = x
  <2> SUFFICES ASSUME NEW x \in Cell PROVE cell'[x].live <=> \E i \in 1..(L - 1) : t[i] = x
    OBVIOUS
  <2>1. CASE x = top
    BY <1>8, <1>9, <2>1
  <2>2. CASE x # top
    <3>1. cell'[x].live <=> \E i \in 1..L : s[i] = x
      BY <1>5, <1>8, <2>2
    <3>2. ASSUME NEW i \in 1..L, s[i] = x PROVE \E j \in 1..(L - 1) : t[j] = x
      <4>1. i - 1 \in 1..(L - 1) /\ (i - 1) + 1 = i
        BY <1>4, <1>6, <2>2, <3>2
      <4> QED
        BY <1>9, <3>2, <4>1
    <3>3. ASSUME NEW i \in 1..(L - 1), t[i] = x PROVE \E j \in 1..L : s[j] = x
      BY <1>9, <3>3
    <3> QED
      BY <3>1, <3>2, <3>3
  <2> QED
    BY <2>1, <2>2
<1>12. stacked' = [i \in 1..(L - 1) |-> cell'[t[(L - 1) - i + 1]].data]
  <2>0. \A i \in 1..L : L - i + 1 \in 1..L
    BY <1>4
  <2>1. stacked \in [1..L -> Datum \cup {"none"}]
    BY <1>4, <1>5, <2>0
  <2>2. SubSeq(stacked, 1, Len(stacked) - 1) = [i \in 1..(L - 1) |-> stacked[i]]
    BY ONLY <1>4, <1>6, <2>1, FrontFn
  <2>3. ASSUME NEW i \in 1..(L - 1) PROVE stacked[i] = cell'[t[(L - 1) - i + 1]].data
    <3>1. i \in 1..L /\ (L - 1) - i + 1 \in 1..(L - 1) /\ ((L - 1) - i + 1) + 1 = L - i + 1
      BY <1>4
    <3> QED
      BY <1>5, <1>9, <3>1
  <2> QED
    BY <1>2, <2>2, <2>3
<1>13. PileIs(t, L - 1, cell', top', stacked')
  BY <1>10, <1>11, <1>12 DEF PileIs
<1>14. PileIs(t, cnt', cell', top', stacked') /\ cnt' \in Nat
  BY <1>2, <1>6, <1>13
<1>15. \E u : PileIs(u, cnt', cell', top', stacked')
  BY <1>14
<1> QED
  BY <1>7, <1>14, <1>15 DEF StackKept, PileIs, IsThread, PileNext

\* A stack without links.
LEMMA EmptyPile ==
  ASSUME NEW c, \A x \in Cell : ~c[x].live
  PROVE  PileIs(<<>>, 0, c, 0, <<>>)
BY DEF PileIs, IsThread

\* The destructor frees every link.
LEMMA CleanupKeeps ==
  ASSUME StackKept, Pile!Cleanup
  PROVE  StackKept'
<1>1. PICK s : PileIs(s, cnt, cell, top, stacked)
  BY DEF StackKept
<1>2. Pile!FromTop = s
  BY <1>1, FromTopIs
<1>3. cell' = [c \in Cell |-> IF c \in Pile!ToSet(s) THEN Pile!Freed ELSE cell[c]]
  BY <1>2 DEF Pile!Cleanup
<1>4. Pile!ToSet(s) = {s[i] : i \in 1..cnt}
  BY <1>1 DEF Pile!ToSet, PileIs, IsThread
<1>5. \A x \in Cell : ~cell'[x].live
  BY <1>1, <1>3, <1>4 DEF PileIs, Pile!Freed
<1>6. cell' \in [Cell -> [data : Datum \cup {"none"}, next : Cell \cup {0}, live : BOOLEAN]]
  BY <1>3 DEF StackKept, Pile!Freed, Pile!NoCell
<1>7. top' = 0 /\ cnt' = 0 /\ stacked' = <<>>
  BY DEF Pile!Cleanup, Pile!NoCell
<1>8. PileIs(<<>>, cnt', cell', top', stacked')
  BY <1>5, <1>7, EmptyPile
<1>9. \E u : PileIs(u, cnt', cell', top', stacked')
  BY <1>8
<1> QED
  BY <1>6, <1>7, <1>9 DEF StackKept, PileIs, IsThread, PileNext

\* tw_Stack: the links from the top down hold what was pushed and not popped, the last
\* first, and every other link has been freed, for any supply of links and any data.
THEOREM StackAlwaysHolds == Spec => []StackHolds
<1>1. Init => StackKept
  <2> SUFFICES ASSUME Init PROVE StackKept
    OBVIOUS
  <2>1. /\ cell = [c \in Cell |-> Pile!Freed] /\ top = 0 /\ cnt = 0 /\ stacked = <<>>
    BY DEF Init, Pile!Init, Pile!NoCell
  <2>2. PileIs(<<>>, 0, cell, 0, <<>>)
    BY <2>1, EmptyPile DEF Pile!Freed
  <2>3. cell \in [Cell -> [data : Datum \cup {"none"}, next : Cell \cup {0}, live : BOOLEAN]]
    BY <2>1 DEF Pile!Freed, Pile!NoCell
  <2>4. \E u : PileIs(u, cnt, cell, top, stacked)
    BY <2>1, <2>2
  <2> QED
    BY <2>1, <2>3, <2>4 DEF StackKept
<1>2. StackKept /\ [Next]_vars => StackKept'
  <2> SUFFICES ASSUME StackKept, [Next]_vars PROVE StackKept'
    OBVIOUS
  <2>1. CASE UNCHANGED stackVars
    <3>1. PICK u : PileIs(u, cnt, cell, top, stacked)
      BY DEF StackKept
    <3>2. PileIs(u, cnt', cell', top', stacked')
      BY <2>1, <3>1 DEF stackVars
    <3>3. \E t : PileIs(t, cnt', cell', top', stacked')
      BY <3>2
    <3> QED
      BY <2>1, <3>3 DEF stackVars, StackKept, PileIs, IsThread, PileNext
  <2>2. CASE Pile!Next
    BY <2>2, PushKeeps, PopKeeps, CleanupKeeps DEF Pile!Next
  <2>3. Pile!Next \/ UNCHANGED stackVars
    BY DEF Next, Done, vars
  <2> QED
    BY <2>1, <2>2, <2>3
<1>3. StackKept => StackHolds
  <2> SUFFICES ASSUME StackKept PROVE StackHolds
    OBVIOUS
  <2>1. PICK s : PileIs(s, cnt, cell, top, stacked)
    BY DEF StackKept
  <2>2. Pile!FromTop = s
    BY <2>1, FromTopIs
  <2>3. /\ cnt \in Nat /\ s \in [1..cnt -> Cell] /\ DOMAIN s = 1..cnt
        /\ stacked = [i \in 1..cnt |-> cell[s[cnt - i + 1]].data]
        /\ \A x \in Cell : cell[x].live <=> \E i \in 1..cnt : s[i] = x
        /\ cell \in [Cell -> [data : Datum \cup {"none"}, next : Cell \cup {0}, live : BOOLEAN]]
    BY <2>1 DEF StackKept, PileIs, IsThread
  <2>4. \A i \in 1..cnt : cnt - i + 1 \in 1..cnt
    BY <2>3
  <2>5. stacked \in [1..cnt -> Datum \cup {"none"}]
    BY <2>3, <2>4
  <2>6. Len(stacked) = cnt
    BY <2>3, <2>5, FunctionIsSeq
  <2>7. [k \in DOMAIN s |-> cell[s[k]].data] = Pile!Reverse(stacked)
    <3>1. Pile!Reverse(stacked) = [i \in 1..cnt |-> stacked[(cnt - i) + 1]]
      BY <2>6 DEF Pile!Reverse
    <3>2. ASSUME NEW i \in 1..cnt PROVE stacked[(cnt - i) + 1] = cell[s[i]].data
      <4>1. (cnt - i) + 1 \in 1..cnt /\ cnt - ((cnt - i) + 1) + 1 = i
        BY <2>3
      <4> QED
        BY <2>3, <4>1
    <3> QED
      BY <2>3, <3>1, <3>2
  <2>8. Pile!ToSet(s) = Cell \ Pile!Unused
    BY <2>3 DEF Pile!ToSet, Pile!Unused
  <2> QED
    BY <2>2, <2>6, <2>7, <2>8 DEF StackHolds, Pile!StackHolds
<1> QED
  BY <1>1, <1>2, <1>3, PTL DEF Spec

-----------------------------------------------------------------------------
FifoData == Elem \cup {"default"}
LinkType == [d : FifoData, next : Link \cup {Null}, live : BOOLEAN]
QueueType == [in : Link \cup {Null}, out : Link \cup {Null}, remain : Nat, enabled : BOOLEAN]
LinkNext(lk) == [x \in Link |-> lk[x].next]

\* The elements in the links s.
DataOf(s, L, lk) == [i \in 1..L |-> lk[s[i]].d]

\* The links s are the queue f, and hold e.
QueueIs(s, f, lk, e) ==
    /\ IsThread(s, f.remain, Link, f.out, LinkNext(lk), Null)
    /\ f.remain = 0 => f.in = Null
    /\ f.remain > 0 => f.in = s[f.remain]
    /\ e = DataOf(s, f.remain, lk)

\* An iterator that looks at `at' in the chain s still has to show ah.
Shows(s, L, lk, at, ah) ==
    \/ at = Null /\ ah = <<>>
    \/ \E p \in 1..L : at = s[p] /\ ah = DataOf(Rest(s, L, p), L - p + 1, lk)

\* Both queues, the links of each in ss, and the iterator.
FifoIs(ss, lk, fs, cu, es, ah) ==
    /\ \A q \in {1, 2} : QueueIs(ss[q], fs[q], lk, es[q])
    /\ \A q, r \in {1, 2} : q # r =>
          \A i \in 1..fs[q].remain : \A j \in 1..fs[r].remain : ss[q][i] # ss[r][j]
    /\ \A x \in Link : lk[x].live <=> \E q \in {1, 2} : \E i \in 1..fs[q].remain : ss[q][i] = x
    /\ cu.on = 0 => cu.look = Null /\ ah = <<>>
    /\ \A q \in {1, 2} : cu.on = q => Shows(ss[q], fs[q].remain, lk, cu.look, ah)
FifoTypeOK ==
    /\ link \in [Link -> LinkType] /\ fifo \in [{1, 2} -> QueueType]
    /\ cursor \in [look : Link \cup {Null}, on : {0, 1, 2}]
    /\ queued = [q \in {1, 2} |-> queued[q]]
FifoKept == FifoTypeOK /\ \E ss : FifoIs(ss, link, fifo, cursor, queued, ahead)

\* The cardinality of the instance is the cardinality.
LEMMA FifoSameCardinality == \A S : Fifo!Cardinality(S) = Cardinality(S)
BY DEF Fifo!Cardinality, Cardinality

\* The walk of the instance is the walk the lemmas are about.
LEMMA FifoFollow == \A o, f, z, N : Fifo!Follow(o, f, z, N) = Follow(o, f, z, N)
BY FifoSameCardinality DEF Fifo!Follow, Follow

\* Chain() is the chain.
LEMMA FifoChainIs ==
  ASSUME NEW L \in Nat, NEW s, NEW n, IsThread(s, L, Link, n, LinkNext(link), Null)
  PROVE  Fifo!Chain(n) = s
<1>1. IsFiniteSet(Link) /\ Null \notin Link
  BY FifoAssumption DEF FifoAssumption
<1>2. Follow(n, LinkNext(link), Null, Cardinality(Link)) = s
  BY <1>1, FollowIs
<1> QED
  BY <1>2, FifoSameCardinality, FifoFollow DEF Fifo!Chain, LinkNext

\* The parts of a queue.
QueueShape(s, f, lk, e) ==
    /\ f.remain \in Nat
    /\ s \in [1..f.remain -> Link] /\ \A i, j \in 1..f.remain : s[i] = s[j] => i = j
    /\ f.remain = 0 => f.in = Null /\ f.out = Null
    /\ f.remain > 0 => f.in = s[f.remain] /\ f.out = s[1] /\ lk[s[f.remain]].next = Null
    /\ \A i \in 1..f.remain : i < f.remain => lk[s[i]].next = s[i + 1]
    /\ e = DataOf(s, f.remain, lk)
LEMMA QueueParts ==
  ASSUME NEW s, NEW f \in QueueType, NEW lk, NEW e, QueueIs(s, f, lk, e)
  PROVE  QueueShape(s, f, lk, e)
<1>0. f.remain \in Nat
  BY DEF QueueType
<1> DEFINE L == f.remain
<1>1. /\ s \in [1..L -> Link] /\ \A i, j \in 1..L : s[i] = s[j] => i = j
      /\ L = 0 => f.out = Null
      /\ L > 0 => f.out = s[1] /\ LinkNext(lk)[s[L]] = Null
      /\ \A i \in 1..L : i < L => LinkNext(lk)[s[i]] = s[i + 1]
  BY DEF QueueIs, IsThread
<1>2. L > 0 => L \in 1..L
  BY <1>0
<1>3. (L = 0 => f.in = Null) /\ (L > 0 => f.in = s[L]) /\ e = DataOf(s, L, lk)
  BY DEF QueueIs
<1> HIDE DEF L
<1>4. \A x \in Link : LinkNext(lk)[x] = lk[x].next
  BY DEF LinkNext
<1>5. (L > 0 => lk[s[L]].next = Null) /\ \A i \in 1..L : i < L => lk[s[i]].next = s[i + 1]
  BY <1>1, <1>2, <1>4
<1> QED
  BY <1>0, <1>1, <1>3, <1>5 DEF L, QueueShape

\* A queue is the same as long as its links are.
LEMMA QueueSame ==
  ASSUME NEW s, NEW f \in QueueType, NEW lk, NEW lk2, NEW e, QueueIs(s, f, lk, e),
         \A i \in 1..f.remain : lk2[s[i]] = lk[s[i]]
  PROVE  QueueIs(s, f, lk2, e)
<1>1. f.remain \in Nat /\ s \in [1..f.remain -> Link]
  BY QueueParts DEF QueueShape
<1>2. \A i \in 1..f.remain : LinkNext(lk2)[s[i]] = LinkNext(lk)[s[i]]
  BY <1>1 DEF LinkNext
<1>3. IsThread(s, f.remain, Link, f.out, LinkNext(lk), Null)
  BY DEF QueueIs
<1>4. IsThread(s, f.remain, Link, f.out, LinkNext(lk2), Null)
  BY <1>1, <1>2, <1>3, ThreadSame
<1>5. DataOf(s, f.remain, lk) = DataOf(s, f.remain, lk2)
  BY DEF DataOf
<1> QED
  BY <1>4, <1>5 DEF QueueIs

\* ... and an iterator has the same to show.
LEMMA ShowsSame ==
  ASSUME NEW L \in Nat, NEW s, NEW lk, NEW lk2, NEW at, NEW ah, Shows(s, L, lk, at, ah),
         \A i \in 1..L : lk2[s[i]].d = lk[s[i]].d
  PROVE  Shows(s, L, lk2, at, ah)
<1>1. CASE at = Null /\ ah = <<>>
  BY <1>1 DEF Shows
<1>2. ASSUME NEW p \in 1..L, at = s[p], ah = DataOf(Rest(s, L, p), L - p + 1, lk)
      PROVE  Shows(s, L, lk2, at, ah)
  <2>1. \A i \in 1..(L - p + 1) : i + p - 1 \in 1..L /\ Rest(s, L, p)[i] = s[i + p - 1]
    BY DEF Rest
  <2>2. \A i \in 1..(L - p + 1) : lk[Rest(s, L, p)[i]].d = lk2[Rest(s, L, p)[i]].d
    BY <2>1
  <2>3. ah = DataOf(Rest(s, L, p), L - p + 1, lk2)
    BY <1>2, <2>2 DEF DataOf
  <2> QED
    BY <1>2, <2>3 DEF Shows
<1> QED
  BY <1>1, <1>2 DEF Shows

\* One queue changes, its links are s then, and the other one keeps its links.
OneChanges(ss, q, r, s) ==
    /\ FifoIs(ss, link, fifo, cursor, queued, ahead)
    /\ q \in {1, 2} /\ r \in {1, 2} /\ q # r
    /\ link' \in [Link -> LinkType] /\ fifo' \in [{1, 2} -> QueueType] /\ queued' = [p \in {1, 2} |-> queued'[p]]
    /\ fifo'[r] = fifo[r] /\ queued'[r] = queued[r] /\ cursor' = cursor
    /\ QueueIs(s, fifo'[q], link', queued'[q])
    /\ \A i \in 1..fifo[r].remain : link'[ss[r][i]] = link[ss[r][i]]
    /\ \A i \in 1..fifo'[q].remain : \A j \in 1..fifo[r].remain : s[i] # ss[r][j]
    /\ \A x \in Link : link'[x].live <=> \/ \E i \in 1..fifo'[q].remain : s[i] = x
                                         \/ \E j \in 1..fifo[r].remain : ss[r][j] = x
    /\ cursor.on # q => ahead' = ahead
    /\ cursor.on = q => Shows(s, fifo'[q].remain, link', cursor.look, ahead')

\* A call that changes one queue and keeps off the links of the other keeps both.
LEMMA OneQueueChanges ==
  ASSUME FifoKept, NEW ss, NEW q, NEW r, NEW s, OneChanges(ss, q, r, s)
  PROVE  FifoKept'
<1> USE DEF OneChanges
<1> DEFINE uu == [p \in {1, 2} |-> IF p = q THEN s ELSE ss[p]]
<1>0. FifoTypeOK
  BY DEF FifoKept
<1>1. {1, 2} = {q, r} /\ uu[q] = s /\ uu[r] = ss[r]
  OBVIOUS
<1> HIDE DEF uu
<1>2. fifo[r] \in QueueType /\ fifo[r].remain \in Nat
  BY <1>0 DEF FifoTypeOK, QueueType
<1>3. QueueIs(ss[r], fifo[r], link', queued[r])
  BY <1>2, QueueSame DEF FifoIs
<1>4. \A p \in {1, 2} : QueueIs(uu[p], fifo'[p], link', queued'[p])
  BY <1>1, <1>3
<1>5. \A p, o \in {1, 2} : p # o => \A i \in 1..fifo'[p].remain : \A j \in 1..fifo'[o].remain : uu[p][i] # uu[o][j]
  BY <1>1
<1>6. \A x \in Link : link'[x].live <=> \E p \in {1, 2} : \E i \in 1..fifo'[p].remain : uu[p][i] = x
  BY <1>1
<1>7. cursor.on = 0 => cursor.look = Null /\ ahead' = <<>>
  BY DEF FifoIs
<1>8. ASSUME NEW p \in {1, 2}, cursor.on = p PROVE Shows(uu[p], fifo'[p].remain, link', cursor.look, ahead')
  <2>1. CASE p = q
    BY <1>1, <1>8, <2>1
  <2>2. CASE p = r
    <3>1. Shows(ss[r], fifo[r].remain, link, cursor.look, ahead)
      BY <1>8, <2>2 DEF FifoIs
    <3>2. \A i \in 1..fifo[r].remain : link'[ss[r][i]].d = link[ss[r][i]].d
      OBVIOUS
    <3>3. Shows(ss[r], fifo[r].remain, link', cursor.look, ahead)
      BY <1>2, <3>1, <3>2, ShowsSame
    <3> QED
      BY <1>1, <1>8, <2>2, <3>3
  <2> QED
    BY <1>1, <2>1, <2>2
<1>9. FifoIs(uu, link', fifo', cursor', queued', ahead')
  BY <1>4, <1>5, <1>6, <1>7, <1>8 DEF FifoIs
<1>10. \E t : FifoIs(t, link', fifo', cursor', queued', ahead')
  BY <1>9
<1>11. FifoTypeOK'
  BY <1>0 DEF FifoTypeOK
<1> QED
  BY <1>10, <1>11 DEF FifoKept, FifoIs, QueueIs, Shows, IsThread, LinkNext, DataOf, Rest

-----------------------------------------------------------------------------
\* The elements of two chains that are hung on one another.
LEMMA DataJoin ==
  ASSUME NEW L \in Nat, NEW M \in Nat, NEW s, NEW t, NEW lk, NEW x, NEW y, NEW v,
         x = DataOf(s, L, lk), y = DataOf(t, M, lk), v = DataOf(Joined(s, L, t, M), L + M, lk)
  PROVE  x \o y = v
<1> DEFINE u == Joined(s, L, t, M)
<1>1. L \in Nat /\ M \in Nat /\ L + M \in Nat
  OBVIOUS
<1>2. (\A i \in 1..L : x[i] = lk[s[i]].d) /\ (\A i \in 1..M : y[i] = lk[t[i]].d) /\ (\A i \in 1..(L + M) : v[i] = lk[u[i]].d)
  BY DEF DataOf
<1>4. /\ \A i \in 1..L : u[i] = s[i]
      /\ \A i \in 1..M : u[L + i] = t[i]
  BY ONLY <1>1, JoinedElements
<1>5. (\A i \in 1..L : i \in 1..(L + M)) /\ (\A i \in 1..M : L + i \in 1..(L + M))
  OBVIOUS
<1>6. Spans(x, L) /\ Spans(y, M) /\ Spans(v, L + M)
  BY <1>1 DEF Spans, DataOf
<1> HIDE DEF u
<1>7. (\A i \in 1..L : v[i] = x[i]) /\ (\A i \in 1..M : v[L + i] = y[i])
  BY <1>2, <1>4, <1>5
<1> QED
  BY ONLY <1>6, <1>7, ConcatIs

\* What an iterator has to show when a chain is hung on the one it is on.
LEMMA ShowsJoin ==
  ASSUME NEW L \in Nat, NEW M \in Nat, NEW s, NEW t, NEW lk, NEW at, NEW ah, Shows(s, L, lk, at, ah), NEW ah2,
         ah # <<>> => ah2 = ah \o DataOf(t, M, lk), ah = <<>> => ah2 = ah
  PROVE  Shows(Joined(s, L, t, M), L + M, lk, at, ah2)
<1> DEFINE u == Joined(s, L, t, M)
<1>1. CASE at = Null /\ ah = <<>>
  BY <1>1 DEF Shows
<1>2. ASSUME NEW p \in 1..L, at = s[p], ah = DataOf(Rest(s, L, p), L - p + 1, lk)
      PROVE  Shows(u, L + M, lk, at, ah2)
  <2> DEFINE K == L - p + 1
             w == Rest(s, L, p)
  <2>1. K \in Nat /\ K > 0 /\ M \in Nat /\ \A i \in 1..K : i + p - 1 \in 1..L
    OBVIOUS
  <2>2. \A i \in 1..K : w[i] = s[i + p - 1]
    BY DEF Rest
  <2>3. ah = DataOf(w, K, lk)
    BY <1>2
  <2> HIDE DEF w
  <2>4. ah # <<>>
    <3>1. 1 \in DOMAIN ah
      BY <1>2, <2>1 DEF DataOf
    <3>2. DOMAIN <<>> = {}
      OBVIOUS
    <3> QED
      BY <3>1, <3>2
  <2>5. ah2 = DataOf(Joined(w, K, t, M), K + M, lk)
    <3>1. ah2 = ah \o DataOf(t, M, lk)
      BY <2>4
    <3>2. K \in Nat /\ M \in Nat
      BY <2>1
    <3> DEFINE y == DataOf(t, M, lk)
               z == DataOf(Joined(w, K, t, M), K + M, lk)
    <3>3. y = DataOf(t, M, lk) /\ z = DataOf(Joined(w, K, t, M), K + M, lk)
      OBVIOUS
    <3> HIDE DEF K, y, z
    <3>4. ah \o y = z
      BY ONLY <2>3, <3>2, <3>3, DataJoin
    <3> QED
      BY ONLY <3>1, <3>3, <3>4
  <2>6. K + M = (L + M) - p + 1 /\ p \in 1..(L + M)
    OBVIOUS
  <2>7. /\ \A i \in 1..L : u[i] = s[i]
        /\ \A i \in 1..(L + M) : i > L => i - L \in 1..M /\ u[i] = t[i - L]
    <3>1. L \in Nat /\ M \in Nat
      OBVIOUS
    <3> QED
      BY ONLY <3>1, JoinedElements
  <2>8. /\ \A i \in 1..K : Joined(w, K, t, M)[i] = w[i]
        /\ \A i \in 1..(K + M) : i > K => i - K \in 1..M /\ Joined(w, K, t, M)[i] = t[i - K]
    <3> HIDE DEF K
    <3> QED
      BY ONLY <2>1, JoinedElements
  <2> HIDE DEF u
  <2>9. ASSUME NEW i \in 1..(K + M) PROVE Joined(w, K, t, M)[i] = u[i + p - 1]
    <3>1. CASE i <= K
      <4>1. i \in 1..K /\ i + p - 1 \in 1..L
        BY <3>1
      <4> QED
        BY <2>2, <2>7, <2>8, <4>1
    <3>2. CASE i > K
      <4>1. i + p - 1 \in 1..(L + M) /\ i + p - 1 > L /\ (i + p - 1) - L = i - K
        BY <3>2
      <4>2. u[i + p - 1] = t[i - K]
        BY <2>7, <4>1
      <4> HIDE DEF K
      <4> QED
        BY <2>8, <3>2, <4>2
    <3> QED
      BY <3>1, <3>2
  <2>10. \A i \in 1..(K + M) : Rest(u, L + M, p)[i] = Joined(w, K, t, M)[i]
    BY <2>6, <2>9 DEF Rest
  <2>11. ah2 = DataOf(Rest(u, L + M, p), (L + M) - p + 1, lk)
    <3>1. DataOf(Rest(u, L + M, p), K + M, lk) = DataOf(Joined(w, K, t, M), K + M, lk)
      BY <2>10 DEF DataOf
    <3> QED
      BY <2>5, <2>6, <3>1
  <2>12. at = u[p]
    BY <1>2, <2>7
  <2> QED
    BY <2>6, <2>11, <2>12 DEF Shows
<1> QED
  BY <1>1, <1>2 DEF Shows

\* ... and when links are put in front of it.
LEMMA ShowsBehind ==
  ASSUME NEW L \in Nat, NEW M \in Nat, NEW s, NEW t, NEW lk, NEW at, NEW ah, Shows(t, M, lk, at, ah)
  PROVE  Shows(Joined(s, L, t, M), L + M, lk, at, ah)
<1> DEFINE u == Joined(s, L, t, M)
<1>0. \A i \in 1..(L + M) : i > L => i - L \in 1..M /\ u[i] = t[i - L]
  <2>1. L \in Nat /\ M \in Nat
    OBVIOUS
  <2> QED
    BY ONLY <2>1, JoinedElements
<1> HIDE DEF u
<1>1. CASE at = Null /\ ah = <<>>
  BY <1>1 DEF Shows
<1>2. ASSUME NEW p \in 1..M, at = t[p], ah = DataOf(Rest(t, M, p), M - p + 1, lk)
      PROVE  Shows(u, L + M, lk, at, ah)
  <2>1. L + p \in 1..(L + M) /\ L + p > L /\ (L + p) - L = p /\ (L + M) - (L + p) + 1 = M - p + 1
    OBVIOUS
  <2>2. at = u[L + p]
    BY <1>0, <1>2, <2>1
  <2>3. ASSUME NEW i \in 1..(M - p + 1) PROVE t[i + p - 1] = u[i + (L + p) - 1]
    <3>1. i + (L + p) - 1 \in 1..(L + M) /\ i + (L + p) - 1 > L /\ (i + (L + p) - 1) - L = i + p - 1
      OBVIOUS
    <3> QED
      BY <1>0, <3>1
  <2>4. Rest(t, M, p) = Rest(u, L + M, L + p)
    BY <2>1, <2>3 DEF Rest
  <2>5. ah = DataOf(Rest(u, L + M, L + p), (L + M) - (L + p) + 1, lk)
    BY <1>2, <2>1, <2>4
  <2> QED
    BY <2>1, <2>2, <2>5 DEF Shows
<1>3. Shows(u, L + M, lk, at, ah)
  BY <1>1, <1>2 DEF Shows
<1> QED
  BY <1>3 DEF u

\* A queue of one link holds that link's data.
LEMMA OneIs ==
  ASSUME NEW n, NEW lk
  PROVE  One(n)[1] = n /\ DataOf(One(n), 1, lk) = <<lk[n].d>> /\ Spans(DataOf(One(n), 1, lk), 1) /\ DataOf(One(n), 1, lk)[1] = lk[n].d
<1>1. 1 \in 1..1 /\ \A i \in 1..1 : i = 1
  OBVIOUS
<1>2. One(n)[1] = n
  BY <1>1 DEF One
<1>3. DataOf(One(n), 1, lk) = [i \in 1..1 |-> lk[n].d]
  BY <1>1, <1>2 DEF DataOf
<1>4. [i \in 1..1 |-> lk[n].d] = <<lk[n].d>>
  OBVIOUS
<1>5. [i \in 1..1 |-> lk[n].d][1] = lk[n].d
  BY <1>1
<1>6. Spans([i \in 1..1 |-> lk[n].d], 1)
  BY DEF Spans
<1> QED
  BY ONLY <1>2, <1>3, <1>4, <1>5, <1>6

\* Malloc hands out a link that is free.
LEMMA MallocIs ==
  ASSUME NEW n \in Fifo!Malloc
  PROVE  n \in Link /\ ~link[n].live
<1>1. Fifo!Free \in SUBSET Nat
  BY FifoAssumption DEF FifoAssumption, Fifo!Free
<1>2. Fifo!Free # {} /\ n = Fifo!Min(Fifo!Free)
  BY DEF Fifo!Malloc
<1>3. \E x \in Fifo!Free : \A y \in Fifo!Free : x <= y
  BY <1>1, <1>2, LeastExists
<1>4. n \in Fifo!Free
  BY <1>2, <1>3 DEF Fifo!Min
<1> QED
  BY <1>4 DEF Fifo!Free

\* What the invariant says of one queue and of the other.
LEMMA FifoParts ==
  ASSUME FifoKept, NEW ss, FifoIs(ss, link, fifo, cursor, queued, ahead), NEW q \in {1, 2}
  PROVE  /\ fifo[q] \in QueueType /\ fifo[q].remain \in Nat
         /\ QueueIs(ss[q], fifo[q], link, queued[q])
         /\ \A i \in 1..fifo[q].remain : ss[q][i] \in Link /\ link[ss[q][i]].live
         /\ \A r \in {1, 2} : q # r =>
               /\ \A i \in 1..fifo[q].remain : \A j \in 1..fifo[r].remain : ss[q][i] # ss[r][j]
               /\ \A x \in Link : link[x].live <=> \/ \E i \in 1..fifo[q].remain : ss[q][i] = x
                                                \/ \E j \in 1..fifo[r].remain : ss[r][j] = x
         /\ cursor.on = q => Shows(ss[q], fifo[q].remain, link, cursor.look, ahead)
<1>1. fifo[q] \in QueueType
  BY DEF FifoKept, FifoTypeOK
<1>2. QueueIs(ss[q], fifo[q], link, queued[q])
  BY DEF FifoIs
<1>3. fifo[q].remain \in Nat /\ ss[q] \in [1..fifo[q].remain -> Link]
  BY <1>1, <1>2, QueueParts DEF QueueShape
<1>4. \A x \in Link : link[x].live <=> \E p \in {1, 2} : \E i \in 1..fifo[p].remain : ss[p][i] = x
  BY DEF FifoIs
<1>5. \A i \in 1..fifo[q].remain : ss[q][i] \in Link /\ link[ss[q][i]].live
  BY <1>3, <1>4
<1>6. ASSUME NEW r \in {1, 2}, q # r
      PROVE  /\ \A i \in 1..fifo[q].remain : \A j \in 1..fifo[r].remain : ss[q][i] # ss[r][j]
             /\ \A x \in Link : link[x].live <=> \/ \E i \in 1..fifo[q].remain : ss[q][i] = x
                                              \/ \E j \in 1..fifo[r].remain : ss[r][j] = x
  <2>1. {1, 2} = {q, r}
    BY <1>6
  <2>2. \A i \in 1..fifo[q].remain : \A j \in 1..fifo[r].remain : ss[q][i] # ss[r][j]
    BY <1>6 DEF FifoIs
  <2> QED
    BY <1>4, <2>1, <2>2
<1>7. cursor.on = q => Shows(ss[q], fifo[q].remain, link, cursor.look, ahead)
  BY DEF FifoIs
<1> QED
  BY <1>1, <1>2, <1>3, <1>5, <1>6, <1>7

\* add(): the new link comes after the last.
LEMMA AddKeeps ==
  ASSUME FifoKept, NEW q \in {1, 2}, NEW v \in FifoData, Fifo!Add(q, v)
  PROVE  FifoKept'
<1>1. PICK ss : FifoIs(ss, link, fifo, cursor, queued, ahead)
  BY DEF FifoKept
<1>2. PICK n \in Fifo!Malloc :
          /\ link' = [x \in Link |->
                IF x = n THEN [d |-> v, next |-> Null, live |-> TRUE]
                ELSE IF x = fifo[q].in THEN [link[x] EXCEPT !.next = n] ELSE link[x]]
          /\ fifo' = [fifo EXCEPT ![q].in = n, ![q].out = IF @ = Null THEN n ELSE @, ![q].remain = @ + 1]
  BY DEF Fifo!Add
<1>3. PICK r \in {1, 2} : q # r
  OBVIOUS
<1> DEFINE s == ss[q]
           L == fifo[q].remain
           u == Joined(s, L, One(n), 1)
<1>4. n \in Link /\ ~link[n].live
  BY MallocIs
<1>5. FifoTypeOK
  BY DEF FifoKept
<1>6. fifo[q] \in QueueType /\ fifo \in [{1, 2} -> QueueType] /\ link \in [Link -> LinkType] /\ v \in FifoData
  BY <1>5 DEF FifoTypeOK
<1>7. /\ fifo'[q].in = n /\ fifo'[q].remain = L + 1 /\ fifo'[r] = fifo[r]
      /\ fifo[q].out = Null => fifo'[q].out = n
      /\ fifo[q].out # Null => fifo'[q].out = fifo[q].out
  BY <1>2, <1>3, <1>6 DEF QueueType
<1>8. fifo' \in [{1, 2} -> QueueType]
  BY <1>2, <1>4, <1>6 DEF QueueType
<1>9. link' \in [Link -> LinkType]
  BY <1>2, <1>4, <1>6 DEF LinkType
<1>10. /\ link'[n].d = v /\ link'[n].next = Null /\ link'[n].live
       /\ \A x \in Link : x # n /\ x # fifo[q].in => link'[x] = link[x]
       /\ \A x \in Link : x # n => link'[x].d = link[x].d /\ (link'[x].live <=> link[x].live)
       /\ \A x \in Link : x # n /\ x = fifo[q].in => link'[x].next = n
  BY <1>2, <1>4, <1>6 DEF LinkType
<1>11. /\ L \in Nat /\ s \in [1..L -> Link] /\ \A i, j \in 1..L : s[i] = s[j] => i = j
       /\ L = 0 => fifo[q].in = Null /\ fifo[q].out = Null
       /\ L > 0 => fifo[q].in = s[L] /\ fifo[q].out = s[1] /\ link[s[L]].next = Null
       /\ \A i \in 1..L : i < L => link[s[i]].next = s[i + 1]
       /\ queued[q] = DataOf(s, L, link)
  <2>1. QueueIs(s, fifo[q], link, queued[q])
    BY <1>1, FifoParts
  <2>2. QueueShape(s, fifo[q], link, queued[q])
    BY <1>6, <2>1, QueueParts
  <2> QED
    BY <2>2 DEF QueueShape
<1>12. /\ \A i \in 1..L : s[i] \in Link /\ s[i] # n
       /\ \A j \in 1..fifo[r].remain : ss[r][j] \in Link /\ ss[r][j] # n
       /\ \A i \in 1..L : \A j \in 1..fifo[r].remain : s[i] # ss[r][j]
       /\ \A x \in Link : link[x].live <=> (\E i \in 1..L : s[i] = x) \/ (\E j \in 1..fifo[r].remain : ss[r][j] = x)
  <2>1. /\ \A i \in 1..L : s[i] \in Link /\ link[s[i]].live
        /\ \A i \in 1..L : \A j \in 1..fifo[r].remain : s[i] # ss[r][j]
        /\ \A x \in Link : link[x].live <=> (\E i \in 1..L : s[i] = x) \/ (\E j \in 1..fifo[r].remain : ss[r][j] = x)
    BY <1>1, <1>3, FifoParts
  <2>2. \A j \in 1..fifo[r].remain : ss[r][j] \in Link /\ link[ss[r][j]].live
    BY <1>1, FifoParts
  <2> QED
    BY <1>4, <2>1, <2>2
<1> HIDE DEF s
<1>13. /\ \A i \in 1..L : u[i] = s[i]
       /\ u[L + 1] = n
       /\ \A i \in 1..(L + 1) : i \in 1..L \/ i = L + 1
  BY <1>11, JoinedOne
<1>14. IsThread(u, L + 1, Link, fifo'[q].out, LinkNext(link'), Null)
  <2> DEFINE nx == LinkNext(link')
             o == fifo'[q].out
  <2>1. /\ \A i \in 1..L : i < L => nx[s[i]] = s[i + 1]
        /\ L > 0 => nx[s[L]] = One(n)[1]
        /\ nx[One(n)[1]] = Null
    <3>1. \A x \in Link : nx[x] = link'[x].next
      BY DEF LinkNext
    <3>2. ASSUME NEW i \in 1..L, i < L PROVE nx[s[i]] = s[i + 1]
      <4>1. L \in 1..L /\ L > 0 /\ i # L
        BY <1>11, <3>2
      <4>2. s[i] # fifo[q].in
        BY <1>11, <4>1
      <4> QED
        BY <1>10, <1>11, <1>12, <3>1, <3>2, <4>2
    <3>3. ASSUME L > 0 PROVE nx[s[L]] = n
      <4>1. L \in 1..L
        BY <1>11, <3>3
      <4> QED
        BY <1>10, <1>11, <1>12, <3>1, <3>3, <4>1
    <3>4. nx[n] = Null
      BY <1>4, <1>10, <3>1
    <3>5. One(n)[1] = n
      BY OneIs
    <3> QED
      BY <3>2, <3>3, <3>4, <3>5
  <2>2. One(n) \in [1..1 -> Link] /\ \A i \in 1..1 : i = 1 /\ One(n)[i] = n
    BY <1>4 DEF One
  <2>3. (L > 0 => o = s[1]) /\ (L = 0 => o = One(n)[1])
    <3>1. L > 0 => fifo[q].out # Null
      <4>1. L > 0 => 1 \in 1..L
        BY <1>11
      <4> QED
        BY <1>11, <4>1, FifoAssumption DEF FifoAssumption
    <3> QED
      BY <1>7, <1>11, <2>2, <3>1
  <2>4. /\ L \in Nat /\ 1 \in Nat /\ s \in [1..L -> Link] /\ \A i, j \in 1..L : s[i] = s[j] => i = j
    BY <1>11
  <2>5. /\ \A i, j \in 1..1 : One(n)[i] = One(n)[j] => i = j
        /\ \A i \in 1..L : \A j \in 1..1 : s[i] # One(n)[j]
        /\ \A i \in 1..1 : i < 1 => nx[One(n)[i]] = One(n)[i + 1]
        /\ ~(1 = 0) /\ 1 > 0
    BY <1>12, <2>2
  <2> HIDE DEF nx, o
  <2>6. IsThread(u, L + 1, Link, o, nx, Null)
    <3> HIDE DEF L
    <3> QED
      BY ONLY <2>1, <2>2, <2>3, <2>4, <2>5, ThreadJoin
  <2> QED
    BY <2>6 DEF nx, o
<1>15. queued' = [p \in {1, 2} |-> queued'[p]] /\ queued'[r] = queued[r] /\ queued'[q] = Append(queued[q], v)
  BY <1>3, <1>5 DEF Fifo!Add, Fifo!SetQueued, FifoTypeOK
<1>16. Append(queued[q], v) = DataOf(u, L + 1, link')
  <2> DEFINE x == queued[q]
             y == DataOf(u, L + 1, link')
  <2>1. L \in Nat /\ L + 1 \in Nat /\ \A i \in 1..L : i \in 1..(L + 1)
    BY <1>11
  <2>2. x = DataOf(s, L, link)
    BY <1>11
  <2> HIDE DEF u, x
  <2>3. Spans(x, L) /\ Spans(y, L + 1)
    BY <2>1, <2>2 DEF Spans, DataOf
  <2>4. \A i \in 1..L : y[i] = x[i]
    BY <1>10, <1>12, <1>13, <2>1, <2>2 DEF DataOf
  <2>5. y[L + 1] = v
    BY <1>10, <1>13, <2>1 DEF DataOf
  <2> HIDE DEF y
  <2>6. Append(x, v) = y
    <3> HIDE DEF L
    <3> QED
      BY ONLY <2>3, <2>4, <2>5, AppendIs
  <2> QED
    BY <2>6 DEF x, y
<1>17. QueueIs(u, fifo'[q], link', queued'[q])
  BY <1>7, <1>11, <1>13, <1>14, <1>15, <1>16 DEF QueueIs
<1>18. cursor' = cursor /\ (cursor.on # q => ahead' = ahead)
  BY DEF Fifo!Add
<1>19. ASSUME cursor.on = q PROVE Shows(u, fifo'[q].remain, link', cursor.look, ahead')
  <2> DEFINE y == DataOf(One(n), 1, link')
  <2>1. Shows(s, L, link, cursor.look, ahead)
    BY <1>1, <1>19, FifoParts DEF s
  <2>2. Shows(s, L, link', cursor.look, ahead)
    BY <1>10, <1>11, <1>12, <2>1, ShowsSame
  <2>3. Spans(y, 1) /\ y[1] = v
    BY <1>10, OneIs
  <2>4. ahead # <<>> => ahead' = Append(ahead, v)
    BY <1>19 DEF Fifo!Add
  <2>5. ahead = <<>> => ahead' = ahead
    BY <1>19 DEF Fifo!Add
  <2>6. ASSUME ahead # <<>> PROVE ahead' = ahead \o y
    <3>1. PICK p \in 1..L : ahead = DataOf(Rest(s, L, p), L - p + 1, link)
      BY <2>1, <2>6 DEF Shows
    <3>2. L - p + 1 \in Nat
      BY <1>11
    <3>3. Spans(ahead, L - p + 1)
      BY <3>1, <3>2 DEF Spans, DataOf
    <3> HIDE DEF y, L
    <3>4. Append(ahead, v) = ahead \o y
      BY ONLY <2>3, <3>3, AppendOne
    <3> QED
      BY <2>4, <2>6, <3>4
  <2>7. L \in Nat /\ 1 \in Nat
    BY <1>11
  <2>8. Shows(u, L + 1, link', cursor.look, ahead')
    <3> HIDE DEF L
    <3> QED
      BY ONLY <2>2, <2>5, <2>6, <2>7, ShowsJoin
  <2> QED
    BY <1>7, <2>8
<1>20. \A i \in 1..fifo[r].remain : link'[ss[r][i]] = link[ss[r][i]]
  <2>1. ASSUME NEW i \in 1..fifo[r].remain PROVE ss[r][i] # fifo[q].in
    <3>1. L > 0 => L \in 1..L
      BY <1>11
    <3> QED
      BY <1>11, <1>12, <3>1, FifoAssumption DEF FifoAssumption
  <2> QED
    BY <1>10, <1>12, <2>1
<1>21. \A i \in 1..fifo'[q].remain : \A j \in 1..fifo[r].remain : u[i] # ss[r][j]
  BY <1>7, <1>12, <1>13
<1>22. ASSUME NEW x \in Link
       PROVE  link'[x].live <=> \/ \E i \in 1..fifo'[q].remain : u[i] = x
                                \/ \E j \in 1..fifo[r].remain : ss[r][j] = x
  <2>1. L + 1 \in 1..(L + 1) /\ \A i \in 1..L : i \in 1..(L + 1)
    BY <1>11
  <2>2. (\E i \in 1..(L + 1) : u[i] = x) <=> (\E i \in 1..L : s[i] = x) \/ x = n
    BY <1>13, <2>1
  <2> QED
    BY <1>7, <1>10, <1>12, <2>2
<1> HIDE DEF u, L
<1>23. OneChanges(ss, q, r, u)
  BY <1>1, <1>3, <1>7, <1>8, <1>9, <1>15, <1>17, <1>18, <1>19, <1>20, <1>21, <1>22 DEF OneChanges
<1> QED
  BY <1>23, OneQueueChanges

\* addToHead(): the new link comes before the first.
LEMMA AddToHeadKeeps ==
  ASSUME FifoKept, NEW q \in {1, 2}, NEW v \in FifoData, Fifo!AddToHead(q, v)
  PROVE  FifoKept'
<1>1. PICK ss : FifoIs(ss, link, fifo, cursor, queued, ahead)
  BY DEF FifoKept
<1>2. PICK n \in Fifo!Malloc :
          /\ link' = [link EXCEPT ![n] = [d |-> v, next |-> fifo[q].out, live |-> TRUE]]
          /\ fifo' = [fifo EXCEPT ![q].out = n, ![q].in = IF @ = Null THEN n ELSE @, ![q].remain = @ + 1]
  BY DEF Fifo!AddToHead
<1>3. PICK r \in {1, 2} : q # r
  OBVIOUS
<1> DEFINE s == ss[q]
           L == fifo[q].remain
           u == Joined(One(n), 1, s, L)
<1>4. n \in Link /\ ~link[n].live
  BY MallocIs
<1>5. FifoTypeOK
  BY DEF FifoKept
<1>6. fifo[q] \in QueueType /\ fifo \in [{1, 2} -> QueueType] /\ link \in [Link -> LinkType] /\ v \in FifoData
  BY <1>5 DEF FifoTypeOK
<1>7. /\ fifo'[q].out = n /\ fifo'[q].remain = 1 + L /\ fifo'[r] = fifo[r]
      /\ fifo[q].in = Null => fifo'[q].in = n
      /\ fifo[q].in # Null => fifo'[q].in = fifo[q].in
  BY <1>2, <1>3, <1>6 DEF QueueType
<1>8. fifo' \in [{1, 2} -> QueueType]
  BY <1>2, <1>4, <1>6 DEF QueueType
<1>9. link' \in [Link -> LinkType]
  BY <1>2, <1>4, <1>6 DEF LinkType, QueueType
<1>10. /\ link'[n].d = v /\ link'[n].next = fifo[q].out /\ link'[n].live
       /\ \A x \in Link : x # n => link'[x] = link[x]
  BY <1>2, <1>4, <1>6 DEF LinkType
<1>11. /\ L \in Nat /\ s \in [1..L -> Link] /\ \A i, j \in 1..L : s[i] = s[j] => i = j
       /\ L = 0 => fifo[q].in = Null /\ fifo[q].out = Null
       /\ L > 0 => fifo[q].in = s[L] /\ fifo[q].out = s[1] /\ link[s[L]].next = Null
       /\ \A i \in 1..L : i < L => link[s[i]].next = s[i + 1]
       /\ queued[q] = DataOf(s, L, link)
  <2>1. QueueIs(s, fifo[q], link, queued[q])
    BY <1>1, FifoParts
  <2>2. QueueShape(s, fifo[q], link, queued[q])
    BY <1>6, <2>1, QueueParts
  <2> QED
    BY <2>2 DEF QueueShape
<1>12. /\ \A i \in 1..L : s[i] \in Link /\ s[i] # n
       /\ \A j \in 1..fifo[r].remain : ss[r][j] \in Link /\ ss[r][j] # n
       /\ \A i \in 1..L : \A j \in 1..fifo[r].remain : s[i] # ss[r][j]
       /\ \A x \in Link : link[x].live <=> (\E i \in 1..L : s[i] = x) \/ (\E j \in 1..fifo[r].remain : ss[r][j] = x)
  <2>1. /\ \A i \in 1..L : s[i] \in Link /\ link[s[i]].live
        /\ \A i \in 1..L : \A j \in 1..fifo[r].remain : s[i] # ss[r][j]
        /\ \A x \in Link : link[x].live <=> (\E i \in 1..L : s[i] = x) \/ (\E j \in 1..fifo[r].remain : ss[r][j] = x)
    BY <1>1, <1>3, FifoParts
  <2>2. \A j \in 1..fifo[r].remain : ss[r][j] \in Link /\ link[ss[r][j]].live
    BY <1>1, FifoParts
  <2> QED
    BY <1>4, <2>1, <2>2
<1> HIDE DEF s
<1>13. /\ \A i \in 1..L : u[i + 1] = s[i]
       /\ u[1] = n
       /\ \A i \in 1..(1 + L) : i = 1 \/ i - 1 \in 1..L
  BY <1>11, OneJoined
<1>a. \A i \in 1..(1 + L) : u[i] = n \/ (i - 1 \in 1..L /\ u[i] = s[i - 1])
  <2>1. ASSUME NEW i \in 1..(1 + L), i # 1 PROVE i - 1 \in 1..L /\ u[i] = s[i - 1]
    <3>1. i - 1 \in 1..L /\ (i - 1) + 1 = i
      BY <1>11, <1>13, <2>1
    <3> QED
      BY <1>13, <3>1
  <2> QED
    BY <1>13, <2>1
<1>14. IsThread(u, 1 + L, Link, fifo'[q].out, LinkNext(link'), Null)
  <2> DEFINE nx == LinkNext(link')
             o == fifo'[q].out
  <2>1. /\ \A i \in 1..L : i < L => nx[s[i]] = s[i + 1]
        /\ L > 0 => nx[s[L]] = Null /\ nx[One(n)[1]] = s[1]
        /\ L = 0 => nx[One(n)[1]] = Null
    <3>1. \A x \in Link : nx[x] = link'[x].next
      BY DEF LinkNext
    <3>2. ASSUME NEW i \in 1..L, i < L PROVE nx[s[i]] = s[i + 1]
      BY <1>10, <1>11, <1>12, <3>1, <3>2
    <3>3. ASSUME L > 0 PROVE nx[s[L]] = Null
      <4>1. L \in 1..L
        BY <1>11, <3>3
      <4> QED
        BY <1>10, <1>11, <1>12, <3>1, <3>3, <4>1
    <3>4. nx[n] = fifo[q].out
      BY <1>4, <1>10, <3>1
    <3>5. One(n)[1] = n
      BY OneIs
    <3> QED
      BY <1>11, <3>2, <3>3, <3>4, <3>5
  <2>2. One(n) \in [1..1 -> Link] /\ \A i \in 1..1 : i = 1 /\ One(n)[i] = n
    BY <1>4 DEF One
  <2>3. o = One(n)[1]
    BY <1>7, OneIs
  <2>4. /\ L \in Nat /\ 1 \in Nat /\ s \in [1..L -> Link] /\ \A i, j \in 1..L : s[i] = s[j] => i = j
    BY <1>11
  <2>5. /\ \A i, j \in 1..1 : One(n)[i] = One(n)[j] => i = j
        /\ \A j \in 1..1 : \A i \in 1..L : One(n)[j] # s[i]
        /\ \A i \in 1..1 : i < 1 => nx[One(n)[i]] = One(n)[i + 1]
        /\ ~(1 = 0) /\ 1 > 0
    BY <1>12, <2>2
  <2> HIDE DEF nx, o
  <2>6. IsThread(u, 1 + L, Link, o, nx, Null)
    <3> HIDE DEF L
    <3> QED
      BY ONLY <2>1, <2>2, <2>3, <2>4, <2>5, ThreadJoin
  <2> QED
    BY <2>6 DEF nx, o
<1>15. queued' = [p \in {1, 2} |-> queued'[p]] /\ queued'[r] = queued[r] /\ queued'[q] = <<v>> \o queued[q]
  BY <1>3, <1>5 DEF Fifo!AddToHead, Fifo!SetQueued, FifoTypeOK
<1>16. <<v>> \o queued[q] = DataOf(u, 1 + L, link')
  <2> DEFINE x == <<v>>
             y == queued[q]
             z == DataOf(u, 1 + L, link')
  <2>1. 1 \in Nat /\ L \in Nat
    BY <1>11
  <2>2. x = DataOf(One(n), 1, link')
    BY <1>10, OneIs
  <2>3. y = DataOf(s, L, link')
    BY <1>10, <1>11, <1>12 DEF DataOf
  <2>4. z = DataOf(Joined(One(n), 1, s, L), 1 + L, link')
    OBVIOUS
  <2> HIDE DEF x, y, z
  <2>5. x \o y = z
    <3> HIDE DEF L
    <3> QED
      BY ONLY <2>1, <2>2, <2>3, <2>4, DataJoin
  <2> QED
    BY <2>5 DEF x, y, z
<1>17. QueueIs(u, fifo'[q], link', queued'[q])
  <2>1. fifo'[q].in = u[1 + L]
    <3>1. CASE L = 0
      BY <1>7, <1>11, <1>13, <3>1
    <3>2. CASE L > 0
      <4>1. L \in 1..L /\ L + 1 = 1 + L
        BY <1>11, <3>2
      <4>2. u[1 + L] = s[L]
        BY <1>13, <4>1
      <4> QED
        BY <1>7, <1>11, <3>2, <4>1, <4>2, FifoAssumption DEF FifoAssumption
    <3> QED
      BY <1>11, <3>1, <3>2
  <2> QED
    BY <1>7, <1>11, <1>14, <1>15, <1>16, <2>1 DEF QueueIs
<1>18. cursor' = cursor /\ ahead' = ahead
  BY DEF Fifo!AddToHead
<1>19. ASSUME cursor.on = q PROVE Shows(u, fifo'[q].remain, link', cursor.look, ahead')
  <2>1. Shows(s, L, link, cursor.look, ahead)
    BY <1>1, <1>19, FifoParts DEF s
  <2>2. Shows(s, L, link', cursor.look, ahead)
    BY <1>10, <1>11, <1>12, <2>1, ShowsSame
  <2>7. L \in Nat /\ 1 \in Nat
    BY <1>11
  <2>8. Shows(u, 1 + L, link', cursor.look, ahead)
    <3> HIDE DEF L
    <3> QED
      BY ONLY <2>2, <2>7, ShowsBehind
  <2> QED
    BY <1>7, <1>18, <2>8
<1>20. \A i \in 1..fifo[r].remain : link'[ss[r][i]] = link[ss[r][i]]
  BY <1>10, <1>12
<1>21. \A i \in 1..fifo'[q].remain : \A j \in 1..fifo[r].remain : u[i] # ss[r][j]
  BY <1>7, <1>12, <1>a
<1>22. ASSUME NEW x \in Link
       PROVE  link'[x].live <=> \/ \E i \in 1..fifo'[q].remain : u[i] = x
                                \/ \E j \in 1..fifo[r].remain : ss[r][j] = x
  <2>1. 1 \in 1..(1 + L) /\ \A i \in 1..L : i + 1 \in 1..(1 + L)
    BY <1>11
  <2>2. (\E i \in 1..(1 + L) : u[i] = x) <=> (\E i \in 1..L : s[i] = x) \/ x = n
    BY <1>13, <1>a, <2>1
  <2> QED
    BY <1>7, <1>10, <1>12, <2>2
<1> HIDE DEF u, L
<1>23. OneChanges(ss, q, r, u)
  BY <1>1, <1>3, <1>7, <1>8, <1>9, <1>15, <1>17, <1>18, <1>19, <1>20, <1>21, <1>22 DEF OneChanges
<1> QED
  BY <1>23, OneQueueChanges

\* remove(): the first link is freed, and the rest is still linked.
LEMMA RemoveOutKeeps ==
  ASSUME FifoKept, NEW q \in {1, 2}, Fifo!RemoveOut(q)
  PROVE  FifoKept'
<1>1. PICK ss : FifoIs(ss, link, fifo, cursor, queued, ahead)
  BY DEF FifoKept
<1> DEFINE s == ss[q]
           L == fifo[q].remain
           u == Rest(s, L, 2)
           n == fifo[q].out
<1>2. /\ cursor.on # q /\ n # Null
      /\ fifo' = [fifo EXCEPT ![q].in = IF @ = n THEN Null ELSE @,
                              ![q].out = link[n].next, ![q].remain = @ - 1]
      /\ link' = [x \in Link |-> IF x \in {n} THEN [d |-> "default", next |-> Null, live |-> FALSE] ELSE link[x]]
      /\ queued' = [queued EXCEPT ![q] = Tail(queued[q])]
      /\ cursor' = cursor /\ ahead' = ahead
  BY DEF Fifo!RemoveOut, Fifo!Unwatched, Fifo!Freed, Fifo!NoLink, Fifo!Default, Fifo!SetQueued
<1>3. PICK r \in {1, 2} : q # r
  OBVIOUS
<1>5. FifoTypeOK
  BY DEF FifoKept
<1>6. fifo[q] \in QueueType /\ fifo \in [{1, 2} -> QueueType] /\ link \in [Link -> LinkType]
  BY <1>5 DEF FifoTypeOK
<1>11. /\ L \in Nat /\ s \in [1..L -> Link] /\ \A i, j \in 1..L : s[i] = s[j] => i = j
       /\ L = 0 => fifo[q].in = Null /\ fifo[q].out = Null
       /\ L > 0 => fifo[q].in = s[L] /\ fifo[q].out = s[1] /\ link[s[L]].next = Null
       /\ \A i \in 1..L : i < L => link[s[i]].next = s[i + 1]
       /\ queued[q] = DataOf(s, L, link)
  <2>1. QueueIs(s, fifo[q], link, queued[q])
    BY <1>1, FifoParts
  <2>2. QueueShape(s, fifo[q], link, queued[q])
    BY <1>6, <2>1, QueueParts
  <2> QED
    BY <2>2 DEF QueueShape
<1>4. L > 0 /\ L \in Nat /\ 1 \in 1..L /\ L \in 1..L /\ L - 1 \in Nat /\ n = s[1] /\ n \in Link
  BY <1>2, <1>11
<1>12. /\ \A i \in 1..L : s[i] \in Link
       /\ \A j \in 1..fifo[r].remain : ss[r][j] \in Link /\ ss[r][j] # n
       /\ \A i \in 1..L : \A j \in 1..fifo[r].remain : s[i] # ss[r][j]
       /\ \A x \in Link : link[x].live <=> (\E i \in 1..L : s[i] = x) \/ (\E j \in 1..fifo[r].remain : ss[r][j] = x)
  <2>1. /\ \A i \in 1..L : s[i] \in Link /\ link[s[i]].live
        /\ \A i \in 1..L : \A j \in 1..fifo[r].remain : s[i] # ss[r][j]
        /\ \A x \in Link : link[x].live <=> (\E i \in 1..L : s[i] = x) \/ (\E j \in 1..fifo[r].remain : ss[r][j] = x)
    BY <1>1, <1>3, FifoParts
  <2>2. \A j \in 1..fifo[r].remain : ss[r][j] \in Link /\ link[ss[r][j]].live
    BY <1>1, FifoParts
  <2> QED
    BY <1>4, <2>1, <2>2
<1> HIDE DEF s, n
<1>7. /\ fifo'[q].remain = L - 1 /\ fifo'[r] = fifo[r] /\ fifo'[q].out = link[n].next
      /\ fifo[q].in = n => fifo'[q].in = Null
      /\ fifo[q].in # n => fifo'[q].in = fifo[q].in
  BY <1>2, <1>3, <1>6 DEF QueueType
<1>8. fifo' \in [{1, 2} -> QueueType]
  <2>1. link[n].next \in Link \cup {Null}
    BY <1>4, <1>6 DEF LinkType
  <2> HIDE DEF n
  <2> QED
    BY <1>2, <1>4, <1>6, <2>1 DEF QueueType
<1>9. link' \in [Link -> LinkType]
  BY <1>2, <1>4, <1>6 DEF LinkType, FifoData
<1>10. ~link'[n].live /\ \A x \in Link : x # n => link'[x] = link[x]
  BY <1>2, <1>4
<1>13. \A i \in 1..(L - 1) : u[i] = s[i + 1] /\ i + 1 \in 1..L /\ s[i + 1] # n
  <2>1. \A i \in 1..(L - 1) : i \in 1..(L - 2 + 1) /\ i + 2 - 1 = i + 1 /\ i + 1 \in 1..L /\ i + 1 # 1
    BY <1>4
  <2>2. \A i \in 1..(L - 1) : u[i] = s[i + 1]
    BY <2>1 DEF Rest
  <2> QED
    BY <1>4, <1>11, <2>1, <2>2
<1>a. Spans(u, L - 1)
  <2>1. L - 2 + 1 = L - 1
    BY <1>4
  <2> QED
    BY <1>4, <2>1 DEF Rest, Spans
<1>14. IsThread(u, L - 1, Link, fifo'[q].out, LinkNext(link'), Null)
  <2>1. IsThread(s, L, Link, n, LinkNext(link), Null)
    BY <1>1 DEF FifoIs, QueueIs, s, n
  <2>2. 2 \in 1..(L + 1) /\ L - 2 + 1 = L - 1 /\ L \in Nat
    BY <1>4
  <2>3. (2 <= L => fifo'[q].out = s[2]) /\ (2 = L + 1 => fifo'[q].out = Null)
    <3>1. 1 < L => link[s[1]].next = s[1 + 1]
      BY <1>4, <1>11
    <3>2. L = 1 => link[s[1]].next = Null
      BY <1>4, <1>11
    <3> QED
      BY <1>4, <1>7, <3>1, <3>2
  <2> DEFINE o == fifo'[q].out
             nx == LinkNext(link)
  <2> HIDE DEF o, nx
  <2>4. IsThread(u, L - 2 + 1, Link, o, nx, Null)
    <3>1. (2 <= L => o = s[2]) /\ (2 = L + 1 => o = Null)
      BY <2>3 DEF o
    <3>2. IsThread(s, L, Link, n, nx, Null)
      BY <2>1 DEF nx
    <3> HIDE DEF L
    <3> QED
      BY ONLY <2>2, <3>1, <3>2, ThreadRest
  <2>5. \A i \in 1..(L - 1) : LinkNext(link')[u[i]] = LinkNext(link)[u[i]]
    BY <1>10, <1>12, <1>13 DEF LinkNext
  <2>6. IsThread(u, L - 1, Link, fifo'[q].out, LinkNext(link), Null)
    BY <2>2, <2>4 DEF o, nx
  <2> HIDE DEF u
  <2> QED
    BY <1>4, <2>5, <2>6, ThreadSame
<1>15. queued' = [p \in {1, 2} |-> queued'[p]] /\ queued'[r] = queued[r] /\ queued'[q] = Tail(queued[q])
  BY <1>2, <1>3, <1>5 DEF FifoTypeOK
<1>16. Tail(queued[q]) = DataOf(u, L - 1, link')
  <2> DEFINE x == queued[q]
             y == DataOf(u, L - 1, link')
  <2>1. x = DataOf(s, L, link)
    BY <1>11
  <2> HIDE DEF x, u
  <2>2. Spans(x, L) /\ Spans(y, L - 1)
    BY <1>4, <2>1 DEF Spans, DataOf
  <2>3. \A i \in 1..(L - 1) : y[i] = x[i + 1]
    BY <1>10, <1>12, <1>13, <2>1 DEF DataOf
  <2> HIDE DEF y
  <2>4. Tail(x) = y
    <3> HIDE DEF L
    <3> QED
      BY ONLY <1>4, <2>2, <2>3, TailIs
  <2> QED
    BY <2>4 DEF x, y
<1>17. QueueIs(u, fifo'[q], link', queued'[q])
  <2>1. L - 1 = 0 => fifo'[q].in = Null
    BY <1>4, <1>7, <1>11
  <2>2. ASSUME L - 1 > 0 PROVE fifo'[q].in = u[L - 1]
    <3>1. L - 1 \in 1..(L - 1) /\ (L - 1) + 1 = L
      BY <1>4, <2>2
    <3>2. u[L - 1] = s[L] /\ s[L] # n
      BY <1>13, <3>1
    <3> QED
      BY <1>4, <1>7, <1>11, <3>2
  <2> HIDE DEF u
  <2> QED
    BY <1>7, <1>14, <1>15, <1>16, <2>1, <2>2 DEF QueueIs
<1>20. \A i \in 1..fifo[r].remain : link'[ss[r][i]] = link[ss[r][i]]
  BY <1>10, <1>12
<1>21. \A i \in 1..fifo'[q].remain : \A j \in 1..fifo[r].remain : u[i] # ss[r][j]
  BY <1>7, <1>12, <1>13
<1>22. ASSUME NEW x \in Link
       PROVE  link'[x].live <=> \/ \E i \in 1..fifo'[q].remain : u[i] = x
                                \/ \E j \in 1..fifo[r].remain : ss[r][j] = x
  <2>1. ASSUME NEW i \in 1..L, s[i] = x, x # n PROVE \E j \in 1..(L - 1) : u[j] = x
    <3>1. i - 1 \in 1..(L - 1) /\ (i - 1) + 1 = i
      BY <1>4, <2>1
    <3>2. u[i - 1] = x
      BY <1>13, <2>1, <3>1
    <3> QED
      BY <3>1, <3>2
  <2>2. (\E i \in 1..(L - 1) : u[i] = x) <=> (\E i \in 1..L : s[i] = x) /\ x # n
    BY <1>13, <2>1
  <2> QED
    BY <1>4, <1>7, <1>10, <1>12, <2>2
<1> HIDE DEF u, L
<1>23. OneChanges(ss, q, r, u)
  BY <1>1, <1>2, <1>3, <1>7, <1>8, <1>9, <1>15, <1>17, <1>20, <1>21, <1>22 DEF OneChanges
<1> QED
  BY <1>23, OneQueueChanges

\* A queue that is left without links.
LEMMA EmptiedKeeps ==
  ASSUME FifoKept, NEW ss, FifoIs(ss, link, fifo, cursor, queued, ahead), NEW q \in {1, 2}, cursor.on # q,
         link' = Fifo!Freed(Fifo!Cleared(q)), fifo' \in [{1, 2} -> QueueType],
         fifo'[q].in = Null, fifo'[q].out = Null, fifo'[q].remain = 0,
         \A r \in {1, 2} : q # r => fifo'[r] = fifo[r],
         queued' = [queued EXCEPT ![q] = <<>>], cursor' = cursor, ahead' = ahead
  PROVE  FifoKept'
<1>3. PICK r \in {1, 2} : q # r
  OBVIOUS
<1> DEFINE s == ss[q]
           L == fifo[q].remain
<1>1. FifoTypeOK
  BY DEF FifoKept
<1>2. link \in [Link -> LinkType] /\ fifo[q] \in QueueType
  BY <1>1 DEF FifoTypeOK
<1>4. L \in Nat /\ QueueIs(s, fifo[q], link, queued[q])
  BY FifoParts
<1>5. Fifo!Cleared(q) = {s[i] : i \in 1..L}
  <2>1. IsThread(s, L, Link, fifo[q].out, LinkNext(link), Null) /\ s \in [1..L -> Link]
    BY <1>4 DEF QueueIs, IsThread
  <2>2. Fifo!Chain(fifo[q].out) = s
    BY <1>4, <2>1, FifoChainIs
  <2>3. DOMAIN s = 1..L
    BY <2>1
  <2> QED
    BY <2>2, <2>3 DEF Fifo!Cleared, Fifo!ToSet
<1>6. /\ \A j \in 1..fifo[r].remain : ss[r][j] \in Link
      /\ \A i \in 1..L : \A j \in 1..fifo[r].remain : s[i] # ss[r][j]
      /\ \A x \in Link : link[x].live <=> (\E i \in 1..L : s[i] = x) \/ (\E j \in 1..fifo[r].remain : ss[r][j] = x)
  <2>1. \A j \in 1..fifo[r].remain : ss[r][j] \in Link
    BY FifoParts
  <2> QED
    BY <1>3, <2>1, FifoParts
<1> HIDE DEF s
<1>7. link' = [x \in Link |-> IF \E i \in 1..L : s[i] = x THEN [d |-> "default", next |-> Null, live |-> FALSE] ELSE link[x]]
  BY <1>5 DEF Fifo!Freed, Fifo!NoLink, Fifo!Default
<1>8. link' \in [Link -> LinkType]
  BY <1>2, <1>7 DEF LinkType, FifoData
<1>9. \A x \in Link : /\ (\E i \in 1..L : s[i] = x) => ~link'[x].live
                      /\ ~(\E i \in 1..L : s[i] = x) => link'[x] = link[x]
  BY <1>7
<1>10. QueueIs(<<>>, fifo'[q], link', queued'[q])
  <2>1. queued'[q] = <<>>
    BY <1>1 DEF FifoTypeOK
  <2>2. <<>> = DataOf(<<>>, 0, link')
    BY DEF DataOf
  <2>3. IsThread(<<>>, 0, Link, Null, LinkNext(link'), Null)
    BY DEF IsThread
  <2> QED
    BY <2>1, <2>2, <2>3 DEF QueueIs
<1>11. queued' = [p \in {1, 2} |-> queued'[p]] /\ queued'[r] = queued[r]
  BY <1>1, <1>3 DEF FifoTypeOK
<1>12. \A i \in 1..fifo[r].remain : link'[ss[r][i]] = link[ss[r][i]]
  BY <1>6, <1>9
<1>13. \A i \in 1..0 : FALSE
  OBVIOUS
<1>14. ASSUME NEW x \in Link
       PROVE  link'[x].live <=> \E j \in 1..fifo[r].remain : ss[r][j] = x
  BY <1>6, <1>9
<1> DEFINE e == <<>>
<1> HIDE DEF L, e
<1>15. QueueIs(e, fifo'[q], link', queued'[q])
  BY <1>10 DEF e
<1>16. OneChanges(ss, q, r, e)
  BY <1>3, <1>8, <1>11, <1>12, <1>13, <1>14, <1>15 DEF OneChanges
<1> QED
  BY <1>16, OneQueueChanges

\* clear(): every link of the queue is freed.
LEMMA ClearAllKeeps ==
  ASSUME FifoKept, NEW q \in {1, 2}, Fifo!ClearAll(q)
  PROVE  FifoKept'
<1>1. PICK ss : FifoIs(ss, link, fifo, cursor, queued, ahead)
  BY DEF FifoKept
<1>2. fifo \in [{1, 2} -> QueueType]
  BY DEF FifoKept, FifoTypeOK
<1>3. fifo' = [fifo EXCEPT ![q].in = Null, ![q].out = Null, ![q].remain = 0]
  BY DEF Fifo!ClearAll
<1>4. /\ fifo' \in [{1, 2} -> QueueType] /\ fifo'[q].in = Null /\ fifo'[q].out = Null /\ fifo'[q].remain = 0
      /\ \A r \in {1, 2} : q # r => fifo'[r] = fifo[r]
  BY <1>2, <1>3 DEF QueueType
<1>5. /\ cursor.on # q /\ link' = Fifo!Freed(Fifo!Cleared(q)) /\ queued' = [queued EXCEPT ![q] = <<>>]
      /\ cursor' = cursor /\ ahead' = ahead
  BY DEF Fifo!ClearAll, Fifo!Unwatched, Fifo!SetQueued
<1> QED
  BY <1>1, <1>4, <1>5, EmptiedKeeps

\* The destructor frees every link of the queue.
LEMMA DestroyKeeps ==
  ASSUME FifoKept, NEW q \in {1, 2}, Fifo!Destroy(q)
  PROVE  FifoKept'
<1>1. PICK ss : FifoIs(ss, link, fifo, cursor, queued, ahead)
  BY DEF FifoKept
<1>2. fifo \in [{1, 2} -> QueueType]
  BY DEF FifoKept, FifoTypeOK
<1>3. fifo' = [fifo EXCEPT ![q] = [in |-> Null, out |-> Null, remain |-> 0, enabled |-> TRUE]]
  BY DEF Fifo!Destroy, Fifo!NewQueue
<1>4. /\ fifo' \in [{1, 2} -> QueueType] /\ fifo'[q].in = Null /\ fifo'[q].out = Null /\ fifo'[q].remain = 0
      /\ \A r \in {1, 2} : q # r => fifo'[r] = fifo[r]
  BY <1>2, <1>3 DEF QueueType
<1>5. /\ cursor.on # q /\ link' = Fifo!Freed(Fifo!Cleared(q)) /\ queued' = [queued EXCEPT ![q] = <<>>]
      /\ cursor' = cursor /\ ahead' = ahead
  BY DEF Fifo!Destroy, Fifo!Unwatched, Fifo!SetQueued
<1> QED
  BY <1>1, <1>4, <1>5, EmptiedKeeps

\* The parts of a queue, and how its links and those of the other one are apart.
LEMMA QueueOf ==
  ASSUME FifoKept, NEW ss, FifoIs(ss, link, fifo, cursor, queued, ahead), NEW q \in {1, 2}
  PROVE  QueueShape(ss[q], fifo[q], link, queued[q]) /\ Fifo!Chain(fifo[q].out) = ss[q]
<1> DEFINE f == fifo[q]
           e == queued[q]
           s == ss[q]
<1>1. f \in QueueType /\ QueueIs(s, f, link, e)
  BY FifoParts
<1> HIDE DEF f, e, s
<1>2. QueueShape(s, f, link, e)
  BY <1>1, QueueParts
<1>3. IsThread(s, f.remain, Link, f.out, LinkNext(link), Null)
  BY <1>1 DEF QueueIs
<1>4. Fifo!Chain(f.out) = s
  BY <1>2, <1>3, FifoChainIs DEF QueueShape
<1> QED
  BY ONLY <1>2, <1>4 DEF f, e, s

\* transferFrom(): the links of the other queue are linked behind those of this one.
LEMMA TransferFromKeeps ==
  ASSUME FifoKept, NEW q \in {1, 2}, NEW o \in {1, 2}, Fifo!TransferFrom(q, o)
  PROVE  FifoKept'
<1>1. PICK ss : FifoIs(ss, link, fifo, cursor, queued, ahead)
  BY DEF FifoKept
<1> DEFINE s == ss[q]
           L == fifo[q].remain
           t == ss[o]
           M == fifo[o].remain
           u == Joined(s, L, t, M)
           uu == [p \in {1, 2} |-> IF p = q THEN u ELSE <<>>]
<1>5. FifoTypeOK
  BY DEF FifoKept
<1>6. fifo \in [{1, 2} -> QueueType] /\ link \in [Link -> LinkType] /\ queued = [p \in {1, 2} |-> queued[p]]
  BY <1>5 DEF FifoTypeOK
<1>2. /\ L \in Nat /\ s \in [1..L -> Link] /\ \A i, j \in 1..L : s[i] = s[j] => i = j
      /\ L = 0 => fifo[q].in = Null /\ fifo[q].out = Null
      /\ L > 0 => fifo[q].in = s[L] /\ fifo[q].out = s[1] /\ link[s[L]].next = Null
      /\ \A i \in 1..L : i < L => link[s[i]].next = s[i + 1]
      /\ queued[q] = DataOf(s, L, link)
  <2>1. QueueShape(s, fifo[q], link, queued[q])
    BY <1>1, QueueOf
  <2> QED
    BY <2>1 DEF QueueShape
<1>3. /\ M \in Nat /\ t \in [1..M -> Link] /\ \A i, j \in 1..M : t[i] = t[j] => i = j
      /\ M = 0 => fifo[o].in = Null /\ fifo[o].out = Null
      /\ M > 0 => fifo[o].in = t[M] /\ fifo[o].out = t[1] /\ link[t[M]].next = Null
      /\ \A i \in 1..M : i < M => link[t[i]].next = t[i + 1]
      /\ queued[o] = DataOf(t, M, link) /\ Fifo!Chain(fifo[o].out) = t
  <2>1. QueueShape(t, fifo[o], link, queued[o]) /\ Fifo!Chain(fifo[o].out) = t
    BY <1>1, QueueOf
  <2> QED
    BY <2>1 DEF QueueShape
<1>4. q # o /\ cursor.on # o /\ cursor' = cursor
  BY DEF Fifo!TransferFrom, Fifo!Unwatched
<1>7. /\ \A i \in 1..L : s[i] \in Link /\ s[i] # Null
      /\ \A j \in 1..M : t[j] \in Link /\ t[j] # Null
      /\ \A i \in 1..L : \A j \in 1..M : s[i] # t[j]
      /\ \A x \in Link : link[x].live <=> (\E i \in 1..L : s[i] = x) \/ (\E j \in 1..M : t[j] = x)
  <2>1. Null \notin Link
    BY FifoAssumption DEF FifoAssumption
  <2>2. /\ \A i \in 1..L : \A j \in 1..M : s[i] # t[j]
        /\ \A x \in Link : link[x].live <=> (\E i \in 1..L : s[i] = x) \/ (\E j \in 1..M : t[j] = x)
    BY <1>1, <1>4, FifoParts
  <2>3. s \in [1..L -> Link] /\ t \in [1..M -> Link]
    BY <1>2, <1>3
  <2> HIDE DEF s, t, L, M
  <2>4. (\A i \in 1..L : s[i] \in Link) /\ (\A j \in 1..M : t[j] \in Link)
    BY ONLY <2>3
  <2> QED
    BY ONLY <2>1, <2>2, <2>4
<1>8. /\ Len(t) = M /\ (t # <<>> <=> M > 0) /\ Fifo!Last(t) = t[M]
  <2>1. Spans(t, M)
    BY <1>3 DEF Spans
  <2>2. Len(t) = M
    BY <2>1, LenIs
  <2>3. t # <<>> <=> M > 0
    <3>1. DOMAIN t = 1..M /\ DOMAIN <<>> = {}
      BY <1>3
    <3>2. M > 0 => 1 \in 1..M
      BY <1>3
    <3>3. M = 0 => t = <<>>
      BY <1>3
    <3> QED
      BY <1>3, <3>1, <3>2, <3>3
  <2> QED
    BY <2>2, <2>3 DEF Fifo!Last
<1>9. /\ link' = IF t # <<>> /\ fifo[q].in # Null THEN [link EXCEPT ![fifo[q].in].next = fifo[o].out] ELSE link
      /\ fifo' = [fifo EXCEPT
            ![q] = [in |-> IF t = <<>> THEN @.in ELSE Fifo!Last(t),
                    out |-> IF @.out = Null THEN fifo[o].out ELSE @.out,
                    remain |-> @.remain + Len(t), enabled |-> @.enabled],
            ![o] = [in |-> Null, out |-> Null, remain |-> 0, enabled |-> @.enabled]]
      /\ queued' = [queued EXCEPT ![q] = @ \o queued[o], ![o] = <<>>]
      /\ ahead' = IF cursor.on = q /\ ahead # <<>> THEN ahead \o queued[o] ELSE ahead
  BY <1>3 DEF Fifo!TransferFrom
<1> HIDE DEF s, t
<1>a. L > 0 => L \in 1..L /\ 1 \in 1..L /\ fifo[q].in # Null /\ fifo[q].out # Null
  <2>1. L > 0 => L \in 1..L /\ 1 \in 1..L
    BY <1>2
  <2> QED
    BY <1>2, <1>7, <2>1
<1>b. M > 0 => M \in 1..M /\ 1 \in 1..M
  BY <1>3
<1>10. /\ \A x \in Link : link'[x].d = link[x].d /\ (link'[x].live <=> link[x].live)
       /\ \A x \in Link : ~(L > 0 /\ x = s[L]) => link'[x] = link[x]
       /\ L > 0 /\ M > 0 => link'[s[L]].next = t[1]
       /\ L > 0 /\ M = 0 => link'[s[L]].next = Null
       /\ link' \in [Link -> LinkType]
  <2>1. CASE L > 0 /\ M > 0
    <3>1. link' = [link EXCEPT ![s[L]].next = t[1]] /\ s[L] \in Link /\ t[1] \in Link
      BY <1>2, <1>3, <1>7, <1>8, <1>9, <1>a, <1>b, <2>1
    <3> QED
      BY <1>6, <2>1, <3>1 DEF LinkType
  <2>2. CASE L = 0 \/ M = 0
    <3>1. link' = link
      <4>1. ~(t # <<>> /\ fifo[q].in # Null)
        BY <1>2, <1>8, <2>2
      <4> QED
        BY <1>9, <4>1
    <3> QED
      BY <1>2, <1>6, <2>2, <3>1
  <2>3. (L > 0 /\ M > 0) \/ (L = 0 \/ M = 0)
    BY <1>2, <1>3
  <2> QED
    BY ONLY <2>1, <2>2, <2>3
<1>11. /\ fifo' \in [{1, 2} -> QueueType]
       /\ fifo'[q].remain = L + M /\ fifo'[o].remain = 0 /\ fifo'[o].in = Null /\ fifo'[o].out = Null
       /\ M = 0 => fifo'[q].in = fifo[q].in
       /\ M > 0 => fifo'[q].in = t[M]
       /\ fifo[q].out = Null => fifo'[q].out = fifo[o].out
       /\ fifo[q].out # Null => fifo'[q].out = fifo[q].out
  <2> DEFINE a == IF t = <<>> THEN fifo[q].in ELSE Fifo!Last(t)
             b == IF fifo[q].out = Null THEN fifo[o].out ELSE fifo[q].out
             c == L + Len(t)
  <2>1. /\ fifo'[q] = [in |-> a, out |-> b, remain |-> c, enabled |-> fifo[q].enabled]
        /\ fifo'[o] = [in |-> Null, out |-> Null, remain |-> 0, enabled |-> fifo[o].enabled]
        /\ fifo' = [p \in {1, 2} |-> fifo'[p]] /\ {1, 2} = {q, o}
    <3>1. DOMAIN fifo = {1, 2} /\ q \in {1, 2} /\ o \in {1, 2} /\ q # o /\ {1, 2} = {q, o}
      BY <1>4, <1>6
    <3>2. fifo' = [fifo EXCEPT
            ![q] = [in |-> IF t = <<>> THEN @.in ELSE Fifo!Last(t),
                    out |-> IF @.out = Null THEN fifo[o].out ELSE @.out,
                    remain |-> @.remain + Len(t), enabled |-> @.enabled],
            ![o] = [in |-> Null, out |-> Null, remain |-> 0, enabled |-> @.enabled]]
      BY <1>9
    <3> QED
      BY ONLY <3>1, <3>2
  <2>2. /\ fifo[q].in \in Link \cup {Null} /\ fifo[q].out \in Link \cup {Null} /\ fifo[q].enabled \in BOOLEAN
        /\ fifo[o].out \in Link \cup {Null} /\ fifo[o].enabled \in BOOLEAN
    BY <1>6 DEF QueueType
  <2>3. (M = 0 => a = fifo[q].in) /\ (M > 0 => a = t[M])
    BY <1>8
  <2>4. a \in Link \cup {Null}
    BY <1>3, <1>7, <1>b, <2>2, <2>3
  <2>5. b \in Link \cup {Null} /\ (fifo[q].out = Null => b = fifo[o].out) /\ (fifo[q].out # Null => b = fifo[q].out)
    BY <2>2
  <2>6. c = L + M /\ c \in Nat
    BY <1>2, <1>3, <1>8
  <2> HIDE DEF a, b, c
  <2>7. fifo'[q] \in QueueType /\ fifo'[o] \in QueueType
    BY ONLY <2>1, <2>2, <2>4, <2>5, <2>6 DEF QueueType
  <2>8. fifo' \in [{1, 2} -> QueueType]
    BY ONLY <2>1, <2>7
  <2>9. /\ fifo'[q].remain = c /\ fifo'[o].remain = 0 /\ fifo'[o].in = Null /\ fifo'[o].out = Null
        /\ fifo'[q].in = a /\ fifo'[q].out = b
    BY ONLY <2>1
  <2> QED
    BY <2>3, <2>5, <2>6, <2>8, <2>9
<1> HIDE DEF L, M
<1>12. IsThread(u, L + M, Link, fifo'[q].out, LinkNext(link'), Null)
  <2> DEFINE nx == LinkNext(link')
             out == fifo'[q].out
  <2>1. \A x \in Link : nx[x] = link'[x].next
    BY DEF LinkNext
  <2>2. ASSUME NEW i \in 1..L, i < L PROVE nx[s[i]] = s[i + 1]
    <3>1. s[i] # s[L] /\ s[i] \in Link
      BY <1>2, <1>a, <2>2
    <3>2. link'[s[i]] = link[s[i]]
      BY <1>10, <3>1
    <3> QED
      BY <1>2, <2>1, <2>2, <3>1, <3>2
  <2>3. ASSUME NEW i \in 1..M PROVE t[i] \in Link /\ link'[t[i]] = link[t[i]]
    <3>1. ~(L > 0 /\ t[i] = s[L])
      BY <1>7, <1>a
    <3> QED
      BY <1>7, <1>10, <3>1
  <2>4. \A i \in 1..M : i < M => nx[t[i]] = t[i + 1]
    BY <1>3, <2>1, <2>3
  <2>5. M > 0 => nx[t[M]] = Null
    BY <1>3, <1>b, <2>1, <2>3
  <2>6. (L > 0 /\ M > 0 => nx[s[L]] = t[1]) /\ (L > 0 /\ M = 0 => nx[s[L]] = Null)
    BY <1>7, <1>10, <1>a, <2>1
  <2>7. (L > 0 => out = s[1]) /\ (L = 0 /\ M > 0 => out = t[1]) /\ (L = 0 /\ M = 0 => out = Null)
    BY <1>2, <1>3, <1>11, <1>a
  <2>8. L \in Nat /\ M \in Nat /\ s \in [1..L -> Link] /\ t \in [1..M -> Link]
    BY <1>2, <1>3
  <2>9. /\ \A i, j \in 1..L : s[i] = s[j] => i = j
        /\ \A i, j \in 1..M : t[i] = t[j] => i = j
        /\ \A i \in 1..L : \A j \in 1..M : s[i] # t[j]
    BY <1>2, <1>3, <1>7
  <2> HIDE DEF nx, out
  <2>10. IsThread(u, L + M, Link, out, nx, Null)
    BY ONLY <2>2, <2>4, <2>5, <2>6, <2>7, <2>8, <2>9, ThreadJoin
  <2> QED
    BY <2>10 DEF nx, out
<1>13. queued'[q] = queued[q] \o queued[o] /\ queued'[o] = <<>> /\ queued' = [p \in {1, 2} |-> queued'[p]]
  BY <1>4, <1>6, <1>9
<1>14. DataOf(s, L, link') = DataOf(s, L, link) /\ DataOf(t, M, link') = DataOf(t, M, link)
  BY <1>7, <1>10 DEF DataOf
<1>15. queued'[q] = DataOf(u, L + M, link')
  <2> DEFINE x == queued[q]
             y == queued[o]
             z == DataOf(u, L + M, link')
  <2>1. x = DataOf(s, L, link') /\ y = DataOf(t, M, link') /\ z = DataOf(u, L + M, link')
    BY <1>2, <1>3, <1>14
  <2>2. L \in Nat /\ M \in Nat
    BY <1>2, <1>3
  <2> HIDE DEF x, y, z
  <2>3. x \o y = z
    BY ONLY <2>1, <2>2, DataJoin
  <2> QED
    BY <1>13, <2>3 DEF x, y, z
<1>16. /\ \A i \in 1..L : u[i] = s[i]
       /\ \A i \in 1..M : u[L + i] = t[i]
       /\ \A i \in 1..(L + M) : i > L => i - L \in 1..M /\ u[i] = t[i - L]
  <2>1. L \in Nat /\ M \in Nat
    BY <1>2, <1>3
  <2> QED
    BY ONLY <2>1, JoinedElements
<1>17. L + M \in Nat /\ (\A i \in 1..L : i \in 1..(L + M)) /\ (\A i \in 1..M : L + i \in 1..(L + M))
       /\ \A i \in 1..(L + M) : i > L \/ i \in 1..L
  BY <1>2, <1>3
<1> HIDE DEF u
<1>18. QueueIs(u, fifo'[q], link', queued'[q])
  <2>1. L + M = 0 => fifo'[q].in = Null
    BY <1>2, <1>3, <1>11
  <2>2. ASSUME L + M > 0 PROVE fifo'[q].in = u[L + M]
    <3>1. CASE M > 0
      BY <1>11, <1>16, <1>b, <3>1
    <3>2. CASE M = 0
      <4>1. L > 0 /\ L + M = L
        BY <1>2, <2>2, <3>2
      <4> QED
        BY <1>2, <1>11, <1>16, <1>a, <3>2, <4>1
    <3> QED
      BY <1>3, <3>1, <3>2
  <2> QED
    BY <1>11, <1>12, <1>15, <2>1, <2>2 DEF QueueIs
<1>19. QueueIs(<<>>, fifo'[o], link', queued'[o])
  <2>1. <<>> = DataOf(<<>>, 0, link')
    BY DEF DataOf
  <2>2. IsThread(<<>>, 0, Link, Null, LinkNext(link'), Null)
    BY DEF IsThread
  <2> QED
    BY <1>11, <1>13, <2>1, <2>2 DEF QueueIs
<1>20. {1, 2} = {q, o} /\ uu[q] = u /\ uu[o] = <<>>
  BY <1>4
<1> HIDE DEF uu
<1>21. \A p \in {1, 2} : QueueIs(uu[p], fifo'[p], link', queued'[p])
  BY <1>18, <1>19, <1>20
<1>22. \A p, r \in {1, 2} : p # r => \A i \in 1..fifo'[p].remain : \A j \in 1..fifo'[r].remain : uu[p][i] # uu[r][j]
  <2>1. \A i \in 1..fifo'[o].remain : FALSE
    BY <1>11
  <2> QED
    BY <1>20, <2>1
<1>23. ASSUME NEW x \in Link
       PROVE  link'[x].live <=> \E p \in {1, 2} : \E i \in 1..fifo'[p].remain : uu[p][i] = x
  <2>1. (\E i \in 1..L : s[i] = x) => \E i \in 1..(L + M) : u[i] = x
    BY <1>16, <1>17
  <2>2. (\E i \in 1..M : t[i] = x) => \E i \in 1..(L + M) : u[i] = x
    BY <1>16, <1>17
  <2>3. (\E i \in 1..(L + M) : u[i] = x) => (\E i \in 1..L : s[i] = x) \/ (\E i \in 1..M : t[i] = x)
    BY <1>16, <1>17
  <2>4. link'[x].live <=> \E i \in 1..fifo'[q].remain : u[i] = x
    BY <1>7, <1>10, <1>11, <2>1, <2>2, <2>3
  <2>5. \A i \in 1..fifo'[o].remain : FALSE
    BY <1>11
  <2> QED
    BY <1>20, <2>4, <2>5
<1>24. ASSUME cursor.on = q PROVE Shows(u, L + M, link', cursor.look, ahead')
  <2>1. Shows(s, L, link, cursor.look, ahead)
    BY <1>1, <1>24, FifoParts DEF s, L
  <2>2. \A i \in 1..L : link'[s[i]].d = link[s[i]].d
    BY <1>7, <1>10
  <2>3. L \in Nat /\ M \in Nat
    BY <1>2, <1>3
  <2>4. Shows(s, L, link', cursor.look, ahead)
    BY <2>1, <2>2, <2>3, ShowsSame
  <2>5. (ahead # <<>> => ahead' = ahead \o DataOf(t, M, link')) /\ (ahead = <<>> => ahead' = ahead)
    BY <1>3, <1>9, <1>14, <1>24
  <2> QED
    BY <2>3, <2>4, <2>5, ShowsJoin DEF u
<1>25. FifoIs(uu, link', fifo', cursor', queued', ahead')
  <2>1. cursor.on = 0 => cursor.look = Null /\ ahead' = <<>>
    BY <1>1, <1>9 DEF FifoIs
  <2>2. \A p \in {1, 2} : cursor.on = p => Shows(uu[p], fifo'[p].remain, link', cursor.look, ahead')
    BY <1>4, <1>11, <1>20, <1>24
  <2> QED
    BY <1>4, <1>21, <1>22, <1>23, <2>1, <2>2 DEF FifoIs
<1>26. FifoTypeOK'
  BY <1>4, <1>5, <1>10, <1>11, <1>13 DEF FifoTypeOK
<1>27. \E v : FifoIs(v, link', fifo', cursor', queued', ahead')
  BY <1>25
<1> QED
  BY <1>26, <1>27 DEF FifoKept, FifoIs, QueueIs, Shows, IsThread, LinkNext, DataOf, Rest

\* The copy constructor makes links of its own for the elements of the other queue.
LEMMA ConstructKeeps ==
  ASSUME FifoKept, NEW q \in {1, 2}, NEW o \in {1, 2}, Fifo!Construct(q, o)
  PROVE  FifoKept'
BY TransferFromKeeps DEF Fifo!Construct

\* SetToSeq gives each element once.
LEMMA FifoSetToSeq ==
  ASSUME NEW S, IsFiniteSet(S)
  PROVE  /\ Cardinality(S) \in Nat
         /\ Fifo!SetToSeq(S) \in [1..Cardinality(S) -> S]
         /\ \A i, j \in 1..Cardinality(S) : Fifo!SetToSeq(S)[i] = Fifo!SetToSeq(S)[j] => i = j
<1>1. PICK n \in Nat : ExistsBijection(1..n, S)
  BY FS_NatBijection
<1>2. Cardinality(S) = n
  BY <1>1, FS_CountingElements
<1>3. PICK f : f \in Bijection(1..n, S)
  BY <1>1 DEF ExistsBijection
<1>4. f \in [1..n -> S] /\ Fifo!IsInjective(f)
  BY <1>3 DEF Bijection, Injection, IsInjective, Fifo!IsInjective
<1>5. \E g \in [1..n -> S] : Fifo!IsInjective(g)
  BY <1>4
<1>6. Fifo!SetToSeq(S) = CHOOSE g \in [1..n -> S] : Fifo!IsInjective(g)
  BY <1>2, FifoSameCardinality DEF Fifo!SetToSeq
<1>7. Fifo!SetToSeq(S) \in [1..n -> S] /\ Fifo!IsInjective(Fifo!SetToSeq(S))
  BY <1>5, <1>6
<1> QED
  BY <1>2, <1>7 DEF Fifo!IsInjective

\* operator= shares no links with the other queue.
LEMMA AssignKeeps ==
  ASSUME FifoKept, NEW q \in {1, 2}, NEW o \in {1, 2}, Fifo!Assign(q, o)
  PROVE  FifoKept'
<1>1. PICK ss : FifoIs(ss, link, fifo, cursor, queued, ahead)
  BY DEF FifoKept
<1> DEFINE s == ss[q]
           L == fifo[q].remain
           t == ss[o]
           M == fifo[o].remain
           S == Fifo!Free \cup Fifo!Cleared(q)
           u == SubSeq(Fifo!SetToSeq(S), 1, Len(t))
           In(n) == CHOOSE k \in DOMAIN u : u[k] = n
<1>5. FifoTypeOK
  BY DEF FifoKept
<1>6. /\ fifo \in [{1, 2} -> QueueType] /\ link \in [Link -> LinkType] /\ queued = [p \in {1, 2} |-> queued[p]]
      /\ fifo[o].enabled \in BOOLEAN
  BY <1>5 DEF FifoTypeOK, QueueType
<1>2. L \in Nat /\ s \in [1..L -> Link] /\ Fifo!Chain(fifo[q].out) = s
  <2>1. QueueShape(s, fifo[q], link, queued[q]) /\ Fifo!Chain(fifo[q].out) = s
    BY <1>1, QueueOf
  <2> QED
    BY <2>1 DEF QueueShape
<1>3. /\ M \in Nat /\ t \in [1..M -> Link] /\ Fifo!Chain(fifo[o].out) = t
      /\ queued[o] = DataOf(t, M, link)
  <2>1. QueueShape(t, fifo[o], link, queued[o]) /\ Fifo!Chain(fifo[o].out) = t
    BY <1>1, QueueOf
  <2> QED
    BY <2>1 DEF QueueShape
<1>4. q # o /\ cursor.on # q /\ cursor' = cursor /\ ahead' = ahead /\ queued' = [queued EXCEPT ![q] = queued[o]]
  BY DEF Fifo!Assign, Fifo!Unwatched, Fifo!SetQueued
<1>7. /\ \A j \in 1..M : t[j] \in Link /\ link[t[j]].live
      /\ \A i \in 1..L : \A j \in 1..M : s[i] # t[j]
      /\ \A x \in Link : link[x].live <=> (\E i \in 1..L : s[i] = x) \/ (\E j \in 1..M : t[j] = x)
  <2>1. \A j \in 1..M : t[j] \in Link /\ link[t[j]].live
    BY <1>1, FifoParts
  <2> QED
    BY <1>1, <1>4, <2>1, FifoParts
<1> HIDE DEF s, t
<1>8. /\ t # <<>> /\ M <= Cardinality(S) /\ Len(t) = M /\ M > 0
      /\ link' = [n \in Link |->
            IF n \in Fifo!ToSet(u)
            THEN [d |-> link[t[In(n)]].d, live |-> TRUE,
                  next |-> IF In(n) < Len(u) THEN u[In(n) + 1] ELSE Null]
            ELSE Fifo!Freed(Fifo!Cleared(q))[n]]
      /\ fifo' = [fifo EXCEPT ![q] = [in |-> Fifo!Last(u), out |-> u[1], remain |-> Len(u),
                                      enabled |-> fifo[o].enabled]]
  <2>1. Spans(t, M)
    BY <1>3 DEF Spans
  <2>2. Len(t) = M
    BY <2>1, LenIs
  <2>3. t # <<>> /\ Len(t) <= Fifo!Cardinality(S)
    BY <1>3 DEF Fifo!Assign
  <2>4. M > 0
    BY <1>3, <2>3
  <2> QED
    BY <1>3, <2>2, <2>3, <2>4, FifoSameCardinality DEF Fifo!Assign
<1>9. Fifo!Cleared(q) = {s[i] : i \in 1..L}
  BY <1>2 DEF Fifo!Cleared, Fifo!ToSet
<1>10. S \subseteq Link /\ \A x \in S : \A j \in 1..M : x # t[j]
  BY <1>2, <1>7, <1>9 DEF Fifo!Free
<1>11. IsFiniteSet(S)
  BY <1>10, FS_Subset, FifoAssumption DEF FifoAssumption
<1> DEFINE w == Fifo!SetToSeq(S)
           K == Cardinality(S)
<1>12. K \in Nat /\ w \in [1..K -> S] /\ \A i, j \in 1..K : w[i] = w[j] => i = j
  BY <1>11, FifoSetToSeq
<1>13. u = [i \in 1..M |-> w[i]] /\ Len(u) = M
  <2> HIDE DEF w
  <2>1. SubSeq(w, 1, M) = [i \in 1..M |-> w[i]]
    BY <1>3, <1>8
  <2>2. u = [i \in 1..M |-> w[i]]
    BY <1>8, <2>1 DEF w
  <2> HIDE DEF u
  <2>3. Spans(u, M)
    BY <1>3, <2>2 DEF Spans
  <2> QED
    BY <2>2, <2>3, LenIs
<1>d. Len(u) = M
  BY <1>13
<1> HIDE DEF S, w, K, u, L, M
<1>14. /\ M \in Nat /\ M > 0 /\ 1 \in 1..M /\ M \in 1..M
       /\ u \in [1..M -> Link] /\ \A i, j \in 1..M : u[i] = u[j] => i = j
       /\ \A i \in 1..M : u[i] \in S /\ u[i] \in Link
  <2>1. \A i \in 1..M : i \in 1..K
    BY <1>3, <1>8, <1>12 DEF K
  <2> QED
    BY <1>3, <1>8, <1>10, <1>12, <1>13, <2>1
<1>15. \A i \in 1..M : In(u[i]) = i
  BY <1>14
<1>16. Fifo!ToSet(u) = {u[i] : i \in 1..M}
  BY <1>14 DEF Fifo!ToSet
<1> HIDE DEF In
<1>b. ASSUME NEW n \in Link, n \in Fifo!ToSet(u)
      PROVE  link'[n] = [d |-> link[t[In(n)]].d, live |-> TRUE,
                         next |-> IF In(n) < Len(u) THEN u[In(n) + 1] ELSE Null]
  BY ONLY <1>8, <1>b
<1> DEFINE After(i) == IF i < M THEN u[i + 1] ELSE Null
<1>c. ASSUME NEW i \in 1..M
      PROVE  link'[u[i]] = [d |-> link[t[i]].d, live |-> TRUE, next |-> After(i)]
  <2>1. u[i] \in Link /\ u[i] \in Fifo!ToSet(u) /\ In(u[i]) = i
    BY <1>14, <1>15, <1>16
  <2>2. link'[u[i]] = [d |-> link[t[In(u[i])]].d, live |-> TRUE,
                       next |-> IF In(u[i]) < Len(u) THEN u[In(u[i]) + 1] ELSE Null]
    BY ONLY <1>b, <2>1
  <2> QED
    BY ONLY <2>1, <2>2, <1>d
<1>e. ASSUME NEW i \in 1..M PROVE (i < M => After(i) = u[i + 1]) /\ (i = M => After(i) = Null)
  BY <1>14
<1>f. ASSUME NEW i \in 1..M PROVE After(i) \in Link \cup {Null}
  <2>1. i < M => i + 1 \in 1..M
    BY <1>14
  <2> QED
    BY <1>14, <2>1
<1> HIDE DEF After
<1>17. \A i \in 1..M : /\ link'[u[i]].d = link[t[i]].d /\ link'[u[i]].live
                       /\ i < M => link'[u[i]].next = u[i + 1]
                       /\ i = M => link'[u[i]].next = Null
  <2>1. M \in Nat
    BY <1>3
  <2>2. ASSUME NEW i \in 1..M
        PROVE  /\ link'[u[i]].d = link[t[i]].d /\ link'[u[i]].live
               /\ i < M => link'[u[i]].next = u[i + 1]
               /\ i = M => link'[u[i]].next = Null
    <3>1. link'[u[i]] = [d |-> link[t[i]].d, live |-> TRUE, next |-> After(i)]
      BY <1>c
    <3>2. link'[u[i]].d = link[t[i]].d /\ link'[u[i]].live /\ link'[u[i]].next = After(i)
      BY ONLY <3>1
    <3> QED
      BY <1>e, <3>2
  <2> QED
    BY <2>2
<1>18. \A x \in Link : ~(\E i \in 1..M : u[i] = x) =>
          /\ (\E i \in 1..L : s[i] = x) => link'[x] = [d |-> "default", next |-> Null, live |-> FALSE]
          /\ ~(\E i \in 1..L : s[i] = x) => link'[x] = link[x]
  BY <1>8, <1>9, <1>16 DEF Fifo!Freed, Fifo!NoLink, Fifo!Default
<1>19. \A x \in Link : x \in S => ~link[x].live \/ \E i \in 1..L : s[i] = x
  BY <1>9 DEF S, Fifo!Free
<1>20. link' \in [Link -> LinkType]
  <2>1. ASSUME NEW x \in Link PROVE link'[x] \in LinkType
    <3>1. ASSUME NEW i \in 1..M, u[i] = x PROVE link'[x] \in LinkType
      <4>1. link'[u[i]] = [d |-> link[t[i]].d, live |-> TRUE, next |-> After(i)]
        BY <1>c
      <4>2. link[t[i]].d \in FifoData
        BY <1>6, <1>7 DEF LinkType
      <4>3. After(i) \in Link \cup {Null}
        BY <1>f
      <4>4. [d |-> link[t[i]].d, live |-> TRUE, next |-> After(i)] \in LinkType
        BY ONLY <4>2, <4>3 DEF LinkType
      <4> QED
        BY <3>1, <4>1, <4>4
    <3>2. ASSUME ~(\E i \in 1..M : u[i] = x) PROVE link'[x] \in LinkType
      <4>1. [d |-> "default", next |-> Null, live |-> FALSE] \in LinkType
        BY DEF LinkType, FifoData
      <4>2. link[x] \in LinkType
        BY <1>6
      <4> QED
        BY ONLY <1>18, <3>2, <4>1, <4>2
    <3> QED
      BY <3>1, <3>2
  <2>2. link' = [x \in Link |-> link'[x]]
    BY <1>8
  <2> QED
    BY <2>1, <2>2
<1>21. /\ fifo' \in [{1, 2} -> QueueType] /\ fifo'[q].in = u[M] /\ fifo'[q].out = u[1] /\ fifo'[q].remain = M
       /\ \A p \in {1, 2} : p # q => fifo'[p] = fifo[p]
  <2>1. Fifo!Last(u) = u[M] /\ Len(u) = M
    BY <1>13 DEF Fifo!Last
  <2>2. fifo' = [fifo EXCEPT ![q] = [in |-> u[M], out |-> u[1], remain |-> M, enabled |-> fifo[o].enabled]]
    BY <1>8, <2>1
  <2>3. [in |-> u[M], out |-> u[1], remain |-> M, enabled |-> fifo[o].enabled] \in QueueType
    BY <1>6, <1>14 DEF QueueType
  <2> QED
    BY <1>6, <2>2, <2>3
<1>22. IsThread(u, M, Link, fifo'[q].out, LinkNext(link'), Null)
  <2>1. \A x \in Link : LinkNext(link')[x] = link'[x].next
    BY DEF LinkNext
  <2>2. \A i \in 1..M : i < M => LinkNext(link')[u[i]] = u[i + 1]
    BY <1>14, <1>17, <2>1
  <2>3. LinkNext(link')[u[M]] = Null
    BY <1>14, <1>17, <2>1
  <2> QED
    BY <1>14, <1>21, <2>2, <2>3 DEF IsThread
<1>23. queued' = [p \in {1, 2} |-> queued'[p]] /\ queued'[q] = queued[o] /\ queued'[o] = queued[o]
  BY <1>4, <1>6
<1>24. queued'[q] = DataOf(u, M, link')
  BY <1>3, <1>17, <1>23 DEF DataOf
<1>25. QueueIs(u, fifo'[q], link', queued'[q])
  BY <1>14, <1>21, <1>22, <1>24 DEF QueueIs
<1>26. \A i \in 1..M : \A j \in 1..M : u[i] # t[j]
  BY <1>10, <1>14
<1>27. \A j \in 1..M : link'[t[j]] = link[t[j]]
  BY <1>7, <1>18, <1>26
<1>28. ASSUME NEW x \in Link
       PROVE  link'[x].live <=> (\E i \in 1..M : u[i] = x) \/ (\E j \in 1..M : t[j] = x)
  <2>1. CASE \E i \in 1..M : u[i] = x
    BY <1>17, <2>1
  <2>2. CASE ~(\E i \in 1..M : u[i] = x)
    <3>1. CASE \E i \in 1..L : s[i] = x
      BY <1>7, <1>18, <2>2, <3>1
    <3>2. CASE ~(\E i \in 1..L : s[i] = x)
      BY <1>7, <1>18, <2>2, <3>2
    <3> QED
      BY <3>1, <3>2
  <2> QED
    BY <2>1, <2>2
<1>29. fifo'[o] = fifo[o] /\ queued'[o] = queued[o] /\ M = fifo[o].remain /\ t = ss[o]
  BY <1>4, <1>21, <1>23 DEF M, t
<1>30. OneChanges(ss, q, o, u)
  BY <1>1, <1>4, <1>20, <1>21, <1>23, <1>25, <1>26, <1>27, <1>28, <1>29 DEF OneChanges
<1> QED
  BY <1>30, OneQueueChanges

\* enable() and disable().
LEMMA FlagKeeps ==
  ASSUME FifoKept, NEW q \in {1, 2}, NEW b \in BOOLEAN, fifo' = [fifo EXCEPT ![q].enabled = b],
         link' = link, cursor' = cursor, queued' = queued, ahead' = ahead
  PROVE  FifoKept'
<1>1. PICK ss : FifoIs(ss, link, fifo, cursor, queued, ahead)
  BY DEF FifoKept
<1>2. FifoTypeOK
  BY DEF FifoKept
<1>3. fifo \in [{1, 2} -> QueueType]
  BY <1>2 DEF FifoTypeOK
<1>4. /\ fifo' \in [{1, 2} -> QueueType]
      /\ \A p \in {1, 2} : fifo'[p].in = fifo[p].in /\ fifo'[p].out = fifo[p].out /\ fifo'[p].remain = fifo[p].remain
  BY <1>3 DEF QueueType
<1>5. \A p \in {1, 2} : QueueIs(ss[p], fifo'[p], link, queued[p])
  <2>1. \A p \in {1, 2} : QueueIs(ss[p], fifo[p], link, queued[p])
    BY <1>1 DEF FifoIs
  <2> QED
    BY <1>4, <2>1 DEF QueueIs
<1>6. FifoIs(ss, link, fifo', cursor, queued, ahead)
  BY <1>1, <1>4, <1>5 DEF FifoIs
<1>7. FifoTypeOK'
  BY <1>2, <1>4 DEF FifoTypeOK
<1>8. \E v : FifoIs(v, link', fifo', cursor', queued', ahead')
  BY <1>6
<1> QED
  BY <1>7, <1>8 DEF FifoKept, FifoIs, QueueIs, Shows, IsThread, LinkNext, DataOf, Rest

\* The iterator changes.
LEMMA CursorChanges ==
  ASSUME FifoKept, NEW ss, FifoIs(ss, link, fifo, cursor, queued, ahead),
         link' = link, fifo' = fifo, queued' = queued,
         cursor' \in [look : Link \cup {Null}, on : {0, 1, 2}],
         cursor'.on = 0 => cursor'.look = Null /\ ahead' = <<>>,
         \A p \in {1, 2} : cursor'.on = p => Shows(ss[p], fifo[p].remain, link, cursor'.look, ahead')
  PROVE  FifoKept'
<1>1. FifoTypeOK
  BY DEF FifoKept
<1>2. FifoTypeOK'
  BY <1>1 DEF FifoTypeOK
<1>3. FifoIs(ss, link, fifo, cursor', queued, ahead')
  BY DEF FifoIs
<1>4. \E v : FifoIs(v, link', fifo', cursor', queued', ahead')
  BY <1>3
<1> QED
  BY <1>2, <1>4 DEF FifoKept, FifoIs, QueueIs, Shows, IsThread, LinkNext, DataOf, Rest

\* startIter(): the cursor is at the first link.
LEMMA StartIterKeeps ==
  ASSUME FifoKept, NEW q \in {1, 2}, Fifo!StartIter(q)
  PROVE  FifoKept'
<1>1. PICK ss : FifoIs(ss, link, fifo, cursor, queued, ahead)
  BY DEF FifoKept
<1> DEFINE s == ss[q]
           L == fifo[q].remain
<1>2. link' = link /\ fifo' = fifo /\ queued' = queued /\ cursor' = [look |-> fifo[q].out, on |-> q] /\ ahead' = queued[q]
  BY DEF Fifo!StartIter
<1>3. fifo[q].out \in Link \cup {Null}
  BY DEF FifoKept, FifoTypeOK, QueueType
<1>4. /\ L \in Nat /\ s \in [1..L -> Link]
      /\ L = 0 => fifo[q].out = Null
      /\ L > 0 => fifo[q].out = s[1]
      /\ queued[q] = DataOf(s, L, link)
  <2>1. QueueShape(s, fifo[q], link, queued[q])
    BY <1>1, QueueOf
  <2> QED
    BY <2>1 DEF QueueShape
<1>5. Shows(s, L, link, fifo[q].out, queued[q])
  <2>1. CASE L = 0
    <3>1. DataOf(s, 0, link) = <<>>
      BY DEF DataOf
    <3> QED
      BY <1>4, <2>1, <3>1 DEF Shows
  <2>2. CASE L > 0
    <3>1. 1 \in 1..L /\ L - 1 + 1 = L /\ \A i \in 1..L : i + 1 - 1 = i
      BY <1>4, <2>2
    <3>2. Rest(s, L, 1) = s
      BY <1>4, <3>1 DEF Rest
    <3> QED
      BY <1>4, <2>2, <3>1, <3>2 DEF Shows
  <2> QED
    BY <1>4, <2>1, <2>2
<1> HIDE DEF s, L
<1>6. \A p \in {1, 2} : cursor'.on = p => Shows(ss[p], fifo[p].remain, link, cursor'.look, ahead')
  BY <1>2, <1>5 DEF s, L
<1>7. cursor' \in [look : Link \cup {Null}, on : {0, 1, 2}] /\ cursor'.on # 0
  BY <1>2, <1>3
<1> QED
  BY <1>1, <1>2, <1>6, <1>7, CursorChanges

\* getNext(): the cursor moves along the links of its queue.
LEMMA GetNextKeeps ==
  ASSUME FifoKept, Fifo!GetNext
  PROVE  FifoKept'
<1>1. PICK ss : FifoIs(ss, link, fifo, cursor, queued, ahead)
  BY DEF FifoKept
<1> DEFINE q == cursor.on
           s == ss[q]
           L == fifo[q].remain
<1>2. /\ cursor.look # Null /\ link' = link /\ fifo' = fifo /\ queued' = queued
      /\ cursor' = [cursor EXCEPT !.look = link[cursor.look].next] /\ ahead' = Tail(ahead)
  BY DEF Fifo!GetNext
<1>3. cursor \in [look : Link \cup {Null}, on : {0, 1, 2}] /\ link \in [Link -> LinkType]
  BY DEF FifoKept, FifoTypeOK
<1>4. q \in {1, 2} /\ cursor'.on = q /\ cursor'.look = link[cursor.look].next
      /\ cursor' \in [look : Link \cup {Null}, on : {0, 1, 2}]
  <2>1. cursor.on # 0
    BY <1>1, <1>2 DEF FifoIs
  <2>2. link[cursor.look].next \in Link \cup {Null}
    BY <1>2, <1>3 DEF LinkType
  <2> QED
    BY <1>2, <1>3, <2>1, <2>2
<1>5. Shows(s, L, link, cursor.look, ahead)
  BY <1>1, <1>4 DEF FifoIs
<1>6. /\ L \in Nat /\ s \in [1..L -> Link]
      /\ L > 0 => link[s[L]].next = Null
      /\ \A i \in 1..L : i < L => link[s[i]].next = s[i + 1]
  <2>1. QueueShape(s, fifo[q], link, queued[q])
    BY <1>1, <1>4, QueueOf
  <2> QED
    BY <2>1 DEF QueueShape
<1> HIDE DEF s, L, q
<1>7. PICK p \in 1..L : cursor.look = s[p] /\ ahead = DataOf(Rest(s, L, p), L - p + 1, link)
  BY <1>2, <1>5 DEF Shows
<1> DEFINE K == L - p + 1
           x == ahead
           y == DataOf(Rest(s, L, p + 1), K - 1, link)
<1>8. K \in Nat /\ K > 0 /\ K - 1 \in Nat /\ L - (p + 1) + 1 = K - 1 /\ \A i \in 1..(K - 1) : i + 1 \in 1..K
  BY <1>6, <1>7
<1>9. \A i \in 1..(K - 1) : Rest(s, L, p + 1)[i] = Rest(s, L, p)[i + 1]
  BY <1>6, <1>7 DEF Rest
<1>10. Spans(x, K) /\ Spans(y, K - 1)
  BY <1>7, <1>8 DEF Spans, DataOf
<1>11. \A i \in 1..(K - 1) : y[i] = x[i + 1]
  BY <1>7, <1>8, <1>9 DEF DataOf
<1>12. Tail(x) = y
  <2> HIDE DEF x, y, K
  <2> QED
    BY ONLY <1>8, <1>10, <1>11, TailIs
<1>13. Shows(s, L, link, cursor'.look, ahead')
  <2>1. CASE p = L
    <3>1. K - 1 = 0 /\ cursor'.look = Null
      BY <1>4, <1>6, <1>7, <2>1
    <3>2. y = <<>>
      BY <3>1 DEF DataOf
    <3> QED
      BY <1>2, <1>12, <3>1, <3>2 DEF Shows
  <2>2. CASE p < L
    <3>1. p + 1 \in 1..L /\ cursor'.look = s[p + 1]
      BY <1>4, <1>6, <1>7, <2>2
    <3>2. ahead' = DataOf(Rest(s, L, p + 1), L - (p + 1) + 1, link)
      BY <1>2, <1>8, <1>12
    <3> QED
      BY <3>1, <3>2 DEF Shows
  <2> QED
    BY <1>6, <1>7, <2>1, <2>2
<1>14. \A r \in {1, 2} : cursor'.on = r => Shows(ss[r], fifo[r].remain, link, cursor'.look, ahead')
  BY <1>4, <1>13 DEF s, L
<1>15. cursor'.on # 0
  BY <1>4
<1> QED
  BY <1>1, <1>2, <1>4, <1>14, <1>15, CursorChanges

\* releaseIter(): no cursor is left.
LEMMA ReleaseIterKeeps ==
  ASSUME FifoKept, Fifo!ReleaseIter
  PROVE  FifoKept'
<1>1. PICK ss : FifoIs(ss, link, fifo, cursor, queued, ahead)
  BY DEF FifoKept
<1>2. /\ link' = link /\ fifo' = fifo /\ queued' = queued
      /\ cursor' = [look |-> Null, on |-> 0] /\ ahead' = <<>>
  BY DEF Fifo!ReleaseIter, Fifo!NoCursor
<1>3. cursor' \in [look : Link \cup {Null}, on : {0, 1, 2}] /\ cursor'.on = 0 /\ cursor'.look = Null
  BY <1>2
<1>4. \A p \in {1, 2} : cursor'.on = p => Shows(ss[p], fifo[p].remain, link, cursor'.look, ahead')
  BY <1>3
<1> QED
  BY <1>1, <1>2, <1>3, <1>4, CursorChanges

-----------------------------------------------------------------------------
\* The invariant says that the queues hold.
LEMMA FifoKeptShows ==
  ASSUME FifoKept
  PROVE  Fifo!QueuesHold
<1>1. PICK ss : FifoIs(ss, link, fifo, cursor, queued, ahead)
  BY DEF FifoKept
<1>2. ASSUME NEW q \in {1, 2}
      PROVE  /\ fifo[q].remain \in Nat
             /\ ss[q] \in [1..fifo[q].remain -> Link]
             /\ Fifo!Chain(fifo[q].out) = ss[q]
             /\ queued[q] = DataOf(ss[q], fifo[q].remain, link)
             /\ fifo[q].remain = 0 => fifo[q].in = Null
             /\ fifo[q].remain > 0 => fifo[q].in = ss[q][fifo[q].remain]
  <2>1. QueueShape(ss[q], fifo[q], link, queued[q]) /\ Fifo!Chain(fifo[q].out) = ss[q]
    BY <1>1, QueueOf
  <2> QED
    BY <2>1 DEF QueueShape
<1>3. Fifo!QueueInOrder
  <2>1. ASSUME NEW q \in {1, 2}
        PROVE  /\ Fifo!Content(q) = queued[q] /\ fifo[q].remain = Len(queued[q])
               /\ fifo[q].in = IF Fifo!Chain(fifo[q].out) = <<>> THEN Null ELSE Fifo!Last(Fifo!Chain(fifo[q].out))
    <3> DEFINE s == ss[q]
               L == fifo[q].remain
    <3>1. /\ L \in Nat /\ s \in [1..L -> Link] /\ Fifo!Chain(fifo[q].out) = s
          /\ queued[q] = DataOf(s, L, link)
          /\ L = 0 => fifo[q].in = Null
          /\ L > 0 => fifo[q].in = s[L]
      BY <1>2
    <3> HIDE DEF s, L
    <3>2. Fifo!Content(q) = DataOf(s, L, link)
      BY <3>1 DEF Fifo!Content, DataOf
    <3>3. Spans(queued[q], L) /\ Spans(s, L)
      BY <3>1 DEF Spans, DataOf
    <3>4. Len(queued[q]) = L /\ Len(s) = L
      BY <3>3, LenIs
    <3>5. CASE L = 0
      <4>1. s = <<>>
        BY <3>1, <3>5
      <4> QED
        BY <3>1, <3>2, <3>4, <3>5, <4>1 DEF L
    <3>6. CASE L > 0
      <4>1. s # <<>>
        <5>1. 1 \in DOMAIN s
          BY <3>1, <3>6
        <5>2. DOMAIN <<>> = {}
          OBVIOUS
        <5> QED
          BY <5>1, <5>2
      <4>2. Fifo!Last(s) = s[L]
        BY <3>4 DEF Fifo!Last
      <4> QED
        BY <3>1, <3>2, <3>4, <3>6, <4>1, <4>2 DEF L
    <3> QED
      BY <3>1, <3>5, <3>6
  <2> QED
    BY <2>1 DEF Fifo!QueueInOrder, Fifo!Queues
<1>4. Fifo!LinksInOneQueue
  <2>1. \A q \in {1, 2} : Fifo!ToSet(Fifo!Chain(fifo[q].out)) = {ss[q][i] : i \in 1..fifo[q].remain}
    BY <1>2 DEF Fifo!ToSet
  <2>2. \A i \in 1..fifo[1].remain : \A j \in 1..fifo[2].remain : ss[1][i] # ss[2][j]
    BY <1>1 DEF FifoIs
  <2>3. \A x \in Link : link[x].live <=> (\E i \in 1..fifo[1].remain : ss[1][i] = x) \/ (\E i \in 1..fifo[2].remain : ss[2][i] = x)
    BY <1>1 DEF FifoIs
  <2>4. \A q \in {1, 2} : \A i \in 1..fifo[q].remain : ss[q][i] \in Link
    BY <1>2
  <2> DEFINE A == {ss[1][i] : i \in 1..fifo[1].remain}
             B == {ss[2][i] : i \in 1..fifo[2].remain}
  <2>5. A \cap B = {} /\ A \cup B = Link \ Fifo!Free
    BY <2>2, <2>3, <2>4 DEF Fifo!Free
  <2> QED
    BY <2>1, <2>5 DEF Fifo!LinksInOneQueue
<1>5. Fifo!IterShowsRest
  <2> SUFFICES [k \in DOMAIN Fifo!Chain(cursor.look) |-> link[Fifo!Chain(cursor.look)[k]].d] = ahead
    BY DEF Fifo!IterShowsRest
  <2>1. CASE cursor.look = Null /\ ahead = <<>>
    <3>1. IsThread(<<>>, 0, Link, Null, LinkNext(link), Null)
      BY DEF IsThread
    <3>2. Fifo!Chain(Null) = <<>>
      BY <3>1, FifoChainIs
    <3> QED
      BY <2>1, <3>2
  <2>2. CASE ~(cursor.look = Null /\ ahead = <<>>)
    <3> DEFINE q == cursor.on
               s == ss[q]
               L == fifo[q].remain
    <3>1. q \in {1, 2}
      BY <1>1, <2>2 DEF FifoKept, FifoTypeOK, FifoIs
    <3>2. Shows(s, L, link, cursor.look, ahead)
      BY <1>1, <3>1 DEF FifoIs
    <3>3. IsThread(s, L, Link, fifo[q].out, LinkNext(link), Null) /\ L \in Nat
      BY <1>1, <1>2, <3>1 DEF FifoIs, QueueIs
    <3> HIDE DEF s, L, q
    <3>4. PICK p \in 1..L : cursor.look = s[p] /\ ahead = DataOf(Rest(s, L, p), L - p + 1, link)
      BY <2>2, <3>2 DEF Shows
    <3> DEFINE K == L - p + 1
               w == Rest(s, L, p)
               o == cursor.look
               f == fifo[q].out
               nx == LinkNext(link)
    <3>5. K \in Nat /\ p \in 1..(L + 1) /\ (p <= L => o = s[p]) /\ p # L + 1
      BY <3>3, <3>4
    <3>6. IsThread(w, K, Link, o, nx, Null)
      <4>1. (p <= L => o = s[p]) /\ (p = L + 1 => o = Null) /\ L \in Nat /\ p \in 1..(L + 1)
        BY <3>3, <3>5
      <4>2. IsThread(s, L, Link, f, nx, Null)
        BY <3>3
      <4> HIDE DEF o, f, nx
      <4> QED
        BY ONLY <4>1, <4>2, ThreadRest
    <3>7. Fifo!Chain(o) = w /\ DOMAIN w = 1..K
      <4>1. DOMAIN w = 1..K
        BY <3>6 DEF IsThread
      <4>2. IsThread(w, K, Link, o, LinkNext(link), Null)
        BY <3>6
      <4> HIDE DEF o, w, K
      <4> QED
        BY <3>5, <4>1, <4>2, FifoChainIs
    <3>8. ahead = DataOf(w, K, link)
      BY <3>4
    <3> HIDE DEF w, K, o
    <3>9. [k \in DOMAIN Fifo!Chain(o) |-> link[Fifo!Chain(o)[k]].d] = ahead
      BY <3>7, <3>8 DEF DataOf
    <3> QED
      BY <3>9 DEF o
  <2> QED
    BY <2>1, <2>2
<1> QED
  BY <1>3, <1>4, <1>5 DEF Fifo!QueuesHold

\* A call that changes nothing keeps the invariant.
LEMMA FifoStutterKeeps ==
  ASSUME FifoKept, link' = link, fifo' = fifo, cursor' = cursor, queued' = queued, ahead' = ahead
  PROVE  FifoKept'
<1>1. PICK ss : FifoIs(ss, link, fifo, cursor, queued, ahead)
  BY DEF FifoKept
<1>2. cursor' \in [look : Link \cup {Null}, on : {0, 1, 2}]
  BY DEF FifoKept, FifoTypeOK
<1>3. cursor.on = 0 => cursor.look = Null /\ ahead = <<>>
  BY <1>1 DEF FifoIs
<1>4. \A p \in {1, 2} : cursor.on = p => Shows(ss[p], fifo[p].remain, link, cursor.look, ahead)
  BY <1>1 DEF FifoIs
<1> QED
  BY <1>1, <1>2, <1>3, <1>4, CursorChanges

\* Every call on the queues keeps the invariant.
LEMMA FifoStepKeeps ==
  ASSUME FifoKept, Fifo!Next
  PROVE  FifoKept'
<1> USE DEF Fifo!Queues, FifoData
<1>1. ASSUME NEW q \in {1, 2}, NEW v \in Elem \cup {"default"}, Fifo!Add(q, v) \/ Fifo!AddToHead(q, v) PROVE FifoKept'
  BY <1>1, AddKeeps, AddToHeadKeeps
<1>2. ASSUME NEW q \in {1, 2}, Fifo!RemoveOut(q) \/ Fifo!ClearAll(q) \/ Fifo!Destroy(q) \/ Fifo!StartIter(q) PROVE FifoKept'
  BY <1>2, RemoveOutKeeps, ClearAllKeeps, DestroyKeeps, StartIterKeeps
<1>3. ASSUME NEW q \in {1, 2}, Fifo!Enable(q) \/ Fifo!Disable(q) PROVE FifoKept'
  BY <1>3, FlagKeeps DEF Fifo!Enable, Fifo!Disable
<1>4. ASSUME NEW q \in {1, 2}, Fifo!AddDisabled(q) PROVE FifoKept'
  BY <1>4, FifoStutterKeeps DEF Fifo!AddDisabled, Fifo!fifoVars
<1>5. ASSUME NEW q \in {1, 2}, NEW o \in {1, 2}, Fifo!TransferFrom(q, o) \/ Fifo!Construct(q, o) \/ Fifo!Assign(q, o) PROVE FifoKept'
  BY <1>5, TransferFromKeeps, ConstructKeeps, AssignKeeps
<1> QED
  BY <1>1, <1>2, <1>3, <1>4, <1>5, GetNextKeeps, ReleaseIterKeeps DEF Fifo!Next, Fifo!Default

\* tw_FIFO: through any adds at both ends, removals, transfers and copies between two
\* queues each queue gives its elements in the order they were added, in is its last
\* link and remain their number, no link is shared or lost, and an iterator shows the
\* elements that are left.
THEOREM QueuesAlwaysHold == Spec => []QueuesHold
<1>1. Init => FifoKept
  <2> SUFFICES ASSUME Init PROVE FifoKept
    OBVIOUS
  <2>1. /\ link = [n \in Link |-> [d |-> "default", next |-> Null, live |-> FALSE]]
        /\ fifo = [q \in {1, 2} |-> [in |-> Null, out |-> Null, remain |-> 0, enabled |-> TRUE]]
        /\ cursor = [look |-> Null, on |-> 0]
        /\ queued = [q \in {1, 2} |-> <<>>] /\ ahead = <<>>
    BY DEF Init, Fifo!Init, Fifo!NoLink, Fifo!NewQueue, Fifo!NoCursor, Fifo!Default, Fifo!Queues
  <2>2. FifoTypeOK
    <3>1. link \in [Link -> LinkType]
      BY <2>1 DEF LinkType, FifoData
    <3>2. fifo \in [{1, 2} -> QueueType]
      BY <2>1 DEF QueueType
    <3> QED
      BY <2>1, <3>1, <3>2 DEF FifoTypeOK
  <2> DEFINE ss == [q \in {1, 2} |-> <<>>]
  <2>3. \A q \in {1, 2} : QueueIs(ss[q], fifo[q], link, queued[q])
    <3>1. <<>> = DataOf(<<>>, 0, link)
      BY DEF DataOf
    <3>2. IsThread(<<>>, 0, Link, Null, LinkNext(link), Null)
      BY DEF IsThread
    <3> QED
      BY <2>1, <3>1, <3>2 DEF QueueIs
  <2>4. \A i \in 1..0 : FALSE
    OBVIOUS
  <2>5. \A q \in {1, 2} : fifo[q].remain = 0
    BY <2>1
  <2> HIDE DEF ss
  <2>6. FifoIs(ss, link, fifo, cursor, queued, ahead)
    BY <2>1, <2>3, <2>4, <2>5 DEF FifoIs
  <2> QED
    BY <2>2, <2>6 DEF FifoKept
<1>2. FifoKept /\ [Next]_vars => FifoKept'
  <2> SUFFICES ASSUME FifoKept, [Next]_vars PROVE FifoKept'
    OBVIOUS
  <2>1. CASE UNCHANGED fifoVars
    BY <2>1, FifoStutterKeeps DEF fifoVars
  <2>2. CASE Fifo!Next
    BY <2>2, FifoStepKeeps
  <2>3. UNCHANGED fifoVars \/ Fifo!Next
    BY DEF Next, Done, vars
  <2> QED
    BY <2>1, <2>2, <2>3
<1>3. FifoKept => QueuesHold
  BY FifoKeptShows DEF QueuesHold
<1> QED
  BY <1>1, <1>2, <1>3, PTL DEF Spec
=============================================================================

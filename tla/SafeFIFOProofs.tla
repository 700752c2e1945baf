--------------------------- MODULE SafeFIFOProofs ---------------------------
(***************************************************************************)
(* Theorems about the linked list, for every number of threads, links and  *)
(* elements.                                                               *)
(*                                                                         *)
(* ListWellFormed counts the links that are reached from out; what its     *)
(* proof needs is that they are reached one after the other and differ.    *)
(* The inductive invariant is List, the types with Shape.                  *)
(***************************************************************************)
EXTENDS FIFORefinement, SharedLemmas

Links == Cardinality(Link)

\* From out, remain different links follow one another, and the last is in.
Shape ==
    /\ remain <= Links
    /\ \A k \in 0..Links : LinkAt[k] = Null <=> k >= remain
    /\ \A i, j \in 0..(remain - 1) : LinkAt[i] = LinkAt[j] => i = j
    /\ in = IF remain = 0 THEN Null ELSE LinkAt[remain - 1]

List == TypeOK /\ Shape

\* The number of links is a number.
LEMMA LinksNat == Links \in Nat
BY FIFOAssumption, FS_CardinalityType DEF FIFOAssumption, Links

\* LinkAt is the walk from out along next.
LEMMA LinkAtIsWalk == IsWalk(LinkAt, Links, out, next, Null)
<1>1. \E f : IsWalk(f, Links, out, next, Null)
  BY LinksNat, WalkExists
<1> QED
  BY <1>1 DEF LinkAt, IsWalk, Links

\* LinkAt is a walk of the list after a step as well.
LEMMA LinkAtIsWalkAfter == IsWalk(LinkAt', Links, out', next', Null)
<1>1. \E f : IsWalk(f, Links, out', next', Null)
  BY LinksNat, WalkExists
<1> QED
  BY <1>1 DEF LinkAt, IsWalk, Links

\* Two walks that obey the same equation are the same.
LEMMA LinkAtAfter ==
  ASSUME NEW g, IsWalk(g, Links, out', next', Null)
  PROVE  LinkAt' = g
<1>1. IsWalk(LinkAt', Links, out', next', Null)
  BY LinkAtIsWalkAfter
<1> QED
  BY <1>1, LinksNat, WalkUnique

\* What the equation says of each place.
LEMMA LinkAtPlaces ==
  /\ LinkAt = [k \in 0..Links |-> LinkAt[k]]
  /\ LinkAt[0] = out
  /\ \A k \in 1..Links : LinkAt[k] = IF LinkAt[k - 1] = Null THEN Null ELSE next[LinkAt[k - 1]]
BY LinkAtIsWalk, LinksNat DEF IsWalk

\* The walk stays in the heap.
LEMMA LinkAtType ==
  ASSUME out \in Link \cup {Null}, next \in [Link -> Link \cup {Null}]
  PROVE  LinkAt \in [0..Links -> Link \cup {Null}]
<1> DEFINE P == {k \in Nat : k <= Links => LinkAt[k] \in Link \cup {Null}}
<1>1. 0 \in P
  BY LinkAtPlaces
<1>2. ASSUME NEW k \in P PROVE k + 1 \in P
  <2>1. k \in Nat
    OBVIOUS
  <2>2. CASE k + 1 <= Links
    <3>1. k + 1 \in 1..Links /\ (k + 1) - 1 = k /\ LinkAt[k] \in Link \cup {Null}
      BY <2>1, <2>2, LinksNat
    <3>2. LinkAt[k + 1] = IF LinkAt[k] = Null THEN Null ELSE next[LinkAt[k]]
      BY <3>1, LinkAtPlaces
    <3>3. LinkAt[k + 1] \in Link \cup {Null}
      BY <3>1, <3>2
    <3> QED
      BY <2>1, <3>3
  <2> QED
    BY <2>1, <2>2, LinksNat
<1> HIDE DEF P
<1>3. P \in SUBSET Nat
  BY DEF P
<1>4. \A k \in 0..Links : k \in P
  BY <1>1, <1>2, <1>3, LinksNat, NatSetInduction
<1> QED
  BY <1>4, LinkAtPlaces, LinksNat DEF P

\* The links of the list are the first remain places of the walk.
LEMMA InListCounted ==
  ASSUME List
  PROVE  /\ \A k \in 0..(remain - 1) : LinkAt[k] \in Link /\ LinkAt[k] \in InList
         /\ \A l \in InList : \E k \in 0..(remain - 1) : l = LinkAt[k]
         /\ InList \subseteq Link
         /\ Cardinality(InList) = remain
<1>0. /\ remain \in Nat /\ remain <= Links /\ Links \in Nat
      /\ LinkAt \in [0..Links -> Link \cup {Null}]
      /\ \A k \in 0..Links : LinkAt[k] = Null <=> k >= remain
      /\ \A i, j \in 0..(remain - 1) : LinkAt[i] = LinkAt[j] => i = j
  BY LinksNat, LinkAtType DEF List, TypeOK, Shape
<1>1. InList = {LinkAt[k] : k \in 0..Links} \ {Null}
  BY DEF InList, Links
<1>2. \A k \in 0..(remain - 1) : k \in 0..Links /\ LinkAt[k] \in Link /\ LinkAt[k] \in InList
  BY <1>0, <1>1, FIFOAssumption DEF FIFOAssumption
<1>3. \A l \in InList : \E k \in 0..(remain - 1) : l = LinkAt[k]
  BY <1>0, <1>1
<1>4. InList \subseteq Link
  BY <1>2, <1>3
<1>5. Cardinality(InList) = remain
  <2> DEFINE f == [i \in 1..remain |-> LinkAt[i - 1]]
  <2>1. f \in [1..remain -> InList]
    BY <1>0, <1>2
  <2>2. \A i, j \in 1..remain : f[i] = f[j] => i = j
    BY <1>0
  <2>3. \A l \in InList : \E i \in 1..remain : f[i] = l
    <3> SUFFICES ASSUME NEW l \in InList PROVE \E i \in 1..remain : f[i] = l
      OBVIOUS
    <3>1. PICK k \in 0..(remain - 1) : l = LinkAt[k]
      BY <1>3
    <3>2. k + 1 \in 1..remain /\ (k + 1) - 1 = k
      BY <1>0
    <3> QED
      BY <3>1, <3>2
  <2> HIDE DEF f
  <2>4. f \in Bijection(1..remain, InList)
    BY <2>1, <2>2, <2>3 DEF Bijection, Injection, Surjection, IsInjective
  <2> QED
    BY <1>0, <2>4, FS_CountingElements DEF ExistsBijection
<1> QED
  BY <1>2, <1>3, <1>4, <1>5

\* The list is well formed when the invariant holds.
LEMMA ListGivesWellFormed == List => ListWellFormed
<1> SUFFICES ASSUME List PROVE ListWellFormed
  OBVIOUS
<1>1. TypeOK /\ Shape
  BY DEF List
<1> QED
  BY <1>1, InListCounted DEF ListWellFormed, Shape, Links

\* A free link is there only if the list is shorter than the heap.
LEMMA RoomForOne ==
  ASSUME List, NEW l \in Link \ InList
  PROVE  remain < Links
<1>1. InList \subseteq Link \ {l} /\ Cardinality(InList) = remain
  BY InListCounted
<1>2. IsFiniteSet(Link \ {l}) /\ Cardinality(Link \ {l}) = Links - 1
  BY FIFOAssumption, FS_RemoveElement DEF FIFOAssumption, Links
<1>3. remain <= Links - 1
  BY <1>1, <1>2, FS_Subset
<1> QED
  BY <1>3, LinksNat DEF List, TypeOK

-----------------------------------------------------------------------------
\* Where the links are after an add at the tail ...
LEMMA WalkAfterTail ==
  ASSUME List, NEW l \in Link \ InList, NEW v, LinkAtTail(l, v)
  PROVE  LinkAt' = [k \in 0..Links |-> IF k < remain THEN LinkAt[k]
                                       ELSE IF k = remain THEN l ELSE Null]
<1> DEFINE g == [k \in 0..Links |-> IF k < remain THEN LinkAt[k]
                                    ELSE IF k = remain THEN l ELSE Null]
<1>0. /\ remain \in Nat /\ remain < Links /\ Links \in Nat
      /\ \A k \in 0..Links : LinkAt[k] = Null <=> k >= remain
      /\ in = IF remain = 0 THEN Null ELSE LinkAt[remain - 1]
      /\ \A i, j \in 0..(remain - 1) : LinkAt[i] = LinkAt[j] => i = j
      /\ next \in [Link -> Link \cup {Null}] /\ Null \notin Link
  BY LinksNat, RoomForOne, FIFOAssumption DEF List, TypeOK, Shape, FIFOAssumption
<1>1. \A k \in 0..(remain - 1) : LinkAt[k] \in Link /\ LinkAt[k] # l
  BY InListCounted
<1>2. ASSUME NEW k \in 0..Links
      PROVE  g[k] = IF k = 0 THEN out' ELSE IF g[k - 1] = Null THEN Null ELSE next'[g[k - 1]]
  <2>1. CASE k = 0
    <3>1. out = LinkAt[0] /\ (out = Null <=> remain = 0)
      BY <1>0, LinkAtPlaces
    <3> QED
      BY <1>0, <2>1, <3>1 DEF LinkAtTail
  <2>2. CASE k \in 1..(remain - 1)
    <3>1. k - 1 \in 0..(remain - 1) /\ k - 1 # remain - 1 /\ k \in 1..Links /\ k - 1 \in 0..Links
      BY <1>0, <2>2
    <3>2. g[k - 1] = LinkAt[k - 1] /\ g[k] = LinkAt[k] /\ LinkAt[k - 1] # Null
      BY <1>0, <2>2, <3>1
    <3>3. LinkAt[k - 1] # in /\ LinkAt[k - 1] # l /\ LinkAt[k - 1] \in Link
      BY <1>0, <1>1, <3>1
    <3>4. next'[LinkAt[k - 1]] = next[LinkAt[k - 1]]
      BY <3>3 DEF LinkAtTail
    <3>5. LinkAt[k] = next[LinkAt[k - 1]]
      BY <3>1, <3>2, LinkAtPlaces
    <3> HIDE DEF g
    <3> QED
      BY <2>2, <3>2, <3>4, <3>5
  <2>3. CASE k = remain /\ remain > 0
    <3>1. k - 1 \in 0..(remain - 1) /\ k - 1 \in 0..Links
      BY <1>0, <2>3
    <3>2. g[k - 1] = in /\ g[k] = l /\ in # Null /\ in \in Link /\ in # l
      BY <1>0, <1>1, <2>3, <3>1
    <3>3. next'[in] = l
      BY <3>2 DEF LinkAtTail
    <3> HIDE DEF g
    <3> QED
      BY <2>3, <3>2, <3>3
  <2>4. CASE k = remain + 1
    <3>1. g[k - 1] = l /\ g[k] = Null /\ k # 0 /\ l # Null
      BY <1>0, <2>4
    <3>2. next'[l] = Null
      BY DEF LinkAtTail
    <3> HIDE DEF g
    <3> QED
      BY <3>1, <3>2
  <2>5. CASE k > remain + 1
    <3>1. g[k - 1] = Null /\ g[k] = Null /\ k # 0
      BY <1>0, <2>5
    <3> HIDE DEF g
    <3> QED
      BY <3>1
  <2> QED
    BY <1>0, <2>1, <2>2, <2>3, <2>4, <2>5
<1>3. g = [k \in 0..Links |-> g[k]]
  OBVIOUS
<1>4. IsWalk(g, Links, out', next', Null)
  <2> HIDE DEF g
  <2> QED
    BY <1>2, <1>3 DEF IsWalk
<1> HIDE DEF g
<1>5. LinkAt' = g
  BY <1>4, LinkAtAfter
<1> QED
  BY <1>5 DEF g

\* ... at the head ...
LEMMA WalkAfterHead ==
  ASSUME List, NEW l \in Link \ InList, NEW v, LinkAtHead(l, v)
  PROVE  LinkAt' = [k \in 0..Links |-> IF k = 0 THEN l ELSE LinkAt[k - 1]]
<1> DEFINE g == [k \in 0..Links |-> IF k = 0 THEN l ELSE LinkAt[k - 1]]
<1>0. /\ remain \in Nat /\ remain < Links /\ Links \in Nat
      /\ \A k \in 0..Links : LinkAt[k] = Null <=> k >= remain
      /\ next \in [Link -> Link \cup {Null}] /\ Null \notin Link
  BY LinksNat, RoomForOne, FIFOAssumption DEF List, TypeOK, Shape, FIFOAssumption
<1>1. \A k \in 0..(remain - 1) : LinkAt[k] \in Link /\ LinkAt[k] # l
  BY InListCounted
<1>2. ASSUME NEW k \in 0..Links
      PROVE  g[k] = IF k = 0 THEN out' ELSE IF g[k - 1] = Null THEN Null ELSE next'[g[k - 1]]
  <2>1. CASE k = 0
    BY <1>0, <2>1 DEF LinkAtHead
  <2>2. CASE k = 1
    <3>1. g[k - 1] = l /\ g[k] = out /\ l # Null
      BY <1>0, <2>2, LinkAtPlaces
    <3>2. next'[l] = out
      BY <1>0 DEF LinkAtHead
    <3> HIDE DEF g
    <3> QED
      BY <2>2, <3>1, <3>2
  <2>3. CASE k > 1
    <3>1. /\ k - 1 \in 0..Links /\ k - 1 \in 1..Links /\ k # 0 /\ k - 1 # 0
          /\ (k - 1) - 1 \in 0..Links
      BY <1>0, <2>3
    <3>2. g[k] = LinkAt[k - 1] /\ g[k - 1] = LinkAt[(k - 1) - 1]
      BY <3>1
    <3>3. LinkAt[k - 1] = IF LinkAt[(k - 1) - 1] = Null THEN Null ELSE next[LinkAt[(k - 1) - 1]]
      BY <3>1, LinkAtPlaces
    <3>4. LinkAt[(k - 1) - 1] # Null =>
             LinkAt[(k - 1) - 1] \in Link /\ LinkAt[(k - 1) - 1] # l
      BY <1>0, <1>1, <3>1
    <3>5. LinkAt[(k - 1) - 1] # Null => next'[LinkAt[(k - 1) - 1]] = next[LinkAt[(k - 1) - 1]]
      BY <1>0, <3>4 DEF LinkAtHead
    <3> HIDE DEF g
    <3> QED
      BY <3>1, <3>2, <3>3, <3>5
  <2> QED
    BY <1>0, <2>1, <2>2, <2>3
<1>3. g = [k \in 0..Links |-> g[k]]
  OBVIOUS
<1>4. IsWalk(g, Links, out', next', Null)
  <2> HIDE DEF g
  <2> QED
    BY <1>2, <1>3 DEF IsWalk
<1> HIDE DEF g
<1>5. LinkAt' = g
  BY <1>4, LinkAtAfter
<1> QED
  BY <1>5 DEF g

\* ... and after the head is taken.
LEMMA WalkAfterTake ==
  ASSUME List, NEW t, TakeHead(t)
  PROVE  LinkAt' = [k \in 0..Links |-> IF k < remain - 1 THEN LinkAt[k + 1] ELSE Null]
<1> DEFINE g == [k \in 0..Links |-> IF k < remain - 1 THEN LinkAt[k + 1] ELSE Null]
<1>a. out # Null /\ out' = next[out] /\ next' = [next EXCEPT ![out] = Null]
  BY DEF TakeHead
<1>0. /\ remain \in Nat /\ remain <= Links /\ Links \in Nat /\ remain > 0
      /\ \A k \in 0..Links : LinkAt[k] = Null <=> k >= remain
      /\ \A i, j \in 0..(remain - 1) : LinkAt[i] = LinkAt[j] => i = j
      /\ next \in [Link -> Link \cup {Null}] /\ Null \notin Link
      /\ out = LinkAt[0] /\ out \in Link
  <2>1. /\ remain \in Nat /\ remain <= Links
        /\ \A k \in 0..Links : LinkAt[k] = Null <=> k >= remain
        /\ \A i, j \in 0..(remain - 1) : LinkAt[i] = LinkAt[j] => i = j
        /\ next \in [Link -> Link \cup {Null}] /\ Null \notin Link /\ out \in Link \cup {Null}
    BY FIFOAssumption DEF List, TypeOK, Shape, FIFOAssumption
  <2>2. remain > 0
    BY <1>a, <2>1, LinksNat, LinkAtPlaces
  <2> QED
    BY <1>a, <2>1, <2>2, LinksNat, LinkAtPlaces
<1>1. \A k \in 0..(remain - 1) : LinkAt[k] \in Link
  BY InListCounted
<1>2. ASSUME NEW k \in 0..Links
      PROVE  g[k] = IF k = 0 THEN out' ELSE IF g[k - 1] = Null THEN Null ELSE next'[g[k - 1]]
  <2>1. CASE k = 0
    <3>1. 1 \in 1..Links /\ 1 \in 0..Links /\ LinkAt[1] = next[out] /\ out' = next[out]
      <4>1. 1 \in 1..Links /\ 1 \in 0..Links /\ 1 - 1 = 0
        BY <1>0
      <4> QED
        BY <1>a, <1>0, <4>1, LinkAtPlaces
    <3>2. remain = 1 => LinkAt[1] = Null
      BY <1>0, <3>1
    <3> QED
      BY <1>0, <2>1, <3>1, <3>2
  <2>2. CASE k > 0 /\ k - 1 >= remain - 1
    <3>1. g[k - 1] = Null /\ g[k] = Null
      BY <1>0, <2>2
    <3> HIDE DEF g
    <3> QED
      BY <2>2, <3>1
  <2>3. CASE k > 0 /\ k - 1 < remain - 1
    <3>1. /\ k - 1 \in 0..Links /\ k \in 0..(remain - 1) /\ 0 \in 0..(remain - 1)
          /\ k \in 1..Links /\ k + 1 \in 0..Links /\ (k - 1) + 1 = k /\ k # 0 /\ (k + 1) - 1 = k
          /\ k + 1 \in 1..Links
      BY <1>0, <2>3
    <3>2. g[k - 1] = LinkAt[k] /\ LinkAt[k] # Null
      BY <1>0, <2>3, <3>1
    <3>3. LinkAt[k] # out /\ LinkAt[k] \in Link
      BY <1>0, <1>1, <3>1
    <3>4. next'[LinkAt[k]] = next[LinkAt[k]]
      BY <1>a, <1>0, <3>3
    <3>5. LinkAt[k + 1] = next[LinkAt[k]]
      BY <3>1, <3>2, LinkAtPlaces
    <3>6. g[k] = LinkAt[k + 1]
      BY <1>0, <2>3, <3>1
    <3> HIDE DEF g
    <3> QED
      BY <3>1, <3>2, <3>4, <3>5, <3>6
  <2> QED
    BY <1>0, <2>1, <2>2, <2>3
<1>3. g = [k \in 0..Links |-> g[k]]
  OBVIOUS
<1>4. IsWalk(g, Links, out', next', Null)
  <2> HIDE DEF g
  <2> QED
    BY <1>2, <1>3 DEF IsWalk
<1> HIDE DEF g
<1>5. LinkAt' = g
  BY <1>4, LinkAtAfter
<1> QED
  BY <1>5 DEF g

-----------------------------------------------------------------------------
\* The shape after an add at the tail: the new link is last.
LEMMA TailKeepsShape ==
  ASSUME List, NEW l \in Link \ InList, NEW v, LinkAtTail(l, v)
  PROVE  Shape'
<1>1. /\ remain \in Nat /\ remain < Links /\ Links \in Nat /\ l # Null
      /\ \A k \in 0..Links : LinkAt[k] = Null <=> k >= remain
      /\ \A i, j \in 0..(remain - 1) : LinkAt[i] = LinkAt[j] => i = j
  BY LinksNat, RoomForOne, FIFOAssumption DEF List, TypeOK, Shape, FIFOAssumption
<1>2. \A k \in 0..(remain - 1) : LinkAt[k] # l
  BY InListCounted
<1>3. remain' = remain + 1 /\ in' = l
  BY DEF LinkAtTail
<1>4. \A k \in 0..Links : LinkAt'[k] = IF k < remain THEN LinkAt[k]
                                       ELSE IF k = remain THEN l ELSE Null
  BY WalkAfterTail
<1>5. \A k \in 0..Links : LinkAt'[k] = Null <=> k >= remain'
  BY <1>1, <1>3, <1>4
<1>6. \A i, j \in 0..(remain' - 1) : LinkAt'[i] = LinkAt'[j] => i = j
  BY <1>1, <1>2, <1>3, <1>4
<1>7. in' = LinkAt'[remain' - 1] /\ remain' # 0 /\ remain' <= Links
  BY <1>1, <1>3, <1>4
<1> QED
  BY <1>5, <1>6, <1>7 DEF Shape, Links

\* The shape after an add at the head: the others are one place further.
LEMMA HeadKeepsShape ==
  ASSUME List, NEW l \in Link \ InList, NEW v, LinkAtHead(l, v)
  PROVE  Shape'
<1>1. /\ remain \in Nat /\ remain < Links /\ Links \in Nat /\ l # Null
      /\ \A k \in 0..Links : LinkAt[k] = Null <=> k >= remain
      /\ \A i, j \in 0..(remain - 1) : LinkAt[i] = LinkAt[j] => i = j
      /\ in = IF remain = 0 THEN Null ELSE LinkAt[remain - 1]
  BY LinksNat, RoomForOne, FIFOAssumption DEF List, TypeOK, Shape, FIFOAssumption
<1>2. \A k \in 0..(remain - 1) : LinkAt[k] # l
  BY InListCounted
<1>3. remain' = remain + 1 /\ in' = IF in = Null THEN l ELSE in
  BY DEF LinkAtHead
<1>4. \A k \in 0..Links : LinkAt'[k] = IF k = 0 THEN l ELSE LinkAt[k - 1]
  BY WalkAfterHead
<1>5. \A k \in 0..Links : LinkAt'[k] = Null <=> k >= remain'
  BY <1>1, <1>3, <1>4
<1>6. \A i, j \in 0..(remain' - 1) : LinkAt'[i] = LinkAt'[j] => i = j
  BY <1>1, <1>2, <1>3, <1>4
<1>7. in' = LinkAt'[remain' - 1] /\ remain' # 0 /\ remain' <= Links
  BY <1>1, <1>3, <1>4
<1> QED
  BY <1>5, <1>6, <1>7 DEF Shape, Links

\* The shape after a removal: the others are one place nearer, and a list that is
\* empty now has no tail.
LEMMA TakeKeepsShape ==
  ASSUME List, NEW t, TakeHead(t)
  PROVE  Shape'
<1>1. /\ remain \in Nat /\ remain <= Links /\ Links \in Nat
      /\ \A k \in 0..Links : LinkAt[k] = Null <=> k >= remain
      /\ \A i, j \in 0..(remain - 1) : LinkAt[i] = LinkAt[j] => i = j
      /\ in = IF remain = 0 THEN Null ELSE LinkAt[remain - 1]
      /\ out = LinkAt[0]
  BY LinksNat, LinkAtPlaces DEF List, TypeOK, Shape
<1>2. remain' = remain - 1 /\ in' = (IF in = out THEN Null ELSE in) /\ out # Null
  BY DEF TakeHead, DropTail
<1>3. \A k \in 0..Links : LinkAt'[k] = IF k < remain - 1 THEN LinkAt[k + 1] ELSE Null
  BY WalkAfterTake
<1>4. remain > 0
  BY <1>1, <1>2
<1>5. \A k \in 0..Links : LinkAt'[k] = Null <=> k >= remain'
  BY <1>1, <1>2, <1>3
<1>6. \A i, j \in 0..(remain' - 1) : LinkAt'[i] = LinkAt'[j] => i = j
  BY <1>1, <1>2, <1>3
<1>7. in' = IF remain' = 0 THEN Null ELSE LinkAt'[remain' - 1]
  <2>1. CASE remain = 1
    BY <1>1, <1>2, <2>1
  <2>2. CASE remain > 1
    <3>1. in # out
      BY <1>1, <2>2
    <3>2. LinkAt'[remain' - 1] = LinkAt[remain - 1]
      BY <1>1, <1>2, <1>3, <2>2
    <3> QED
      BY <1>1, <1>2, <2>2, <3>1, <3>2
  <2> QED
    BY <1>1, <1>4, <2>1, <2>2
<1> QED
  BY <1>1, <1>2, <1>4, <1>5, <1>6, <1>7 DEF Shape, Links

\* A step that leaves the links alone leaves their order alone.
LEMMA SameWalk ==
  ASSUME out' = out, next' = next
  PROVE  LinkAt' = LinkAt
BY LinkAtIsWalk, LinkAtAfter

\* A step that leaves the list alone keeps its shape.
LEMMA SameShape ==
  ASSUME Shape, in' = in, out' = out, next' = next, remain' = remain
  PROVE  Shape'
BY SameWalk DEF Shape, Links

\* An empty list has no links at all.
LEMMA EmptyShape ==
  ASSUME in' = Null, out' = Null, remain' = 0
  PROVE  Shape'
<1> DEFINE g == [k \in 0..Links |-> Null]
<1>1. IsWalk(g, Links, out', next', Null)
  BY LinksNat DEF IsWalk
<1>2. LinkAt' = g
  BY <1>1, LinkAtAfter
<1> QED
  BY <1>2, LinksNat DEF Shape, Links

\* An empty list is one without a head, and then it has no tail either.
LEMMA EmptyMeans ==
  ASSUME List
  PROVE  /\ remain = 0 <=> out = Null
         /\ out = Null => in = Null
BY LinkAtPlaces, LinksNat DEF List, Shape, TypeOK

-----------------------------------------------------------------------------
\* The list is right when it is constructed.
LEMMA ListInit == Init => List
<1> SUFFICES ASSUME Init PROVE List
  OBVIOUS
<1>1. TypeOK
  <2>1. enabled \in BOOLEAN
    BY DEF Init
  <2> QED
    BY <2>1, FIFOAssumption DEF Init, TypeOK, FIFOAssumption
<1>2. Shape
  <2> DEFINE g == [k \in 0..Links |-> Null]
  <2>1. IsWalk(g, Links, out, next, Null)
    BY LinksNat DEF IsWalk, Init
  <2>2. LinkAt = g
    BY <2>1, LinkAtIsWalk, LinksNat, WalkUnique
  <2> QED
    BY <2>2, LinksNat DEF Init, Shape, Links
<1> QED
  BY <1>1, <1>2 DEF List

\* A thread outside of every call does not sleep.
LEMMA IdleAwake ==
  ASSUME TypeOK, NEW t \in Thread, pc[t] \notin RemoveWaits \cup PeekWaits
  PROVE  t \notin newdataCond
BY DEF TypeOK

\* add(), addToHead(): linked or refused.
LEMMA AddKeepsList ==
  ASSUME List, NEW t \in Thread, NEW v \in Value \cup {None},
         Add(t, v) \/ AddToHead(t, v)
  PROVE  List'
<1>1. TypeOK /\ pc[t] = "idle" /\ t \notin newdataCond
  BY IdleAwake DEF List, Add, AddToHead, Enter, RemoveWaits, PeekWaits
<1>2. /\ pc' = [pc EXCEPT ![t] = "unblock"]
      /\ UNCHANGED <<enabled, blockCnt, dataMutex, newdataCond, look>>
  BY DEF Add, AddToHead, Goto, syncVars
<1>3. CASE UNCHANGED <<listVars, ret>>
  <2>1. TypeOK'
    BY <1>1, <1>2, <1>3 DEF TypeOK, listVars, RemoveWaits, PeekWaits
  <2>2. Shape'
    BY <1>3, SameShape DEF List, listVars
  <2> QED
    BY <2>1, <2>2 DEF List
<1>4. ASSUME NEW l \in Link \ InList, LinkAtTail(l, v), ret' = [ret EXCEPT ![t] = v]
      PROVE  List'
  <2>1. in' \in Link /\ out' \in Link \cup {Null} /\ remain' \in Nat
    BY <1>1, <1>4 DEF TypeOK, LinkAtTail
  <2>2. next' \in [Link -> Link \cup {Null}] /\ d' \in [Link -> Value \cup {None}]
    BY <1>1, <1>4 DEF TypeOK, LinkAtTail
  <2>3. TypeOK'
    BY <1>1, <1>2, <1>4, <2>1, <2>2 DEF TypeOK, RemoveWaits, PeekWaits
  <2> QED
    BY <1>4, <2>3, TailKeepsShape DEF List
<1>5. ASSUME NEW l \in Link \ InList, LinkAtHead(l, v), ret' = [ret EXCEPT ![t] = v]
      PROVE  List'
  <2>1. in' \in Link \cup {Null} /\ out' \in Link \cup {Null} /\ remain' \in Nat
    BY <1>1, <1>5 DEF TypeOK, LinkAtHead
  <2>2. next' \in [Link -> Link \cup {Null}] /\ d' \in [Link -> Value \cup {None}]
    BY <1>1, <1>5 DEF TypeOK, LinkAtHead
  <2>3. TypeOK'
    BY <1>1, <1>2, <1>5, <2>1, <2>2 DEF TypeOK, RemoveWaits, PeekWaits
  <2> QED
    BY <1>5, <2>3, HeadKeepsShape DEF List
<1> QED
  BY <1>3, <1>4, <1>5 DEF Add, AddToHead, Refuse

\* The two ends of a removal, by a thread that does not sleep.
LEMMA TakeKeepsList ==
  ASSUME List, NEW t \in Thread, t \notin newdataCond, TakeHead(t)
  PROVE  List'
<1>1. TypeOK /\ out \in Link /\ remain > 0
  BY EmptyMeans DEF List, TypeOK, TakeHead
<1>2. in' \in Link \cup {Null} /\ out' \in Link \cup {Null} /\ remain' \in Nat
  BY <1>1 DEF TypeOK, TakeHead, DropTail
<1>3. next' \in [Link -> Link \cup {Null}] /\ d' \in [Link -> Value \cup {None}]
  BY <1>1 DEF TypeOK, TakeHead
<1>4. ret' \in [Thread -> Value \cup {None, Failed}]
  BY <1>1 DEF TypeOK, TakeHead, Return
<1>5. TypeOK'
  BY <1>1, <1>2, <1>3, <1>4 DEF TypeOK, TakeHead, Return, Goto, syncVars, RemoveWaits, PeekWaits
<1> QED
  BY <1>5, TakeKeepsShape DEF List

\* A removal that finds the list empty leaves it as it is.
LEMMA FindNothingKeepsList ==
  ASSUME List, NEW t \in Thread, t \notin newdataCond, FindNothing(t)
  PROVE  List'
<1>1. TypeOK /\ Shape /\ in' = in
  BY EmptyMeans DEF List, FindNothing, DropTail
<1>2. TypeOK'
  BY <1>1 DEF TypeOK, FindNothing, Return, Goto, syncVars, RemoveWaits, PeekWaits
<1> QED
  BY <1>1, <1>2, SameShape DEF List, FindNothing

\* A removal that waits.
LEMMA AwaitKeepsList ==
  ASSUME List, NEW t \in Thread, NEW how \in RemoveWaits, DropTail, AwaitData(t, how)
  PROVE  List'
<1>1. TypeOK /\ Shape /\ in' = in
  BY EmptyMeans DEF List, AwaitData, DropTail
<1>2. TypeOK'
  <2>1. blockCnt' \in 0..MaxBlockCnt
    BY <1>1, FIFOAssumption DEF TypeOK, AwaitData, FIFOAssumption
  <2> QED
    BY <1>1, <2>1 DEF TypeOK, AwaitData, Goto, RemoveWaits, PeekWaits
<1> QED
  BY <1>1, <1>2, SameShape DEF List, AwaitData

\* The calls and steps that leave the links alone.
LEMMA QuietKeepsList ==
  ASSUME List, NEW t \in Thread,
         \/ Peek(t) \/ ReturnTimedOut(t) \/ SpuriousWakeup(t) \/ TimeOut(t)
         \/ \E b \in BOOLEAN : SetEnabled(t, b)
  PROVE  List'
<1>1. TypeOK /\ Shape
  BY DEF List
<1>2. UNCHANGED <<in, out, next, d, remain>>
  BY DEF Peek, Look, ReturnTimedOut, SpuriousWakeup, TimeOut, SetEnabled, listVars
<1>3. Shape'
  BY <1>1, <1>2, SameShape
<1>4. CASE Peek(t)
  <2>1. t \notin newdataCond
    BY <1>1, <1>4, IdleAwake DEF Peek, Enter, RemoveWaits, PeekWaits
  <2>2. ret' \in [Thread -> Value \cup {None, Failed}]
    BY <1>1, <1>4 DEF TypeOK, Peek, Look, Return
  <2>3. TypeOK'
    BY <1>1, <1>2, <1>4, <2>1, <2>2
    DEF TypeOK, Peek, Look, Return, Goto, syncVars, RemoveWaits, PeekWaits
  <2> QED
    BY <1>3, <2>3 DEF List
<1>5. CASE ReturnTimedOut(t)
  <2>1. t \notin newdataCond
    BY <1>1, <1>5, IdleAwake DEF ReturnTimedOut, RemoveWaits, PeekWaits
  <2>2. TypeOK'
    BY <1>1, <1>2, <1>5, <2>1
    DEF TypeOK, ReturnTimedOut, Return, Goto, syncVars, RemoveWaits, PeekWaits
  <2> QED
    BY <1>3, <2>2 DEF List
<1>6. CASE SpuriousWakeup(t)
  <2>1. TypeOK'
    BY <1>1, <1>2, <1>6 DEF TypeOK, SpuriousWakeup
  <2> QED
    BY <1>3, <2>1 DEF List
<1>7. CASE TimeOut(t)
  <2>1. TypeOK'
    BY <1>1, <1>2, <1>7 DEF TypeOK, TimeOut, Goto, RemoveWaits, PeekWaits
  <2> QED
    BY <1>3, <2>1 DEF List
<1>8. ASSUME NEW b \in BOOLEAN, SetEnabled(t, b) PROVE List'
  <2>1. TypeOK'
    BY <1>1, <1>2, <1>8 DEF TypeOK, SetEnabled, syncVars
  <2> QED
    BY <1>3, <2>1 DEF List
<1> QED
  BY <1>4, <1>5, <1>6, <1>7, <1>8

\* unblock() and unblockAll() leave the links alone too.
LEMMA UnblockKeepsList ==
  ASSUME List, NEW t \in Thread, Unblock(t) \/ UnblockAll(t)
  PROVE  List'
<1>1. TypeOK /\ Shape /\ t \notin newdataCond
  BY IdleAwake DEF List, Unblock, UnblockAll, RemoveWaits, PeekWaits
<1>2. UNCHANGED <<in, out, next, d, remain>>
  BY DEF Unblock, UnblockAll, listVars
<1>3. newdataCond' \subseteq newdataCond
  BY DEF Unblock, UnblockAll
<1>a. blockCnt' \in 0..MaxBlockCnt
  BY <1>1, FIFOAssumption DEF Unblock, UnblockAll, TypeOK, FIFOAssumption
<1>4. TypeOK'
  BY <1>1, <1>2, <1>3, <1>a DEF TypeOK, Unblock, UnblockAll, Goto, RemoveWaits, PeekWaits
<1> QED
  BY <1>1, <1>2, <1>4, SameShape DEF List

\* clearAll() leaves an empty list.
LEMMA ClearKeepsList ==
  ASSUME List, NEW t \in Thread, ClearAll(t)
  PROVE  List'
<1>1. TypeOK /\ t \notin newdataCond
  BY IdleAwake DEF List, ClearAll, Enter, RemoveWaits, PeekWaits
<1>2. TypeOK'
  BY <1>1 DEF TypeOK, ClearAll, Goto, syncVars, RemoveWaits, PeekWaits
<1> QED
  BY <1>2, EmptyShape DEF List, ClearAll

\* List is inductive.
LEMMA ListStep == List /\ [Next]_vars => List'
<1> SUFFICES ASSUME List, [Next]_vars PROVE List'
  OBVIOUS
<1>1. CASE UNCHANGED vars
  <2>1. Shape'
    BY <1>1, SameShape DEF List, vars, listVars
  <2>2. TypeOK'
    BY <1>1 DEF List, TypeOK, vars, listVars, syncVars
  <2> QED
    BY <2>1, <2>2 DEF List
<1>2. ASSUME NEW t \in Thread, FIFOStep(t) PROVE List'
  <2>0. TypeOK
    BY DEF List
  <2>1. ASSUME NEW v \in Value \cup {None}, Add(t, v) PROVE List'
    BY <2>1, AddKeepsList
  <2>2. ASSUME NEW v \in Urgent, AddToHead(t, v) PROVE List'
    BY <2>2, AddKeepsList, FIFOAssumption DEF FIFOAssumption
  <2>3. CASE Remove(t)
    BY <2>0, <2>3, IdleAwake, TakeKeepsList, FindNothingKeepsList
    DEF Remove, Enter, RemoveWaits, PeekWaits
  <2>4. ASSUME NEW how \in RemoveWaits, RemoveOrBlock(t, how) PROVE List'
    <3>1. t \notin newdataCond
      BY <2>0, <2>4, IdleAwake DEF RemoveOrBlock, Enter, RemoveWaits, PeekWaits
    <3> QED
      BY <2>4, <3>1, TakeKeepsList, AwaitKeepsList DEF RemoveOrBlock
  <2>5. CASE RemoveResume(t)
    BY <2>5, TakeKeepsList, FindNothingKeepsList DEF RemoveResume
  <2>6. CASE Unblock(t) \/ UnblockAll(t)
    BY <2>6, UnblockKeepsList
  <2>7. CASE \/ Peek(t) \/ ReturnTimedOut(t) \/ SpuriousWakeup(t) \/ TimeOut(t)
             \/ \E b \in BOOLEAN : SetEnabled(t, b)
    BY <2>7, QuietKeepsList
  <2>8. CASE ClearAll(t)
    BY <2>8, ClearKeepsList
  <2> QED
    BY <1>2, <2>1, <2>2, <2>3, <2>4, <2>5, <2>6, <2>7, <2>8 DEF FIFOStep, Resume
<1> QED
  BY <1>1, <1>2 DEF Next

\* However adds at both ends, removals, blocked removals and clears of any number of
\* threads follow one another, the links reached from out are remain different ones,
\* the last of them is in, and an empty list has neither end.
THEOREM ListAlwaysWellFormed == Spec => []ListWellFormed
<1>1. Spec => []List
  BY ListInit, ListStep, PTL DEF Spec
<1> QED
  BY <1>1, ListGivesWellFormed, PTL
-----------------------------------------------------------------------------
\* The wakeups.  A removal that was woken and has not looked yet, or an add that
\* is between its two critical sections, will see to an element.
Takers == {t \in Thread : pc[t] \in RemoveWaits \cup {"unblock"}} \ newdataCond

\* Only removals wait: Spec has no call of peekOrBlock().
NoPeekWaits == \A t \in Thread : pc[t] \notin PeekWaits

Wake == BlockCntCoversSleepers /\ NoLostAdd /\ NoPeekWaits

\* Threads are finitely many, and so are any of them.
LEMMA FewThreads ==
  ASSUME NEW S \in SUBSET Thread
  PROVE  IsFiniteSet(S) /\ Cardinality(S) \in Nat
BY FIFOAssumption, FS_Subset, FS_CardinalityType DEF FIFOAssumption

\* The wait set and the takers are sets of threads, before and after a step.
LEMMA WakeSets ==
  ASSUME List, List'
  PROVE  /\ newdataCond \in SUBSET Thread /\ newdataCond' \in SUBSET Thread
         /\ Takers \in SUBSET Thread /\ Takers' \in SUBSET Thread
         /\ remain \in Nat /\ remain' \in Nat
         /\ blockCnt \in Nat /\ blockCnt' \in Nat
BY FIFOAssumption DEF List, TypeOK, Takers, FIFOAssumption

\* Fewer elements and no fewer takers.
LEMMA MoreTakers ==
  ASSUME NEW A \in SUBSET Thread, NEW B \in SUBSET Thread, A \subseteq B
  PROVE  Cardinality(A) <= Cardinality(B)
BY FewThreads, FS_Subset

\* One thread more, one fewer, one for another.
LEMMA CountAdded ==
  ASSUME NEW A \in SUBSET Thread, NEW t \in Thread, t \notin A
  PROVE  Cardinality(A \cup {t}) = Cardinality(A) + 1
BY FewThreads, FS_AddElement

\* A thread that leaves a set lowers its size by one at most.
LEMMA CountDropped ==
  ASSUME NEW A \in SUBSET Thread, NEW t \in Thread
  PROVE  /\ t \in A => Cardinality(A \ {t}) = Cardinality(A) - 1
         /\ Cardinality(A \ {t}) >= Cardinality(A) - 1
<1>1. t \notin A => A \ {t} = A
  OBVIOUS
<1> QED
  BY <1>1, FewThreads, FS_RemoveElement

\* A thread that leaves a set when another joins it does not lower its size.
LEMMA CountSwapped ==
  ASSUME NEW A \in SUBSET Thread, NEW t \in Thread, NEW u \in Thread, u \notin A, u # t
  PROVE  Cardinality((A \ {t}) \cup {u}) >= Cardinality(A)
<1>1. A \ {t} \in SUBSET Thread /\ u \notin A \ {t}
  OBVIOUS
<1>2. Cardinality((A \ {t}) \cup {u}) = Cardinality(A \ {t}) + 1
  BY <1>1, CountAdded
<1> QED
  BY <1>1, <1>2, CountDropped, FewThreads

\* A step that leaves the waiting alone, adds no element and loses no taker.
LEMMA QuietKeepsWake ==
  ASSUME List, Wake, List', newdataCond' \subseteq newdataCond, blockCnt' = blockCnt,
         remain' <= remain, Takers \subseteq Takers', NoPeekWaits'
  PROVE  Wake'
<1> USE WakeSets
<1>1. Cardinality(newdataCond') <= Cardinality(newdataCond)
  BY MoreTakers
<1>2. Cardinality(Takers) <= Cardinality(Takers')
  BY MoreTakers
<1>3. /\ Cardinality(newdataCond) \in Nat /\ Cardinality(newdataCond') \in Nat
      /\ Cardinality(Takers) \in Nat /\ Cardinality(Takers') \in Nat
  BY FewThreads
<1>4. BlockCntCoversSleepers'
  BY <1>1, <1>3 DEF Wake, BlockCntCoversSleepers
<1>5. newdataCond # {} => remain <= Cardinality(Takers)
  BY DEF Wake, NoLostAdd, Takers
<1>6. newdataCond' # {} => remain' <= Cardinality(Takers')
  BY <1>2, <1>3, <1>5
<1> QED
  BY <1>4, <1>6 DEF Wake, NoLostAdd, Takers

\* A step that leaves the list empty.
LEMMA EmptyKeepsWake ==
  ASSUME List', remain' = 0, BlockCntCoversSleepers', NoPeekWaits'
  PROVE  Wake'
<1>1. Takers' \in SUBSET Thread
  BY DEF Takers
<1>2. remain' <= Cardinality(Takers')
  BY <1>1, FewThreads
<1> QED
  BY <1>2 DEF Wake, NoLostAdd, Takers

\* An add: if it links an element, it becomes that element's taker.
LEMMA AddKeepsWake ==
  ASSUME List, Wake, List', NEW t \in Thread, NEW v, Add(t, v) \/ AddToHead(t, v)
  PROVE  Wake'
<1>1. TypeOK /\ pc[t] = "idle" /\ t \notin newdataCond
  BY IdleAwake DEF List, Add, AddToHead, Enter, RemoveWaits, PeekWaits
<1>2. /\ newdataCond' = newdataCond /\ blockCnt' = blockCnt
      /\ pc' = [pc EXCEPT ![t] = "unblock"]
      /\ remain' = remain \/ remain' = remain + 1
  BY DEF Add, AddToHead, Goto, syncVars, listVars, Refuse, LinkAtTail, LinkAtHead
<1>3. Takers' = Takers \cup {t} /\ t \notin Takers
  BY <1>1, <1>2 DEF Takers, TypeOK, RemoveWaits
<1>4. NoPeekWaits'
  BY <1>1, <1>2 DEF NoPeekWaits, Wake, PeekWaits, TypeOK
<1>5. CASE remain' = remain
  BY <1>2, <1>3, <1>4, <1>5, QuietKeepsWake, WakeSets
<1>6. CASE remain' = remain + 1
  <2>1. Cardinality(Takers') = Cardinality(Takers) + 1
    BY <1>3, CountAdded, WakeSets
  <2>2. newdataCond # {} => remain <= Cardinality(Takers)
    BY DEF Wake, NoLostAdd, Takers
  <2>3. newdataCond' # {} => remain' <= Cardinality(Takers')
    BY <1>2, <1>6, <2>1, <2>2, FewThreads, WakeSets
  <2> QED
    BY <1>2, <1>4, <2>3 DEF Wake, NoLostAdd, Takers, BlockCntCoversSleepers
<1> QED
  BY <1>2, <1>5, <1>6

\* A removal that takes an element: it was the taker of at most one.
LEMMA TakeKeepsWake ==
  ASSUME List, Wake, List', NEW t \in Thread, t \notin newdataCond, TakeHead(t)
  PROVE  Wake'
<1>1. TypeOK /\ remain > 0 /\ remain' = remain - 1
  BY EmptyMeans DEF List, TypeOK, TakeHead
<1>2. newdataCond' = newdataCond /\ blockCnt' = blockCnt /\ pc' = [pc EXCEPT ![t] = "idle"]
  BY DEF TakeHead, Return, Goto, syncVars
<1>3. Takers' = Takers \ {t}
  BY <1>1, <1>2 DEF Takers, TypeOK, RemoveWaits
<1>4. NoPeekWaits'
  BY <1>1, <1>2 DEF NoPeekWaits, Wake, PeekWaits, TypeOK
<1>5. Cardinality(Takers') >= Cardinality(Takers) - 1
  BY <1>3, CountDropped, WakeSets
<1>6. newdataCond # {} => remain <= Cardinality(Takers)
  BY DEF Wake, NoLostAdd, Takers
<1>7. newdataCond' # {} => remain' <= Cardinality(Takers')
  BY <1>1, <1>2, <1>5, <1>6, FewThreads, WakeSets
<1> QED
  BY <1>2, <1>4, <1>7 DEF Wake, NoLostAdd, Takers, BlockCntCoversSleepers

\* A removal that finds nothing, and one that goes to sleep: the list is empty.
LEMMA FindNothingKeepsWake ==
  ASSUME List, Wake, List', NEW t \in Thread, FindNothing(t)
  PROVE  Wake'
<1>1. TypeOK /\ remain' = 0
  BY EmptyMeans DEF List, FindNothing
<1>2. newdataCond' = newdataCond /\ blockCnt' = blockCnt /\ pc' = [pc EXCEPT ![t] = "idle"]
  BY DEF FindNothing, Return, Goto, syncVars
<1>3. NoPeekWaits' /\ BlockCntCoversSleepers'
  BY <1>1, <1>2 DEF NoPeekWaits, Wake, PeekWaits, TypeOK, BlockCntCoversSleepers
<1> QED
  BY <1>1, <1>3, EmptyKeepsWake

\* A removal goes to sleep only when every element is announced.
LEMMA AwaitKeepsWake ==
  ASSUME List, Wake, List', NEW t \in Thread, t \notin newdataCond, NEW how \in RemoveWaits,
         AwaitData(t, how)
  PROVE  Wake'
<1>1. TypeOK /\ remain' = 0
  BY EmptyMeans DEF List, AwaitData
<1>2. /\ newdataCond' = newdataCond \cup {t} /\ blockCnt' = blockCnt + 1
      /\ pc' = [pc EXCEPT ![t] = how]
  BY DEF AwaitData, Goto
<1>3. NoPeekWaits'
  BY <1>1, <1>2 DEF NoPeekWaits, Wake, PeekWaits, RemoveWaits, TypeOK
<1>4. Cardinality(newdataCond') = Cardinality(newdataCond) + 1
  BY <1>2, CountAdded, WakeSets
<1>5. BlockCntCoversSleepers'
  BY <1>2, <1>4, FewThreads, WakeSets DEF Wake, BlockCntCoversSleepers
<1> QED
  BY <1>1, <1>3, <1>5, EmptyKeepsWake

\* unblock(), at the end of an add or by itself: its caller is no taker any more,
\* and the sleeper it wakes becomes one.  It skips the signal only when nobody
\* sleeps, because _block_cnt covers the sleepers.
LEMMA UnblockKeepsWake ==
  ASSUME List, Wake, List', NEW t \in Thread, Unblock(t)
  PROVE  Wake'
<1>1. TypeOK /\ t \notin newdataCond /\ remain' = remain
  BY IdleAwake DEF List, Unblock, RemoveWaits, PeekWaits, listVars
<1>2. pc' = [pc EXCEPT ![t] = "idle"]
  BY DEF Unblock, Goto
<1>3. NoPeekWaits'
  BY <1>1, <1>2 DEF NoPeekWaits, Wake, PeekWaits, TypeOK
<1>4. CASE newdataCond = {}
  <2>1. newdataCond' = {} /\ blockCnt' \in Nat
    BY <1>4, WakeSets DEF Unblock
  <2>2. Cardinality(newdataCond') = 0
    BY <2>1, FS_EmptySet
  <2> QED
    BY <1>3, <2>1, <2>2 DEF Wake, NoLostAdd, BlockCntCoversSleepers
<1>5. CASE newdataCond # {}
  <2>1. blockCnt > 0
    <3>1. PICK u \in newdataCond : TRUE
      BY <1>5
    <3>2. {u} \in SUBSET Thread /\ {u} \subseteq newdataCond
      BY <3>1, WakeSets
    <3>3. Cardinality({u}) = 1
      BY FS_Singleton
    <3>4. Cardinality(newdataCond) >= 1
      BY <3>2, <3>3, MoreTakers, WakeSets
    <3> QED
      BY <3>4, FewThreads, WakeSets DEF Wake, BlockCntCoversSleepers
  <2>2. blockCnt' = blockCnt - 1 /\ \E u \in newdataCond : newdataCond' = newdataCond \ {u}
    BY <1>5, <2>1, WakeSets DEF Unblock
  <2>3. PICK u \in newdataCond : newdataCond' = newdataCond \ {u}
    BY <2>2
  <2>4. u \in Thread /\ u # t /\ pc[u] \in RemoveWaits /\ u \notin Takers
    BY <1>1 DEF TypeOK, Wake, NoPeekWaits, Takers
  <2>5. Takers' = (Takers \ {t}) \cup {u}
    BY <1>1, <1>2, <2>3, <2>4 DEF Takers, TypeOK, RemoveWaits
  <2>6. Cardinality(Takers') >= Cardinality(Takers)
    BY <2>4, <2>5, CountSwapped, WakeSets
  <2>7. Cardinality(newdataCond') = Cardinality(newdataCond) - 1
    BY <2>3, <2>4, CountDropped, WakeSets
  <2>8. BlockCntCoversSleepers'
    BY <2>2, <2>7, FewThreads, WakeSets DEF Wake, BlockCntCoversSleepers
  <2>9. remain <= Cardinality(Takers)
    BY <1>5 DEF Wake, NoLostAdd, Takers
  <2>10. remain' <= Cardinality(Takers')
    BY <1>1, <2>6, <2>9, FewThreads, WakeSets
  <2> QED
    BY <1>3, <2>8, <2>10 DEF Wake, NoLostAdd, Takers
<1> QED
  BY <1>4, <1>5

\* unblockAll() leaves nobody asleep, or nobody was.
LEMMA UnblockAllKeepsWake ==
  ASSUME List, Wake, List', NEW t \in Thread, UnblockAll(t)
  PROVE  Wake'
<1>1. TypeOK /\ pc' = [pc EXCEPT ![t] = "idle"]
  BY DEF List, UnblockAll, Goto
<1>2. NoPeekWaits'
  BY <1>1 DEF NoPeekWaits, Wake, PeekWaits, TypeOK
<1>3. newdataCond' = {}
  <2>1. CASE blockCnt > 0
    BY <2>1, WakeSets DEF UnblockAll
  <2>2. CASE blockCnt <= 0
    <3>1. Cardinality(newdataCond) = 0
      BY <2>2, FewThreads, WakeSets DEF Wake, BlockCntCoversSleepers
    <3>2. newdataCond = {}
      BY <3>1, FewThreads, WakeSets, FS_EmptySet
    <3> QED
      BY <2>2, <3>2, WakeSets DEF UnblockAll
  <2> QED
    BY <2>1, <2>2, WakeSets
<1>4. Cardinality(newdataCond') = 0
  BY <1>3, FS_EmptySet
<1> QED
  BY <1>2, <1>3, <1>4, WakeSets DEF Wake, NoLostAdd, BlockCntCoversSleepers

\* The steps that neither put nor take an element.
LEMMA OtherKeepsWake ==
  ASSUME List, Wake, List', NEW t \in Thread,
         \/ Peek(t) \/ ReturnTimedOut(t) \/ SpuriousWakeup(t) \/ TimeOut(t)
         \/ \E b \in BOOLEAN : SetEnabled(t, b)
  PROVE  Wake'
<1>1. TypeOK /\ NoPeekWaits
  BY DEF List, Wake
<1>2. newdataCond' \subseteq newdataCond /\ blockCnt' = blockCnt /\ remain' = remain
  BY DEF Peek, Look, ReturnTimedOut, SpuriousWakeup, TimeOut, SetEnabled, listVars, syncVars
<1>3. Takers \subseteq Takers' /\ NoPeekWaits'
  <2>1. CASE Peek(t) \/ ReturnTimedOut(t)
    <3>1. /\ pc' = [pc EXCEPT ![t] = "idle"] /\ newdataCond' = newdataCond
          /\ pc[t] \in {"idle", "removeTimedOut", "peekTimedOut"}
      BY <2>1 DEF Peek, Look, Enter, ReturnTimedOut, Return, Goto, syncVars
    <3> QED
      BY <1>1, <3>1 DEF Takers, NoPeekWaits, TypeOK, RemoveWaits, PeekWaits
  <2>2. CASE TimeOut(t)
    <3>1. /\ t \in newdataCond /\ newdataCond' = newdataCond \ {t}
          /\ \E l \in {"removeTimedOut", "peekTimedOut"} : pc' = [pc EXCEPT ![t] = l]
      BY <2>2 DEF TimeOut, Goto
    <3> QED
      BY <1>1, <3>1 DEF Takers, NoPeekWaits, TypeOK, RemoveWaits, PeekWaits
  <2>3. CASE SpuriousWakeup(t) \/ \E b \in BOOLEAN : SetEnabled(t, b)
    <3>1. pc' = pc
      BY <2>3 DEF SpuriousWakeup, SetEnabled
    <3> QED
      BY <1>1, <1>2, <3>1 DEF Takers, NoPeekWaits
  <2> QED
    BY <2>1, <2>2, <2>3
<1> QED
  BY <1>2, <1>3, QuietKeepsWake, WakeSets

\* clearAll() leaves no element to be taken.
LEMMA ClearKeepsWake ==
  ASSUME List, Wake, List', NEW t \in Thread, ClearAll(t)
  PROVE  Wake'
<1>1. /\ TypeOK /\ remain' = 0 /\ newdataCond' = newdataCond /\ blockCnt' = blockCnt
      /\ pc' = [pc EXCEPT ![t] = "unblockAll"]
  BY DEF List, ClearAll, Goto, syncVars
<1>2. NoPeekWaits' /\ BlockCntCoversSleepers'
  BY <1>1 DEF NoPeekWaits, Wake, PeekWaits, TypeOK, BlockCntCoversSleepers
<1> QED
  BY <1>1, <1>2, EmptyKeepsWake

\* Wake is inductive, given List.
LEMMA WakeStep == List /\ Wake /\ [Next]_vars => Wake'
<1> SUFFICES ASSUME List, Wake, [Next]_vars PROVE Wake'
  OBVIOUS
<1>0. List' /\ TypeOK
  BY ListStep DEF List
<1>1. CASE UNCHANGED vars
  BY <1>1 DEF vars, listVars, syncVars, Wake, BlockCntCoversSleepers, NoLostAdd, NoPeekWaits
<1>2. ASSUME NEW t \in Thread, FIFOStep(t) PROVE Wake'
  <2>1. ASSUME NEW v \in Value \cup {None}, Add(t, v) PROVE Wake'
    BY <1>0, <2>1, AddKeepsWake
  <2>2. ASSUME NEW v \in Urgent, AddToHead(t, v) PROVE Wake'
    BY <1>0, <2>2, AddKeepsWake
  <2>3. CASE Remove(t)
    BY <1>0, <2>3, IdleAwake, TakeKeepsWake, FindNothingKeepsWake
    DEF Remove, Enter, RemoveWaits, PeekWaits
  <2>4. ASSUME NEW how \in RemoveWaits, RemoveOrBlock(t, how) PROVE Wake'
    <3>1. t \notin newdataCond
      BY <1>0, <2>4, IdleAwake DEF RemoveOrBlock, Enter, RemoveWaits, PeekWaits
    <3> QED
      BY <1>0, <2>4, <3>1, TakeKeepsWake, AwaitKeepsWake DEF RemoveOrBlock
  <2>5. CASE RemoveResume(t)
    BY <1>0, <2>5, TakeKeepsWake, FindNothingKeepsWake DEF RemoveResume
  <2>6. CASE Unblock(t) \/ UnblockAll(t)
    BY <1>0, <2>6, UnblockKeepsWake, UnblockAllKeepsWake
  <2>7. CASE \/ Peek(t) \/ ReturnTimedOut(t) \/ SpuriousWakeup(t) \/ TimeOut(t)
             \/ \E b \in BOOLEAN : SetEnabled(t, b)
    BY <1>0, <2>7, OtherKeepsWake
  <2>8. CASE ClearAll(t)
    BY <1>0, <2>8, ClearKeepsWake
  <2> QED
    BY <1>2, <2>1, <2>2, <2>3, <2>4, <2>5, <2>6, <2>7, <2>8 DEF FIFOStep, Resume
<1> QED
  BY <1>1, <1>2 DEF Next

\* The list keeps its shape and its elements stay announced to the sleepers.
LEMMA AlwaysAwake == Spec => [](List /\ Wake)
<1>1. Init => Wake
  <2> SUFFICES ASSUME Init PROVE Wake
    OBVIOUS
  <2>1. Cardinality(newdataCond) = 0
    BY FS_EmptySet DEF Init
  <2> QED
    BY <2>1 DEF Init, Wake, BlockCntCoversSleepers, NoLostAdd, NoPeekWaits, PeekWaits
<1> QED
  BY <1>1, ListInit, ListStep, WakeStep, PTL DEF Spec

\* _block_cnt is never below the number of sleepers, although every wait that times
\* out or wakes for nothing leaves it too high: unblock() never takes the signal
\* that a sleeper waits for as one nobody needs.
THEOREM BlockCntAlwaysCovers == Spec => []BlockCntCoversSleepers
<1>1. List /\ Wake => BlockCntCoversSleepers
  BY DEF Wake
<1> QED
  BY <1>1, AlwaysAwake, PTL

\* While a removal sleeps, there are never more elements than woken removals and
\* adds that have yet to signal, although an add releases the mutex between linking
\* its element and signalling: no wakeup is lost.
THEOREM AddsNeverLost == Spec => []NoLostAdd
<1>1. List /\ Wake => NoLostAdd
  BY DEF Wake
<1> QED
  BY <1>1, AlwaysAwake, PTL

-----------------------------------------------------------------------------
(***************************************************************************)
(* The linked list implements the queue of BoundedQueue: the elements      *)
(* found along the walk from out are the queue, every critical section of  *)
(* the code is one step of the queue or none.                              *)
(***************************************************************************)
Elem == Value \cup {None}

\* A function on 1..n is a sequence of length n.
LEMMA FunIsSeq ==
  ASSUME NEW n \in Nat, NEW S, NEW f \in [1..n -> S]
  PROVE  f \in Seq(S) /\ Len(f) = n
OBVIOUS

\* The elements of the list are a sequence.
LEMMA ContentsSeq ==
  ASSUME List
  PROVE  /\ Contents \in [1..remain -> Elem]
         /\ Contents \in Seq(Elem) /\ Len(Contents) = remain
         /\ remain \in Nat /\ remain <= Links /\ Links \in Nat
         /\ \A i \in 1..remain : Contents[i] = d[LinkAt[i - 1]] /\ LinkAt[i - 1] \in Link
<1>1. remain \in Nat /\ d \in [Link -> Elem] /\ remain <= Links /\ Links \in Nat
  BY LinksNat DEF List, TypeOK, Elem, Shape
<1>2. \A i \in 1..remain : i - 1 \in 0..(remain - 1)
  BY <1>1
<1>3. \A i \in 1..remain : LinkAt[i - 1] \in Link
  BY <1>2, InListCounted
<1>4. Contents \in [1..remain -> Elem]
  BY <1>1, <1>3 DEF Contents
<1> QED
  BY <1>1, <1>3, <1>4, FunIsSeq DEF Contents

\* add() appends.
LEMMA TailAppends ==
  ASSUME List, NEW l \in Link \ InList, NEW v \in Elem, LinkAtTail(l, v)
  PROVE  Contents' = Append(Contents, v)
<1>1. /\ Contents \in Seq(Elem) /\ Len(Contents) = remain
      /\ remain \in Nat /\ remain < Links /\ Links \in Nat
      /\ \A i \in 1..remain : Contents[i] = d[LinkAt[i - 1]] /\ LinkAt[i - 1] \in Link
  BY ContentsSeq, RoomForOne
<1>2. \A i \in 1..remain : LinkAt[i - 1] # l
  <2>1. \A k \in 0..(remain - 1) : LinkAt[k] # l
    BY InListCounted
  <2> QED
    BY <1>1, <2>1
<1>3. /\ remain' = remain + 1 /\ d' = [d EXCEPT ![l] = v] /\ d \in [Link -> Elem]
  BY DEF LinkAtTail, List, TypeOK, Elem
<1>4. LinkAt' = [k \in 0..Links |-> IF k < remain THEN LinkAt[k]
                                    ELSE IF k = remain THEN l ELSE Null]
  BY WalkAfterTail
<1>5. Contents' = [i \in 1..(remain + 1) |-> d'[LinkAt'[i - 1]]]
  BY <1>3 DEF Contents
<1>6. ASSUME NEW i \in 1..(remain + 1)
      PROVE  d'[LinkAt'[i - 1]] = IF i <= remain THEN Contents[i] ELSE v
  <2>1. i - 1 \in 0..Links
    BY <1>1
  <2>2. CASE i <= remain
    BY <1>1, <1>2, <1>3, <1>4, <2>1, <2>2
  <2>3. CASE ~ i <= remain
    BY <1>1, <1>3, <1>4, <2>1, <2>3
  <2> QED
    BY <2>2, <2>3
<1>7. Append(Contents, v) = [i \in 1..(remain + 1) |-> IF i <= remain THEN Contents[i] ELSE v]
  <2>1. /\ Append(Contents, v) \in Seq(Elem) /\ Len(Append(Contents, v)) = remain + 1
        /\ \A i \in 1..remain : Append(Contents, v)[i] = Contents[i]
        /\ Append(Contents, v)[remain + 1] = v
    BY <1>1, AppendProperties
  <2>2. Append(Contents, v) \in [1..(remain + 1) -> Elem]
    BY <2>1, LenProperties
  <2>3. ASSUME NEW i \in 1..(remain + 1)
        PROVE  Append(Contents, v)[i] = IF i <= remain THEN Contents[i] ELSE v
    <3>1. i \in 1..remain \/ i = remain + 1
      BY <1>1
    <3> QED
      BY <1>1, <2>1, <3>1
  <2> QED
    BY <2>2, <2>3
<1> QED
  BY <1>5, <1>6, <1>7

\* addToHead() puts its element before the others.
LEMMA HeadPrepends ==
  ASSUME List, NEW l \in Link \ InList, NEW v \in Elem, LinkAtHead(l, v)
  PROVE  Contents' = <<v>> \o Contents
<1>1. /\ Contents \in Seq(Elem) /\ Len(Contents) = remain
      /\ remain \in Nat /\ remain < Links /\ Links \in Nat
      /\ \A i \in 1..remain : Contents[i] = d[LinkAt[i - 1]] /\ LinkAt[i - 1] \in Link
  BY ContentsSeq, RoomForOne
<1>2. \A i \in 1..remain : LinkAt[i - 1] # l
  <2>1. \A k \in 0..(remain - 1) : LinkAt[k] # l
    BY InListCounted
  <2> QED
    BY <1>1, <2>1
<1>3. /\ remain' = remain + 1 /\ d' = [d EXCEPT ![l] = v] /\ d \in [Link -> Elem]
  BY DEF LinkAtHead, List, TypeOK, Elem
<1>4. LinkAt' = [k \in 0..Links |-> IF k = 0 THEN l ELSE LinkAt[k - 1]]
  BY WalkAfterHead
<1>5. Contents' = [i \in 1..(remain + 1) |-> d'[LinkAt'[i - 1]]]
  BY <1>3 DEF Contents
<1>6. ASSUME NEW i \in 1..(remain + 1)
      PROVE  d'[LinkAt'[i - 1]] = IF i = 1 THEN v ELSE Contents[i - 1]
  <2>1. i - 1 \in 0..Links
    BY <1>1
  <2>2. CASE i = 1
    BY <1>1, <1>3, <1>4, <2>1, <2>2
  <2>3. CASE i # 1
    <3>1. i - 1 \in 1..remain /\ LinkAt'[i - 1] = LinkAt[(i - 1) - 1]
      BY <1>1, <1>4, <2>1, <2>3
    <3> QED
      BY <1>1, <1>2, <1>3, <2>3, <3>1
  <2> QED
    BY <2>2, <2>3
<1>7. <<v>> \o Contents = [i \in 1..(remain + 1) |-> IF i = 1 THEN v ELSE Contents[i - 1]]
  BY <1>1
<1> QED
  BY <1>5, <1>6, <1>7

\* A removal takes the first element and leaves the others in order.
LEMMA TakeBeheads ==
  ASSUME List, NEW t, TakeHead(t)
  PROVE  Contents # <<>> /\ Contents' = Tail(Contents) /\ d[out] = Head(Contents)
<1>1. /\ Contents \in Seq(Elem) /\ Len(Contents) = remain
      /\ remain \in Nat /\ remain <= Links /\ Links \in Nat
      /\ \A i \in 1..remain : Contents[i] = d[LinkAt[i - 1]] /\ LinkAt[i - 1] \in Link
  BY ContentsSeq
<1>2. /\ remain > 0 /\ remain' = remain - 1 /\ d' = [d EXCEPT ![out] = None] /\ d \in [Link -> Elem]
      /\ out \in Link /\ out = LinkAt[0]
      /\ \A i, j \in 0..(remain - 1) : LinkAt[i] = LinkAt[j] => i = j
  BY EmptyMeans, LinkAtPlaces DEF TakeHead, List, TypeOK, Elem, Shape
<1>3. LinkAt' = [k \in 0..Links |-> IF k < remain - 1 THEN LinkAt[k + 1] ELSE Null]
  BY WalkAfterTake
<1>4. Contents' = [i \in 1..(remain - 1) |-> d'[LinkAt'[i - 1]]]
  BY <1>2 DEF Contents
<1>5. ASSUME NEW i \in 1..(remain - 1)
      PROVE  d'[LinkAt'[i - 1]] = Contents[i + 1]
  <2>1. i - 1 \in 0..Links /\ i - 1 < remain - 1 /\ (i - 1) + 1 = i /\ (i + 1) - 1 = i
        /\ i + 1 \in 1..remain /\ i \in 0..(remain - 1) /\ 0 \in 0..(remain - 1)
    BY <1>1
  <2>2. LinkAt'[i - 1] = LinkAt[i] /\ LinkAt[i] \in Link /\ LinkAt[i] # out
    BY <1>1, <1>2, <1>3, <2>1
  <2> QED
    BY <1>1, <1>2, <2>1, <2>2
<1>6. Contents # <<>>
  BY <1>1, <1>2
<1>7. Tail(Contents) = [i \in 1..(remain - 1) |-> Contents[i + 1]]
  <2>1. /\ Tail(Contents) \in Seq(Elem) /\ Len(Tail(Contents)) = remain - 1
        /\ \A i \in 1..(remain - 1) : Tail(Contents)[i] = Contents[i + 1]
    BY <1>1, <1>6, HeadTailProperties
  <2>2. Tail(Contents) \in [1..(remain - 1) -> Elem]
    BY <2>1, LenProperties
  <2> QED
    BY <2>1, <2>2
<1>8. Head(Contents) = Contents[1]
  BY <1>1, <1>6
<1>9. Contents[1] = d[out]
  BY <1>1, <1>2
<1> QED
  BY <1>4, <1>5, <1>6, <1>7, <1>8, <1>9

\* A list whose links are left alone holds the same elements.
LEMMA SameContents ==
  ASSUME out' = out, next' = next, d' = d, remain' = remain
  PROVE  Contents' = Contents
BY SameWalk DEF Contents

\* A list without elements holds the empty sequence.
LEMMA EmptyContents == remain = 0 => Contents = <<>>
<1> SUFFICES ASSUME remain = 0 PROVE Contents = <<>>
  OBVIOUS
<1>1. 1..remain = {}
  OBVIOUS
<1> QED
  BY <1>1 DEF Contents

-----------------------------------------------------------------------------
\* Where a step leaves its thread, seen as what the thread waits for.
LEMMA WaitingAfter ==
  ASSUME List, NEW t \in Thread, NEW label, pc' = [pc EXCEPT ![t] = label]
  PROVE  /\ label = "remove" => Waiting' = [Waiting EXCEPT ![t] = "remove"]
         /\ label \in {"removeTimed", "removeTimedOut"}
              => Waiting' = [Waiting EXCEPT ![t] = "removeTimed"]
         /\ label \in {"idle", "unblock", "unblockAll", "peekTimedOut"}
              => Waiting' = [Waiting EXCEPT ![t] = "no"]
<1>1. pc'[t] = label /\ \A u \in Thread : u # t => pc'[u] = pc[u]
  BY DEF List, TypeOK
<1>2. Waiting \in [Thread -> {"remove", "removeTimed", "no"}]
  BY DEF Waiting
<1>3. \A u \in Thread : u # t => Waiting'[u] = Waiting[u]
  BY <1>1 DEF Waiting
<1>4. /\ label = "remove" => Waiting'[t] = "remove"
      /\ label \in {"removeTimed", "removeTimedOut"} => Waiting'[t] = "removeTimed"
      /\ label \in {"idle", "unblock", "unblockAll", "peekTimedOut"} => Waiting'[t] = "no"
  BY <1>1 DEF Waiting
<1>5. Waiting' = [u \in Thread |-> Waiting'[u]]
  BY DEF Waiting
<1> QED
  BY <1>2, <1>3, <1>4, <1>5

\* What a thread waits for, by where it is.
LEMMA WaitingNow ==
  ASSUME NEW t \in Thread
  PROVE  /\ pc[t] = "remove" => Waiting[t] = "remove"
         /\ pc[t] \in {"removeTimed", "removeTimedOut"} => Waiting[t] = "removeTimed"
         /\ pc[t] \in {"idle", "unblock", "unblockAll", "peekTimedOut", "peekTimed"}
              => Waiting[t] = "no"
BY DEF Waiting

\* A step that leaves what its thread waits for unchanged.
LEMMA SameWaiting ==
  ASSUME NEW t \in Thread, Waiting' = [Waiting EXCEPT ![t] = Waiting[t]]
  PROVE  Waiting' = Waiting
BY DEF Waiting

\* Nothing waits to add.
LEMMA NoWant ==
  ASSUME NEW t \in Thread
  PROVE  [[u \in Thread |-> None] EXCEPT ![t] = None] = [u \in Thread |-> None]
OBVIOUS

\* A call that returns r from where it is.
LEMMA CallReturns ==
  ASSUME List, NEW t \in Thread, NEW r, ret' = [ret EXCEPT ![t] = r],
         pc' = [pc EXCEPT ![t] = "idle"] \/ pc' = [pc EXCEPT ![t] = "unblock"]
  PROVE  Queue!Return(t, r)
<1>1. Waiting' = [Waiting EXCEPT ![t] = "no"]
  BY WaitingAfter
<1> QED
  BY <1>1, NoWant DEF Queue!Return

\* The first critical section of an add is a Put, or nothing.
LEMMA AddRefines ==
  ASSUME List, NEW t \in Thread, NEW v \in Elem, Add(t, v)
  PROVE  Queue!Next \/ UNCHANGED Queue!qVars
<1>1. pc[t] = "idle" /\ pc' = [pc EXCEPT ![t] = "unblock"] /\ Waiting[t] = "no"
  BY WaitingNow DEF Add, Enter, Goto
<1>2. ASSUME NEW l \in Link \ InList, LinkAtTail(l, v), ret' = [ret EXCEPT ![t] = v]
      PROVE  Queue!Put(t, v)
  <2>1. Len(Contents) < Cardinality(Link)
    BY ContentsSeq, RoomForOne DEF Links
  <2>2. Contents' = Append(Contents, v)
    BY <1>2, TailAppends
  <2>3. Queue!Return(t, v)
    BY <1>1, <1>2, CallReturns
  <2> QED
    BY <1>1, <2>1, <2>2, <2>3 DEF Queue!Put
<1>3. ASSUME Refuse(t) PROVE UNCHANGED Queue!qVars
  <2>1. Contents' = Contents /\ ret' = ret
    BY <1>3, SameContents DEF Refuse, listVars
  <2>2. Waiting' = Waiting
    BY <1>1, WaitingAfter, SameWaiting
  <2> QED
    BY <2>1, <2>2 DEF Queue!qVars
<1> QED
  BY <1>2, <1>3 DEF Add, Queue!Next, Elem

\* ... and of addToHead a PutFirst.
LEMMA AddToHeadRefines ==
  ASSUME List, NEW t \in Thread, NEW v \in Urgent, AddToHead(t, v)
  PROVE  Queue!Next \/ UNCHANGED Queue!qVars
<1>0. v \in Elem
  BY FIFOAssumption DEF FIFOAssumption, Elem
<1>1. pc[t] = "idle" /\ pc' = [pc EXCEPT ![t] = "unblock"] /\ Waiting[t] = "no"
  BY WaitingNow DEF AddToHead, Enter, Goto
<1>2. ASSUME NEW l \in Link \ InList, LinkAtHead(l, v), ret' = [ret EXCEPT ![t] = v]
      PROVE  Queue!PutFirst(t, v)
  <2>1. Len(Contents) < Cardinality(Link)
    BY ContentsSeq, RoomForOne DEF Links
  <2>2. Contents' = <<v>> \o Contents
    BY <1>0, <1>2, HeadPrepends
  <2>3. Queue!Return(t, v)
    BY <1>1, <1>2, CallReturns
  <2> QED
    BY <1>1, <2>1, <2>2, <2>3 DEF Queue!PutFirst
<1>3. ASSUME Refuse(t) PROVE UNCHANGED Queue!qVars
  <2>1. Contents' = Contents /\ ret' = ret
    BY <1>3, SameContents DEF Refuse, listVars
  <2>2. Waiting' = Waiting
    BY <1>1, WaitingAfter, SameWaiting
  <2> QED
    BY <2>1, <2>2 DEF Queue!qVars
<1> QED
  BY <1>0, <1>2, <1>3 DEF AddToHead, Queue!Next, Elem

\* A removal that finds an element, before or after a wait, is a Get.
LEMMA TakeRefines ==
  ASSUME List, NEW t \in Thread, pc[t] \in {"idle"} \cup RemoveWaits, TakeHead(t)
  PROVE  Queue!Get(t)
<1>1. Contents # <<>> /\ Contents' = Tail(Contents) /\ d[out] = Head(Contents)
  BY TakeBeheads
<1>2. Waiting[t] \in {"no", "remove", "removeTimed"}
  BY WaitingNow DEF RemoveWaits
<1>3. Queue!Return(t, d[out])
  BY CallReturns DEF TakeHead, Return, Goto
<1> QED
  BY <1>1, <1>2, <1>3 DEF Queue!Get

\* One that finds none is a FailToGet of an empty queue.
LEMMA FindNothingRefines ==
  ASSUME List, NEW t \in Thread, pc[t] \in {"idle"} \cup RemoveWaits, FindNothing(t)
  PROVE  Queue!FailToGet(t)
<1>1. Contents = <<>>
  BY EmptyMeans, EmptyContents DEF FindNothing
<1>2. Waiting[t] \in {"no", "remove", "removeTimed"}
  BY WaitingNow DEF RemoveWaits
<1>3. Queue!Return(t, Failed)
  BY CallReturns DEF FindNothing, Return, Goto
<1>4. Contents' = Contents
  BY SameContents DEF FindNothing
<1> QED
  BY <1>1, <1>2, <1>3, <1>4 DEF Queue!FailToGet

\* One that goes to sleep is a WaitToGet.
LEMMA AwaitRefines ==
  ASSUME List, NEW t \in Thread, NEW how \in RemoveWaits, pc[t] = "idle", AwaitData(t, how)
  PROVE  Queue!WaitToGet(t, how)
<1>1. Contents = <<>>
  BY EmptyMeans, EmptyContents DEF AwaitData
<1>2. Waiting[t] = "no"
  BY WaitingNow
<1>3. Waiting' = [Waiting EXCEPT ![t] = how]
  BY WaitingAfter DEF AwaitData, Goto, RemoveWaits
<1>4. Contents' = Contents
  BY SameContents DEF AwaitData
<1> QED
  BY <1>1, <1>2, <1>3, <1>4 DEF Queue!WaitToGet, AwaitData

\* peek() is a Look; a deadline that passed is a FailToGet.
LEMMA PeekRefines ==
  ASSUME List, NEW t \in Thread, Peek(t)
  PROVE  Queue!Look(t)
<1>1. pc[t] = "idle" /\ pc' = [pc EXCEPT ![t] = "idle"]
  BY DEF Peek, Look, Enter, Return, Goto
<1>2. Waiting[t] = "no" /\ Waiting' = Waiting
  BY <1>1, WaitingNow, WaitingAfter, SameWaiting
<1>3. Contents' = Contents
  BY SameContents DEF Peek, Look, listVars
<1>4. \E r \in Elem \cup {None, Failed} : ret' = [ret EXCEPT ![t] = r]
  <2>1. (IF out # Null THEN d[out] ELSE Failed) \in Elem \cup {None, Failed}
    BY DEF List, TypeOK, Elem
  <2>2. ret' = [ret EXCEPT ![t] = IF out # Null THEN d[out] ELSE Failed]
    BY DEF Peek, Look, Return
  <2> QED
    BY <2>1, <2>2
<1> QED
  BY <1>2, <1>3, <1>4 DEF Queue!Look, Elem

\* A time-out of a call is a removal that fails, or a look at the queue.
LEMMA TimedOutRefines ==
  ASSUME List, NEW t \in Thread, ReturnTimedOut(t)
  PROVE  Queue!FailToGet(t) \/ Queue!Look(t)
<1>1. /\ pc[t] \in {"removeTimedOut", "peekTimedOut"} /\ pc' = [pc EXCEPT ![t] = "idle"]
      /\ ret' = [ret EXCEPT ![t] = Failed]
  BY DEF ReturnTimedOut, Return, Goto
<1>2. Contents' = Contents
  BY SameContents DEF ReturnTimedOut, listVars
<1>3. CASE pc[t] = "removeTimedOut"
  <2>1. Waiting[t] = "removeTimed"
    BY <1>3, WaitingNow
  <2>2. Queue!Return(t, Failed)
    BY <1>1, CallReturns
  <2> QED
    BY <1>2, <2>1, <2>2 DEF Queue!FailToGet
<1>4. CASE pc[t] = "peekTimedOut"
  <2>1. Waiting[t] = "no" /\ Waiting' = Waiting
    BY <1>1, <1>4, WaitingNow, WaitingAfter, SameWaiting
  <2> QED
    BY <1>1, <1>2, <2>1 DEF Queue!Look
<1> QED
  BY <1>1, <1>3, <1>4

\* Wakeups, deadlines, unblock(), unblockAll() and enable() are no steps of the queue.
LEMMA QuietRefines ==
  ASSUME List, NEW t \in Thread,
         \/ Unblock(t) \/ UnblockAll(t) \/ SpuriousWakeup(t) \/ TimeOut(t)
         \/ \E b \in BOOLEAN : SetEnabled(t, b)
  PROVE  UNCHANGED Queue!qVars
<1>1. Contents' = Contents /\ ret' = ret
  BY SameContents DEF Unblock, UnblockAll, SpuriousWakeup, TimeOut, SetEnabled, listVars
<1>2. Waiting' = Waiting
  <2>1. CASE Unblock(t) \/ UnblockAll(t)
    <3>1. pc[t] \in {"idle", "unblock", "unblockAll"} /\ pc' = [pc EXCEPT ![t] = "idle"]
      BY <2>1 DEF Unblock, UnblockAll, Goto
    <3> QED
      BY <3>1, WaitingNow, WaitingAfter, SameWaiting
  <2>2. CASE TimeOut(t)
    <3>1. \/ pc[t] = "removeTimed" /\ pc' = [pc EXCEPT ![t] = "removeTimedOut"]
          \/ pc[t] = "peekTimed" /\ pc' = [pc EXCEPT ![t] = "peekTimedOut"]
      BY <2>2 DEF TimeOut, Goto
    <3> QED
      BY <3>1, WaitingNow, WaitingAfter, SameWaiting
  <2>3. CASE SpuriousWakeup(t) \/ \E b \in BOOLEAN : SetEnabled(t, b)
    <3>1. pc' = pc
      BY <2>3 DEF SpuriousWakeup, SetEnabled
    <3> QED
      BY <3>1 DEF Waiting
  <2> QED
    BY <2>1, <2>2, <2>3
<1> QED
  BY <1>1, <1>2 DEF Queue!qVars

\* clearAll() empties the queue.
LEMMA ClearRefines ==
  ASSUME List, NEW t \in Thread, ClearAll(t)
  PROVE  Queue!Empty
<1>1. pc[t] = "idle" /\ pc' = [pc EXCEPT ![t] = "unblockAll"] /\ ret' = ret /\ remain' = 0
  BY DEF ClearAll, Enter, Goto
<1>2. Waiting' = Waiting
  BY <1>1, WaitingNow, WaitingAfter, SameWaiting
<1>3. Contents' = <<>>
  <2>1. 1..0 = {}
    OBVIOUS
  <2> QED
    BY <1>1, <2>1 DEF Contents
<1> QED
  BY <1>1, <1>2, <1>3 DEF Queue!Empty

\* Every step of the list is a step of the queue, or none.
LEMMA StepRefines == List /\ [Next]_vars => [Queue!Next]_Queue!qVars
<1> SUFFICES ASSUME List, [Next]_vars PROVE Queue!Next \/ UNCHANGED Queue!qVars
  OBVIOUS
<1>1. CASE UNCHANGED vars
  <2>1. Contents' = Contents
    BY <1>1, SameContents DEF vars, listVars
  <2> QED
    BY <1>1, <2>1 DEF vars, Waiting, Queue!qVars
<1>2. ASSUME NEW t \in Thread, FIFOStep(t) PROVE Queue!Next \/ UNCHANGED Queue!qVars
  <2>a. Queue!Get(t) \/ Queue!FailToGet(t) \/ Queue!Look(t) \/ Queue!Empty => Queue!Next
    BY DEF Queue!Next
  <2>b. \A how \in RemoveWaits : Queue!WaitToGet(t, how) => Queue!Next
    BY DEF Queue!Next, RemoveWaits
  <2>1. ASSUME NEW v \in Value \cup {None}, Add(t, v) PROVE Queue!Next \/ UNCHANGED Queue!qVars
    BY <2>1, AddRefines DEF Elem
  <2>2. ASSUME NEW v \in Urgent, AddToHead(t, v) PROVE Queue!Next \/ UNCHANGED Queue!qVars
    BY <2>2, AddToHeadRefines
  <2>3. CASE Remove(t)
    BY <2>a, <2>3, TakeRefines, FindNothingRefines DEF Remove, Enter
  <2>4. ASSUME NEW how \in RemoveWaits, RemoveOrBlock(t, how) PROVE Queue!Next
    BY <2>a, <2>b, <2>4, TakeRefines, AwaitRefines DEF RemoveOrBlock, Enter
  <2>5. CASE RemoveResume(t)
    BY <2>a, <2>5, TakeRefines, FindNothingRefines DEF RemoveResume
  <2>6. CASE Peek(t) \/ ReturnTimedOut(t)
    BY <2>a, <2>6, PeekRefines, TimedOutRefines
  <2>7. CASE \/ Unblock(t) \/ UnblockAll(t) \/ SpuriousWakeup(t) \/ TimeOut(t)
             \/ \E b \in BOOLEAN : SetEnabled(t, b)
    BY <2>7, QuietRefines
  <2>8. CASE ClearAll(t)
    BY <2>a, <2>8, ClearRefines
  <2> QED
    BY <1>2, <2>1, <2>2, <2>3, <2>4, <2>5, <2>6, <2>7, <2>8 DEF FIFOStep, Resume
<1> QED
  BY <1>1, <1>2 DEF Next

\* tw_safeFIFO is a queue: whatever adds at both ends, removals that wait, time out or
\* are woken for nothing, and clears any number of threads make, elements leave in
\* order and once each, and a removal without a deadline fails only when the list is
\* empty.
THEOREM ListImplementsQueue == Spec => ImplementsQueue
<1>1. Init => Queue!Init
  <2> SUFFICES ASSUME Init PROVE Queue!Init
    OBVIOUS
  <2>1. Contents = <<>>
    BY EmptyContents DEF Init
  <2>2. Waiting = [t \in Thread |-> "no"]
    BY DEF Init, Waiting
  <2> QED
    BY <2>1, <2>2 DEF Init, Queue!Init
<1> QED
  BY <1>1, ListInit, ListStep, StepRefines, PTL DEF Spec, ImplementsQueue, Queue!Spec
=============================================================================

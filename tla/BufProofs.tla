----------------------------- MODULE BufProofs -----------------------------
(***************************************************************************)
(* Theorem about BufBlk and MemBlk: for every set of blocks and handles and *)
(* for chains of any length, the reference count of a block is the number  *)
(* of views on it.                                                         *)
(*                                                                         *)
(* RefCountsViews is not inductive: a call writes counts for the blocks of *)
(* a whole chain, so the invariant BufKept also says that the chains of    *)
(* the handles and the iterator's duplicate are sequences of views on      *)
(* blocks.  Every call changes one chain with a Recount: what the new      *)
(* chain views more often than the old, the counts have more.  eatBytes()  *)
(* is taken with the condition EatStaysClear of the model.                 *)
(***************************************************************************)
EXTENDS MCContainers, SharedLemmas

\* A view, and a chain of n of them.
IsView(v) ==
    v.blk \in Blk /\ v = [blk |-> v.blk, rd |-> v.rd, wr |-> v.wr, mark |-> v.mark]
IsViews(c, n) == Spans(c, n) /\ \A i \in 1..n : IsView(c[i])

\* The blocks of a chain, and where one block is viewed.
BlksOf(c) == [i \in DOMAIN c |-> c[i].blk]
Viewed(c, b) == {i \in DOMAIN c : c[i].blk = b}

\* The views on b in the chains C of the handles and in the chain s of the iterator.
Views(C, s, b) == Cardinality(Spread(Handle, [h \in Handle |-> Viewed(C[h], b)])) + Buf!On(s, b)

\* What holds after every call, of the memory m, the chains C and the iterator's s.
MemKept(m) ==
    /\ m = [b \in Blk |-> m[b]]
    /\ \A b \in Blk : /\ m[b] = [bytes |-> m[b].bytes, ref |-> m[b].ref, live |-> m[b].live]
                      /\ m[b].ref \in Nat /\ m[b].live \in BOOLEAN
ChainsKept(C) == C = [h \in Handle |-> C[h]] /\ \A h \in Handle : \E n : IsViews(C[h], n)
Agree(m, C, s) ==
    \A b \in Blk : m[b].ref = Views(C, s, b) /\ m[b].live = (Views(C, s, b) > 0)
BufIs(m, C, s) == MemKept(m) /\ ChainsKept(C) /\ (\E n : IsViews(s, n)) /\ Agree(m, C, s)
BufKept ==
    /\ BufIs(mem, chain, iter.start)
    /\ iter = [start |-> iter.start, cur |-> iter.cur, off |-> iter.off]

\* The cardinality of the instance is the cardinality.
LEMMA BufSameCardinality == \A S : Buf!Cardinality(S) = Cardinality(S)
BY DEF Buf!Cardinality, Cardinality

\* What On() counts.
LEMMA OnIs ==
  ASSUME NEW c, NEW n, IsViews(c, n), NEW b
  PROVE  /\ n \in Nat /\ Viewed(c, b) = Places(BlksOf(c), n, b)
         /\ Buf!On(c, b) = Cardinality(Places(BlksOf(c), n, b))
         /\ IsFiniteSet(Viewed(c, b)) /\ Buf!On(c, b) = Cardinality(Viewed(c, b))
         /\ Buf!On(c, b) \in Nat
         /\ Buf!On(c, b) > 0 <=> \E i \in 1..n : c[i].blk = b
<1>1. n \in Nat /\ DOMAIN c = 1..n
  BY DEF IsViews, Spans
<1>2. Viewed(c, b) = Places(BlksOf(c), n, b) /\ \A i \in 1..n : BlksOf(c)[i] = c[i].blk
  BY <1>1 DEF Viewed, Places, BlksOf
<1>3. Buf!On(c, b) = Cardinality(Viewed(c, b))
  BY BufSameCardinality DEF Buf!On, Viewed
<1> QED
  BY <1>1, <1>2, <1>3, PlacesFinite

\* The chain of one handle changes: what the memory has to say then.
Recount(m, m2, c, c2) ==
    \A b \in Blk : /\ m2[b].ref = m[b].ref - Buf!On(c, b) + Buf!On(c2, b)
                   /\ m2[b].live = (m[b].ref - Buf!On(c, b) + Buf!On(c2, b) > 0)

\* The chains D are the chains C with c2 for handle g: the views on b.
ViewsDiffer(C, s, g, c2, D, b) ==
    /\ Views(C, s, b) \in Nat /\ Buf!On(C[g], b) \in Nat /\ Buf!On(s, b) \in Nat /\ Buf!On(c2, b) \in Nat
    /\ Buf!On(C[g], b) + Buf!On(s, b) <= Views(C, s, b)
    /\ Views(D, s, b) = Views(C, s, b) - Buf!On(C[g], b) + Buf!On(c2, b)

\* That is what becomes of the views.
LEMMA ViewsChange ==
  ASSUME NEW C, ChainsKept(C), NEW s, \E n : IsViews(s, n), NEW g \in Handle, NEW c2, \E n : IsViews(c2, n),
         NEW D, D = [C EXCEPT ![g] = c2], NEW b
  PROVE  ChainsKept(D) /\ ViewsDiffer(C, s, g, c2, D, b)
<1> DEFINE G == [h \in Handle |-> Viewed(C[h], b)]
           G2 == [h \in Handle |-> Viewed(D[h], b)]
<1>1. D = [h \in Handle |-> D[h]] /\ D[g] = c2 /\ \A h \in Handle : h # g => D[h] = C[h]
  BY DEF ChainsKept
<1>2. ChainsKept(D)
  BY <1>1 DEF ChainsKept
<1>3. \A h \in Handle : IsFiniteSet(Viewed(C[h], b))
  BY OnIs DEF ChainsKept
<1>4. /\ IsFiniteSet(Viewed(c2, b)) /\ Buf!On(c2, b) = Cardinality(Viewed(c2, b))
      /\ Buf!On(C[g], b) = Cardinality(Viewed(C[g], b))
      /\ Buf!On(s, b) \in Nat
  BY OnIs DEF ChainsKept
<1>5. /\ \A h \in Handle : IsFiniteSet(G[h]) /\ (h # g => G2[h] = G[h])
      /\ G[g] = Viewed(C[g], b) /\ G2[g] = Viewed(c2, b)
  BY <1>1, <1>3
<1>6. IsFiniteSet(Handle)
  BY BufAssumption
<1>7. Views(C, s, b) = Cardinality(Spread(Handle, G)) + Buf!On(s, b)
  BY DEF Views
<1>8. Views(D, s, b) = Cardinality(Spread(Handle, G2)) + Buf!On(s, b)
  BY DEF Views
<1> HIDE DEF G, G2
<1>9. /\ Cardinality(Spread(Handle, G)) \in Nat /\ Cardinality(Spread(Handle, G2)) \in Nat
      /\ Cardinality(G[g]) \in Nat /\ Cardinality(G2[g]) \in Nat
      /\ Cardinality(G[g]) <= Cardinality(Spread(Handle, G))
      /\ Cardinality(Spread(Handle, G2)) = Cardinality(Spread(Handle, G)) - Cardinality(G[g]) + Cardinality(G2[g])
  BY ONLY <1>4, <1>5, <1>6, SpreadChanges, g \in Handle
<1>10. PICK x, y, u, v, w \in Nat : /\ x = Cardinality(Spread(Handle, G)) /\ y = Cardinality(G[g])
                                   /\ u = Cardinality(G2[g]) /\ v = Cardinality(Spread(Handle, G2))
                                   /\ w = Buf!On(s, b)
  BY <1>4, <1>9
<1>11. /\ Views(C, s, b) = x + w /\ Views(D, s, b) = v + w /\ Buf!On(C[g], b) = y /\ Buf!On(c2, b) = u
       /\ y <= x /\ v = x - y + u
  BY <1>4, <1>5, <1>7, <1>8, <1>9, <1>10
<1>12. y + w <= x + w /\ v + w = (x + w) - y + u
  BY <1>11
<1> QED
  BY <1>2, <1>10, <1>11, <1>12 DEF ViewsDiffer

\* A call that changes one handle's chain and recounts what it took and gave keeps
\* the counts right.
LEMMA HandleChanges ==
  ASSUME NEW m, NEW C, NEW s, BufIs(m, C, s), NEW g \in Handle, NEW c2, \E n : IsViews(c2, n),
         NEW m2, MemKept(m2), Recount(m, m2, C[g], c2)
  PROVE  BufIs(m2, [C EXCEPT ![g] = c2], s)
<1>0. PICK D : D = [C EXCEPT ![g] = c2]
  OBVIOUS
<1> SUFFICES BufIs(m2, D, s)
  BY <1>0
<1>1. ChainsKept(C) /\ (\E n : IsViews(s, n)) /\ D = [C EXCEPT ![g] = c2]
  BY <1>0 DEF BufIs
<1>2. ChainsKept(D)
  BY <1>1, ViewsChange
<1>3. ASSUME NEW b \in Blk
      PROVE  /\ m2[b].ref = Views(D, s, b)
             /\ m2[b].live = (Views(D, s, b) > 0)
  <2>0. ViewsDiffer(C, s, g, c2, D, b)
    BY <1>1, ViewsChange
  <2>1. Views(D, s, b) = Views(C, s, b) - Buf!On(C[g], b) + Buf!On(c2, b)
    BY <2>0 DEF ViewsDiffer
  <2>2. m[b].ref = Views(C, s, b)
    BY DEF BufIs, Agree
  <2> QED
    BY <2>1, <2>2 DEF Recount
<1> QED
  BY <1>1, <1>2, <1>3 DEF BufIs, Agree

\* The same for the chain of the iterator.
LEMMA IterChanges ==
  ASSUME NEW m, NEW C, NEW s, BufIs(m, C, s), NEW s2, \E n : IsViews(s2, n),
         NEW m2, MemKept(m2), Recount(m, m2, s, s2)
  PROVE  BufIs(m2, C, s2)
<1>1. ASSUME NEW b \in Blk
      PROVE  m2[b].ref = Views(C, s2, b) /\ m2[b].live = (Views(C, s2, b) > 0)
  <2> DEFINE K == Cardinality(Spread(Handle, [h \in Handle |-> Viewed(C[h], b)]))
  <2>1. Views(C, s, b) = K + Buf!On(s, b) /\ Views(C, s2, b) = K + Buf!On(s2, b)
    BY DEF Views
  <2>2. K \in Nat
    <3>1. \A h \in Handle : IsFiniteSet(Viewed(C[h], b))
      BY OnIs DEF BufIs, ChainsKept
    <3> QED
      BY <3>1, BufAssumption, SpreadFinite
  <2> HIDE DEF K
  <2>3. Buf!On(s, b) \in Nat /\ Buf!On(s2, b) \in Nat
    BY OnIs DEF BufIs
  <2>4. m[b].ref = Views(C, s, b)
    BY DEF BufIs, Agree
  <2>5. m[b].ref - Buf!On(s, b) + Buf!On(s2, b) = Views(C, s2, b)
    BY <2>1, <2>2, <2>3, <2>4
  <2> QED
    BY <2>5 DEF Recount
<1> QED
  BY <1>1 DEF BufIs, Agree

\* A block counts at least the views of one handle and of the iterator.
RefCovers(m, C, s, g, b) ==
    /\ m[b].ref \in Nat /\ m[b].live = (m[b].ref > 0)
    /\ Buf!On(C[g], b) \in Nat /\ Buf!On(s, b) \in Nat
    /\ Buf!On(C[g], b) + Buf!On(s, b) <= m[b].ref
LEMMA RefsCover ==
  ASSUME NEW m, NEW C, NEW s, BufIs(m, C, s), NEW g \in Handle, NEW b \in Blk
  PROVE  RefCovers(m, C, s, g, b)
<1>1. /\ ChainsKept(C) /\ (\E n : IsViews(s, n)) /\ \E n : IsViews(C[g], n)
      /\ m[b].ref = Views(C, s, b) /\ m[b].live = (Views(C, s, b) > 0)
  BY DEF BufIs, ChainsKept, Agree
<1>2. PICK c2 : c2 = C[g]
  OBVIOUS
<1>3. PICK D : D = [C EXCEPT ![g] = c2]
  OBVIOUS
<1>4. ViewsDiffer(C, s, g, c2, D, b)
  BY <1>1, <1>2, <1>3, ViewsChange
<1> QED
  BY <1>1, <1>4 DEF ViewsDiffer, RefCovers

\* A chain without views.
LEMMA NoViews ==
  /\ IsViews(<<>>, 0)
  /\ \A b : Buf!On(<<>>, b) = 0
<1>1. IsViews(<<>>, 0)
  BY DEF IsViews, Spans
<1>2. ASSUME NEW b PROVE Buf!On(<<>>, b) = 0
  <2>1. Buf!On(<<>>, b) \in Nat /\ (Buf!On(<<>>, b) > 0 <=> \E i \in 1..0 : <<>>[i].blk = b)
    BY <1>1, OnIs
  <2> QED
    BY <2>1
<1> QED
  BY <1>1, <1>2

\* The memory after a count has changed by k[b] for each block.
Counts(m, m2, k) ==
    /\ MemKept(m2)
    /\ \A b \in Blk : m2[b].ref = m[b].ref + k[b] /\ m2[b].live = (m[b].ref + k[b] > 0)

\* MemBlk::release() on each view of c.
LEMMA ReleaseAllIs ==
  ASSUME NEW m, MemKept(m), NEW c,
         \A b \in Blk : /\ m[b].live = (m[b].ref > 0)
                        /\ Buf!On(c, b) \in Nat /\ Buf!On(c, b) <= m[b].ref
  PROVE  Counts(m, Buf!ReleaseAll(m, c), [b \in Blk |-> 0 - Buf!On(c, b)])
<1> DEFINE m2 == Buf!ReleaseAll(m, c)
<1>1. m2 = [b \in Blk |-> m2[b]]
  BY DEF Buf!ReleaseAll
<1>2. ASSUME NEW b \in Blk
      PROVE  /\ m2[b] = [bytes |-> m2[b].bytes, ref |-> m2[b].ref, live |-> m2[b].live]
             /\ m2[b].ref \in Nat /\ m2[b].live \in BOOLEAN
             /\ m2[b].ref = m[b].ref + (0 - Buf!On(c, b))
             /\ m2[b].live = (m[b].ref + (0 - Buf!On(c, b)) > 0)
  <2>1. m[b] = [bytes |-> m[b].bytes, ref |-> m[b].ref, live |-> m[b].live] /\ m[b].ref \in Nat
    BY DEF MemKept
  <2>2. PICK k, r \in Nat : k = Buf!On(c, b) /\ r = m[b].ref /\ k <= r
    BY <2>1
  <2>3. m2[b] = IF k > 0 /\ r - k < 1 THEN [bytes |-> <<>>, ref |-> 0, live |-> FALSE]
                ELSE [m[b] EXCEPT !.ref = r - k]
    BY <2>2 DEF Buf!ReleaseAll, Buf!FreeMem
  <2>4. CASE k > 0 /\ r - k < 1
    <3>1. r - k = 0 /\ r + (0 - k) = 0
      BY <2>2, <2>4
    <3>2. m2[b] = [bytes |-> <<>>, ref |-> 0, live |-> FALSE]
      BY <2>3, <2>4
    <3>3. m2[b].ref = 0 /\ m2[b].live = FALSE /\ m2[b].bytes = <<>>
      BY <3>2
    <3>4. m[b].ref + (0 - Buf!On(c, b)) = 0 /\ ~(0 > 0)
      BY <2>2, <3>1
    <3>5. m2[b] = [bytes |-> m2[b].bytes, ref |-> m2[b].ref, live |-> m2[b].live]
      BY <3>2, <3>3
    <3>6. m2[b].ref \in Nat /\ m2[b].ref = m[b].ref + (0 - Buf!On(c, b))
      BY <3>3, <3>4
    <3>7. m2[b].live \in BOOLEAN /\ m2[b].live = (m[b].ref + (0 - Buf!On(c, b)) > 0)
      <4>0. (r + (0 - k) > 0) = FALSE
        BY <3>1
      <4>1. m2[b].live = (r + (0 - k) > 0)
        BY <3>3, <4>0, Zenon
      <4> QED
        BY <2>2, <3>3, <4>1
    <3> QED
      BY <3>5, <3>6, <3>7
  <2>5. CASE ~(k > 0 /\ r - k < 1)
    <3>1. r - k \in Nat /\ r + (0 - k) = r - k /\ (r - k > 0 <=> r > 0)
      BY <2>2, <2>5
    <3>2. m2[b] = [bytes |-> m[b].bytes, ref |-> r - k, live |-> m[b].live]
      BY <2>1, <2>3, <2>5
    <3>3. m[b].live = (r > 0)
      BY <2>2
    <3> QED
      BY <2>2, <3>1, <3>2, <3>3
  <2> QED
    BY <2>4, <2>5
<1> HIDE DEF m2
<1>3. MemKept(m2)
  BY <1>1, <1>2 DEF MemKept
<1> QED
  BY <1>2, <1>3 DEF Counts, m2

\* MemBlk::checkout() on each view of c, which are on blocks that others view.
LEMMA CheckoutIs ==
  ASSUME NEW m, MemKept(m), NEW c,
         \A b \in Blk : /\ m[b].live = (m[b].ref > 0)
                        /\ Buf!On(c, b) \in Nat /\ (Buf!On(c, b) > 0 => m[b].ref > 0)
  PROVE  Counts(m, Buf!Checkout(m, c), [b \in Blk |-> Buf!On(c, b)])
<1> DEFINE m2 == Buf!Checkout(m, c)
<1>1. m2 = [b \in Blk |-> m2[b]]
  BY DEF Buf!Checkout
<1>2. ASSUME NEW b \in Blk
      PROVE  /\ m2[b] = [bytes |-> m2[b].bytes, ref |-> m2[b].ref, live |-> m2[b].live]
             /\ m2[b].ref \in Nat /\ m2[b].live \in BOOLEAN
             /\ m2[b].ref = m[b].ref + Buf!On(c, b)
             /\ m2[b].live = (m[b].ref + Buf!On(c, b) > 0)
  <2>1. m[b] = [bytes |-> m[b].bytes, ref |-> m[b].ref, live |-> m[b].live] /\ m[b].ref \in Nat
    BY DEF MemKept
  <2>2. PICK k, r \in Nat : k = Buf!On(c, b) /\ r = m[b].ref
    BY <2>1
  <2>3. m2[b] = [m[b] EXCEPT !.ref = r + k]
    BY <2>2 DEF Buf!Checkout
  <2>4. m2[b] = [bytes |-> m[b].bytes, ref |-> r + k, live |-> m[b].live]
    BY <2>1, <2>3
  <2>5. m[b].live = (r > 0) /\ (k > 0 => r > 0)
    BY <2>2
  <2>6. r + k \in Nat /\ (r + k > 0 <=> r > 0)
    BY <2>5
  <2> QED
    BY <2>2, <2>4, <2>5, <2>6
<1> HIDE DEF m2
<1>3. MemKept(m2)
  BY <1>1, <1>2 DEF MemKept
<1> QED
  BY <1>2, <1>3 DEF Counts, m2

\* The blocks no longer count the views of a chain that is released.
LEMMA ReleasedCounts ==
  ASSUME NEW m, MemKept(m), NEW c, NEW dd, NEW c2,
         \A b \in Blk : /\ m[b].live = (m[b].ref > 0)
                        /\ Buf!On(dd, b) \in Nat /\ Buf!On(c2, b) \in Nat
                        /\ Buf!On(c, b) = Buf!On(c2, b) + Buf!On(dd, b) /\ Buf!On(c, b) <= m[b].ref
  PROVE  MemKept(Buf!ReleaseAll(m, dd)) /\ Recount(m, Buf!ReleaseAll(m, dd), c, c2)
<1>1. PICK m2 : m2 = Buf!ReleaseAll(m, dd)
  OBVIOUS
<1>2. \A b \in Blk : m[b].ref \in Nat
  BY DEF MemKept
<1>3. \A b \in Blk : Buf!On(dd, b) <= m[b].ref
  BY <1>2
<1>4. Counts(m, m2, [b \in Blk |-> 0 - Buf!On(dd, b)])
  BY <1>1, <1>3, ReleaseAllIs
<1>5. ASSUME NEW b \in Blk
      PROVE  /\ m2[b].ref = m[b].ref - Buf!On(c, b) + Buf!On(c2, b)
             /\ m2[b].live = (m[b].ref - Buf!On(c, b) + Buf!On(c2, b) > 0)
  <2>1. m2[b].ref = m[b].ref + (0 - Buf!On(dd, b)) /\ m2[b].live = (m[b].ref + (0 - Buf!On(dd, b)) > 0)
    BY <1>4 DEF Counts
  <2>2. m[b].ref + (0 - Buf!On(dd, b)) = m[b].ref - Buf!On(c, b) + Buf!On(c2, b)
    BY <1>2
  <2> QED
    BY <2>1, <2>2
<1> QED
  BY <1>1, <1>4, <1>5 DEF Counts, Recount

\* ... and count the views of a chain that is checked out.
LEMMA CheckedOutCounts ==
  ASSUME NEW m, MemKept(m), NEW c2,
         \A b \in Blk : /\ m[b].live = (m[b].ref > 0)
                        /\ Buf!On(c2, b) \in Nat /\ (Buf!On(c2, b) > 0 => m[b].ref > 0)
  PROVE  MemKept(Buf!Checkout(m, c2)) /\ Recount(m, Buf!Checkout(m, c2), <<>>, c2)
<1>1. PICK m2 : m2 = Buf!Checkout(m, c2)
  OBVIOUS
<1>2. \A b \in Blk : m[b].ref \in Nat
  BY DEF MemKept
<1>4. Counts(m, m2, [b \in Blk |-> Buf!On(c2, b)])
  BY <1>1, CheckoutIs
<1>5. ASSUME NEW b \in Blk
      PROVE  /\ m2[b].ref = m[b].ref - Buf!On(<<>>, b) + Buf!On(c2, b)
             /\ m2[b].live = (m[b].ref - Buf!On(<<>>, b) + Buf!On(c2, b) > 0)
  <2>1. m2[b].ref = m[b].ref + Buf!On(c2, b) /\ m2[b].live = (m[b].ref + Buf!On(c2, b) > 0)
    BY <1>4 DEF Counts
  <2>2. m[b].ref + Buf!On(c2, b) = m[b].ref - Buf!On(<<>>, b) + Buf!On(c2, b)
    BY <1>2, NoViews
  <2> QED
    BY <2>1, <2>2
<1> QED
  BY <1>1, <1>4, <1>5 DEF Counts, Recount

\* A handle's chain c becomes c2, and what c2 lacks is released.
LEMMA ChainReleased ==
  ASSUME NEW m, NEW C, NEW s, BufIs(m, C, s), NEW g \in Handle, NEW dd, NEW c2, \E n : IsViews(c2, n),
         \E n : IsViews(dd, n), \A b \in Blk : Buf!On(C[g], b) = Buf!On(c2, b) + Buf!On(dd, b)
  PROVE  BufIs(Buf!ReleaseAll(m, dd), [C EXCEPT ![g] = c2], s)
<1>1. \A b \in Blk : RefCovers(m, C, s, g, b)
  BY RefsCover
<1>2. PICK c : c = C[g]
  OBVIOUS
<1>3. \A b \in Blk : /\ m[b].live = (m[b].ref > 0)
                     /\ Buf!On(dd, b) \in Nat /\ Buf!On(c2, b) \in Nat
                     /\ Buf!On(c, b) = Buf!On(c2, b) + Buf!On(dd, b) /\ Buf!On(c, b) <= m[b].ref
  BY <1>1, <1>2, OnIs DEF RefCovers
<1>4. MemKept(m)
  BY DEF BufIs
<1>5. MemKept(Buf!ReleaseAll(m, dd)) /\ Recount(m, Buf!ReleaseAll(m, dd), c, c2)
  BY <1>3, <1>4, ReleasedCounts
<1> QED
  BY <1>2, <1>5, HandleChanges

\* The iterator's chain is released.
LEMMA IterReleased ==
  ASSUME NEW m, NEW C, NEW s, BufIs(m, C, s)
  PROVE  BufIs(Buf!ReleaseAll(m, s), C, <<>>)
<1>1. \A b \in Blk : RefCovers(m, C, s, 1, b)
  BY RefsCover, BufAssumption
<1>2. \A b \in Blk : /\ m[b].live = (m[b].ref > 0)
                     /\ Buf!On(s, b) \in Nat /\ Buf!On(<<>>, b) \in Nat
                     /\ Buf!On(s, b) = Buf!On(<<>>, b) + Buf!On(s, b) /\ Buf!On(s, b) <= m[b].ref
  BY <1>1, NoViews DEF RefCovers
<1>3. MemKept(m) /\ \E n : IsViews(<<>>, n)
  BY NoViews DEF BufIs
<1>4. MemKept(Buf!ReleaseAll(m, s)) /\ Recount(m, Buf!ReleaseAll(m, s), s, <<>>)
  BY <1>2, <1>3, ReleasedCounts
<1> QED
  BY <1>3, <1>4, IterChanges

\* A chain that is checked out has only views on blocks that are viewed already.
Shares(c2, m) == (\E n : IsViews(c2, n)) /\ \A b \in Blk : Buf!On(c2, b) > 0 => m[b].ref > 0
LEMMA SharesCounts ==
  ASSUME NEW m, NEW C, NEW s, BufIs(m, C, s), NEW c2, Shares(c2, m)
  PROVE  MemKept(Buf!Checkout(m, c2)) /\ Recount(m, Buf!Checkout(m, c2), <<>>, c2)
<1>1. \A b \in Blk : RefCovers(m, C, s, 1, b)
  BY RefsCover, BufAssumption
<1>2. \A b \in Blk : /\ m[b].live = (m[b].ref > 0)
                     /\ Buf!On(c2, b) \in Nat /\ (Buf!On(c2, b) > 0 => m[b].ref > 0)
  BY <1>1, OnIs DEF RefCovers, Shares
<1> QED
  BY <1>2, CheckedOutCounts DEF BufIs

\* An empty handle gets a chain that shares its blocks.
LEMMA ChainCheckedOut ==
  ASSUME NEW m, NEW C, NEW s, BufIs(m, C, s), NEW g \in Handle, C[g] = <<>>, NEW c2, Shares(c2, m)
  PROVE  BufIs(Buf!Checkout(m, c2), [C EXCEPT ![g] = c2], s)
BY SharesCounts, HandleChanges DEF Shares

\* ... or the iterator does.
LEMMA IterCheckedOut ==
  ASSUME NEW m, NEW C, BufIs(m, C, <<>>), NEW c2, Shares(c2, m)
  PROVE  BufIs(Buf!Checkout(m, c2), C, c2)
BY SharesCounts, IterChanges DEF Shares

\* The views are on the same blocks.
SameViews(c, c2, n) == IsViews(c, n) /\ IsViews(c2, n) /\ \A i \in 1..n : c2[i].blk = c[i].blk
LEMMA SameBlks ==
  ASSUME NEW n, NEW c, NEW c2, SameViews(c, c2, n), NEW b
  PROVE  Buf!On(c2, b) = Buf!On(c, b)
<1>0. IsViews(c, n) /\ IsViews(c2, n) /\ \A i \in 1..n : c2[i].blk = c[i].blk
  BY DEF SameViews
<1>1. DOMAIN c = 1..n /\ DOMAIN c2 = 1..n
  BY <1>0 DEF IsViews, Spans
<1>2. Viewed(c2, b) = Viewed(c, b)
  BY <1>0, <1>1 DEF Viewed
<1> QED
  BY <1>0, <1>2, OnIs

\* Nothing is allocated, freed or shared.
LEMMA SameCounts ==
  ASSUME NEW m, NEW C, NEW s, BufIs(m, C, s), NEW g \in Handle, NEW c2, \E n : IsViews(c2, n),
         \A b \in Blk : Buf!On(c2, b) = Buf!On(C[g], b), NEW m2, MemKept(m2),
         \A b \in Blk : m2[b].ref = m[b].ref /\ m2[b].live = m[b].live
  PROVE  BufIs(m2, [C EXCEPT ![g] = c2], s)
<1>1. ASSUME NEW b \in Blk
      PROVE  /\ m2[b].ref = m[b].ref - Buf!On(C[g], b) + Buf!On(c2, b)
             /\ m2[b].live = (m[b].ref - Buf!On(C[g], b) + Buf!On(c2, b) > 0)
  <2>1. RefCovers(m, C, s, g, b)
    BY RefsCover
  <2>2. m[b].ref = m[b].ref - Buf!On(C[g], b) + Buf!On(c2, b)
    BY <2>1 DEF RefCovers
  <2> QED
    BY <2>1, <2>2 DEF RefCovers
<1>2. Recount(m, m2, C[g], c2)
  BY <1>1 DEF Recount
<1> QED
  BY <1>2, HandleChanges

\* c2 is c without the r views dd after its first p.
IsCut(c, n, c2, dd, p, r) ==
    /\ n \in Nat /\ p \in Nat /\ r \in Nat /\ p + r <= n
    /\ IsViews(c, n) /\ IsViews(c2, n - r) /\ IsViews(dd, r)
    /\ \A i \in 1..p : c2[i].blk = c[i].blk
    /\ \A i \in 1..(n - r) : i > p => c2[i].blk = c[i + r].blk
    /\ \A i \in 1..r : dd[i].blk = c[i + p].blk
LEMMA OnCut ==
  ASSUME NEW c, NEW n, NEW c2, NEW dd, NEW p, NEW r, IsCut(c, n, c2, dd, p, r), NEW b
  PROVE  Buf!On(c, b) = Buf!On(c2, b) + Buf!On(dd, b)
<1>0. /\ n \in Nat /\ p \in Nat /\ r \in Nat /\ p + r <= n
      /\ IsViews(c, n) /\ IsViews(c2, n - r) /\ IsViews(dd, r)
  BY DEF IsCut
<1>1. DOMAIN c = 1..n /\ DOMAIN c2 = 1..(n - r) /\ DOMAIN dd = 1..r
  BY <1>0 DEF IsViews, Spans
<1>2. PICK x, y, z : x = BlksOf(c) /\ y = BlksOf(c2) /\ z = BlksOf(dd)
  OBVIOUS
<1>3. /\ \A i \in 1..n : x[i] = c[i].blk
      /\ \A i \in 1..(n - r) : y[i] = c2[i].blk
      /\ \A i \in 1..r : z[i] = dd[i].blk
  BY <1>1, <1>2 DEF BlksOf
<1>4. \A i \in 1..p : i \in 1..n /\ i \in 1..(n - r)
  BY <1>0
<1>5. \A i \in 1..p : y[i] = x[i]
  BY <1>3, <1>4 DEF IsCut
<1>6. \A i \in 1..(n - r) : i > p => y[i] = x[i + r]
  <2>1. \A i \in 1..(n - r) : i + r \in 1..n
    BY <1>0
  <2> QED
    BY <1>3, <2>1 DEF IsCut
<1>7. \A i \in 1..r : z[i] = x[i + p]
  <2>1. \A i \in 1..r : i + p \in 1..n
    BY <1>0
  <2> QED
    BY <1>3, <2>1 DEF IsCut
<1>8. PICK k : k = n - r
  OBVIOUS
<1>9. Cardinality(Places(x, n, b)) = Cardinality(Places(y, k, b)) + Cardinality(Places(z, r, b))
  <2>1. CutOut(x, n, y, k, z, p, r)
    BY <1>0, <1>5, <1>6, <1>7, <1>8 DEF CutOut
  <2> QED
    BY <2>1, PlacesCut
<1> QED
  BY <1>0, <1>2, <1>8, <1>9, OnIs

\* A chain of one view.
LEMMA OneView ==
  ASSUME NEW v, IsView(v)
  PROVE  /\ IsViews(<<v>>, 1) /\ <<v>>[1] = v
         /\ \A b : Buf!On(<<v>>, b) = IF v.blk = b THEN 1 ELSE 0
<1>1. <<v>> = [i \in 1..1 |-> <<v>>[i]] /\ <<v>>[1] = v
  OBVIOUS
<1>2. IsViews(<<v>>, 1)
  <2>1. \A i \in 1..1 : <<v>>[i] = v
    BY <1>1
  <2> QED
    BY <1>1, <2>1 DEF IsViews, Spans
<1>3. ASSUME NEW b PROVE Buf!On(<<v>>, b) = IF v.blk = b THEN 1 ELSE 0
  <2>1. DOMAIN <<v>> = 1..1
    OBVIOUS
  <2>2. Viewed(<<v>>, b) = IF v.blk = b THEN {1} ELSE {}
    BY <1>1, <2>1 DEF Viewed
  <2>3. Cardinality({1}) = 1 /\ Cardinality({}) = 0
    BY FS_Singleton, FS_EmptySet
  <2>4. Buf!On(<<v>>, b) = Cardinality(Viewed(<<v>>, b))
    BY <1>2, OnIs
  <2> QED
    BY <2>2, <2>3, <2>4
<1> QED
  BY <1>1, <1>2, <1>3

\* malloc() gave a block, and a handle has one view on it more.
LEMMA BlockAdded ==
  ASSUME NEW m, NEW C, NEW s, BufIs(m, C, s), NEW g \in Handle, NEW a \in Blk, ~m[a].live,
         NEW c2, \E n : IsViews(c2, n),
         \A b \in Blk : Buf!On(c2, b) = Buf!On(C[g], b) + (IF b = a THEN 1 ELSE 0),
         NEW y, NEW m2, m2 = [m EXCEPT ![a] = [bytes |-> y, ref |-> 1, live |-> TRUE]]
  PROVE  BufIs(m2, [C EXCEPT ![g] = c2], s)
<1>1. MemKept(m)
  BY DEF BufIs
<1>2. \A b \in Blk : m2[b] = IF b = a THEN [bytes |-> y, ref |-> 1, live |-> TRUE] ELSE m[b]
  BY <1>1 DEF MemKept
<1>3. m2 = [b \in Blk |-> m2[b]]
  BY <1>1 DEF MemKept
<1>4. m2[a].ref = 1 /\ m2[a].live = TRUE /\ m2[a].bytes = y
  BY <1>2
<1>5. MemKept(m2)
  <2>1. ASSUME NEW b \in Blk
        PROVE  /\ m2[b] = [bytes |-> m2[b].bytes, ref |-> m2[b].ref, live |-> m2[b].live]
               /\ m2[b].ref \in Nat /\ m2[b].live \in BOOLEAN
    <3>1. CASE b = a
      <4>1. m2[a] = [bytes |-> y, ref |-> 1, live |-> TRUE]
        BY <1>2
      <4>2. m2[a] = [bytes |-> m2[a].bytes, ref |-> m2[a].ref, live |-> m2[a].live]
        BY <1>4, <4>1
      <4>3. m2[a].live \in BOOLEAN
        BY <1>4, Zenon
      <4>4. m2[a].ref \in Nat
        BY <1>4
      <4> QED
        BY <3>1, <4>2, <4>3, <4>4
    <3>2. CASE b # a
      BY <1>1, <1>2, <3>2 DEF MemKept
    <3> QED
      BY <3>1, <3>2
  <2> QED
    BY <1>3, <2>1 DEF MemKept
<1>6. ASSUME NEW b \in Blk
      PROVE  /\ m2[b].ref = m[b].ref - Buf!On(C[g], b) + Buf!On(c2, b)
             /\ m2[b].live = (m[b].ref - Buf!On(C[g], b) + Buf!On(c2, b) > 0)
  <2>1. RefCovers(m, C, s, g, b)
    BY RefsCover
  <2>2. PICK r, k \in Nat : r = m[b].ref /\ k = Buf!On(C[g], b)
    BY <2>1 DEF RefCovers
  <2>3. m[b].live = (r > 0)
    BY <2>1, <2>2 DEF RefCovers
  <2>4. CASE b = a
    <3>0. ~(r > 0)
      BY <2>3, <2>4, Zenon
    <3>1. r = 0 /\ Buf!On(c2, b) = k + 1
      BY <2>2, <2>4, <3>0
    <3>2. r - k + (k + 1) = 1 /\ 1 > 0
      BY <3>1
    <3>3. m2[b].ref = 1 /\ m2[b].live = TRUE
      BY <1>4, <2>4
    <3>4. (r - k + (k + 1) > 0) = TRUE
      BY <3>2
    <3>5. m2[b].live = (r - k + (k + 1) > 0)
      BY <3>3, <3>4, Zenon
    <3> QED
      BY <2>2, <3>1, <3>2, <3>3, <3>5
  <2>5. CASE b # a
    <3>1. Buf!On(c2, b) = k + 0 /\ r - k + (k + 0) = r
      BY <2>2, <2>5
    <3>2. m2[b] = m[b]
      BY <1>2, <2>5
    <3> QED
      BY <2>2, <2>3, <3>1, <3>2
  <2> QED
    BY <2>4, <2>5
<1>7. Recount(m, m2, C[g], c2)
  BY <1>6 DEF Recount
<1> QED
  BY <1>5, <1>7, HandleChanges

\* SetToSeq gives each element once.
LEMMA BufSetToSeq ==
  ASSUME NEW S, IsFiniteSet(S)
  PROVE  /\ Cardinality(S) \in Nat
         /\ Buf!SetToSeq(S) \in [1..Cardinality(S) -> S]
         /\ \A i, j \in 1..Cardinality(S) : Buf!SetToSeq(S)[i] = Buf!SetToSeq(S)[j] => i = j
<1>1. PICK n \in Nat : ExistsBijection(1..n, S)
  BY FS_NatBijection
<1>2. Cardinality(S) = n
  BY <1>1, FS_CountingElements
<1>3. PICK f : f \in Bijection(1..n, S)
  BY <1>1 DEF ExistsBijection
<1>4. f \in [1..n -> S] /\ Buf!IsInjective(f)
  BY <1>3 DEF Bijection, Injection, IsInjective, Buf!IsInjective
<1>5. \E g \in [1..n -> S] : Buf!IsInjective(g)
  BY <1>4
<1>6. Buf!SetToSeq(S) = CHOOSE g \in [1..n -> S] : Buf!IsInjective(g)
  BY <1>2, BufSameCardinality DEF Buf!SetToSeq
<1>7. Buf!SetToSeq(S) \in [1..n -> S] /\ Buf!IsInjective(Buf!SetToSeq(S))
  BY <1>5, <1>6
<1> QED
  BY <1>2, <1>7 DEF Buf!IsInjective

\* The blocks malloc() can give: each is free, and none is given twice.
LEMMA SpareIs ==
  ASSUME NEW m
  PROVE  \E n \in Nat : /\ Buf!Spare(m) \in [1..n -> {b \in Blk : ~m[b].live}]
                        /\ Len(Buf!Spare(m)) = n
                        /\ \A i, j \in 1..n : Buf!Spare(m)[i] = Buf!Spare(m)[j] => i = j
                        /\ Buf!Spare(m) # <<>> => Head(Buf!Spare(m)) \in Blk /\ ~m[Head(Buf!Spare(m))].live
<1> DEFINE S == {b \in Blk : ~m[b].live}
<1>1. IsFiniteSet(S)
  BY BufAssumption, FS_Subset
<1>2. PICK f : f = Buf!Spare(m)
  OBVIOUS
<1>3. f = Buf!SetToSeq(S)
  BY <1>2 DEF Buf!Spare
<1>4. PICK n : n = Cardinality(S)
  OBVIOUS
<1> HIDE DEF S
<1>5. n \in Nat /\ f \in [1..n -> S] /\ \A i, j \in 1..n : f[i] = f[j] => i = j
  BY <1>1, <1>3, <1>4, BufSetToSeq
<1>6. f \in Seq(S) /\ Len(f) = n
  BY <1>5, FunctionIsSeq
<1>7. f # <<>> => Head(f) \in S
  BY <1>6
<1> QED
  BY <1>2, <1>5, <1>6, <1>7 DEF S

\* One view of a chain changes and stays on its block.
LEMMA ViewChanged ==
  ASSUME NEW c, NEW n, IsViews(c, n), NEW i \in 1..n, NEW v, IsView(v), v.blk = c[i].blk,
         NEW c2, c2 = [c EXCEPT ![i] = v]
  PROVE  IsViews(c2, n) /\ (\A j \in 1..n : c2[j].blk = c[j].blk) /\ \A b : Buf!On(c2, b) = Buf!On(c, b)
<1>1. n \in Nat /\ c = [j \in 1..n |-> c[j]] /\ \A j \in 1..n : IsView(c[j])
  BY DEF IsViews, Spans
<1>2. c2 = [j \in 1..n |-> c2[j]] /\ \A j \in 1..n : c2[j] = IF j = i THEN v ELSE c[j]
  BY <1>1
<1>3. (\A j \in 1..n : IsView(c2[j])) /\ \A j \in 1..n : c2[j].blk = c[j].blk
  BY <1>1, <1>2
<1>4. IsViews(c2, n)
  BY <1>1, <1>2, <1>3 DEF IsViews, Spans
<1>5. SameViews(c, c2, n)
  BY <1>3, <1>4 DEF SameViews
<1>6. \A b : Buf!On(c2, b) = Buf!On(c, b)
  BY <1>5, SameBlks
<1> QED
  BY <1>3, <1>4, <1>6

\* The chains of BufKept.
LEMMA ChainOf ==
  ASSUME BufKept, NEW h \in Handle
  PROVE  /\ MemKept(mem) /\ BufIs(mem, chain, iter.start)
         /\ \E n : n \in Nat /\ IsViews(chain[h], n) /\ DOMAIN chain[h] = 1..n /\ Len(chain[h]) = n
<1>1. PICK n : IsViews(chain[h], n)
  BY DEF BufKept, BufIs, ChainsKept
<1>2. n \in Nat /\ DOMAIN chain[h] = 1..n /\ Spans(chain[h], n)
  BY <1>1 DEF IsViews, Spans
<1>3. Len(chain[h]) = n
  BY <1>2, LenIs
<1> QED
  BY <1>1, <1>2, <1>3 DEF BufKept, BufIs

\* A call that moves pointers or writes bytes, and no more.
LEMMA PointersMove ==
  ASSUME BufKept, NEW h \in Handle, NEW i \in DOMAIN chain[h], NEW v, IsView(v), v.blk = chain[h][i].blk,
         chain' = [chain EXCEPT ![h] = [chain[h] EXCEPT ![i] = v]], iter' = iter,
         MemKept(mem'), \A b \in Blk : mem'[b].ref = mem[b].ref /\ mem'[b].live = mem[b].live
  PROVE  BufKept'
<1>1. PICK n : n \in Nat /\ IsViews(chain[h], n) /\ DOMAIN chain[h] = 1..n
  BY ChainOf
<1>2. PICK c2 : c2 = [chain[h] EXCEPT ![i] = v]
  OBVIOUS
<1>3. IsViews(c2, n) /\ \A b \in Blk : Buf!On(c2, b) = Buf!On(chain[h], b)
  BY <1>1, <1>2, ViewChanged
<1>4. BufIs(mem, chain, iter.start)
  BY DEF BufKept
<1>5. BufIs(mem', [chain EXCEPT ![h] = c2], iter.start)
  BY <1>3, <1>4, SameCounts
<1> QED
  BY <1>2, <1>5 DEF BufKept

\* The bytes of one block change.
NewBytes(m, m2, a, y) ==
    MemKept(m) /\ a \in Blk /\ m2 = [m EXCEPT ![a] = [m[a] EXCEPT !.bytes = y]]
SameRefs(m, m2) == MemKept(m2) /\ \A b \in Blk : m2[b].ref = m[b].ref /\ m2[b].live = m[b].live
LEMMA BytesChange ==
  ASSUME NEW m, NEW a, NEW y, NEW m2, NewBytes(m, m2, a, y)
  PROVE  SameRefs(m, m2)
<1> MemKept(m) /\ a \in Blk /\ m2 = [m EXCEPT ![a] = [m[a] EXCEPT !.bytes = y]]
  BY DEF NewBytes
<1>1. m = [b \in Blk |-> m[b]] /\ m[a] = [bytes |-> m[a].bytes, ref |-> m[a].ref, live |-> m[a].live]
  BY DEF MemKept
<1>2. m2 = [b \in Blk |-> m2[b]] /\ \A b \in Blk : b # a => m2[b] = m[b]
  BY <1>1
<1>3. m2[a] = [bytes |-> y, ref |-> m[a].ref, live |-> m[a].live]
  BY <1>1
<1>4. m2[a].bytes = y /\ m2[a].ref = m[a].ref /\ m2[a].live = m[a].live
  BY <1>3
<1>5. m2[a] = [bytes |-> m2[a].bytes, ref |-> m2[a].ref, live |-> m2[a].live]
  BY <1>3, <1>4
<1>6. \A b \in Blk : m2[b].ref = m[b].ref /\ m2[b].live = m[b].live
  BY <1>2, <1>4
<1> QED
  BY <1>2, <1>5, <1>6 DEF MemKept, SameRefs

\* The calls on one block of a chain.
LEMMA OnViewKeeps ==
  ASSUME BufKept, NEW h \in Handle, NEW i \in DOMAIN chain[h], Buf!OnView(h, i)
  PROVE  BufKept'
<1> DEFINE v == chain[h][i]
<1>1. MemKept(mem) /\ IsView(v)
  BY ChainOf DEF IsViews
<1>2. v.blk \in Blk /\ v = [blk |-> v.blk, rd |-> v.rd, wr |-> v.wr, mark |-> v.mark]
  BY <1>1 DEF IsView
<1>3. ASSUME NEW u, Buf!SetView(h, i, u, <<>>) \/ (\E s : Buf!SetView(h, i, u, s)),
             IsView(u), u.blk = v.blk
      PROVE  BufKept'
  <2>1. chain' = [chain EXCEPT ![h] = [chain[h] EXCEPT ![i] = u]] /\ mem' = mem /\ iter' = iter
    BY <1>3 DEF Buf!SetView, Buf!SetChain
  <2>2. MemKept(mem') /\ \A b \in Blk : mem'[b].ref = mem[b].ref /\ mem'[b].live = mem[b].live
    BY <1>1, <2>1
  <2> QED
    BY <1>3, <2>1, <2>2, PointersMove
<1>4. ASSUME NEW y, mem' = [mem EXCEPT ![v.blk] = [mem[v.blk] EXCEPT !.bytes = y]], iter' = iter,
             NEW u, IsView(u), u.blk = v.blk, chain' = [chain EXCEPT ![h] = [chain[h] EXCEPT ![i] = u]]
      PROVE  BufKept'
  <2>1. MemKept(mem') /\ \A b \in Blk : mem'[b].ref = mem[b].ref /\ mem'[b].live = mem[b].live
    <3>1. PICK a \in Blk : a = v.blk
      BY <1>2
    <3>2. PICK m, m2 : m = mem /\ m2 = mem'
      OBVIOUS
    <3>3. NewBytes(m, m2, a, y)
      BY <1>1, <1>4, <3>1, <3>2 DEF NewBytes
    <3>4. SameRefs(m, m2)
      BY ONLY <3>3, BytesChange
    <3> QED
      BY <3>2, <3>4 DEF SameRefs
  <2> QED
    BY <1>4, <2>1, PointersMove
<1>5. chain = [chain EXCEPT ![h] = [chain[h] EXCEPT ![i] = v]]
  <2>1. chain = [x \in Handle |-> chain[x]]
    BY DEF BufKept, BufIs, ChainsKept
  <2>2. PICK n : n \in Nat /\ IsViews(chain[h], n) /\ DOMAIN chain[h] = 1..n
    BY ChainOf
  <2>3. chain[h] = [j \in 1..n |-> chain[h][j]]
    BY <2>2 DEF IsViews, Spans
  <2>4. [chain[h] EXCEPT ![i] = v] = chain[h]
    BY <2>2, <2>3
  <2> QED
    BY <2>1, <2>4
<1>6. CASE Buf!CopyFrom(h, i)
  <2>1. PICK n \in 1..Wide : /\ mem' = Buf!CopyFromMem(mem, v, [j \in 1..n |-> j]) /\ iter' = iter
                             /\ chain' = [chain EXCEPT ![h] = [chain[h] EXCEPT ![i] = Buf!CopyFromView(mem, v, [j \in 1..n |-> j])]]
    BY <1>6 DEF Buf!CopyFrom, Buf!SetChain
  <2>2. PICK u : u = Buf!CopyFromView(mem, v, [j \in 1..n |-> j])
    OBVIOUS
  <2>3. IsView(u) /\ u.blk = v.blk
    <3>1. PICK w : u = [v EXCEPT !.wr = w]
      BY <2>2 DEF Buf!CopyFromView
    <3>2. u = [blk |-> v.blk, rd |-> v.rd, wr |-> w, mark |-> v.mark]
      BY <1>2, <3>1
    <3> HIDE DEF v
    <3> QED
      BY <1>2, <3>2 DEF IsView
  <2>4. PICK y : mem' = [mem EXCEPT ![v.blk] = [mem[v.blk] EXCEPT !.bytes = y]]
    BY <2>1 DEF Buf!CopyFromMem
  <2> HIDE DEF v
  <2> QED
    BY <1>4, <2>1, <2>2, <2>3, <2>4
<1>7. CASE Buf!Reset(h, i)
  <2>1. PICK u : u = Buf!View(v.blk)
    OBVIOUS
  <2>2. Buf!SetView(h, i, u, <<>>)
    BY <1>7, <2>1 DEF Buf!Reset
  <2>3. u = [blk |-> v.blk, rd |-> 0, wr |-> 0, mark |-> 0]
    BY <2>1 DEF Buf!View
  <2> HIDE DEF v
  <2>4. IsView(u) /\ u.blk = v.blk
    BY <1>2, <2>3 DEF IsView
  <2> QED
    BY <1>3, <2>2, <2>4
<1>8. CASE Buf!IncRdPtr(h, i)
  <2>1. PICK r, s : Buf!SetView(h, i, [v EXCEPT !.rd = r], s)
    BY <1>8 DEF Buf!IncRdPtr
  <2>2. PICK u : u = [v EXCEPT !.rd = r]
    OBVIOUS
  <2>3. u = [blk |-> v.blk, rd |-> r, wr |-> v.wr, mark |-> v.mark]
    BY <1>2, <2>2
  <2> HIDE DEF v
  <2>4. IsView(u) /\ u.blk = v.blk
    BY <1>2, <2>3 DEF IsView
  <2> QED
    BY <1>3, <2>1, <2>2, <2>4
<1>9. CASE Buf!SetMark(h, i)
  <2>1. PICK r, s : Buf!SetView(h, i, [v EXCEPT !.mark = r], s)
    BY <1>9 DEF Buf!SetMark
  <2>2. PICK u : u = [v EXCEPT !.mark = r]
    OBVIOUS
  <2>3. u = [blk |-> v.blk, rd |-> v.rd, wr |-> v.wr, mark |-> r]
    BY <1>2, <2>2
  <2> HIDE DEF v
  <2>4. IsView(u) /\ u.blk = v.blk
    BY <1>2, <2>3 DEF IsView
  <2> QED
    BY <1>3, <2>1, <2>2, <2>4
<1>10. CASE Buf!Rewind(h, i)
  <2>1. PICK r, s : Buf!SetView(h, i, [v EXCEPT !.rd = r], s)
    BY <1>10 DEF Buf!Rewind
  <2>2. PICK u : u = [v EXCEPT !.rd = r]
    OBVIOUS
  <2>3. u = [blk |-> v.blk, rd |-> r, wr |-> v.wr, mark |-> v.mark]
    BY <1>2, <2>2
  <2> HIDE DEF v
  <2>4. IsView(u) /\ u.blk = v.blk
    BY <1>2, <2>3 DEF IsView
  <2> QED
    BY <1>3, <2>1, <2>2, <2>4
<1>11. CASE Buf!FillWith(h, i)
  <2>1. PICK y : /\ mem' = [mem EXCEPT ![v.blk] = [mem[v.blk] EXCEPT !.bytes = y]]
                 /\ chain' = chain /\ iter' = iter
    BY <1>11 DEF Buf!FillWith, Buf!MemFillWith
  <2> HIDE DEF v
  <2> QED
    BY <1>1, <1>4, <1>5, <2>1
<1>12. CASE Buf!Resize(h, i)
  <2>1. PICK y : /\ mem' = [mem EXCEPT ![v.blk] = [mem[v.blk] EXCEPT !.bytes = y]]
                 /\ chain' = chain /\ iter' = iter
    BY <1>12 DEF Buf!Resize, Buf!MemResize
  <2> HIDE DEF v
  <2> QED
    BY <1>1, <1>4, <1>5, <2>1
<1> QED
  BY <1>6, <1>7, <1>8, <1>9, <1>10, <1>11, <1>12 DEF Buf!OnView

\* A duplicate has a view on each block of the original.
LEMMA DuplicateIs ==
  ASSUME NEW c, NEW n, IsViews(c, n), Len(c) = n
  PROVE  SameViews(c, Buf!Duplicate(c), n)
<1>1. n \in Nat /\ \A i \in 1..n : IsView(c[i])
  BY DEF IsViews, Spans
<1>2. PICK e : e = Buf!Duplicate(c)
  OBVIOUS
<1>3. e = [i \in 1..n |-> IF i = 1 THEN c[1] ELSE Buf!ViewOf(c[i])]
  BY <1>2 DEF Buf!Duplicate
<1>4. ASSUME NEW i \in 1..n PROVE IsView(e[i]) /\ e[i].blk = c[i].blk
  <2>1. CASE i = 1
    BY <1>1, <1>3, <2>1
  <2>2. CASE i # 1
    <3>1. e[i] = Buf!ViewOf(c[i])
      BY <1>3, <2>2
    <3>2. e[i] = [blk |-> c[i].blk, rd |-> c[i].rd, wr |-> c[i].wr, mark |-> Buf!NoMark]
      BY <3>1 DEF Buf!ViewOf
    <3>3. c[i].blk \in Blk
      BY <1>1 DEF IsView
    <3>4. PICK q, x, y, z : q = c[i].blk /\ x = c[i].rd /\ y = c[i].wr /\ z = Buf!NoMark
      OBVIOUS
    <3>5. e[i] = [blk |-> q, rd |-> x, wr |-> y, mark |-> z]
      BY <3>2, <3>4
    <3> QED
      BY <3>3, <3>4, <3>5 DEF IsView
  <2> QED
    BY <2>1, <2>2
<1>5. e = [i \in 1..n |-> e[i]]
  <2>1. DOMAIN e = 1..n /\ e = [i \in DOMAIN e |-> e[i]]
    BY <1>3
  <2> QED
    BY <2>1
<1>6. IsViews(e, n)
  BY <1>1, <1>4, <1>5 DEF IsViews, Spans
<1> QED
  BY <1>2, <1>4, <1>6 DEF SameViews

\* It shares the blocks of the chain of handle h.
LEMMA DuplicateShares ==
  ASSUME NEW m, NEW C, NEW s, BufIs(m, C, s), NEW h \in Handle, NEW c, c = C[h], NEW n, IsViews(c, n)
  PROVE  Shares(Buf!Duplicate(c), m)
<1>1. Len(c) = n
  BY LenIs DEF IsViews
<1>2. PICK e : e = Buf!Duplicate(c)
  OBVIOUS
<1>3. SameViews(c, e, n)
  BY <1>1, <1>2, DuplicateIs
<1>4. ASSUME NEW b \in Blk, Buf!On(e, b) > 0 PROVE m[b].ref > 0
  <2>1. Buf!On(e, b) = Buf!On(c, b)
    BY <1>3, SameBlks
  <2>2. RefCovers(m, C, s, h, b)
    BY RefsCover
  <2> QED
    BY <1>4, <2>1, <2>2 DEF RefCovers
<1>5. IsViews(e, n)
  BY <1>3 DEF SameViews
<1> QED
  BY <1>2, <1>4, <1>5 DEF Shares

\* duplicate(): the views are shared and counted again.
LEMMA DuplicateIntoKeeps ==
  ASSUME BufKept, NEW h \in Handle, NEW g \in Handle, Buf!DuplicateInto(h, g)
  PROVE  BufKept'
<1>1. PICK e : e = Buf!Duplicate(chain[h])
  OBVIOUS
<1>2. /\ chain[g] = <<>> /\ mem' = Buf!Checkout(mem, e) /\ iter' = iter
      /\ chain' = [chain EXCEPT ![g] = e]
  BY <1>1 DEF Buf!DuplicateInto, Buf!Held, Buf!SetChain
<1>3. BufIs(mem, chain, iter.start) /\ \E n : IsViews(chain[h], n)
  BY ChainOf
<1>4. Shares(e, mem)
  BY <1>1, <1>3, DuplicateShares
<1>5. BufIs(mem', chain', iter.start)
  BY <1>2, <1>3, <1>4, ChainCheckedOut
<1> QED
  BY <1>2, <1>5 DEF BufKept

\* The whole chain of a handle is released.
LEMMA HandleReleased ==
  ASSUME NEW m, NEW C, NEW s, BufIs(m, C, s), NEW g \in Handle
  PROVE  BufIs(Buf!ReleaseAll(m, C[g]), [C EXCEPT ![g] = <<>>], s)
<1>1. PICK c : c = C[g]
  OBVIOUS
<1>2. \E n : IsViews(c, n)
  BY <1>1 DEF BufIs, ChainsKept
<1>3. \A b \in Blk : Buf!On(c, b) \in Nat /\ Buf!On(<<>>, b) = 0
  BY <1>2, OnIs, NoViews
<1>4. \A b \in Blk : Buf!On(C[g], b) = Buf!On(<<>>, b) + Buf!On(c, b)
  BY <1>1, <1>3
<1>5. \E n : IsViews(<<>>, n)
  BY NoViews
<1>6. BufIs(Buf!ReleaseAll(m, c), [C EXCEPT ![g] = <<>>], s)
  BY <1>2, <1>4, <1>5, ChainReleased
<1> QED
  BY <1>1, <1>6

\* release(): the views of the chain are given back.
LEMMA ReleaseKeeps ==
  ASSUME BufKept, NEW h \in Handle, Buf!Release(h)
  PROVE  BufKept'
<1>1. mem' = Buf!ReleaseAll(mem, chain[h]) /\ chain' = [chain EXCEPT ![h] = <<>>] /\ iter' = iter
  BY DEF Buf!Release, Buf!SetChain
<1>2. BufIs(mem', chain', iter.start)
  BY <1>1, HandleReleased DEF BufKept
<1> QED
  BY <1>1, <1>2 DEF BufKept

\* operator=: between the release and the checkout the chain of h is still held.
LEMMA BufAssignKeeps ==
  ASSUME BufKept, NEW h \in Handle, NEW g \in Handle, Buf!Assign(h, g)
  PROVE  BufKept'
<1>1. PICK e, m, C : e = Buf!Duplicate(chain[h]) /\ m = Buf!ReleaseAll(mem, chain[g]) /\ C = [chain EXCEPT ![g] = <<>>]
  OBVIOUS
<1>2. /\ g # h /\ mem' = Buf!Checkout(m, e) /\ iter' = iter
      /\ chain' = [chain EXCEPT ![g] = e]
  BY <1>1 DEF Buf!Assign, Buf!SetChain
<1>3. BufIs(m, C, iter.start)
  BY <1>1, HandleReleased DEF BufKept
<1>4. chain = [x \in Handle |-> chain[x]] /\ \E n : IsViews(chain[h], n)
  BY DEF BufKept, BufIs, ChainsKept
<1>5. C[h] = chain[h] /\ C[g] = <<>> /\ [C EXCEPT ![g] = e] = chain'
  BY <1>1, <1>2, <1>4
<1>6. Shares(e, m)
  BY <1>1, <1>3, <1>4, <1>5, DuplicateShares
<1>7. BufIs(Buf!Checkout(m, e), [C EXCEPT ![g] = e], iter.start)
  BY <1>3, <1>5, <1>6, ChainCheckedOut
<1>8. BufIs(mem', chain', iter.start)
  BY <1>2, <1>5, <1>7
<1> QED
  BY <1>2, <1>8 DEF BufKept

\* An iterator holds a counted chain of its own.
LEMMA NewIterKeeps ==
  ASSUME BufKept, NEW h \in Handle, Buf!NewIter(h)
  PROVE  BufKept'
<1>1. PICK e : e = Buf!Duplicate(chain[h])
  OBVIOUS
<1>2. /\ iter = [start |-> <<>>, cur |-> 0, off |-> 0] /\ iter' = [start |-> e, cur |-> 1, off |-> 0]
      /\ chain' = chain
  BY <1>1 DEF Buf!NewIter, Buf!NoIter
<1>3. iter.start = <<>> /\ iter'.start = e
  BY <1>2
<1>4. mem' = Buf!Checkout(mem, e)
  BY <1>3 DEF Buf!NewIter
<1>5. BufIs(mem, chain, <<>>) /\ \E n : IsViews(chain[h], n)
  BY <1>3, ChainOf
<1>6. Shares(e, mem)
  BY <1>1, <1>5, DuplicateShares
<1>7. BufIs(Buf!Checkout(mem, e), chain, e)
  BY <1>5, <1>6, IterCheckedOut
<1>8. iter' = [start |-> iter'.start, cur |-> iter'.cur, off |-> iter'.off]
  BY <1>2
<1> QED
  BY <1>2, <1>3, <1>4, <1>7, <1>8 DEF BufKept

\* The calls on the iterator.
LEMMA OnIterKeeps ==
  ASSUME BufKept, Buf!OnIter
  PROVE  BufKept'
<1>1. ASSUME iter' = [start |-> iter.start, cur |-> iter'.cur, off |-> iter'.off], mem' = mem, chain' = chain
      PROVE  BufKept'
  <2>1. iter'.start = iter.start
    BY <1>1
  <2> QED
    BY <1>1, <2>1 DEF BufKept
<1>2. iter = [start |-> iter.start, cur |-> iter.cur, off |-> iter.off]
  BY DEF BufKept
<1>3. ASSUME NEW r, Buf!Advance(r) PROVE BufKept'
  <2>1. PICK c, o : c = r.cur /\ o = r.off
    OBVIOUS
  <2>2. iter' = [iter EXCEPT !.cur = c, !.off = o] /\ mem' = mem /\ chain' = chain
    BY <1>3, <2>1 DEF Buf!Advance
  <2>3. iter' = [start |-> iter.start, cur |-> c, off |-> o]
    BY <1>2, <2>2
  <2>4. iter'.cur = c /\ iter'.off = o
    BY <2>3
  <2>5. iter' = [start |-> iter.start, cur |-> iter'.cur, off |-> iter'.off]
    BY <2>3, <2>4
  <2> QED
    BY <1>1, <2>2, <2>5
<1>4. ASSUME NEW max, Buf!GetNextChunk(max) \/ Buf!CopyNextChunks(max) PROVE BufKept'
  <2>1. PICK r : Buf!Advance(r)
    BY <1>4 DEF Buf!GetNextChunk, Buf!CopyNextChunks
  <2> QED
    BY <1>3, <2>1
<1>5. ASSUME Buf!IterRewind PROVE BufKept'
  <2>1. iter' = [iter EXCEPT !.cur = 1, !.off = 0] /\ mem' = mem /\ chain' = chain
    BY <1>5 DEF Buf!IterRewind
  <2>2. iter' = [start |-> iter.start, cur |-> 1, off |-> 0]
    BY <1>2, <2>1
  <2>3. iter'.cur = 1 /\ iter'.off = 0
    BY <2>2
  <2>4. iter' = [start |-> iter.start, cur |-> iter'.cur, off |-> iter'.off]
    BY <2>2, <2>3
  <2> QED
    BY <1>1, <2>1, <2>4
<1>6. ASSUME Buf!DeleteIter PROVE BufKept'
  <2>1. mem' = Buf!ReleaseAll(mem, iter.start) /\ chain' = chain
    BY <1>6 DEF Buf!DeleteIter
  <2>2. iter' = [start |-> <<>>, cur |-> 0, off |-> 0]
    BY <1>6 DEF Buf!DeleteIter, Buf!NoIter
  <2>3. iter'.start = <<>> /\ iter' = [start |-> iter'.start, cur |-> iter'.cur, off |-> iter'.off]
    BY <2>2
  <2>4. BufIs(mem', chain', <<>>)
    BY <2>1, IterReleased DEF BufKept
  <2> QED
    BY <2>3, <2>4 DEF BufKept
<1> QED
  BY <1>4, <1>5, <1>6 DEF Buf!OnIter

\* A chain with a view v after its last one.
LEMMA ViewAppended ==
  ASSUME NEW c, NEW n, IsViews(c, n), NEW v, IsView(v)
  PROVE  /\ \E k : IsViews(Append(c, v), k)
         /\ \A b : Buf!On(Append(c, v), b) = Buf!On(c, b) + (IF b = v.blk THEN 1 ELSE 0)
<1>1. n \in Nat /\ Spans(c, n) /\ \A i \in 1..n : IsView(c[i])
  BY DEF IsViews, Spans
<1>2. PICK e : e = [i \in 1..(n + 1) |-> IF i = n + 1 THEN v ELSE c[i]]
  OBVIOUS
<1>3. /\ DOMAIN e = 1..(n + 1) /\ e = [i \in 1..(n + 1) |-> e[i]]
      /\ e[n + 1] = v /\ \A i \in 1..n : e[i] = c[i]
  BY <1>1, <1>2
<1>4. Append(c, v) = e
  <2>1. Spans(e, n + 1)
    BY <1>1, <1>3 DEF Spans
  <2> QED
    BY <1>1, <1>3, <2>1, AppendIs
<1>5. ASSUME NEW i \in 1..(n + 1) PROVE IsView(e[i])
  <2>1. i = n + 1 \/ i \in 1..n
    BY <1>1
  <2> QED
    BY <1>1, <1>3, <2>1
<1>6. PICK k \in Nat : k = n + 1
  BY <1>1
<1>7. IsViews(e, k)
  BY <1>3, <1>5, <1>6 DEF IsViews, Spans
<1>8. PICK w : w = <<v>>
  OBVIOUS
<1>9. IsViews(w, 1) /\ w[1] = v /\ \A b : Buf!On(w, b) = IF v.blk = b THEN 1 ELSE 0
  BY <1>8, OneView
<1>10. IsCut(e, k, c, w, n, 1)
  <2>1. k \in Nat /\ n \in Nat /\ 1 \in Nat /\ n + 1 <= k /\ k - 1 = n
    BY <1>1, <1>6
  <2>2. \A i \in 1..n : c[i].blk = e[i].blk
    BY <1>3
  <2>3. \A i \in 1..(k - 1) : ~(i > n)
    BY <2>1
  <2>4. \A i \in 1..1 : w[i].blk = e[i + n].blk
    <3>1. \A i \in 1..1 : i = 1 /\ i + n = n + 1
      BY <1>1
    <3> QED
      BY <1>3, <1>9, <3>1
  <2>5. IsViews(c, k - 1)
    BY <2>1
  <2> QED
    BY <1>7, <1>9, <2>1, <2>2, <2>3, <2>4, <2>5 DEF IsCut
<1>11. ASSUME NEW b PROVE Buf!On(e, b) = Buf!On(c, b) + (IF b = v.blk THEN 1 ELSE 0)
  <2>1. Buf!On(e, b) = Buf!On(c, b) + Buf!On(w, b)
    BY <1>10, OnCut
  <2> QED
    BY <1>9, <2>1
<1> QED
  BY <1>4, <1>7, <1>11

\* addToEnd(): a fresh block with one view.
LEMMA AddToEndKeeps ==
  ASSUME BufKept, NEW h \in Handle, Buf!AddToEnd(h)
  PROVE  BufKept'
<1>1. PICK a, n : /\ a = Head(Buf!Spare(mem)) /\ Buf!Spare(mem) # <<>>
                  /\ mem' = [mem EXCEPT ![a] = Buf!NewMem(n)]
                  /\ chain' = [chain EXCEPT ![h] = Append(chain[h], Buf!View(a))] /\ iter' = iter
  BY DEF Buf!AddToEnd, Buf!SetChain
<1>2. a \in Blk /\ ~mem[a].live
  BY <1>1, SpareIs
<1>3. PICK v : v = Buf!View(a)
  OBVIOUS
<1>4. IsView(v) /\ v.blk = a
  <2>1. v = [blk |-> a, rd |-> 0, wr |-> 0, mark |-> 0]
    BY <1>3 DEF Buf!View
  <2> QED
    BY <1>2, <2>1 DEF IsView
<1>5. PICK c2 : c2 = Append(chain[h], v)
  OBVIOUS
<1>6. (\E k : IsViews(c2, k)) /\ \A b \in Blk : Buf!On(c2, b) = Buf!On(chain[h], b) + (IF b = a THEN 1 ELSE 0)
  <2>1. PICK c, k : c = chain[h] /\ IsViews(c, k)
    BY ChainOf
  <2> QED
    BY <1>4, <1>5, <2>1, ViewAppended
<1>7. PICK y : mem' = [mem EXCEPT ![a] = [bytes |-> y, ref |-> 1, live |-> TRUE]]
  BY <1>1 DEF Buf!NewMem
<1>8. PICK m2 : m2 = mem'
  OBVIOUS
<1>9. BufIs(m2, [chain EXCEPT ![h] = c2], iter.start)
  <2>1. BufIs(mem, chain, iter.start)
    BY DEF BufKept
  <2> QED
    BY <1>2, <1>6, <1>7, <1>8, <2>1, BlockAdded
<1>10. BufIs(mem', chain', iter.start)
  BY <1>1, <1>3, <1>5, <1>8, <1>9
<1> QED
  BY <1>1, <1>10 DEF BufKept

\* The view that Locate() finds is one of the chain.
LEMMA LocateIs ==
  ASSUME NEW c, NEW n, IsViews(c, n), NEW x, Buf!Locate(c, x) # 0
  PROVE  Buf!Locate(c, x) \in 1..n
<1> DEFINE past == {k \in DOMAIN c : Buf!Before(c, k) + Buf!length(c[k]) > x}
<1>1. DOMAIN c = 1..n /\ n \in Nat
  BY DEF IsViews, Spans
<1>2. past \subseteq 1..n
  BY <1>1
<1>3. past \in SUBSET Nat
  BY <1>1, <1>2
<1>4. Buf!Locate(c, x) = IF past = {} THEN 0 ELSE CHOOSE k \in past : \A j \in past : k <= j
  BY DEF Buf!Locate
<1> HIDE DEF past
<1>5. past # {}
  BY <1>4
<1>6. \E k \in past : \A j \in past : k <= j
  BY <1>3, <1>5, LeastExists
<1>7. Buf!Locate(c, x) \in past
  BY <1>4, <1>5, <1>6
<1> QED
  BY <1>2, <1>7

\* The three outcomes of getContigBlock(): nothing, a view on the same block, or a
\* view on a new one.
ContigShares(r, m, v) ==
    \E u : IsView(u) /\ u.blk = v.blk /\ r.mem = Buf!Checkout(m, <<v>>) /\ r.out = <<u>>
ContigCopies(r, m, a) ==
    \E u, y : /\ IsView(u) /\ u.blk = a
              /\ r.mem = [m EXCEPT ![a] = [bytes |-> y, ref |-> 1, live |-> TRUE]] /\ r.out = <<u>>
LEMMA ContigIs ==
  ASSUME NEW c, NEW n, IsViews(c, n), NEW m, NEW x, NEW len, NEW a \in Blk,
         NEW r, r = Buf!getContigBlock(m, c, x, len, a)
  PROVE  \/ r.mem = m /\ r.out = <<>>
         \/ \E k \in 1..n : ContigShares(r, m, c[k])
         \/ ContigCopies(r, m, a)
<1>1. PICK k, need : k = Buf!Locate(c, x) /\ need = x - Buf!Before(c, k)
  OBVIOUS
<1>2. PICK tail1 : tail1 = Buf!Take(Buf!Bytes(m, SubSeq(c, k, Len(c))), need, len)
  OBVIOUS
<1>3. PICK y : y = [i \in 1..len |-> IF i <= Len(tail1) THEN tail1[i] ELSE Buf!Junk]
  OBVIOUS
<1>4. PICK v, u, w, o : /\ v = c[k]
                     /\ u = [blk |-> v.blk, rd |-> v.rd + need, wr |-> v.rd + need + len, mark |-> v.rd + need]
                     /\ w = [Buf!View(a) EXCEPT !.wr = Len(tail1)]
                     /\ o = Buf!AllCopied(tail1, len)
  OBVIOUS
<1>5. r = IF k = 0 THEN [ok |-> FALSE, mem |-> m, out |-> <<>>]
          ELSE IF Buf!length(v) - need - len >= 0
          THEN [ok |-> TRUE, mem |-> Buf!Checkout(m, <<v>>), out |-> <<u>>]
          ELSE IF k = Len(c) THEN [ok |-> FALSE, mem |-> m, out |-> <<>>]
          ELSE [ok |-> o, mem |-> [m EXCEPT ![a] = [bytes |-> y, ref |-> 1, live |-> TRUE]],
                out |-> <<w>>]
  BY <1>1, <1>2, <1>3, <1>4, Zenon DEF Buf!getContigBlock
<1>6. k # 0 => k \in 1..n /\ IsView(v)
  BY <1>1, <1>4, LocateIs DEF IsViews
<1>7. k # 0 => IsView(u) /\ u.blk = v.blk
  <2>1. PICK p, q, s, t : p = v.blk /\ q = v.rd + need /\ s = v.rd + need + len /\ u = [blk |-> p, rd |-> q, wr |-> s, mark |-> q]
    BY <1>4
  <2> QED
    BY <1>6, <2>1 DEF IsView
<1>8. IsView(w) /\ w.blk = a
  <2>1. PICK l : l = Len(tail1)
    OBVIOUS
  <2>2. w = [blk |-> a, rd |-> 0, wr |-> l, mark |-> 0]
    BY <1>4, <2>1 DEF Buf!View
  <2> QED
    BY <2>2 DEF IsView
<1>9. PICK m2, m3 : m2 = Buf!Checkout(m, <<v>>) /\ m3 = [m EXCEPT ![a] = [bytes |-> y, ref |-> 1, live |-> TRUE]]
  OBVIOUS
<1>10. \/ r = [ok |-> FALSE, mem |-> m, out |-> <<>>]
       \/ k # 0 /\ r = [ok |-> TRUE, mem |-> m2, out |-> <<u>>]
       \/ r = [ok |-> o, mem |-> m3, out |-> <<w>>]
  BY <1>5, <1>9, Zenon
<1>11. CASE r = [ok |-> FALSE, mem |-> m, out |-> <<>>]
  BY <1>11
<1>12. CASE k # 0 /\ r = [ok |-> TRUE, mem |-> m2, out |-> <<u>>]
  <2>1. r.mem = m2 /\ r.out = <<u>>
    BY <1>12
  <2>2. ContigShares(r, m, v)
    BY <1>7, <1>9, <1>12, <2>1 DEF ContigShares
  <2> QED
    BY <1>4, <1>6, <1>12, <2>2
<1>13. CASE r = [ok |-> o, mem |-> m3, out |-> <<w>>]
  <2>1. r.mem = m3 /\ r.out = <<w>>
    BY <1>13
  <2>2. ContigCopies(r, m, a)
    BY <1>8, <1>9, <2>1, Zenon DEF ContigCopies
  <2> QED
    BY <2>2
<1> QED
  BY <1>10, <1>11, <1>12, <1>13

\* Views on one block are counted alike.
LEMMA CheckoutSame ==
  ASSUME NEW m, NEW v, NEW u, IsView(v), IsView(u), u.blk = v.blk
  PROVE  Buf!Checkout(m, <<v>>) = Buf!Checkout(m, <<u>>)
<1>1. \A b : Buf!On(<<v>>, b) = Buf!On(<<u>>, b)
  <2>1. \A b : Buf!On(<<v>>, b) = IF v.blk = b THEN 1 ELSE 0
    BY OneView
  <2>2. \A b : Buf!On(<<u>>, b) = IF u.blk = b THEN 1 ELSE 0
    BY OneView
  <2> QED
    BY <2>1, <2>2
<1> QED
  BY <1>1 DEF Buf!Checkout

\* getContigBlock(): a counted view of a block, or a fresh copy.
LEMMA GetContigBlockKeeps ==
  ASSUME BufKept, NEW h \in Handle, NEW g \in Handle, Buf!GetContigBlock(h, g)
  PROVE  BufKept'
<1>1. PICK a : a = Head(Buf!Spare(mem))
  OBVIOUS
<1>2. PICK from, n, r : /\ r = Buf!getContigBlock(mem, chain[h], from, n, a)
                        /\ chain[g] = <<>> /\ Buf!Spare(mem) # <<>>
                        /\ mem' = r.mem /\ chain' = [chain EXCEPT ![g] = r.out] /\ iter' = iter
  BY <1>1 DEF Buf!GetContigBlock, Buf!Held, Buf!SetChain
<1>3. a \in Blk /\ ~mem[a].live
  BY <1>1, <1>2, SpareIs
<1>4. BufIs(mem, chain, iter.start)
  BY DEF BufKept
<1>5. PICK c, l : c = chain[h] /\ IsViews(c, l)
  BY ChainOf
<1>6. \/ r.mem = mem /\ r.out = <<>>
      \/ \E k \in 1..l : ContigShares(r, mem, c[k])
      \/ ContigCopies(r, mem, a)
  <2>1. PICK m : m = mem
    OBVIOUS
  <2>2. r = Buf!getContigBlock(m, c, from, n, a)
    BY <1>2, <1>5, <2>1
  <2> QED
    BY ONLY <1>3, <1>5, <2>1, <2>2, ContigIs
<1>7. SUFFICES BufIs(mem', chain', iter.start)
  BY <1>2 DEF BufKept
<1>8. CASE r.mem = mem /\ r.out = <<>>
  <2>1. chain = [x \in Handle |-> chain[x]]
    BY <1>4 DEF BufIs, ChainsKept
  <2>2. chain' = chain
    BY <1>2, <1>8, <2>1
  <2> QED
    BY <1>2, <1>4, <1>8, <2>2
<1>9. CASE \E k \in 1..l : ContigShares(r, mem, c[k])
  <2>0. PICK k \in 1..l : ContigShares(r, mem, c[k])
    BY <1>9
  <2>1. PICK v, u : /\ v = c[k] /\ IsView(u) /\ u.blk = v.blk
                               /\ r.mem = Buf!Checkout(mem, <<v>>) /\ r.out = <<u>>
    BY <2>0 DEF ContigShares
  <2>2. IsView(v)
    BY <1>5, <2>1 DEF IsViews
  <2>3. mem' = Buf!Checkout(mem, <<u>>)
    BY <1>2, <2>1, <2>2, CheckoutSame
  <2>4. Shares(<<u>>, mem)
    <3>1. ASSUME NEW b \in Blk, Buf!On(<<u>>, b) > 0 PROVE mem[b].ref > 0
      <4>1. u.blk = b
        BY <2>1, <3>1, OneView
      <4>2. Buf!On(c, b) > 0
        BY <1>5, <2>1, <4>1, OnIs
      <4>3. RefCovers(mem, chain, iter.start, h, b)
        BY <1>4, RefsCover
      <4> QED
        BY <1>5, <4>2, <4>3 DEF RefCovers
    <3>2. IsViews(<<u>>, 1)
      BY <2>1, OneView
    <3> QED
      BY <3>1, <3>2 DEF Shares
  <2>5. PICK e : e = <<u>>
    OBVIOUS
  <2>6. BufIs(Buf!Checkout(mem, e), [chain EXCEPT ![g] = e], iter.start)
    BY <1>2, <1>4, <2>4, <2>5, ChainCheckedOut
  <2> QED
    BY <1>2, <2>1, <2>3, <2>5, <2>6
<1>10. CASE ContigCopies(r, mem, a)
  <2>1. PICK u, y : /\ IsView(u) /\ u.blk = a /\ r.out = <<u>>
                    /\ r.mem = [mem EXCEPT ![a] = [bytes |-> y, ref |-> 1, live |-> TRUE]]
    BY <1>10 DEF ContigCopies
  <2>2. PICK e, m2 : e = <<u>> /\ m2 = mem'
    OBVIOUS
  <2>3. (\E k : IsViews(e, k)) /\ \A b \in Blk : Buf!On(e, b) = Buf!On(chain[g], b) + (IF b = a THEN 1 ELSE 0)
    <3>1. IsViews(e, 1) /\ \A b : Buf!On(e, b) = IF u.blk = b THEN 1 ELSE 0
      BY <2>1, <2>2, OneView
    <3>2. \A b : Buf!On(chain[g], b) = 0
      BY <1>2, NoViews
    <3> QED
      BY <2>1, <3>1, <3>2
  <2>4. m2 = [mem EXCEPT ![a] = [bytes |-> y, ref |-> 1, live |-> TRUE]]
    BY <1>2, <2>1, <2>2
  <2>5. BufIs(m2, [chain EXCEPT ![g] = e], iter.start)
    BY <1>3, <1>4, <2>3, <2>4, BlockAdded
  <2> QED
    BY <1>2, <2>1, <2>2, <2>5
<1> QED
  BY <1>6, <1>8, <1>9, <1>10

\* The first view of a chain, and the others.
LEMMA ChainParts ==
  ASSUME NEW c, NEW n, IsViews(c, n), n > 1
  PROVE  /\ IsViews(SubSeq(c, 1, 1), 1) /\ IsViews(Tail(c), n - 1)
         /\ \A b : Buf!On(c, b) = Buf!On(SubSeq(c, 1, 1), b) + Buf!On(Tail(c), b)
<1>1. n \in Nat /\ Spans(c, n) /\ \A i \in 1..n : IsView(c[i])
  BY DEF IsViews, Spans
<1>2. PICK x, y : x = [i \in 1..1 |-> c[i]] /\ y = [i \in 1..(n - 1) |-> c[i + 1]]
  OBVIOUS
<1>3. /\ x = [i \in 1..1 |-> x[i]] /\ (\A i \in 1..1 : x[i] = c[i] /\ i \in 1..n)
      /\ y = [i \in 1..(n - 1) |-> y[i]] /\ (\A i \in 1..(n - 1) : y[i] = c[i + 1] /\ i + 1 \in 1..n)
  BY <1>1, <1>2
<1>4. IsViews(x, 1) /\ IsViews(y, n - 1)
  <2>1. n - 1 \in Nat
    BY <1>1
  <2>2. (\A i \in 1..1 : IsView(x[i])) /\ \A i \in 1..(n - 1) : IsView(y[i])
    BY <1>1, <1>3
  <2> QED
    BY <1>3, <2>1, <2>2 DEF IsViews, Spans
<1>5. SubSeq(c, 1, 1) = x
  BY <1>2
<1>6. Tail(c) = y
  <2>1. Spans(c, n) /\ n > 0 /\ Spans(y, n - 1)
    BY <1>1, <1>4 DEF IsViews
  <2>2. \A i \in 1..(n - 1) : y[i] = c[i + 1]
    BY <1>3
  <2> QED
    BY ONLY <2>1, <2>2, TailIs
<1>7. PICK r \in Nat : r = n - 1
  BY <1>1
<1>8. IsCut(c, n, x, y, 1, r)
  <2>1. 1 + r <= n /\ n - r = 1
    BY <1>1, <1>7
  <2>2. \A i \in 1..1 : x[i].blk = c[i].blk /\ ~(i > 1)
    BY <1>3
  <2>3. \A i \in 1..r : y[i].blk = c[i + 1].blk
    BY <1>3, <1>7
  <2>4. IsViews(x, n - r) /\ IsViews(y, r)
    BY <1>4, <1>7, <2>1
  <2>5. \A i \in 1..(n - r) : i > 1 => x[i].blk = c[i + r].blk
    BY <2>1, <2>2
  <2> QED
    BY <1>1, <1>7, <2>1, <2>2, <2>3, <2>4, <2>5 DEF IsCut
<1>9. \A b : Buf!On(c, b) = Buf!On(x, b) + Buf!On(y, b)
  BY <1>8, OnCut
<1> QED
  BY <1>4, <1>5, <1>6, <1>9

\* A chain is parted: its views change hands and the counts stay.
LEMMA PartKeeps ==
  ASSUME BufKept, NEW h \in Handle, NEW g \in Handle, Buf!Part(h, g)
  PROVE  BufKept'
<1>1. PICK c, x, y : c = chain[h] /\ x = SubSeq(c, 1, 1) /\ y = Tail(c)
  OBVIOUS
<1>2. /\ chain[g] = <<>> /\ Len(c) > 1 /\ mem' = mem /\ iter' = iter
      /\ chain' = [[chain EXCEPT ![h] = x] EXCEPT ![g] = y]
  BY <1>1 DEF Buf!Part, Buf!Held
<1>3. PICK n : n \in Nat /\ IsViews(c, n) /\ Len(c) = n
  BY <1>1, ChainOf
<1>4. /\ IsViews(x, 1) /\ IsViews(y, n - 1)
      /\ \A b : Buf!On(c, b) = Buf!On(x, b) + Buf!On(y, b)
  BY <1>1, <1>2, <1>3, ChainParts
<1>5. MemKept(mem) /\ ChainsKept(chain) /\ (\E k : IsViews(iter.start, k)) /\ Agree(mem, chain, iter.start)
  BY DEF BufKept, BufIs
<1>6. h # g
  BY <1>1, <1>2
<1>7. PICK s, C, D : s = iter.start /\ C = [chain EXCEPT ![h] = x] /\ D = [C EXCEPT ![g] = y]
  OBVIOUS
<1>8. ChainsKept(C) /\ \A b : ViewsDiffer(chain, s, h, x, C, b)
  BY <1>4, <1>5, <1>7, ViewsChange
<1>9. ChainsKept(D) /\ \A b : ViewsDiffer(C, s, g, y, D, b)
  BY <1>4, <1>5, <1>7, <1>8, ViewsChange
<1>10. C[g] = <<>>
  BY <1>2, <1>5, <1>6, <1>7 DEF ChainsKept
<1>11. ASSUME NEW b PROVE Views(D, s, b) = Views(chain, s, b)
  <2>1. Views(C, s, b) = Views(chain, s, b) - Buf!On(c, b) + Buf!On(x, b) /\ Views(chain, s, b) \in Nat
    BY <1>1, <1>8 DEF ViewsDiffer
  <2>2. Views(D, s, b) = Views(C, s, b) - 0 + Buf!On(y, b) /\ Buf!On(y, b) \in Nat
    BY <1>9, <1>10, NoViews DEF ViewsDiffer
  <2>3. Buf!On(x, b) \in Nat
    BY <1>4, OnIs
  <2> QED
    BY <1>4, <2>1, <2>2, <2>3
<1>12. BufIs(mem, D, s)
  BY <1>5, <1>7, <1>9, <1>11 DEF BufIs, Agree
<1>13. BufIs(mem', chain', iter.start)
  BY <1>2, <1>7, <1>12
<1> QED
  BY <1>2, <1>13 DEF BufKept

\* deepCopy(): the copy has one view on each of its blocks.
IsCopy(c, n, f, e) ==
    /\ IsViews(c, n) /\ (\A i \in 1..n : f[i] \in Blk)
    /\ \A i, j \in 1..n : f[i] = f[j] => i = j
    /\ e = [i \in 1..n |-> [c[i] EXCEPT !.blk = f[i]]]
LEMMA CopyViews ==
  ASSUME NEW c, NEW n, NEW f, NEW e, IsCopy(c, n, f, e)
  PROVE  /\ IsViews(e, n)
         /\ \A i \in 1..n : Buf!On(e, f[i]) = 1
         /\ \A b : (\A i \in 1..n : f[i] # b) => Buf!On(e, b) = 0
<1> /\ IsViews(c, n) /\ (\A i \in 1..n : f[i] \in Blk)
    /\ \A i, j \in 1..n : f[i] = f[j] => i = j
    /\ e = [i \in 1..n |-> [c[i] EXCEPT !.blk = f[i]]]
  BY DEF IsCopy
<1>1. n \in Nat /\ \A i \in 1..n : IsView(c[i])
  BY DEF IsViews, Spans
<1>2. DOMAIN e = 1..n /\ e = [i \in 1..n |-> e[i]]
  <2>1. DOMAIN e = 1..n /\ e = [i \in DOMAIN e |-> e[i]]
    OBVIOUS
  <2> QED
    BY <2>1
<1>3. ASSUME NEW i \in 1..n PROVE IsView(e[i]) /\ e[i].blk = f[i]
  <2>1. PICK v : v = c[i]
    OBVIOUS
  <2>2. v = [blk |-> v.blk, rd |-> v.rd, wr |-> v.wr, mark |-> v.mark]
    BY <1>1, <2>1 DEF IsView
  <2>3. PICK q \in Blk : q = f[i]
    OBVIOUS
  <2>4. e[i] = [v EXCEPT !.blk = q]
    BY <2>1, <2>3
  <2>5. e[i] = [blk |-> q, rd |-> v.rd, wr |-> v.wr, mark |-> v.mark]
    BY <2>2, <2>4
  <2>6. PICK x, y, z : e[i] = [blk |-> q, rd |-> x, wr |-> y, mark |-> z]
    BY <2>5
  <2> QED
    BY <2>3, <2>6 DEF IsView
<1>4. IsViews(e, n)
  BY <1>1, <1>2, <1>3 DEF IsViews, Spans
<1>5. ASSUME NEW i \in 1..n PROVE Buf!On(e, f[i]) = 1
  <2>0. PICK b : b = f[i]
    OBVIOUS
  <2>1. Viewed(e, b) = {i}
    BY <1>2, <1>3, <2>0 DEF Viewed
  <2>2. Buf!On(e, b) = Cardinality(Viewed(e, b))
    BY ONLY <1>4, OnIs
  <2>3. Cardinality({i}) = 1
    BY FS_Singleton
  <2> QED
    BY <2>0, <2>1, <2>2, <2>3
<1>6. ASSUME NEW b, \A i \in 1..n : f[i] # b PROVE Buf!On(e, b) = 0
  <2>1. Buf!On(e, b) \in Nat /\ (Buf!On(e, b) > 0 <=> \E i \in 1..n : e[i].blk = b)
    BY ONLY <1>4, OnIs
  <2>2. ~\E i \in 1..n : e[i].blk = b
    BY <1>3, <1>6
  <2> QED
    BY <2>1, <2>2
<1> QED
  BY <1>4, <1>5, <1>6

\* deepCopy(): fresh blocks with one view each.
LEMMA DeepCopyKeeps ==
  ASSUME BufKept, NEW h \in Handle, NEW g \in Handle, Buf!DeepCopy(h, g)
  PROVE  BufKept'
<1>1. PICK c, n : c = chain[h] /\ n \in Nat /\ IsViews(c, n) /\ Len(c) = n
  BY ChainOf
<1>2. PICK f : f = SubSeq(Buf!Spare(mem), 1, Len(chain[h]))
  OBVIOUS
<1>3. PICK e : e = Buf!CopiedChain(chain[h], f)
  OBVIOUS
<1>4. PICK m2 : m2 = Buf!CopiedMem(mem, chain[h], f)
  OBVIOUS
<1>5. /\ chain[g] = <<>> /\ n <= Len(Buf!Spare(mem)) /\ mem' = m2
      /\ chain' = [chain EXCEPT ![g] = e] /\ iter' = iter
  <2>1. chain[g] = <<>> /\ Len(chain[h]) <= Len(Buf!Spare(mem)) /\ iter' = iter
    BY DEF Buf!DeepCopy, Buf!Held
  <2>2. mem' = m2
    BY <1>2, <1>4, Zenon DEF Buf!DeepCopy
  <2>3. chain' = [chain EXCEPT ![g] = e]
    BY <1>2, <1>3, Zenon DEF Buf!DeepCopy, Buf!SetChain
  <2> QED
    BY <1>1, <2>1, <2>2, <2>3
<1>6. /\ DOMAIN f = 1..n /\ (\A i \in 1..n : f[i] \in Blk /\ ~mem[f[i]].live)
      /\ \A i, j \in 1..n : f[i] = f[j] => i = j
  <2>1. PICK k, p : /\ k \in Nat /\ p = Buf!Spare(mem) /\ p \in [1..k -> {b \in Blk : ~mem[b].live}] /\ Len(p) = k
                            /\ \A i, j \in 1..k : p[i] = p[j] => i = j
    BY SpareIs
  <2>2. n <= k /\ f = SubSeq(p, 1, n)
    BY <1>1, <1>2, <1>5, <2>1
  <2>3. p \in Seq({b \in Blk : ~mem[b].live}) /\ Len(p) = k
    BY <2>1
  <2>4. DOMAIN f = 1..n /\ \A i \in 1..n : i \in 1..k /\ f[i] = p[i]
    BY <1>1, <2>1, <2>2, <2>3
  <2> QED
    BY <2>1, <2>4
<1>7. /\ IsViews(e, n) /\ (\A i \in 1..n : Buf!On(e, f[i]) = 1)
      /\ \A b : (\A i \in 1..n : f[i] # b) => Buf!On(e, b) = 0
  <2>1. IsCopy(c, n, f, e)
    BY <1>1, <1>3, <1>6 DEF IsCopy, Buf!CopiedChain
  <2> QED
    BY ONLY <2>1, CopyViews
<1>8. BufIs(mem, chain, iter.start) /\ MemKept(mem)
  BY DEF BufKept, BufIs
<1>9. \A b \in Blk : mem[b].ref \in Nat /\ mem[b].live = (mem[b].ref > 0)
  <2>1. \A b \in Blk : RefCovers(mem, chain, iter.start, h, b)
    BY <1>8, RefsCover
  <2> QED
    BY <2>1 DEF RefCovers
<1>10. \A i \in 1..n : c[i].blk \in Blk /\ mem[c[i].blk].ref > 0
  <2>1. ASSUME NEW i \in 1..n PROVE c[i].blk \in Blk /\ mem[c[i].blk].ref > 0
    <3>1. PICK a \in Blk : a = c[i].blk
      BY <1>1 DEF IsViews, IsView
    <3>2. Buf!On(c, a) > 0
      BY <1>1, <3>1, OnIs
    <3>3. RefCovers(mem, chain, iter.start, h, a)
      BY <1>8, RefsCover
    <3>4. mem[a].ref > 0
      BY <1>1, <3>2, <3>3 DEF RefCovers
    <3> QED
      BY <3>1, <3>4
  <2> QED
    BY <2>1
<1>11. m2 = [b \in Blk |-> m2[b]]
  <2>1. DOMAIN m2 = Blk /\ m2 = [b \in DOMAIN m2 |-> m2[b]]
    BY <1>4 DEF Buf!CopiedMem
  <2> QED
    BY <2>1
<1>12. ASSUME NEW b \in Blk, NEW i \in 1..n, b = f[i]
       PROVE  /\ m2[b] = [bytes |-> m2[b].bytes, ref |-> m2[b].ref, live |-> m2[b].live]
              /\ m2[b].ref = 1 /\ m2[b].live = TRUE
  <2>1. b \in Buf!Range(f)
    BY <1>6, <1>12 DEF Buf!Range
  <2>2. PICK k \in 1..n : k = CHOOSE j \in DOMAIN f : f[j] = b
    BY <1>6, <1>12
  <2>3. PICK a \in Blk : a = c[k].blk
    BY <1>10
  <2>4. m2[b] = Buf!MemDeepCopy(mem[a])
    BY <1>1, <1>4, <2>1, <2>2, <2>3 DEF Buf!CopiedMem
  <2>5. mem[a] = [bytes |-> mem[a].bytes, ref |-> mem[a].ref, live |-> mem[a].live]
    BY <1>8 DEF MemKept
  <2>6. m2[b] = [mem[a] EXCEPT !.ref = 1]
    BY <2>4 DEF Buf!MemDeepCopy
  <2>7. m2[b] = [bytes |-> mem[a].bytes, ref |-> 1, live |-> mem[a].live]
    BY <2>5, <2>6
  <2>8. mem[a].live = TRUE
    <3>1. (mem[a].ref > 0) = TRUE
      BY <1>10, <2>3
    <3> QED
      BY <1>9, <3>1, Zenon
  <2>9. m2[b].bytes = mem[a].bytes /\ m2[b].ref = 1 /\ m2[b].live = mem[a].live
    BY <2>7
  <2>10. m2[b] = [bytes |-> m2[b].bytes, ref |-> m2[b].ref, live |-> m2[b].live]
    BY <2>7, <2>9
  <2> QED
    BY <2>8, <2>9, <2>10
<1>13. ASSUME NEW b \in Blk, \A i \in 1..n : f[i] # b
       PROVE  m2[b] = mem[b]
  <2>1. b \notin Buf!Range(f)
    BY <1>6, <1>13 DEF Buf!Range
  <2> QED
    BY <1>4, <2>1 DEF Buf!CopiedMem
<1>14. MemKept(m2)
  <2>1. ASSUME NEW b \in Blk
        PROVE  /\ m2[b] = [bytes |-> m2[b].bytes, ref |-> m2[b].ref, live |-> m2[b].live]
               /\ m2[b].ref \in Nat /\ m2[b].live \in BOOLEAN
    <3>1. CASE \E i \in 1..n : f[i] = b
      <4>1. /\ m2[b] = [bytes |-> m2[b].bytes, ref |-> m2[b].ref, live |-> m2[b].live]
            /\ m2[b].ref = 1
        BY <1>12, <3>1
      <4>2. m2[b].live = TRUE
        BY <1>12, <3>1
      <4>3. m2[b].live \in BOOLEAN
        BY <4>2, Zenon
      <4> QED
        BY <4>1, <4>3
    <3>2. CASE \A i \in 1..n : f[i] # b
      <4>1. m2[b] = mem[b]
        BY <1>13, <3>2
      <4> QED
        BY <1>8, <4>1 DEF MemKept
    <3> QED
      BY <3>1, <3>2
  <2> QED
    BY <1>11, <2>1 DEF MemKept
<1>15. Recount(mem, m2, <<>>, e)
  <2>1. ASSUME NEW b \in Blk
        PROVE  /\ m2[b].ref = mem[b].ref - Buf!On(<<>>, b) + Buf!On(e, b)
               /\ m2[b].live = (mem[b].ref - Buf!On(<<>>, b) + Buf!On(e, b) > 0)
    <3>0. Buf!On(<<>>, b) = 0 /\ mem[b].ref \in Nat /\ mem[b].live = (mem[b].ref > 0)
      BY <1>9, NoViews
    <3>1. CASE \E i \in 1..n : f[i] = b
      <4>1. PICK i \in 1..n : b = f[i]
        BY <3>1
      <4>2. Buf!On(e, b) = 1 /\ ~mem[b].live
        BY <1>6, <1>7, <4>1
      <4>3. ~(mem[b].ref > 0)
        BY <3>0, <4>2, Zenon
      <4>4. mem[b].ref - Buf!On(<<>>, b) + Buf!On(e, b) = 1
        BY <3>0, <4>2, <4>3
      <4>5. (mem[b].ref - Buf!On(<<>>, b) + Buf!On(e, b) > 0) = TRUE
        BY <4>4
      <4>6. m2[b].ref = 1 /\ m2[b].live = TRUE
        BY <1>12, <4>1
      <4>7. m2[b].live = (mem[b].ref - Buf!On(<<>>, b) + Buf!On(e, b) > 0)
        BY <4>5, <4>6, Zenon
      <4> QED
        BY <4>4, <4>6, <4>7
    <3>2. CASE \A i \in 1..n : f[i] # b
      <4>1. m2[b] = mem[b] /\ Buf!On(e, b) = 0
        BY <1>7, <1>13, <3>2
      <4>2. mem[b].ref - Buf!On(<<>>, b) + Buf!On(e, b) = mem[b].ref
        BY <3>0, <4>1
      <4> QED
        BY <3>0, <4>1, <4>2
    <3> QED
      BY <3>1, <3>2
  <2> QED
    BY <2>1 DEF Recount
<1>16. BufIs(m2, [chain EXCEPT ![g] = e], iter.start)
  BY <1>5, <1>7, <1>8, <1>14, <1>15, HandleChanges
<1>17. BufIs(mem', chain', iter.start)
  BY <1>5, <1>16
<1> QED
  BY <1>5, <1>17 DEF BufKept

\* A chain cut as eatBytes() cuts it: the views p + 1 to l are taken out.
LEMMA CutChain ==
  ASSUME NEW c, NEW n, NEW cut, SameViews(c, cut, n), NEW p \in Nat, NEW l \in Nat, p <= l, l <= n,
         NEW e, e = SubSeq(cut, 1, p) \o SubSeq(cut, l + 1, n), NEW dd, dd = SubSeq(cut, p + 1, l)
  PROVE  IsCut(c, n, e, dd, p, l - p)
<1>1. /\ n \in Nat /\ IsViews(c, n) /\ Spans(cut, n) /\ (\A i \in 1..n : IsView(cut[i]))
      /\ \A i \in 1..n : cut[i].blk = c[i].blk
  BY DEF SameViews, IsViews, Spans
<1>2. PICK q \in Nat : q = l - p
  OBVIOUS
<1>3. PICK a \in Nat : a = n - l
  BY <1>1
<1>4. p + q = l /\ p + a = n - q /\ p + q <= n
  BY <1>1, <1>2, <1>3
<1>5. PICK x, y, z, w : /\ x = [i \in 1..p |-> cut[i]] /\ y = [i \in 1..a |-> cut[i + l]]
                        /\ z = [i \in 1..q |-> cut[i + p]]
                        /\ w = [i \in 1..(p + a) |-> IF i <= p THEN cut[i] ELSE cut[i + q]]
  OBVIOUS
<1>6. SubSeq(cut, 1, p) = x /\ SubSeq(cut, l + 1, n) = y /\ dd = z
  <2>1. SubSeq(cut, 1, p) = [i \in 1..p |-> cut[i]]
    OBVIOUS
  <2>2. SubSeq(cut, l + 1, n) = [i \in 1..a |-> cut[i + l]]
    BY <1>1, <1>3
  <2>3. dd = [i \in 1..q |-> cut[i + p]]
    BY <1>2
  <2> QED
    BY <1>5, <2>1, <2>2, <2>3
<1>7. /\ x = [i \in 1..p |-> x[i]] /\ y = [i \in 1..a |-> y[i]] /\ z = [i \in 1..q |-> z[i]]
      /\ w = [i \in 1..(p + a) |-> w[i]]
  BY <1>5
<1>8. /\ \A i \in 1..p : i \in 1..n /\ i \in 1..(p + a) /\ w[i] = cut[i] /\ x[i] = cut[i]
      /\ \A i \in 1..q : i + p \in 1..n /\ z[i] = cut[i + p]
      /\ \A i \in 1..(p + a) : i > p => i + q \in 1..n /\ w[i] = cut[i + q]
  BY <1>1, <1>4, <1>5
<1>9. \A i \in 1..a : p + i \in 1..(p + a) /\ w[p + i] = cut[i + l] /\ y[i] = cut[i + l]
  <2>1. \A i \in 1..a : p + i \in 1..(p + a) /\ ~(p + i <= p) /\ (p + i) + q = i + l
    BY <1>4
  <2> QED
    BY <1>5, <2>1
<1>10. e = w
  <2>1. Spans(x, p) /\ Spans(y, a) /\ Spans(w, p + a)
    BY <1>7 DEF Spans
  <2>2. (\A i \in 1..p : w[i] = x[i]) /\ \A i \in 1..a : w[p + i] = y[i]
    BY <1>8, <1>9
  <2>3. x \o y = w
    BY ONLY <2>1, <2>2, ConcatIs
  <2> QED
    BY <1>6, <2>3
<1>11. IsViews(w, p + a) /\ IsViews(z, q)
  <2>1. \A i \in 1..(p + a) : i <= p => i \in 1..p
    BY <1>1
  <2>2. (\A i \in 1..(p + a) : IsView(w[i])) /\ \A i \in 1..q : IsView(z[i])
    BY <1>1, <1>8, <2>1
  <2> QED
    BY <1>7, <2>2 DEF IsViews, Spans
<1>12. /\ \A i \in 1..p : w[i].blk = c[i].blk
       /\ \A i \in 1..(p + a) : i > p => w[i].blk = c[i + q].blk
       /\ \A i \in 1..q : z[i].blk = c[i + p].blk
  BY <1>1, <1>8
<1>13. IsCut(c, n, w, z, p, q)
  <2>1. IsViews(w, n - q) /\ \A i \in 1..(n - q) : i > p => w[i].blk = c[i + q].blk
    BY <1>4, <1>11, <1>12
  <2> QED
    BY <1>1, <1>4, <1>11, <1>12, <2>1 DEF IsCut
<1> QED
  BY <1>2, <1>6, <1>10, <1>13

\* What eatBytes() makes of a chain and its blocks: the pointers move and bytes are
\* shifted, or some views go and their blocks are released.
EatSame(m, c, n, r) == SameRefs(m, r.mem) /\ SameViews(c, r.chain, n)
EatCuts(m, c, n, r) ==
    \E dd, p, q : r.mem = Buf!ReleaseAll(m, dd) /\ IsCut(c, n, r.chain, dd, p, q)

\* A view with other pointers.
LEMMA MovedView ==
  ASSUME NEW v, IsView(v), NEW x
  PROVE  /\ IsView([v EXCEPT !.wr = x]) /\ [v EXCEPT !.wr = x].blk = v.blk
         /\ IsView([v EXCEPT !.rd = x]) /\ [v EXCEPT !.rd = x].blk = v.blk
<1>1. v.blk \in Blk /\ v = [blk |-> v.blk, rd |-> v.rd, wr |-> v.wr, mark |-> v.mark]
  BY DEF IsView
<1>2. PICK u, w : u = [v EXCEPT !.wr = x] /\ w = [v EXCEPT !.rd = x]
  OBVIOUS
<1>3. /\ u = [blk |-> v.blk, rd |-> v.rd, wr |-> x, mark |-> v.mark]
      /\ w = [blk |-> v.blk, rd |-> x, wr |-> v.wr, mark |-> v.mark]
  BY <1>1, <1>2
<1>4. PICK a, b, g, k : a \in Blk /\ a = v.blk /\ b = v.rd /\ g = v.wr /\ k = v.mark
  BY <1>1
<1>5. u = [blk |-> a, rd |-> b, wr |-> x, mark |-> k] /\ w = [blk |-> a, rd |-> x, wr |-> g, mark |-> k]
  BY <1>3, <1>4
<1>6. IsView(u) /\ u.blk = a
  BY ONLY <1>4, <1>5 DEF IsView
<1>7. IsView(w) /\ w.blk = a
  BY ONLY <1>4, <1>5 DEF IsView
<1> QED
  BY <1>2, <1>4, <1>6, <1>7

\* A chain with one view moved.
LEMMA ViewMoved ==
  ASSUME NEW c, NEW n, NEW cut, SameViews(c, cut, n), NEW k \in 1..n, NEW x, NEW e,
         e = [cut EXCEPT ![k] = [cut[k] EXCEPT !.wr = x]] \/ e = [cut EXCEPT ![k] = [cut[k] EXCEPT !.rd = x]]
  PROVE  SameViews(c, e, n)
<1>1. IsViews(cut, n) /\ IsView(cut[k]) /\ IsViews(c, n) /\ \A i \in 1..n : cut[i].blk = c[i].blk
  BY DEF SameViews, IsViews
<1>2. PICK v : IsView(v) /\ v.blk = cut[k].blk /\ e = [cut EXCEPT ![k] = v]
  <2>0. PICK u : u = cut[k]
    OBVIOUS
  <2>1. PICK a, b : u = cut[k] /\ a = [u EXCEPT !.wr = x] /\ b = [u EXCEPT !.rd = x]
    BY <2>0, Zenon
  <2>2. IsView(a) /\ a.blk = u.blk /\ IsView(b) /\ b.blk = u.blk
    BY <1>1, <2>1, MovedView
  <2>3. e = [cut EXCEPT ![k] = a] \/ e = [cut EXCEPT ![k] = b]
    BY <2>1
  <2> QED
    BY ONLY <2>1, <2>2, <2>3, Zenon
<1>3. IsViews(e, n) /\ \A i \in 1..n : e[i].blk = cut[i].blk
  <2>1. n \in Nat /\ cut = [j \in 1..n |-> cut[j]] /\ \A j \in 1..n : IsView(cut[j])
    BY <1>1 DEF IsViews, Spans
  <2>2. DOMAIN cut = 1..n
    BY ONLY <2>1
  <2>3. e = [j \in 1..n |-> IF j = k THEN v ELSE cut[j]]
    BY ONLY <1>2, <2>2
  <2>4. \A j \in 1..n : e[j] = IF j = k THEN v ELSE cut[j]
    BY ONLY <2>3
  <2>5. DOMAIN e = 1..n /\ e = [j \in DOMAIN e |-> e[j]]
    BY ONLY <2>3
  <2>6. Spans(e, n)
    BY ONLY <2>1, <2>5 DEF Spans
  <2>7. \A j \in 1..n : IsView(e[j]) /\ e[j].blk = cut[j].blk
    BY ONLY <1>2, <2>1, <2>4
  <2> QED
    BY ONLY <2>6, <2>7 DEF IsViews
<1> QED
  BY ONLY <1>1, <1>3 DEF SameViews

\* eatBytes() when the bytes go on past the view in which they begin: the views that
\* are eaten whole are taken out.
LEMMA EatAcrossIs ==
  ASSUME NEW c, NEW n, IsViews(c, n), NEW m, MemKept(m), NEW k \in 1..n, NEW need, need > 0, NEW len,
         NEW r, r = Buf!EatAcross(m, c, k, need, len)
  PROVE  EatSame(m, c, n, r) \/ EatCuts(m, c, n, r)
<1>0. n \in Nat /\ DOMAIN c = 1..n /\ Len(c) = n /\ SameViews(c, c, n)
  <2>1. Spans(c, n)
    BY DEF IsViews
  <2> QED
    BY <2>1, LenIs DEF Spans, SameViews
<1> DEFINE left  == len - (Buf!length(c[k]) - need)
           kept  == [c EXCEPT ![k].wr = IF need > 0 THEN @ - (Buf!length(c[k]) - need) ELSE @]
           front == IF need > 0 THEN k + 1 ELSE k
           Eaten(j) == Buf!Before(c, j + 1) - Buf!Before(c, k + 1)
           ends  == {j \in (k + 1)..Len(c) : Eaten(j) >= left}
           last  == IF ends = {} THEN Len(c) + 1 ELSE CHOOSE j \in ends : \A i \in ends : j <= i
           whole == last <= Len(c) /\ Eaten(last) = left
           lookAt == IF whole THEN last + 1 ELSE last
           back  == IF lookAt - 1 > k THEN lookAt - 1 ELSE front
           cut   == IF lookAt = last /\ last <= Len(c)
                    THEN [kept EXCEPT ![last].rd = @ + left - Eaten(last - 1)] ELSE kept
           rest  == SubSeq(cut, lookAt, Len(cut))
           other == IF back # front
                    THEN [mem |-> Buf!ReleaseAll(m, <<cut[k]>> \o rest),
                          chain |-> IF k = 1 THEN rest ELSE SubSeq(cut, 1, k) \o rest]
                    ELSE [mem |-> m, chain |-> IF k = 1 THEN rest ELSE cut]
<1>1. r = IF front > Len(c) THEN [mem |-> m, chain |-> cut]
          ELSE IF need > 0
          THEN IF lookAt = front THEN [mem |-> m, chain |-> cut]
               ELSE [mem |-> Buf!ReleaseAll(m, SubSeq(cut, front, back)),
                     chain |-> SubSeq(cut, 1, k) \o rest]
          ELSE other
  BY Zenon DEF Buf!EatAcross
<1> HIDE DEF left, kept, front, Eaten, ends, last, whole, lookAt, back, cut, rest, other
<1>2. front = k + 1
  BY DEF front
<1>3. ends \subseteq (k + 1)..n
  BY <1>0 DEF ends
<1>4. last = IF ends = {} THEN Len(c) + 1 ELSE CHOOSE j \in ends : \A i \in ends : j <= i
  BY DEF last
<1>5. (lookAt = last + 1 /\ last <= Len(c)) \/ lookAt = last
  BY DEF lookAt, whole
<1>6. \E x : kept = [c EXCEPT ![k] = [c[k] EXCEPT !.wr = x]]
  <2>1. PICK x : x = IF need > 0 THEN c[k].wr - (Buf!length(c[k]) - need) ELSE c[k].wr
    OBVIOUS
  <2>2. kept = [c EXCEPT ![k] = [c[k] EXCEPT !.wr = x]]
    BY <2>1 DEF kept
  <2> QED
    BY <2>2, Zenon
<1>7. cut = kept \/ (last <= Len(c) /\ \E x : cut = [kept EXCEPT ![last] = [kept[last] EXCEPT !.rd = x]])
  BY DEF cut
<1>8. back = IF lookAt - 1 > k THEN lookAt - 1 ELSE front
  BY DEF back
<1>9. rest = SubSeq(cut, lookAt, Len(cut))
  BY DEF rest
<1>10. last \in (k + 1)..(n + 1)
  <2>1. CASE ends = {}
    BY <1>0, <1>4, <2>1
  <2>2. CASE ends # {}
    <3>1. ends \in SUBSET Nat
      BY <1>0, <1>3
    <3>2. \E j \in ends : \A i \in ends : j <= i
      BY ONLY <2>2, <3>1, LeastExists
    <3>3. last \in ends
      BY <1>4, <2>2, <3>2
    <3> QED
      BY <1>0, <1>3, <3>3
  <2> QED
    BY <2>1, <2>2
<1>11. lookAt \in (k + 1)..(n + 1)
  BY <1>0, <1>5, <1>10
<1>12. SameViews(c, kept, n)
  BY <1>0, <1>6, ViewMoved
<1>13. SameViews(c, cut, n)
  <2>1. CASE cut = kept
    BY ONLY <1>12, <2>1
  <2>2. CASE last <= Len(c) /\ \E x : cut = [kept EXCEPT ![last] = [kept[last] EXCEPT !.rd = x]]
    <3>1. last \in 1..n
      BY <1>0, <1>10, <2>2
    <3>2. PICK x : cut = [kept EXCEPT ![last] = [kept[last] EXCEPT !.rd = x]]
      BY <2>2, Zenon
    <3> QED
      BY ONLY <1>12, <3>1, <3>2, ViewMoved, Zenon
  <2> QED
    BY <1>7, <2>1, <2>2
<1>14. Len(cut) = n
  BY <1>13, LenIs DEF SameViews, IsViews
<1>15. CASE r = [mem |-> m, chain |-> cut]
  <2>1. r.mem = m /\ r.chain = cut
    BY <1>15
  <2>2. SameRefs(m, m)
    BY DEF SameRefs
  <2> QED
    BY <1>13, <2>1, <2>2 DEF EatSame
<1>16. CASE /\ lookAt # front
            /\ r = [mem |-> Buf!ReleaseAll(m, SubSeq(cut, front, back)), chain |-> SubSeq(cut, 1, k) \o rest]
  <2>1. PICK l \in Nat : l = lookAt - 1 /\ k <= l /\ l <= n /\ lookAt = l + 1 /\ back = l
    BY <1>0, <1>2, <1>8, <1>11, <1>16
  <2>2. PICK dd, e, m2 : /\ dd = SubSeq(cut, k + 1, l) /\ e = SubSeq(cut, 1, k) \o SubSeq(cut, l + 1, n)
                         /\ m2 = Buf!ReleaseAll(m, SubSeq(cut, k + 1, l))
    OBVIOUS
  <2>3. r = [mem |-> m2, chain |-> e]
    <3>1. r = [mem |-> Buf!ReleaseAll(m, SubSeq(cut, k + 1, l)), chain |-> SubSeq(cut, 1, k) \o SubSeq(cut, l + 1, n)]
      BY <1>2, <1>9, <1>14, <1>16, <2>1
    <3> QED
      BY <2>2, <3>1
  <2>4. r.mem = m2 /\ r.chain = e /\ m2 = Buf!ReleaseAll(m, dd)
    <3>1. r.mem = m2 /\ r.chain = e
      BY ONLY <2>3
    <3> QED
      BY <2>2, <3>1, Zenon
  <2>5. IsCut(c, n, e, dd, k, l - k)
    <3>1. k \in Nat /\ k <= l /\ l <= n
      BY <1>0, <2>1
    <3> QED
      BY ONLY <1>13, <2>2, <3>1, l \in Nat, CutChain, Zenon
  <2> QED
    BY <2>4, <2>5 DEF EatCuts
<1> QED
  BY <1>1, <1>15, <1>16, Zenon

\* eatBytes() when they lie in one.
LEMMA EatInOneIs ==
  ASSUME NEW c, NEW n, IsViews(c, n), NEW m, MemKept(m), NEW k \in 1..n, NEW need, NEW len,
         NEW r, r = Buf!EatInOne(m, c, k, need, len)
  PROVE  EatSame(m, c, n, r) \/ EatCuts(m, c, n, r)
<1>0. n \in Nat /\ DOMAIN c = 1..n /\ Len(c) = n /\ SameViews(c, c, n) /\ IsView(c[k])
  <2>1. Spans(c, n)
    BY DEF IsViews
  <2> QED
    BY <2>1, LenIs DEF Spans, SameViews, IsViews
<1>1. SameRefs(m, m)
  BY DEF SameRefs
<1>2. ASSUME NEW m2, NEW e, r = [mem |-> m2, chain |-> e], SameRefs(m, m2), NEW x,
             e = [c EXCEPT ![k] = [c[k] EXCEPT !.wr = x]] \/ e = [c EXCEPT ![k] = [c[k] EXCEPT !.rd = x]]
      PROVE  EatSame(m, c, n, r)
  <2>1. SameViews(c, e, n)
    BY ONLY <1>0, <1>2, k \in 1..n, ViewMoved
  <2>2. r.mem = m2 /\ r.chain = e
    BY ONLY <1>2
  <2> QED
    BY ONLY <1>2, <2>1, <2>2 DEF EatSame
<1>3. PICK a \in Blk : a = c[k].blk
  BY <1>0 DEF IsView
<1>4. PICK y : y = [i \in DOMAIN m[a].bytes |-> IF i > c[k].rd + need /\ i <= c[k].wr - len
                                            THEN m[a].bytes[i + len] ELSE m[a].bytes[i]]
  OBVIOUS
<1>5. PICK m2, e1, e2, e3, e4, m4 :
         /\ m2 = [m EXCEPT ![a] = [m[a] EXCEPT !.bytes = y]]
         /\ e1 = [c EXCEPT ![k] = [c[k] EXCEPT !.wr = c[k].wr - len]]
         /\ e2 = [c EXCEPT ![k] = [c[k] EXCEPT !.rd = c[k].rd + len]]
         /\ e3 = [c EXCEPT ![k] = [c[k] EXCEPT !.wr = c[k].rd + need]]
         /\ e4 = Buf!RemoveAt(c, k) /\ m4 = Buf!ReleaseAll(m, <<c[k]>>)
  OBVIOUS
<1>6. \/ r = [mem |-> m2, chain |-> e1] \/ r = [mem |-> m, chain |-> e2]
      \/ r = [mem |-> m, chain |-> e3] \/ r = [mem |-> m4, chain |-> e4]
  BY <1>3, <1>4, <1>5 DEF Buf!EatInOne
<1>7. SameRefs(m, m2)
  <2>1. NewBytes(m, m2, a, y)
    BY <1>5 DEF NewBytes
  <2> QED
    BY ONLY <2>1, BytesChange
<1>8. CASE r = [mem |-> m2, chain |-> e1]
  BY <1>2, <1>5, <1>7, <1>8
<1>9. CASE r = [mem |-> m, chain |-> e2]
  BY <1>1, <1>2, <1>5, <1>9
<1>10. CASE r = [mem |-> m, chain |-> e3]
  BY <1>1, <1>2, <1>5, <1>10
<1>11. CASE r = [mem |-> m4, chain |-> e4]
  <2>1. PICK p, l \in Nat : p = k - 1 /\ l = k /\ p <= l /\ l <= n /\ p + 1 = l
    BY <1>0
  <2>2. e4 = SubSeq(c, 1, p) \o SubSeq(c, l + 1, n)
    BY <1>0, <1>5, <2>1 DEF Buf!RemoveAt
  <2>3. <<c[k]>> = SubSeq(c, p + 1, l)
    BY <1>0, <2>1
  <2>4. PICK dd : dd = SubSeq(c, p + 1, l)
    OBVIOUS
  <2>5. IsCut(c, n, e4, dd, p, l - p)
    BY <1>0, <2>1, <2>2, <2>4, CutChain
  <2>6. r.mem = m4 /\ r.chain = e4
    BY <1>11
  <2>7. m4 = Buf!ReleaseAll(m, dd)
    BY <1>5, <2>3, <2>4
  <2> QED
    BY <2>5, <2>6, <2>7 DEF EatCuts
<1> QED
  BY <1>6, <1>8, <1>9, <1>10, <1>11

\* eatBytes(), where EatStaysClear() holds.
LEMMA EatKeeps ==
  ASSUME BufKept, NEW h \in Handle, Buf!Eat(h)
  PROVE  BufKept'
<1>1. PICK from, len : Buf!EatStaysClear(chain[h], from, len) /\ Buf!EatBytes(h, from, len)
  BY DEF Buf!Eat
<1>2. PICK c, n : c = chain[h] /\ n \in Nat /\ IsViews(c, n)
  BY ChainOf
<1>3. PICK m, r : m = mem /\ r = Buf!eatBytes(m, c, from, len)
  OBVIOUS
<1>4. mem' = r.mem /\ chain' = [chain EXCEPT ![h] = r.chain] /\ iter' = iter
  BY <1>1, <1>2, <1>3 DEF Buf!EatBytes, Buf!SetChain
<1>5. MemKept(m) /\ BufIs(m, chain, iter.start)
  BY <1>3 DEF BufKept, BufIs
<1>6. PICK k, need : k = Buf!Locate(c, from) /\ need = from - Buf!Before(c, k)
  OBVIOUS
<1>7. k # 0 /\ ~(need > 0) => Buf!length(c[k]) - need - len >= 0
  BY <1>1, <1>2, <1>6, Zenon DEF Buf!EatStaysClear
<1>8. r = IF k = 0 THEN [mem |-> m, chain |-> c]
          ELSE IF Buf!length(c[k]) - need - len >= 0 THEN Buf!EatInOne(m, c, k, need, len)
          ELSE Buf!EatAcross(m, c, k, need, len)
  BY <1>3, <1>6, Zenon DEF Buf!eatBytes
<1>9. EatSame(m, c, n, r) \/ EatCuts(m, c, n, r)
  <2>1. CASE k = 0
    <3>1. r.mem = m /\ r.chain = c
      BY <1>8, <2>1
    <3> QED
      BY <1>2, <1>5, <3>1 DEF EatSame, SameRefs, SameViews
  <2>2. CASE k # 0
    <3>1. k \in 1..n
      BY <1>2, <1>6, <2>2, LocateIs
    <3>2. CASE r = Buf!EatInOne(m, c, k, need, len)
      BY ONLY <1>2, <1>5, <3>1, <3>2, EatInOneIs, Zenon
    <3>3. CASE r = Buf!EatAcross(m, c, k, need, len) /\ need > 0
      BY ONLY <1>2, <1>5, <3>1, <3>3, EatAcrossIs, Zenon
    <3> QED
      BY <1>7, <1>8, <2>2, <3>2, <3>3, Zenon
  <2> QED
    BY <2>1, <2>2
<1>10. SUFFICES BufIs(r.mem, [chain EXCEPT ![h] = r.chain], iter.start)
  BY <1>4 DEF BufKept
<1>11. PICK m2, e : m2 = r.mem /\ e = r.chain
  OBVIOUS
<1>12. CASE EatSame(m, c, n, r)
  <2>1. SameRefs(m, m2) /\ SameViews(c, e, n)
    BY <1>11, <1>12 DEF EatSame
  <2>2. IsViews(e, n) /\ \A b \in Blk : Buf!On(e, b) = Buf!On(chain[h], b)
    BY <1>2, <2>1, SameBlks DEF SameViews
  <2>3. MemKept(m2) /\ \A b \in Blk : m2[b].ref = m[b].ref /\ m2[b].live = m[b].live
    BY <2>1 DEF SameRefs
  <2> QED
    BY <1>5, <1>11, <2>2, <2>3, SameCounts
<1>13. CASE EatCuts(m, c, n, r)
  <2>1. PICK dd, p, q : m2 = Buf!ReleaseAll(m, dd) /\ IsCut(c, n, e, dd, p, q)
    BY <1>11, <1>13 DEF EatCuts
  <2>2. (\E i : IsViews(e, i)) /\ (\E i : IsViews(dd, i))
    BY <2>1 DEF IsCut
  <2>3. \A b \in Blk : Buf!On(chain[h], b) = Buf!On(e, b) + Buf!On(dd, b)
    BY <1>2, <2>1, OnCut
  <2> QED
    BY <1>5, <1>11, <2>1, <2>2, <2>3, ChainReleased
<1> QED
  BY <1>9, <1>12, <1>13

\* A program's first chain has one view on each of its blocks.
LEMMA BuiltChain ==
  ASSUME Init
  PROVE  BufKept
<1>1. PICK n, f, w, z :
         /\ n \in 1..MaxBuilt /\ mem = Buf!BuiltMem(n, f) /\ iter = Buf!NoIter
         /\ chain = Buf!BuiltChains(n, z, w)
  <2>1. Buf!Init
    BY DEF Init
  <2> QED
    BY ONLY <2>1 DEF Buf!Init
<1>2. n \in Nat /\ (\A b \in Blk : b <= n <=> b \in 1..n) /\ \A i \in 1..n : i \in Blk
  BY <1>1, BufAssumption DEF BufAssumption
<1>3. PICK e : e = Buf!BuiltChain(n, z, w)
  OBVIOUS
<1>4. PICK C : C = [h \in Handle |-> <<>>]
  OBVIOUS
<1>5. chain = [C EXCEPT ![1] = e] /\ 1 \in Handle /\ C[1] = <<>>
  <2>1. 1 \in Handle
    BY BufAssumption DEF BufAssumption
  <2>2. chain = [h \in Handle |-> IF h = 1 THEN e ELSE <<>>]
    BY <1>1, <1>3, Zenon DEF Buf!BuiltChains
  <2> QED
    BY <1>4, <2>1, <2>2
<1>6. DOMAIN e = 1..n /\ \A i \in 1..n : \E x, y : e[i] = [blk |-> i, rd |-> x, wr |-> y, mark |-> 0]
  BY <1>3 DEF Buf!BuiltChain
<1>7. \A i \in 1..n : IsView(e[i]) /\ e[i].blk = i
  <2>1. ASSUME NEW i \in 1..n PROVE IsView(e[i]) /\ e[i].blk = i
    <3>1. PICK x, y : e[i] = [blk |-> i, rd |-> x, wr |-> y, mark |-> 0]
      BY <1>6
    <3>2. i \in Blk
      BY <1>2
    <3> QED
      BY ONLY <3>1, <3>2 DEF IsView
  <2> QED
    BY <2>1
<1>8. IsViews(e, n)
  <2>1. DOMAIN e = 1..n /\ e = [i \in DOMAIN e |-> e[i]]
    BY <1>3 DEF Buf!BuiltChain
  <2>2. e = [i \in 1..n |-> e[i]]
    BY ONLY <2>1
  <2> QED
    BY ONLY <1>2, <1>7, <2>2 DEF IsViews, Spans
<1>9. (\A i \in 1..n : Buf!On(e, i) = 1) /\ \A b : b \notin 1..n => Buf!On(e, b) = 0
  <2>1. ASSUME NEW i \in 1..n PROVE Buf!On(e, i) = 1
    <3>1. Viewed(e, i) = {i}
      <4>1. DOMAIN e = 1..n
        BY <1>6
      <4> QED
        BY ONLY <1>7, <4>1, i \in 1..n DEF Viewed
    <3>2. Buf!On(e, i) = Cardinality(Viewed(e, i))
      BY ONLY <1>8, OnIs
    <3> QED
      BY ONLY <3>1, <3>2, FS_Singleton
  <2>2. ASSUME NEW b, b \notin 1..n PROVE Buf!On(e, b) = 0
    <3>1. Buf!On(e, b) \in Nat /\ (Buf!On(e, b) > 0 <=> \E i \in 1..n : e[i].blk = b)
      BY ONLY <1>8, OnIs
    <3> QED
      BY ONLY <1>7, <2>2, <3>1
  <2> QED
    BY <2>1, <2>2
<1>10. ASSUME NEW b PROVE Views(C, <<>>, b) = 0
  <2>1. Spread(Handle, [h \in Handle |-> Viewed(C[h], b)]) = {}
    <3>1. \A h \in Handle : Viewed(C[h], b) = {}
      BY <1>4 DEF Viewed
    <3> QED
      BY <3>1 DEF Spread
  <2>2. Cardinality({}) = 0
    BY FS_EmptySet
  <2>3. Buf!On(<<>>, b) = 0
    BY NoViews
  <2>4. Views(C, <<>>, b) = Cardinality(Spread(Handle, [h \in Handle |-> Viewed(C[h], b)])) + Buf!On(<<>>, b)
    BY Zenon DEF Views
  <2>5. Views(C, <<>>, b) = Cardinality({}) + 0
    BY ONLY <2>1, <2>3, <2>4
  <2> QED
    BY ONLY <2>2, <2>5
<1>11. ChainsKept(C)
  BY <1>4, NoViews DEF ChainsKept
<1>12. ASSUME NEW b PROVE ChainsKept(chain) /\ Views(chain, <<>>, b) = Buf!On(e, b) /\ Buf!On(e, b) \in Nat
  <2>1. ChainsKept(chain) /\ ViewsDiffer(C, <<>>, 1, e, chain, b)
    BY <1>5, <1>8, <1>11, NoViews, ViewsChange
  <2>2. Buf!On(C[1], b) = 0
    BY <1>5, NoViews
  <2> QED
    BY <1>10, <2>1, <2>2 DEF ViewsDiffer
<1>13. ASSUME NEW b \in Blk
       PROVE  /\ mem[b] = [bytes |-> mem[b].bytes, ref |-> mem[b].ref, live |-> mem[b].live]
              /\ mem[b].ref = Buf!On(e, b) /\ mem[b].live = (Buf!On(e, b) > 0)
              /\ mem[b].ref \in Nat /\ mem[b].live \in BOOLEAN
  <2>1. CASE b \in 1..n
    <3>1. PICK y : mem[b] = [bytes |-> y, ref |-> 1, live |-> TRUE]
      BY <1>1, <1>2, <2>1 DEF Buf!BuiltMem, Buf!Written
    <3>2. mem[b].bytes = y /\ mem[b].ref = 1 /\ mem[b].live = TRUE
      BY ONLY <3>1
    <3>3. Buf!On(e, b) = 1 /\ (Buf!On(e, b) > 0) = TRUE
      BY <1>9, <2>1
    <3>4. mem[b] = [bytes |-> mem[b].bytes, ref |-> mem[b].ref, live |-> mem[b].live]
      BY ONLY <3>1, <3>2
    <3>5. mem[b].live = (Buf!On(e, b) > 0) /\ mem[b].live \in BOOLEAN
      BY ONLY <3>2, <3>3, Zenon
    <3> QED
      BY ONLY <3>2, <3>3, <3>4, <3>5
  <2>2. CASE b \notin 1..n
    <3>1. mem[b] = [bytes |-> <<>>, ref |-> 0, live |-> FALSE]
      BY <1>1, <1>2, <2>2 DEF Buf!BuiltMem, Buf!FreeMem
    <3>2. mem[b].bytes = <<>> /\ mem[b].ref = 0 /\ mem[b].live = FALSE
      BY ONLY <3>1
    <3>3. Buf!On(e, b) = 0 /\ (Buf!On(e, b) > 0) = FALSE
      BY <1>9, <2>2
    <3>4. mem[b] = [bytes |-> mem[b].bytes, ref |-> mem[b].ref, live |-> mem[b].live]
      BY ONLY <3>1, <3>2
    <3>5. mem[b].live = (Buf!On(e, b) > 0) /\ mem[b].live \in BOOLEAN
      BY ONLY <3>2, <3>3, Zenon
    <3> QED
      BY ONLY <3>2, <3>3, <3>4, <3>5
  <2> QED
    BY <2>1, <2>2
<1>14. mem = [b \in Blk |-> mem[b]]
  <2>1. DOMAIN mem = Blk /\ mem = [b \in DOMAIN mem |-> mem[b]]
    BY <1>1 DEF Buf!BuiltMem
  <2> QED
    BY ONLY <2>1
<1>15. MemKept(mem)
  BY ONLY <1>13, <1>14 DEF MemKept
<1>16. iter.start = <<>> /\ iter = [start |-> iter.start, cur |-> iter.cur, off |-> iter.off]
  BY <1>1 DEF Buf!NoIter
<1>17. Agree(mem, chain, <<>>)
  <2>1. ASSUME NEW b \in Blk
        PROVE  mem[b].ref = Views(chain, <<>>, b) /\ mem[b].live = (Views(chain, <<>>, b) > 0)
    BY <1>12, <1>13
  <2> QED
    BY ONLY <2>1 DEF Agree
<1> QED
  BY <1>12, <1>15, <1>16, <1>17, NoViews DEF BufKept, BufIs

\* Every call keeps the counts.
LEMMA BufStepKeeps ==
  ASSUME BufKept, Buf!Next
  PROVE  BufKept'
<1>1. CASE Buf!OnIter
  BY <1>1, OnIterKeeps
<1>2. ASSUME NEW h \in Handle, Buf!OnChain(h) PROVE BufKept'
  <2>1. ASSUME NEW g \in Handle,
               Buf!DuplicateInto(h, g) \/ Buf!Assign(h, g) \/ Buf!DeepCopy(h, g) \/ Buf!Part(h, g)
               \/ Buf!GetContigBlock(h, g)
        PROVE  BufKept'
    BY <2>1, DuplicateIntoKeeps, BufAssignKeeps, DeepCopyKeeps, PartKeeps, GetContigBlockKeeps
  <2> QED
    BY <1>2, <2>1, AddToEndKeeps, ReleaseKeeps, NewIterKeeps, OnViewKeeps DEF Buf!OnChain
<1>3. ASSUME NEW h \in Handle, Buf!Eat(h) PROVE BufKept'
  BY <1>3, EatKeeps
<1> QED
  BY <1>1, <1>2, <1>3 DEF Buf!Next

\* BufBlk: through any duplicates, assignments, parts, deep copies, contiguous blocks,
\* iterators and releases of chains that share blocks, and every eatBytes() that stays
\* clear of the first byte of a block it goes past, each block counts exactly the views
\* on it and is freed when the last one goes and not before.
THEOREM RefCountsAlwaysRight == Spec => []RefCountsViews
<1>1. Init => BufKept
  BY BuiltChain
<1>2. BufKept /\ [Next]_vars => BufKept'
  <2> SUFFICES ASSUME BufKept, [Next]_vars PROVE BufKept'
    OBVIOUS
  <2>1. CASE UNCHANGED bufVars
    <3>1. mem' = mem /\ chain' = chain /\ iter' = iter
      BY <2>1 DEF bufVars
    <3> QED
      BY <3>1 DEF BufKept
  <2>2. CASE Buf!Next
    BY <2>2, BufStepKeeps
  <2>3. UNCHANGED bufVars \/ Buf!Next
    BY DEF Next, Done, vars
  <2> QED
    BY <2>1, <2>2, <2>3
<1>3. BufKept => RefCountsViews
  <2> SUFFICES ASSUME BufKept, NEW b \in Blk
               PROVE  mem[b].ref = Buf!ViewsOn(b) /\ mem[b].live = (Buf!ViewsOn(b) > 0)
    BY DEF RefCountsViews, Buf!RefCountsViews
  <2>1. Buf!ViewsOn(b) = Views(chain, iter.start, b)
    <3>1. UNION {{h} \X {i \in DOMAIN chain[h] : chain[h][i].blk = b} : h \in Handle}
          = Spread(Handle, [h \in Handle |-> Viewed(chain[h], b)])
      BY DEF Spread, Viewed
    <3> QED
      BY <3>1, BufSameCardinality DEF Buf!ViewsOn, Views
  <2> QED
    BY <2>1 DEF BufKept, BufIs, Agree
<1> QED
  BY <1>1, <1>2, <1>3, PTL DEF Spec
=============================================================================

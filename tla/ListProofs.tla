----------------------------- MODULE ListProofs -----------------------------
(***************************************************************************)
(* Theorem about tw_List: for every set of nodes and items, each list is a  *)
(* chain in both directions of what the calls left in it.                   *)
(*                                                                          *)
(* The inductive invariant ListKept names the nodes s and t of the two lists: *)
(* each is a run linked both ways with head and tail at its ends and data   *)
(* that are the abstract sequence, no node is on both, the live nodes are   *)
(* those of the runs and the unlinked ones, and look is at the iterator's   *)
(* place.  Each call cuts, joins or turns runs.                             *)
(***************************************************************************)
EXTENDS MCContainers, SharedLemmas

\* The links of a chain.
Members(s, L) == {s[i] : i \in 1..L}

\* The L links s follow one another in both directions.
Run(s, L, S, nx, pv) ==
    /\ s \in [1..L -> S]
    /\ \A i, j \in 1..L : s[i] = s[j] => i = j
    /\ \A i \in 1..L : i < L => nx[s[i]] = s[i + 1] /\ pv[s[i + 1]] = s[i]

\* Links stay in order when the pointers between them stay.
LEMMA RunSame ==
  ASSUME NEW S, NEW L \in Nat, NEW s, NEW nx, NEW pv, NEW nx2, NEW pv2, Run(s, L, S, nx, pv),
         \A i \in 1..L : i < L => nx2[s[i]] = nx[s[i]] /\ pv2[s[i + 1]] = pv[s[i + 1]]
  PROVE  Run(s, L, S, nx2, pv2)
BY DEF Run

\* One node is a run.
LEMMA RunOne ==
  ASSUME NEW S, NEW n \in S, NEW nx, NEW pv
  PROVE  Run(One(n), 1, S, nx, pv) /\ Members(One(n), 1) = {n} /\ One(n)[1] = n
<1>1. One(n) \in [1..1 -> S] /\ One(n)[1] = n
  BY DEF One
<1>2. \A i \in 1..1 : i = 1
  OBVIOUS
<1>3. Members(One(n), 1) = {n}
  BY <1>1, <1>2 DEF Members
<1> QED
  BY <1>1, <1>2, <1>3 DEF Run

\* The last link of one chain and the first of another are neighbours.
Meet(s, L, t, M, nx, pv) == L > 0 /\ M > 0 => nx[s[L]] = t[1] /\ pv[t[1]] = s[L]

\* Two runs that meet, without a common node, are one run.
LEMMA RunJoin ==
  ASSUME NEW S, NEW L \in Nat, NEW M \in Nat, NEW s, NEW t, NEW nx, NEW pv,
         Run(s, L, S, nx, pv), Run(t, M, S, nx, pv),
         Members(s, L) \cap Members(t, M) = {}, Meet(s, L, t, M, nx, pv)
  PROVE  /\ Run(Joined(s, L, t, M), L + M, S, nx, pv)
         /\ Members(Joined(s, L, t, M), L + M) = Members(s, L) \cup Members(t, M)
<1> DEFINE u == Joined(s, L, t, M)
<1>1. /\ u = [i \in 1..(L + M) |-> u[i]]
      /\ \A i \in 1..L : u[i] = s[i]
      /\ \A i \in 1..M : u[L + i] = t[i]
      /\ \A i \in 1..(L + M) : i > L => i - L \in 1..M /\ u[i] = t[i - L]
  BY JoinedElements
<1>2. /\ s \in [1..L -> S] /\ \A i, j \in 1..L : s[i] = s[j] => i = j
      /\ t \in [1..M -> S] /\ \A i, j \in 1..M : t[i] = t[j] => i = j
  BY DEF Run
<1>3. u \in [1..(L + M) -> S]
  BY <1>2, JoinedType
<1>4. \A i \in 1..(L + M) : i \in 1..L \/ i > L
  OBVIOUS
<1>5. \A i \in 1..L, j \in 1..M : s[i] # t[j]
  BY DEF Members
<1> HIDE DEF u
<1>6. ASSUME NEW i \in 1..(L + M), NEW j \in 1..(L + M), u[i] = u[j] PROVE i = j
  <2>1. CASE i \in 1..L /\ j \in 1..L
    <3>1. u[i] = s[i] /\ u[j] = s[j]
      BY ONLY <1>1, <2>1
    <3> QED
      BY ONLY <1>2, <1>6, <2>1, <3>1
  <2>2. CASE i > L /\ j > L
    <3>1. i - L = j - L
      BY <1>1, <1>2, <1>6, <2>2
    <3> QED
      BY <3>1
  <2>3. CASE i \in 1..L /\ j > L
    <3>1. u[i] = s[i] /\ j - L \in 1..M /\ u[j] = t[j - L]
      BY ONLY <1>1, <2>3, j \in 1..(L + M)
    <3> QED
      BY ONLY <1>5, <1>6, <2>3, <3>1
  <2>4. CASE i > L /\ j \in 1..L
    <3>1. u[j] = s[j] /\ i - L \in 1..M /\ u[i] = t[i - L]
      BY ONLY <1>1, <2>4, i \in 1..(L + M)
    <3> QED
      BY ONLY <1>5, <1>6, <2>4, <3>1
  <2> QED
    BY <1>4, <2>1, <2>2, <2>3, <2>4
<1>7. ASSUME NEW i \in 1..(L + M), i < L + M PROVE nx[u[i]] = u[i + 1] /\ pv[u[i + 1]] = u[i]
  <2>1. CASE i < L
    <3>1. i \in 1..L /\ i + 1 \in 1..L
      BY <2>1
    <3>2. nx[s[i]] = s[i + 1] /\ pv[s[i + 1]] = s[i]
      BY <2>1, <3>1 DEF Run
    <3> QED
      BY <1>1, <3>1, <3>2
  <2>2. CASE i = L
    <3>1. L \in 1..L /\ 1 \in 1..M /\ L > 0 /\ M > 0
      BY <1>7, <2>2
    <3>2. u[L] = s[L] /\ u[L + 1] = t[1]
      BY <1>1, <3>1
    <3> QED
      BY <2>2, <3>1, <3>2 DEF Meet
  <2>3. CASE i > L
    <3> DEFINE k == i - L
    <3>1. k \in 1..M /\ k < M /\ k + 1 \in 1..M /\ L + k = i /\ L + (k + 1) = i + 1
      BY <1>7, <2>3
    <3> HIDE DEF k
    <3>2. nx[t[k]] = t[k + 1] /\ pv[t[k + 1]] = t[k]
      BY <3>1 DEF Run
    <3>3. u[i] = t[k] /\ u[i + 1] = t[k + 1]
      BY <1>1, <3>1
    <3> QED
      BY <3>2, <3>3
  <2> QED
    BY <2>1, <2>2, <2>3
<1>8. Members(u, L + M) = Members(s, L) \cup Members(t, M)
  <2>1. ASSUME NEW i \in 1..(L + M) PROVE u[i] \in Members(s, L) \cup Members(t, M)
    BY <1>1, <1>4 DEF Members
  <2>2. ASSUME NEW i \in 1..L PROVE s[i] \in Members(u, L + M)
    <3>1. i \in 1..(L + M)
      OBVIOUS
    <3> QED
      BY <1>1, <3>1 DEF Members
  <2>3. ASSUME NEW i \in 1..M PROVE t[i] \in Members(u, L + M)
    <3>1. L + i \in 1..(L + M) /\ u[L + i] = t[i]
      BY <1>1
    <3> QED
      BY <3>1 DEF Members
  <2> QED
    BY <2>1, <2>2, <2>3 DEF Members
<1> QED
  BY <1>3, <1>6, <1>7, <1>8 DEF Run, u


-----------------------------------------------------------------------------
ListData == Item \cup {"blank"}

\* s is the chain of a list: forwards from its head and backwards from its tail.
ChainIs(s, L, h, t, nx, pv) ==
    /\ Run(s, L, Node, nx, pv)
    /\ L = 0 => h = Nil /\ t = Nil
    /\ L > 0 => h = s[1] /\ t = s[L] /\ nx[s[L]] = Nil /\ pv[s[1]] = Nil

DataAs(s, L, dd) == [i \in 1..L |-> dd[s[i]]]
ListIs(s, L, h, t, nx, pv, dd, e) ==
    L \in Nat /\ ChainIs(s, L, h, t, nx, pv) /\ e = DataAs(s, L, dd)

\* The allocated links are those of the two lists and those removed by the iterator.
Owned(S, T, lv, ul) ==
    S \cap T = {} /\ lv = ul \cup S \cup T /\ ul \cap S = {} /\ ul \cap T = {}

\* An iterator on list l stands on a link of its, or past its end.
Place(s, L, l, lk, ow, ps) ==
    ow = l => ps \in 0..L /\ (ps = 0 => lk = Nil) /\ (ps > 0 => lk = s[ps])

\* s is the chain of list l and t that of list o.
Pair(l, o, s, t) ==
    /\ ListIs(s, remain[l], head[l], tail[l], next, prev, d, seq[l])
    /\ ListIs(t, remain[o], head[o], tail[o], next, prev, d, seq[o])
    /\ Owned(Members(s, remain[l]), Members(t, remain[o]), live, unlinked)
    /\ Place(s, remain[l], l, look, owner, pos) /\ Place(t, remain[o], o, look, owner, pos)
    /\ owner = 0 => look = Nil /\ pos = 0
PairAfter(l, o, s, t) ==
    /\ ListIs(s, remain'[l], head'[l], tail'[l], next', prev', d', seq'[l])
    /\ ListIs(t, remain'[o], head'[o], tail'[o], next', prev', d', seq'[o])
    /\ Owned(Members(s, remain'[l]), Members(t, remain'[o]), live', unlinked')
    /\ Place(s, remain'[l], l, look', owner', pos') /\ Place(t, remain'[o], o, look', owner', pos')
    /\ owner' = 0 => look' = Nil /\ pos' = 0

ListTypeOK ==
    /\ d \in [Node -> ListData]
    /\ next \in [Node -> Node \cup {Nil}] /\ prev \in [Node -> Node \cup {Nil}]
    /\ live \in SUBSET Node /\ unlinked \in SUBSET Node
    /\ head \in [{1, 2} -> Node \cup {Nil}] /\ tail \in [{1, 2} -> Node \cup {Nil}]
    /\ remain \in [{1, 2} -> Nat] /\ enabled \in [{1, 2} -> BOOLEAN]
    /\ look \in Node \cup {Nil} /\ owner \in {0, 1, 2} /\ pos \in Nat
    /\ seq = [l \in {1, 2} |-> seq[l]]

ListKept == ListTypeOK /\ \E s, t : Pair(1, 2, s, t)

\* Which of the two lists is named first does not matter.
LEMMA PairTurned ==
  ASSUME NEW s, NEW t
  PROVE  (Pair(1, 2, s, t) <=> Pair(2, 1, t, s)) /\ (PairAfter(1, 2, s, t) <=> PairAfter(2, 1, t, s))
<1>1. \A S, T, lv, ul : Owned(S, T, lv, ul) => Owned(T, S, lv, ul)
  BY DEF Owned
<1>2. Pair(1, 2, s, t) <=> Pair(2, 1, t, s)
  BY <1>1 DEF Pair
<1>3. PairAfter(1, 2, s, t) <=> PairAfter(2, 1, t, s)
  BY <1>1 DEF PairAfter
<1> QED
  BY <1>2, <1>3

\* Before a call, whichever list it is on: its nodes and those of the other list.
LEMMA PairBefore ==
  ASSUME ListKept, NEW l \in {1, 2}, NEW o \in {1, 2}, l # o
  PROVE  ListTypeOK /\ \E s, t : Pair(l, o, s, t)
<1>1. PICK s, t : Pair(1, 2, s, t)
  BY DEF ListKept
<1>2. Pair(2, 1, t, s)
  BY <1>1, PairTurned
<1>3. (l = 1 /\ o = 2) \/ (l = 2 /\ o = 1)
  OBVIOUS
<1> QED
  BY <1>1, <1>2, <1>3 DEF ListKept

\* After a call: the invariant holds when it holds with either list named first.
LEMMA PairKept ==
  ASSUME ListTypeOK', NEW l \in {1, 2}, NEW o \in {1, 2}, l # o, NEW s, NEW t, PairAfter(l, o, s, t)
  PROVE  ListKept'
<1>3. (l = 1 /\ o = 2) \/ (l = 2 /\ o = 1)
  OBVIOUS
<1>1. \E a, b : PairAfter(1, 2, a, b)
  BY <1>3, PairTurned
<1> QED
  BY <1>1 DEF ListKept, Pair, PairAfter

\* A list is the same as long as its links are.
LEMMA ListSame ==
  ASSUME NEW s, NEW L, NEW h, NEW t, NEW nx, NEW pv, NEW dd, NEW nx2, NEW pv2, NEW dd2, NEW e,
         ListIs(s, L, h, t, nx, pv, dd, e),
         \A x \in Members(s, L) : nx2[x] = nx[x] /\ pv2[x] = pv[x] /\ dd2[x] = dd[x]
  PROVE  ListIs(s, L, h, t, nx2, pv2, dd2, e)
<1>1. L \in Nat /\ ChainIs(s, L, h, t, nx, pv) /\ e = DataAs(s, L, dd)
  BY DEF ListIs
<1>2. \A i \in 1..L : nx2[s[i]] = nx[s[i]] /\ pv2[s[i]] = pv[s[i]] /\ dd2[s[i]] = dd[s[i]]
  BY DEF Members
<1>3. \A i \in 1..L : i < L => i + 1 \in 1..L
  BY <1>1
<1>4. Run(s, L, Node, nx, pv)
  BY <1>1 DEF ChainIs
<1>5. Run(s, L, Node, nx2, pv2)
  BY <1>1, <1>2, <1>3, <1>4, RunSame
<1>6. L > 0 => 1 \in 1..L /\ L \in 1..L
  BY <1>1
<1>7. ChainIs(s, L, h, t, nx2, pv2)
  BY <1>1, <1>2, <1>5, <1>6 DEF ChainIs
<1>8. DataAs(s, L, dd2) = DataAs(s, L, dd)
  BY <1>2 DEF DataAs
<1> QED
  BY <1>1, <1>7, <1>8 DEF ListIs

\* A call leaves the other list alone.
Aside(o, t) ==
    /\ head'[o] = head[o] /\ tail'[o] = tail[o] /\ remain'[o] = remain[o] /\ seq'[o] = seq[o]
    /\ \A x \in Members(t, remain[o]) : next'[x] = next[x] /\ prev'[x] = prev[x] /\ d'[x] = d[x]

\* A call that changes one list and keeps off the nodes of the other keeps both.
LEMMA OneListChanges ==
  ASSUME ListTypeOK', NEW l \in {1, 2}, NEW o \in {1, 2}, l # o, NEW s, NEW t, NEW u,
         Pair(l, o, s, t), Aside(o, t),
         ListIs(u, remain'[l], head'[l], tail'[l], next', prev', d', seq'[l]),
         Owned(Members(u, remain'[l]), Members(t, remain[o]), live', unlinked'),
         Place(u, remain'[l], l, look', owner', pos'),
         Place(t, remain[o], o, look', owner', pos'),
         owner' = 0 => look' = Nil /\ pos' = 0
  PROVE  ListKept'
<1>1. ListIs(t, remain[o], head[o], tail[o], next, prev, d, seq[o])
  BY DEF Pair
<1>2. ListIs(t, remain[o], head[o], tail[o], next', prev', d', seq[o])
  BY <1>1, ListSame DEF Aside
<1>3. head'[o] = head[o] /\ tail'[o] = tail[o] /\ remain'[o] = remain[o] /\ seq'[o] = seq[o]
  BY DEF Aside
<1>4. PairAfter(l, o, u, t)
  BY <1>2, <1>3 DEF PairAfter
<1> QED
  BY <1>4, PairKept

\* The data of two chains hung on one another.
LEMMA ListDataJoin ==
  ASSUME NEW L \in Nat, NEW M \in Nat, NEW s, NEW t, NEW dd, NEW x, NEW y, NEW z,
         x = DataAs(s, L, dd), y = DataAs(t, M, dd), z = DataAs(Joined(s, L, t, M), L + M, dd)
  PROVE  x \o y = z
<1>1. Spans(x, L) /\ Spans(y, M) /\ Spans(z, L + M)
  BY DEF Spans, DataAs
<1>2. (\A i \in 1..L : x[i] = dd[s[i]]) /\ (\A i \in 1..M : y[i] = dd[t[i]])
      /\ \A i \in 1..(L + M) : z[i] = dd[Joined(s, L, t, M)[i]]
  BY DEF DataAs
<1>3. (\A i \in 1..L : Joined(s, L, t, M)[i] = s[i]) /\ (\A i \in 1..M : Joined(s, L, t, M)[L + i] = t[i])
  BY JoinedElements
<1>4. (\A i \in 1..L : i \in 1..(L + M)) /\ (\A i \in 1..M : L + i \in 1..(L + M))
  OBVIOUS
<1>5. (\A i \in 1..L : z[i] = x[i]) /\ (\A i \in 1..M : z[L + i] = y[i])
  BY ONLY <1>2, <1>3, <1>4
<1> QED
  BY ONLY <1>1, <1>5, ConcatIs

\* The ends of two chains hung on one another.
EndsAre(s, L, t, M, h, tl, nx, pv) ==
    /\ L > 0 => h = s[1] /\ pv[s[1]] = Nil
    /\ L = 0 /\ M > 0 => h = t[1] /\ pv[t[1]] = Nil
    /\ M > 0 => tl = t[M] /\ nx[t[M]] = Nil
    /\ M = 0 /\ L > 0 => tl = s[L] /\ nx[s[L]] = Nil
    /\ L = 0 /\ M = 0 => h = Nil /\ tl = Nil

DataHung(e, s, L, t, M, dd) == e = DataAs(s, L, dd) \o DataAs(t, M, dd)

\* Two chains hung on one another are a list when the pointers at the ends and where
\* they meet say so.
LEMMA ListJoin ==
  ASSUME NEW L \in Nat, NEW M \in Nat, NEW s, NEW t, NEW nx, NEW pv, NEW dd, NEW h, NEW tl, NEW e,
         Run(s, L, Node, nx, pv), Run(t, M, Node, nx, pv), Members(s, L) \cap Members(t, M) = {},
         Meet(s, L, t, M, nx, pv),
         EndsAre(s, L, t, M, h, tl, nx, pv),
         DataHung(e, s, L, t, M, dd)
  PROVE  /\ ListIs(Joined(s, L, t, M), L + M, h, tl, nx, pv, dd, e)
         /\ Members(Joined(s, L, t, M), L + M) = Members(s, L) \cup Members(t, M)
<1> DEFINE u == Joined(s, L, t, M)
<1>1. Run(u, L + M, Node, nx, pv) /\ Members(u, L + M) = Members(s, L) \cup Members(t, M)
  BY ONLY L \in Nat, M \in Nat, Run(s, L, Node, nx, pv), Run(t, M, Node, nx, pv),
          Members(s, L) \cap Members(t, M) = {}, Meet(s, L, t, M, nx, pv), RunJoin
<1>2. /\ \A i \in 1..L : u[i] = s[i]
      /\ \A i \in 1..M : u[L + i] = t[i]
  BY JoinedElements
<1>3. e = DataAs(u, L + M, dd)
  <2>1. PICK x : x = DataAs(s, L, dd)
    OBVIOUS
  <2>2. PICK y : y = DataAs(t, M, dd)
    OBVIOUS
  <2>3. PICK z : z = DataAs(Joined(s, L, t, M), L + M, dd)
    OBVIOUS
  <2>4. x \o y = z
    BY ONLY L \in Nat, M \in Nat, <2>1, <2>2, <2>3, ListDataJoin
  <2> QED
    BY <2>1, <2>2, <2>3, <2>4 DEF DataHung
<1>0. /\ L > 0 => h = s[1] /\ pv[s[1]] = Nil
      /\ L = 0 /\ M > 0 => h = t[1] /\ pv[t[1]] = Nil
      /\ M > 0 => tl = t[M] /\ nx[t[M]] = Nil
      /\ M = 0 /\ L > 0 => tl = s[L] /\ nx[s[L]] = Nil
      /\ L = 0 /\ M = 0 => h = Nil /\ tl = Nil
  BY DEF EndsAre
<1> HIDE DEF u
<1>4. L + M > 0 => h = u[1] /\ pv[u[1]] = Nil
  <2>1. CASE L > 0
    <3>1. 1 \in 1..L
      BY <2>1
    <3> QED
      BY <1>0, <1>2, <2>1, <3>1
  <2>2. CASE L = 0 /\ M > 0
    <3>1. 1 \in 1..M /\ L + 1 = 1
      BY <2>2
    <3>2. u[1] = t[1]
      BY <1>2, <3>1
    <3> QED
      BY <1>0, <2>2, <3>2
  <2> QED
    BY <2>1, <2>2
<1>5. L + M > 0 => tl = u[L + M] /\ nx[u[L + M]] = Nil
  <2>1. CASE M > 0
    <3>1. M \in 1..M
      BY <2>1
    <3>2. u[L + M] = t[M]
      BY <1>2, <3>1
    <3> QED
      BY <1>0, <2>1, <3>2
  <2>2. CASE M = 0 /\ L > 0
    <3>1. L \in 1..L /\ L + M = L
      BY <2>2
    <3>2. u[L + M] = s[L]
      BY <1>2, <3>1
    <3> QED
      BY <1>0, <2>2, <3>2
  <2> QED
    BY <2>1, <2>2
<1>6. L + M = 0 => h = Nil /\ tl = Nil
  BY <1>0
<1>7. ChainIs(u, L + M, h, tl, nx, pv)
  BY <1>1, <1>4, <1>5, <1>6 DEF ChainIs
<1>8. L + M \in Nat
  OBVIOUS
<1>9. ListIs(u, L + M, h, tl, nx, pv, dd, e)
  BY <1>3, <1>7, <1>8 DEF ListIs
<1> QED
  BY <1>1, <1>9 DEF u

\* A chain without the link at place p.
Without(s, L, p) == [i \in 1..(L - 1) |-> IF i < p THEN s[i] ELSE s[i + 1]]
LEMMA WithoutElements ==
  ASSUME NEW L \in Nat, NEW s, NEW p \in 1..L
  PROVE  /\ L - 1 \in Nat /\ Without(s, L, p) = [i \in 1..(L - 1) |-> Without(s, L, p)[i]]
         /\ \A i \in 1..(L - 1) : i < p => i \in 1..L /\ Without(s, L, p)[i] = s[i]
         /\ \A i \in 1..(L - 1) : i >= p => i + 1 \in 1..L /\ Without(s, L, p)[i] = s[i + 1]
<1>1. L - 1 \in Nat
  OBVIOUS
<1>2. \A i \in 1..(L - 1) : Without(s, L, p)[i] = IF i < p THEN s[i] ELSE s[i + 1]
  BY DEF Without
<1>3. Without(s, L, p) = [i \in 1..(L - 1) |-> Without(s, L, p)[i]]
  BY DEF Without
<1>4. \A i \in 1..(L - 1) : i \in 1..L /\ i + 1 \in 1..L /\ (i >= p => ~(i < p))
  OBVIOUS
<1> QED
  BY ONLY <1>1, <1>2, <1>3, <1>4

TakenOut(u, s, L, p, S) ==
    /\ u \in [1..(L - 1) -> S]
    /\ \A i, j \in 1..(L - 1) : u[i] = u[j] => i = j
    /\ Members(u, L - 1) = Members(s, L) \ {s[p]}
LEMMA WithoutMembers ==
  ASSUME NEW S, NEW L \in Nat, NEW s, NEW nx, NEW pv, Run(s, L, S, nx, pv), NEW p \in 1..L
  PROVE  TakenOut(Without(s, L, p), s, L, p, S)
<1> DEFINE u == Without(s, L, p)
<1>1. /\ L - 1 \in Nat /\ u = [i \in 1..(L - 1) |-> u[i]]
      /\ \A i \in 1..(L - 1) : i < p => i \in 1..L /\ u[i] = s[i]
      /\ \A i \in 1..(L - 1) : i >= p => i + 1 \in 1..L /\ u[i] = s[i + 1]
  BY WithoutElements
<1>a. s \in [1..L -> S] /\ \A i, j \in 1..L : s[i] = s[j] => i = j
  BY DEF Run
<1> HIDE DEF u
<1>0. \A i \in 1..(L - 1) : (i < p \/ i >= p) /\ i \in Nat
  OBVIOUS
<1>2. u \in [1..(L - 1) -> S]
  <2>1. \A i \in 1..(L - 1) : u[i] \in S
    BY <1>0, <1>1, <1>a
  <2> QED
    BY <1>1, <2>1
<1>3. \A i \in 1..(L - 1) : \E k \in 1..L : u[i] = s[k] /\ (i < p => k = i) /\ (i >= p => k = i + 1)
  <2> TAKE i \in 1..(L - 1)
  <2>1. CASE i < p
    BY <1>1, <2>1
  <2>2. CASE i >= p
    BY <1>1, <2>2
  <2> QED
    BY <1>0, <2>1, <2>2
<1>4. ASSUME NEW i \in 1..(L - 1), NEW j \in 1..(L - 1), u[i] = u[j] PROVE i = j
  <2>1. PICK k \in 1..L : u[i] = s[k] /\ (i < p => k = i) /\ (i >= p => k = i + 1)
    BY <1>3
  <2>2. PICK m \in 1..L : u[j] = s[m] /\ (j < p => m = j) /\ (j >= p => m = j + 1)
    BY <1>3
  <2>3. k = m
    BY <1>a, <1>4, <2>1, <2>2
  <2> QED
    BY <1>0, <2>1, <2>2, <2>3
<1>5. ASSUME NEW i \in 1..(L - 1) PROVE u[i] \in Members(s, L) \ {s[p]}
  <2>1. PICK k \in 1..L : u[i] = s[k] /\ (i < p => k = i) /\ (i >= p => k = i + 1)
    BY <1>3
  <2>2. k # p
    BY <1>0, <2>1
  <2> QED
    BY <1>a, <2>1, <2>2 DEF Members
<1>6. ASSUME NEW k \in 1..L, k # p PROVE \E i \in 1..(L - 1) : u[i] = s[k]
  <2>1. CASE k < p
    <3>1. k \in 1..(L - 1)
      BY <2>1
    <3> QED
      BY <1>1, <2>1, <3>1
  <2>2. CASE k > p
    <3>1. k - 1 \in 1..(L - 1) /\ k - 1 >= p /\ (k - 1) + 1 = k
      BY <2>2
    <3> QED
      BY <1>1, <3>1
  <2> QED
    BY <1>6, <2>1, <2>2
<1>7. Members(u, L - 1) = Members(s, L) \ {s[p]}
  BY <1>5, <1>6 DEF Members
<1> QED
  BY <1>2, <1>4, <1>7 DEF u, TakenOut

\* What surrounds a link of a chain.
Around(s, L, h, t, nx, pv, p) ==
    /\ s \in [1..L -> Node] /\ \A i, j \in 1..L : s[i] = s[j] => i = j
    /\ s[p] \in Node /\ h = s[1] /\ t = s[L] /\ h \in Node /\ t \in Node
    /\ p > 1 => p - 1 \in 1..L /\ pv[s[p]] = s[p - 1] /\ pv[s[p]] \in Node
    /\ p = 1 => pv[s[p]] = Nil
    /\ p < L => p + 1 \in 1..L /\ nx[s[p]] = s[p + 1] /\ nx[s[p]] \in Node
    /\ p = L => nx[s[p]] = Nil
LEMMA Neighbours ==
  ASSUME NEW s, NEW L \in Nat, NEW h, NEW t, NEW nx, NEW pv, ChainIs(s, L, h, t, nx, pv), NEW p \in 1..L
  PROVE  Around(s, L, h, t, nx, pv, p)
<1>1. /\ s \in [1..L -> Node] /\ \A i, j \in 1..L : s[i] = s[j] => i = j
      /\ \A i \in 1..L : i < L => nx[s[i]] = s[i + 1] /\ pv[s[i + 1]] = s[i]
  BY DEF ChainIs, Run
<1>2. L > 0 /\ 1 \in 1..L /\ L \in 1..L
  OBVIOUS
<1>3. h = s[1] /\ t = s[L] /\ nx[s[L]] = Nil /\ pv[s[1]] = Nil
  BY <1>2 DEF ChainIs
<1>4. p > 1 => p - 1 \in 1..L /\ p - 1 < L /\ (p - 1) + 1 = p
  OBVIOUS
<1>5. p < L => p + 1 \in 1..L
  OBVIOUS
<1>6. p > 1 => pv[s[p]] = s[p - 1]
  BY <1>1, <1>4
<1>7. p < L => nx[s[p]] = s[p + 1]
  BY <1>1
<1> QED
  BY <1>1, <1>2, <1>3, <1>4, <1>5, <1>6, <1>7 DEF Around

\* A link n of S is passed over.
Spliced(S, n, nx, pv, dd, nx2, pv2, dd2) ==
    \A x \in S : x # n =>
        /\ x = pv[n] => nx2[x] = nx[n]
        /\ x # pv[n] => nx2[x] = nx[x]
        /\ x = nx[n] => pv2[x] = pv[n]
        /\ x # nx[n] => pv2[x] = pv[x]
        /\ dd2[x] = dd[x]

PassedOver(s, L, p, nx, pv, dd, nx2, pv2, dd2) ==
    /\ \A i \in 1..L : i # p /\ i # p - 1 => nx2[s[i]] = nx[s[i]]
    /\ \A i \in 1..L : i # p /\ i # p + 1 => pv2[s[i]] = pv[s[i]]
    /\ \A i \in 1..L : i # p => dd2[s[i]] = dd[s[i]]
    /\ p > 1 => nx2[s[p - 1]] = nx[s[p]]
    /\ p < L => pv2[s[p + 1]] = pv[s[p]]
LEMMA UnlinkRun ==
  ASSUME NEW s, NEW L \in Nat, NEW h, NEW t, NEW nx, NEW pv, NEW dd, ChainIs(s, L, h, t, nx, pv),
         NEW p \in 1..L, NEW nx2, NEW pv2, NEW dd2,
         Spliced(Members(s, L), s[p], nx, pv, dd, nx2, pv2, dd2)
  PROVE  PassedOver(s, L, p, nx, pv, dd, nx2, pv2, dd2)
<1> DEFINE n == s[p]
<1>0. Nil \notin Node
  BY NodeAssumption DEF NodeAssumption
<1>1. /\ s \in [1..L -> Node] /\ \A i, j \in 1..L : s[i] = s[j] => i = j
      /\ p > 1 => p - 1 \in 1..L /\ pv[n] = s[p - 1] /\ pv[n] \in Node
      /\ p = 1 => pv[n] = Nil
      /\ p < L => p + 1 \in 1..L /\ nx[n] = s[p + 1] /\ nx[n] \in Node
      /\ p = L => nx[n] = Nil
  <2>1. Around(s, L, h, t, nx, pv, p)
    BY Neighbours
  <2> QED
    BY <2>1 DEF Around
<1>2. ASSUME NEW i \in 1..L, i # p
      PROVE  /\ s[i] \in Members(s, L) /\ s[i] # n
             /\ (i # p - 1 => s[i] # pv[n]) /\ (i # p + 1 => s[i] # nx[n])
  <2>1. s[i] \in Members(s, L)
    BY DEF Members
  <2>2. s[i] # n
    BY <1>1, <1>2
  <2>3. i # p - 1 => s[i] # pv[n]
    <3>1. CASE p = 1
      BY <1>0, <1>1, <3>1
    <3>2. CASE p > 1
      BY <1>1, <3>2
    <3> QED
      BY <3>1, <3>2
  <2>4. i # p + 1 => s[i] # nx[n]
    <3>1. CASE p = L
      BY <1>0, <1>1, <3>1
    <3>2. CASE p < L
      BY <1>1, <3>2
    <3> QED
      BY <3>1, <3>2
  <2> QED
    BY <2>1, <2>2, <2>3, <2>4
<1>3. p > 1 => p - 1 # p /\ p - 1 \in 1..L
  OBVIOUS
<1>4. p < L => p + 1 # p /\ p + 1 \in 1..L
  OBVIOUS
<1>5. \A x \in Members(s, L) : x # n =>
        /\ x = pv[n] => nx2[x] = nx[n]
        /\ x # pv[n] => nx2[x] = nx[x]
        /\ x = nx[n] => pv2[x] = pv[n]
        /\ x # nx[n] => pv2[x] = pv[x]
        /\ dd2[x] = dd[x]
  BY DEF Spliced
<1> HIDE DEF n
<1>6. p > 1 => nx2[s[p - 1]] = nx[n]
  BY ONLY <1>1, <1>2, <1>3, <1>5
<1>7. p < L => pv2[s[p + 1]] = pv[n]
  BY ONLY <1>1, <1>2, <1>4, <1>5
<1>8. /\ \A i \in 1..L : i # p /\ i # p - 1 => nx2[s[i]] = nx[s[i]]
      /\ \A i \in 1..L : i # p /\ i # p + 1 => pv2[s[i]] = pv[s[i]]
      /\ \A i \in 1..L : i # p => dd2[s[i]] = dd[s[i]]
  BY ONLY <1>2, <1>5
<1> QED
  BY <1>6, <1>7, <1>8 DEF n, PassedOver

\* The list without the link.
LEMMA UnlinkKeepsRun ==
  ASSUME NEW s, NEW L \in Nat, NEW h, NEW t, NEW nx, NEW pv, NEW dd, ChainIs(s, L, h, t, nx, pv),
         NEW p \in 1..L, NEW nx2, NEW pv2, NEW dd2,
         Spliced(Members(s, L), s[p], nx, pv, dd, nx2, pv2, dd2)
  PROVE  Run(Without(s, L, p), L - 1, Node, nx2, pv2)
<1> DEFINE u == Without(s, L, p)
<1>1. /\ L - 1 \in Nat
      /\ \A i \in 1..(L - 1) : i < p => i \in 1..L /\ u[i] = s[i]
      /\ \A i \in 1..(L - 1) : i >= p => i + 1 \in 1..L /\ u[i] = s[i + 1]
  BY WithoutElements
<1>2. /\ s \in [1..L -> Node] /\ \A i, j \in 1..L : s[i] = s[j] => i = j
      /\ \A i \in 1..L : i < L => nx[s[i]] = s[i + 1] /\ pv[s[i + 1]] = s[i]
  BY DEF ChainIs, Run
<1>3. u \in [1..(L - 1) -> Node] /\ \A i, j \in 1..(L - 1) : u[i] = u[j] => i = j
  <2>1. Run(s, L, Node, nx, pv)
    BY DEF ChainIs
  <2>2. TakenOut(u, s, L, p, Node)
    BY <2>1, WithoutMembers
  <2> QED
    BY <2>2 DEF TakenOut
<1>4. /\ \A i \in 1..L : i # p /\ i # p - 1 => nx2[s[i]] = nx[s[i]]
      /\ \A i \in 1..L : i # p /\ i # p + 1 => pv2[s[i]] = pv[s[i]]
      /\ p > 1 => nx2[s[p - 1]] = nx[s[p]]
      /\ p < L => pv2[s[p + 1]] = pv[s[p]]
  <2>1. PassedOver(s, L, p, nx, pv, dd, nx2, pv2, dd2)
    BY UnlinkRun
  <2> QED
    BY <2>1 DEF PassedOver
<1> HIDE DEF u
<1>5. ASSUME NEW i \in 1..(L - 1), i < L - 1 PROVE nx2[u[i]] = u[i + 1] /\ pv2[u[i + 1]] = u[i]
  <2>1. CASE i < p - 1
    <3>1. /\ i < p /\ i + 1 \in 1..(L - 1) /\ i + 1 < p /\ i \in 1..L /\ i + 1 \in 1..L
          /\ i # p /\ i # p - 1 /\ i + 1 # p /\ i + 1 # p + 1 /\ i < L
      BY <1>5, <2>1
    <3>2. u[i] = s[i] /\ u[i + 1] = s[i + 1]
      BY <1>1, <3>1
    <3>3. nx2[s[i]] = nx[s[i]] /\ pv2[s[i + 1]] = pv[s[i + 1]]
      BY <1>4, <3>1
    <3> QED
      BY <1>2, <3>1, <3>2, <3>3
  <2>2. CASE i = p - 1
    <3>1. i < p /\ i + 1 \in 1..(L - 1) /\ i + 1 >= p /\ p > 1 /\ p < L /\ i + 1 = p /\ p - 1 < L /\ p - 1 \in 1..L
      BY <1>5, <2>2
    <3>2. u[i] = s[p - 1] /\ u[i + 1] = s[p + 1]
      BY <1>1, <2>2, <3>1
    <3>3. nx[s[p]] = s[p + 1] /\ pv[s[p]] = s[p - 1]
      BY <1>2, <2>2, <3>1
    <3> QED
      BY <1>4, <3>1, <3>2, <3>3
  <2>3. CASE i >= p
    <3>1. /\ i + 1 \in 1..(L - 1) /\ i + 1 >= p /\ (i + 1) + 1 \in 1..L /\ i + 1 \in 1..L /\ i + 1 < L
          /\ i + 1 # p /\ i + 1 # p - 1 /\ (i + 1) + 1 # p /\ (i + 1) + 1 # p + 1
      BY <1>5, <2>3
    <3>2. u[i] = s[i + 1] /\ u[i + 1] = s[(i + 1) + 1]
      BY <1>1, <2>3, <3>1
    <3>3. nx2[s[i + 1]] = nx[s[i + 1]] /\ pv2[s[(i + 1) + 1]] = pv[s[(i + 1) + 1]]
      BY <1>4, <3>1
    <3> QED
      BY <1>2, <3>1, <3>2, <3>3
  <2> QED
    BY <2>1, <2>2, <2>3
<1> QED
  BY <1>3, <1>5 DEF Run, u

\* The ends of the list move when the link was there.
EndsMove(n, h, t, nx, pv, h2, t2) ==
    /\ (h = n => h2 = nx[n]) /\ (h # n => h2 = h)
    /\ (t = n => t2 = pv[n]) /\ (t # n => t2 = t)

\* Head and tail after a node is taken out.
LEMMA UnlinkEnds ==
  ASSUME NEW s, NEW L \in Nat, NEW h, NEW t, NEW nx, NEW pv, NEW dd, ChainIs(s, L, h, t, nx, pv),
         NEW p \in 1..L, NEW nx2, NEW pv2, NEW dd2, NEW h2, NEW t2,
         Spliced(Members(s, L), s[p], nx, pv, dd, nx2, pv2, dd2),
         EndsMove(s[p], h, t, nx, pv, h2, t2)
  PROVE  ChainIs(Without(s, L, p), L - 1, h2, t2, nx2, pv2)
<1> DEFINE u == Without(s, L, p)
<1>1. /\ L - 1 \in Nat
      /\ \A i \in 1..(L - 1) : i < p => i \in 1..L /\ u[i] = s[i]
      /\ \A i \in 1..(L - 1) : i >= p => i + 1 \in 1..L /\ u[i] = s[i + 1]
  BY WithoutElements
<1>2. Run(u, L - 1, Node, nx2, pv2)
  BY UnlinkKeepsRun
<1>3. /\ \A i \in 1..L : i # p /\ i # p - 1 => nx2[s[i]] = nx[s[i]]
      /\ \A i \in 1..L : i # p /\ i # p + 1 => pv2[s[i]] = pv[s[i]]
      /\ p > 1 => nx2[s[p - 1]] = nx[s[p]]
      /\ p < L => pv2[s[p + 1]] = pv[s[p]]
  <2>1. PassedOver(s, L, p, nx, pv, dd, nx2, pv2, dd2)
    BY UnlinkRun
  <2> QED
    BY <2>1 DEF PassedOver
<1>4. /\ \A i, j \in 1..L : s[i] = s[j] => i = j
      /\ h = s[1] /\ t = s[L]
      /\ p > 1 => pv[s[p]] = s[p - 1]
      /\ p = 1 => pv[s[p]] = Nil
      /\ p < L => nx[s[p]] = s[p + 1]
      /\ p = L => nx[s[p]] = Nil
  <2>1. Around(s, L, h, t, nx, pv, p)
    BY Neighbours
  <2> QED
    BY <2>1 DEF Around
<1>5. L > 0 /\ 1 \in 1..L /\ L \in 1..L
  OBVIOUS
<1>6. nx[s[L]] = Nil /\ pv[s[1]] = Nil
  BY <1>5 DEF ChainIs
<1>7. /\ (s[1] = s[p] => h2 = nx[s[p]]) /\ (s[1] # s[p] => h2 = h)
      /\ (s[L] = s[p] => t2 = pv[s[p]]) /\ (s[L] # s[p] => t2 = t)
  BY <1>4 DEF EndsMove
<1> HIDE DEF u
<1>8. L - 1 = 0 => h2 = Nil /\ t2 = Nil
  <2>1. L - 1 = 0 => p = 1 /\ p = L
    OBVIOUS
  <2> QED
    BY <1>4, <1>7, <2>1
<1>9. L - 1 > 0 => h2 = u[1] /\ pv2[u[1]] = Nil
  <2>1. CASE p = 1 /\ L - 1 > 0
    <3>1. 1 \in 1..(L - 1) /\ 1 >= p /\ p < L
      BY <2>1
    <3>2. u[1] = s[1 + 1] /\ p + 1 = 1 + 1
      BY <1>1, <2>1, <3>1
    <3>3. h2 = nx[s[p]] /\ nx[s[p]] = s[p + 1] /\ pv2[s[p + 1]] = Nil
      BY <1>3, <1>4, <1>7, <2>1, <3>1
    <3> QED
      BY <3>2, <3>3
  <2>2. CASE p > 1 /\ L - 1 > 0
    <3>1. 1 \in 1..(L - 1) /\ 1 < p /\ 1 # p /\ 1 # p + 1
      BY <2>2
    <3>2. u[1] = s[1]
      BY <1>1, <3>1
    <3>3. s[1] # s[p] /\ pv2[s[1]] = pv[s[1]]
      BY <1>3, <1>4, <1>5, <3>1
    <3> QED
      BY <1>4, <1>6, <1>7, <3>2, <3>3
  <2> QED
    BY <2>1, <2>2
<1>10. L - 1 > 0 => t2 = u[L - 1] /\ nx2[u[L - 1]] = Nil
  <2>1. CASE p = L /\ L - 1 > 0
    <3>1. L - 1 \in 1..(L - 1) /\ L - 1 < p /\ p > 1 /\ p - 1 = L - 1
      BY <2>1
    <3>2. u[L - 1] = s[p - 1]
      BY <1>1, <3>1
    <3>3. t2 = pv[s[p]] /\ pv[s[p]] = s[p - 1] /\ nx2[s[p - 1]] = Nil
      BY <1>3, <1>4, <1>7, <2>1, <3>1
    <3> QED
      BY <3>2, <3>3
  <2>2. CASE p < L /\ L - 1 > 0
    <3>1. L - 1 \in 1..(L - 1) /\ L - 1 >= p /\ L # p /\ L # p - 1 /\ (L - 1) + 1 = L
      BY <2>2
    <3>2. u[L - 1] = s[L]
      BY <1>1, <3>1
    <3>3. s[L] # s[p] /\ nx2[s[L]] = nx[s[L]]
      BY <1>3, <1>4, <1>5, <3>1
    <3> QED
      BY <1>4, <1>6, <1>7, <3>2, <3>3
  <2> QED
    BY <2>1, <2>2
<1> QED
  BY <1>2, <1>8, <1>9, <1>10 DEF ChainIs, u

\* A list with a node taken out is the list without that element.
LEMMA Unlink ==
  ASSUME NEW s, NEW L, NEW h, NEW t, NEW nx, NEW pv, NEW dd, NEW e, ListIs(s, L, h, t, nx, pv, dd, e),
         NEW p \in 1..L, NEW nx2, NEW pv2, NEW dd2, NEW h2, NEW t2, NEW n, s[p] = n,
         Spliced(Members(s, L), n, nx, pv, dd, nx2, pv2, dd2), EndsMove(n, h, t, nx, pv, h2, t2)
  PROVE  /\ ListIs(Without(s, L, p), L - 1, h2, t2, nx2, pv2, dd2, Without(e, L, p))
         /\ Members(Without(s, L, p), L - 1) = Members(s, L) \ {n}
<1> DEFINE u == Without(s, L, p)
           f == Without(e, L, p)
<1>1. L \in Nat /\ ChainIs(s, L, h, t, nx, pv) /\ e = DataAs(s, L, dd)
  BY DEF ListIs
<1>2. ChainIs(u, L - 1, h2, t2, nx2, pv2)
  BY <1>1, UnlinkEnds
<1>3. Members(u, L - 1) = Members(s, L) \ {n}
  <2>1. Run(s, L, Node, nx, pv)
    BY <1>1 DEF ChainIs
  <2>2. TakenOut(u, s, L, p, Node)
    BY <1>1, <2>1, WithoutMembers
  <2> QED
    BY <2>2 DEF TakenOut
<1>4. \A i \in 1..L : i # p => dd2[s[i]] = dd[s[i]]
  <2>1. PassedOver(s, L, p, nx, pv, dd, nx2, pv2, dd2)
    BY <1>1, UnlinkRun
  <2> QED
    BY <2>1 DEF PassedOver
<1>5. \A i \in 1..L : e[i] = dd[s[i]]
  BY <1>1 DEF DataAs
<1>6. /\ L - 1 \in Nat
      /\ \A i \in 1..(L - 1) : i < p => i \in 1..L /\ u[i] = s[i]
      /\ \A i \in 1..(L - 1) : i >= p => i + 1 \in 1..L /\ u[i] = s[i + 1]
  BY <1>1, WithoutElements
<1>7. /\ f = [i \in 1..(L - 1) |-> f[i]]
      /\ \A i \in 1..(L - 1) : i < p => f[i] = e[i]
      /\ \A i \in 1..(L - 1) : i >= p => f[i] = e[i + 1]
  BY <1>1, WithoutElements
<1> HIDE DEF u, f
<1>8. ASSUME NEW i \in 1..(L - 1) PROVE f[i] = dd2[u[i]]
  <2>1. CASE i < p
    <3>1. i # p
      BY <1>1, <2>1
    <3> QED
      BY <1>4, <1>5, <1>6, <1>7, <2>1, <3>1
  <2>2. CASE i >= p
    <3>1. i + 1 # p
      BY <1>1, <2>2
    <3> QED
      BY <1>4, <1>5, <1>6, <1>7, <2>2, <3>1
  <2> QED
    BY <1>1, <2>1, <2>2
<1>9. f = DataAs(u, L - 1, dd2)
  BY <1>7, <1>8 DEF DataAs
<1> QED
  BY <1>2, <1>3, <1>6, <1>9 DEF ListIs, u, f

\* What the sequence loses when the list loses a link: at any place, the first, the
\* last.
LEMMA RemoveAtIs ==
  ASSUME NEW L, NEW e, Spans(e, L), NEW p \in 1..L
  PROVE  List!RemoveAt(e, p) = Without(e, L, p)
<1> DEFINE x == [i \in 1..(p - 1) |-> e[i]]
           y == [i \in 1..(L - p) |-> e[i + p]]
           f == Without(e, L, p)
<1>0. L \in Nat /\ p - 1 \in Nat /\ L - p \in Nat /\ (p - 1) + (L - p) = L - 1
  BY DEF Spans
<1>1. Len(e) = L
  BY LenIs
<1>2. SubSeq(e, 1, p - 1) = x
  BY <1>0
<1>3. SubSeq(e, p + 1, L) = y
  <2>1. SubSeq(e, p + 1, L) = [i \in 1..(1 + L - (p + 1)) |-> e[i + (p + 1) - 1]]
    BY <1>0
  <2>2. 1 + L - (p + 1) = L - p /\ \A i \in 1..(L - p) : i + (p + 1) - 1 = i + p
    BY <1>0
  <2> QED
    BY <2>1, <2>2
<1>4. List!RemoveAt(e, p) = x \o y
  BY <1>1, <1>2, <1>3 DEF List!RemoveAt
<1>5. /\ f = [i \in 1..(L - 1) |-> f[i]]
      /\ \A i \in 1..(L - 1) : i < p => f[i] = e[i]
      /\ \A i \in 1..(L - 1) : i >= p => f[i] = e[i + 1]
  BY <1>0, WithoutElements
<1>6. Spans(x, p - 1) /\ Spans(y, L - p)
  BY <1>0 DEF Spans
<1>7. (\A i \in 1..(p - 1) : x[i] = e[i]) /\ (\A i \in 1..(L - p) : y[i] = e[i + p])
  OBVIOUS
<1> HIDE DEF x, y, f
<1>8. Spans(f, (p - 1) + (L - p))
  <2>1. L - 1 \in Nat
    BY <1>0
  <2> QED
    BY <1>0, <1>5, <2>1 DEF Spans
<1>9. \A i \in 1..(p - 1) : f[i] = x[i]
  <2>1. \A i \in 1..(p - 1) : i \in 1..(L - 1) /\ i < p
    BY <1>0
  <2> QED
    BY <1>5, <1>7, <2>1
<1>10. \A i \in 1..(L - p) : f[(p - 1) + i] = y[i]
  <2> TAKE i \in 1..(L - p)
  <2>1. (p - 1) + i \in 1..(L - 1) /\ (p - 1) + i >= p /\ ((p - 1) + i) + 1 = i + p
    BY <1>0
  <2>2. f[(p - 1) + i] = e[i + p]
    BY <1>5, <2>1
  <2> QED
    BY <1>7, <2>2
<1>11. x \o y = f
  BY ONLY <1>6, <1>8, <1>9, <1>10, ConcatIs
<1> QED
  BY <1>4, <1>11 DEF f

\* The tail of a sequence is the sequence without its first element.
LEMMA TailWithout ==
  ASSUME NEW L, NEW e, Spans(e, L), L > 0
  PROVE  Tail(e) = Without(e, L, 1)
<1> DEFINE f == Without(e, L, 1)
<1>0. L \in Nat /\ 1 \in 1..L /\ \A i \in 1..(L - 1) : i >= 1
  BY DEF Spans
<1>1. L - 1 \in Nat /\ f = [i \in 1..(L - 1) |-> f[i]] /\ \A i \in 1..(L - 1) : i >= 1 => f[i] = e[i + 1]
  BY <1>0, WithoutElements
<1> HIDE DEF f
<1>2. Spans(f, L - 1) /\ \A i \in 1..(L - 1) : f[i] = e[i + 1]
  BY <1>0, <1>1 DEF Spans
<1>3. Tail(e) = f
  BY <1>2, TailIs
<1> QED
  BY <1>3 DEF f

\* The front of a sequence is the sequence without its last element.
LEMMA FrontWithout ==
  ASSUME NEW L, NEW e, Spans(e, L), L > 0
  PROVE  List!Front(e) = Without(e, L, L)
<1> DEFINE f == Without(e, L, L)
<1>0. L \in Nat /\ L \in 1..L /\ L - 1 \in Nat /\ \A i \in 1..(L - 1) : i < L
  BY DEF Spans
<1>1. f = [i \in 1..(L - 1) |-> f[i]] /\ \A i \in 1..(L - 1) : i < L => f[i] = e[i]
  BY <1>0, WithoutElements
<1>2. Len(e) = L
  BY LenIs
<1>3. SubSeq(e, 1, L - 1) = [i \in 1..(L - 1) |-> e[i]]
  BY <1>0
<1> HIDE DEF f
<1>4. f = [i \in 1..(L - 1) |-> e[i]]
  BY <1>0, <1>1
<1> QED
  BY <1>2, <1>3, <1>4 DEF List!Front, f

\* A chain seen from its other end.
Flip(s, L) == [i \in 1..L |-> s[(L - i) + 1]]
LEMMA FlipThread ==
  ASSUME NEW s, NEW L \in Nat, NEW h, NEW t, NEW nx, NEW pv, ChainIs(s, L, h, t, nx, pv)
  PROVE  IsThread(Flip(s, L), L, Node, t, pv, Nil)
<1> DEFINE f == Flip(s, L)
<1>1. /\ s \in [1..L -> Node] /\ \A i, j \in 1..L : s[i] = s[j] => i = j
      /\ \A i \in 1..L : i < L => nx[s[i]] = s[i + 1] /\ pv[s[i + 1]] = s[i]
      /\ L = 0 => h = Nil /\ t = Nil
      /\ L > 0 => h = s[1] /\ t = s[L] /\ nx[s[L]] = Nil /\ pv[s[1]] = Nil
  BY DEF ChainIs, Run
<1>2. \A i \in 1..L : (L - i) + 1 \in 1..L /\ f[i] = s[(L - i) + 1]
  BY DEF Flip
<1>3. f = [i \in 1..L |-> f[i]]
  BY DEF Flip
<1> HIDE DEF f
<1>4. f \in [1..L -> Node]
  BY <1>1, <1>2, <1>3
<1>5. ASSUME NEW i \in 1..L, NEW j \in 1..L, f[i] = f[j] PROVE i = j
  <2>0. s[(L - i) + 1] = s[(L - j) + 1] /\ (L - i) + 1 \in 1..L /\ (L - j) + 1 \in 1..L
    BY <1>2, <1>5
  <2>1. (L - i) + 1 = (L - j) + 1
    BY ONLY <1>1, <2>0
  <2> QED
    BY <2>1
<1>6. ASSUME NEW i \in 1..L, i < L PROVE pv[f[i]] = f[i + 1]
  <2>1. i + 1 \in 1..L /\ (L - (i + 1)) + 1 = L - i /\ L - i \in 1..L /\ L - i < L
    BY <1>6
  <2>2. pv[s[(L - i) + 1]] = s[L - i]
    BY <1>1, <2>1
  <2>3. f[i] = s[(L - i) + 1] /\ f[i + 1] = s[L - i]
    BY <1>2, <2>1
  <2> QED
    BY <2>2, <2>3
<1>7. L > 0 => t = f[1] /\ pv[f[L]] = Nil
  <2>1. L > 0 => 1 \in 1..L /\ L \in 1..L /\ (L - 1) + 1 = L /\ (L - L) + 1 = 1
    OBVIOUS
  <2>2. L > 0 => f[1] = s[L] /\ f[L] = s[1]
    BY <1>2, <2>1
  <2> QED
    BY <1>1, <2>2
<1> QED
  BY <1>1, <1>4, <1>5, <1>6, <1>7 DEF IsThread, f

\* Walk() along next is the chain, and along prev the chain seen from the other end.
LEMMA ListSameCardinality == \A S : List!Cardinality(S) = Cardinality(S)
BY DEF List!Cardinality, Cardinality

\* The walk of the instance is the walk the lemmas are about.
LEMMA ListFollow == \A o, f, z, N : List!Follow(o, f, z, N) = Follow(o, f, z, N)
BY ListSameCardinality DEF List!Follow, Follow

\* A loop over next visits the nodes of a chain, a loop over prev visits them backwards.
LEMMA WalkIs ==
  ASSUME NEW s, NEW L \in Nat, NEW h, NEW t, NEW nx, NEW pv, ChainIs(s, L, h, t, nx, pv)
  PROVE  List!Walk(nx, h) = s /\ List!Walk(pv, t) = Flip(s, L)
<1>1. IsFiniteSet(Node) /\ Nil \notin Node
  BY NodeAssumption DEF NodeAssumption
<1>2. IsThread(s, L, Node, h, nx, Nil)
  BY DEF ChainIs, Run, IsThread
<1>3. Follow(h, nx, Nil, Cardinality(Node)) = s
  BY ONLY <1>1, <1>2, FollowIs, L \in Nat
<1>4. IsThread(Flip(s, L), L, Node, t, pv, Nil)
  BY FlipThread
<1>5. Follow(t, pv, Nil, Cardinality(Node)) = Flip(s, L)
  BY ONLY <1>1, <1>4, FollowIs, L \in Nat
<1> QED
  BY <1>3, <1>5, ListSameCardinality, ListFollow DEF List!Walk

-----------------------------------------------------------------------------
\* The parts of a list.
ListShape(s, L, h, t, nx, pv, dd, e) ==
    /\ L \in Nat /\ Run(s, L, Node, nx, pv) /\ ChainIs(s, L, h, t, nx, pv)
    /\ s \in [1..L -> Node] /\ \A i, j \in 1..L : s[i] = s[j] => i = j
    /\ L = 0 <=> h = Nil
    /\ L = 0 <=> t = Nil
    /\ L > 0 => h = s[1] /\ t = s[L] /\ nx[s[L]] = Nil /\ pv[s[1]] = Nil
    /\ L > 0 => h \in Members(s, L) /\ t \in Members(s, L)
    /\ Members(s, L) \subseteq Node /\ \A i \in 1..L : s[i] \in Members(s, L)
    /\ e = DataAs(s, L, dd) /\ Spans(e, L) /\ Len(e) = L
    /\ Nil \notin Node

\* What ListIs says of a list, in parts.
LEMMA ListParts ==
  ASSUME NEW s, NEW L, NEW h, NEW t, NEW nx, NEW pv, NEW dd, NEW e, ListIs(s, L, h, t, nx, pv, dd, e)
  PROVE  ListShape(s, L, h, t, nx, pv, dd, e)
<1>1. L \in Nat /\ ChainIs(s, L, h, t, nx, pv) /\ e = DataAs(s, L, dd)
  BY DEF ListIs
<1>2. Run(s, L, Node, nx, pv) /\ s \in [1..L -> Node] /\ \A i, j \in 1..L : s[i] = s[j] => i = j
  BY <1>1 DEF ChainIs, Run
<1>3. /\ L = 0 => h = Nil /\ t = Nil
      /\ L > 0 => h = s[1] /\ t = s[L] /\ nx[s[L]] = Nil /\ pv[s[1]] = Nil
  BY <1>1 DEF ChainIs
<1>4. Members(s, L) \subseteq Node /\ \A i \in 1..L : s[i] \in Members(s, L)
  BY <1>2 DEF Members
<1>5. L > 0 => 1 \in 1..L /\ L \in 1..L
  BY <1>1
<1>6. L > 0 => h \in Members(s, L) /\ t \in Members(s, L)
  BY <1>3, <1>4, <1>5
<1>7. Nil \notin Node
  BY NodeAssumption DEF NodeAssumption
<1>8. L = 0 \/ L > 0
  BY <1>1
<1>9. (L = 0 <=> h = Nil) /\ (L = 0 <=> t = Nil)
  BY ONLY <1>3, <1>4, <1>6, <1>7, <1>8
<1>10. Spans(e, L)
  BY <1>1 DEF DataAs, Spans
<1>11. Len(e) = L
  BY <1>10, LenIs
<1> QED
  BY <1>1, <1>2, <1>3, <1>4, <1>6, <1>7, <1>9, <1>10, <1>11 DEF ListShape

\* The parts of two lists.
PairShape(l, o, s, t) ==
    /\ ListIs(s, remain[l], head[l], tail[l], next, prev, d, seq[l])
    /\ ListShape(s, remain[l], head[l], tail[l], next, prev, d, seq[l])
    /\ ListShape(t, remain[o], head[o], tail[o], next, prev, d, seq[o])
    /\ Members(s, remain[l]) \cap Members(t, remain[o]) = {}
    /\ live = unlinked \cup Members(s, remain[l]) \cup Members(t, remain[o])
    /\ unlinked \cap Members(s, remain[l]) = {} /\ unlinked \cap Members(t, remain[o]) = {}
    /\ tail[l] \notin Members(t, remain[o]) /\ head[l] \notin Members(t, remain[o])
    /\ Place(s, remain[l], l, look, owner, pos) /\ Place(t, remain[o], o, look, owner, pos)
    /\ owner = 0 => look = Nil /\ pos = 0
LEMMA PairParts ==
  ASSUME NEW l, NEW o, NEW s, NEW t, Pair(l, o, s, t)
  PROVE  PairShape(l, o, s, t)
<1>1. /\ ListIs(s, remain[l], head[l], tail[l], next, prev, d, seq[l])
      /\ ListIs(t, remain[o], head[o], tail[o], next, prev, d, seq[o])
      /\ Owned(Members(s, remain[l]), Members(t, remain[o]), live, unlinked)
      /\ Place(s, remain[l], l, look, owner, pos) /\ Place(t, remain[o], o, look, owner, pos)
      /\ owner = 0 => look = Nil /\ pos = 0
  BY DEF Pair
<1>2. /\ ListShape(s, remain[l], head[l], tail[l], next, prev, d, seq[l])
      /\ ListShape(t, remain[o], head[o], tail[o], next, prev, d, seq[o])
  BY <1>1, ListParts
<1>3. /\ Members(s, remain[l]) \cap Members(t, remain[o]) = {}
      /\ live = unlinked \cup Members(s, remain[l]) \cup Members(t, remain[o])
      /\ unlinked \cap Members(s, remain[l]) = {} /\ unlinked \cap Members(t, remain[o]) = {}
  BY <1>1 DEF Owned
<1>4. tail[l] \notin Members(t, remain[o]) /\ head[l] \notin Members(t, remain[o])
  <2>1. /\ remain[l] \in Nat /\ (remain[l] = 0 => head[l] = Nil /\ tail[l] = Nil)
        /\ (remain[l] > 0 => head[l] \in Members(s, remain[l]) /\ tail[l] \in Members(s, remain[l]))
    BY <1>2 DEF ListShape
  <2>2. Members(t, remain[o]) \subseteq Node /\ Nil \notin Node
    BY <1>2 DEF ListShape
  <2>3. remain[l] = 0 \/ remain[l] > 0
    BY <2>1
  <2> QED
    BY ONLY <1>3, <2>1, <2>2, <2>3
<1> QED
  BY <1>1, <1>2, <1>3, <1>4 DEF PairShape

\* malloc() hands out a link that is not allocated.
LEMMA NewNodeIs ==
  ASSUME live \in SUBSET Node, NEW n \in List!NewNode
  PROVE  n \in Node /\ n \notin live
<1>1. live # Node /\ n = List!Min(Node \ live)
  BY DEF List!NewNode
<1>2. Node \ live \in SUBSET Nat /\ Node \ live # {}
  BY <1>1, NodeAssumption DEF NodeAssumption
<1>3. \E x \in Node \ live : \A y \in Node \ live : x <= y
  BY <1>2, LeastExists
<1>4. List!Min(Node \ live) \in Node \ live
  BY <1>3 DEF List!Min
<1> QED
  BY <1>1, <1>4

\* addToTail() and addEmptyTail().
LEMMA AddToTailKeeps ==
  ASSUME ListKept, NEW l \in {1, 2}, NEW v \in ListData, List!AddToTail(l, v)
  PROVE  ListKept'
<1>1. PICK o \in {1, 2} : o # l
  OBVIOUS
<1>2. ListTypeOK
  BY DEF ListKept
<1>3. PICK s, t : Pair(l, o, s, t)
  BY <1>1, PairBefore
<1>4. PICK n \in List!NewNode :
          /\ live' = live \cup {n}
          /\ d' = [d EXCEPT ![n] = v]
          /\ next' = [x \in Node |-> IF x = n THEN Nil ELSE IF x = tail[l] THEN n ELSE next[x]]
          /\ prev' = [prev EXCEPT ![n] = tail[l]]
          /\ tail' = [tail EXCEPT ![l] = n]
          /\ head' = [head EXCEPT ![l] = IF head[l] = Nil THEN n ELSE head[l]]
  BY DEF List!AddToTail
<1>5. /\ remain' = [remain EXCEPT ![l] = remain[l] + 1] /\ seq' = [seq EXCEPT ![l] = Append(seq[l], v)]
      /\ enabled' = enabled /\ unlinked' = unlinked /\ look' = look /\ owner' = owner /\ pos' = pos
  BY DEF List!AddToTail, List!iterVars
<1>6. n \in Node /\ n \notin live
  BY <1>2, NewNodeIs DEF ListTypeOK
<1> DEFINE L == remain[l]
           M == remain[o]
           w == One(n)
           u == Joined(s, L, w, 1)
<1>7. PairShape(l, o, s, t)
  BY <1>3, PairParts
<1>8. ListTypeOK'
  <2>1. /\ d' \in [Node -> ListData]
        /\ next' \in [Node -> Node \cup {Nil}] /\ prev' \in [Node -> Node \cup {Nil}]
    BY <1>2, <1>4, <1>6 DEF ListTypeOK
  <2>2. head' \in [{1, 2} -> Node \cup {Nil}] /\ tail' \in [{1, 2} -> Node \cup {Nil}]
    BY <1>2, <1>4, <1>6 DEF ListTypeOK
  <2>3. remain' \in [{1, 2} -> Nat] /\ live' \in SUBSET Node /\ unlinked' \in SUBSET Node
    BY <1>2, <1>4, <1>5, <1>6 DEF ListTypeOK
  <2>4. seq' = [x \in {1, 2} |-> seq'[x]]
    BY <1>2, <1>5 DEF ListTypeOK
  <2> QED
    BY <1>2, <1>5, <2>1, <2>2, <2>3, <2>4 DEF ListTypeOK
<1>9. /\ remain'[l] = L + 1 /\ remain'[o] = M /\ head'[o] = head[o] /\ tail'[o] = tail[o] /\ seq'[o] = seq[o]
      /\ tail'[l] = n /\ (head[l] = Nil => head'[l] = n) /\ (head[l] # Nil => head'[l] = head[l])
      /\ seq'[l] = Append(seq[l], v)
  BY <1>1, <1>2, <1>4, <1>5 DEF ListTypeOK
<1>10. /\ d'[n] = v /\ prev'[n] = tail[l] /\ next'[n] = Nil
       /\ \A x \in Node : x # n =>
             /\ d'[x] = d[x] /\ prev'[x] = prev[x]
             /\ (x = tail[l] => next'[x] = n) /\ (x # tail[l] => next'[x] = next[x])
  BY <1>2, <1>4, <1>6 DEF ListTypeOK
<1>11. ListShape(s, L, head[l], tail[l], next, prev, d, seq[l])
  BY <1>7 DEF PairShape
<1>12. n \notin Members(s, L) /\ n \notin Members(t, M) /\ Members(s, L) \subseteq Node /\ Members(t, M) \subseteq Node
  BY <1>6, <1>7 DEF PairShape, ListShape
<1>13. Run(w, 1, Node, next', prev') /\ Members(w, 1) = {n} /\ w[1] = n
  BY <1>6, RunOne
<1> HIDE DEF L, M, w
<1>14. /\ L \in Nat /\ Run(s, L, Node, next, prev) /\ s \in [1..L -> Node]
       /\ \A i, j \in 1..L : s[i] = s[j] => i = j
       /\ (L = 0 <=> head[l] = Nil) /\ (L = 0 <=> tail[l] = Nil)
       /\ L > 0 => head[l] = s[1] /\ tail[l] = s[L] /\ next[s[L]] = Nil /\ prev[s[1]] = Nil
       /\ \A i \in 1..L : s[i] \in Members(s, L)
       /\ seq[l] = DataAs(s, L, d) /\ Spans(seq[l], L)
  BY <1>11 DEF ListShape
<1>15. \A i \in 1..L : s[i] \in Node /\ s[i] # n /\ (i < L => s[i] # tail[l])
  <2>1. \A i \in 1..L : i < L => L \in 1..L /\ i # L /\ L > 0
    BY <1>14
  <2> QED
    BY <1>12, <1>14, <2>1
<1>16. Run(s, L, Node, next', prev')
  <2>1. \A i \in 1..L : i < L => i + 1 \in 1..L
    BY <1>14
  <2>2. \A i \in 1..L : i < L => next'[s[i]] = next[s[i]] /\ prev'[s[i + 1]] = prev[s[i + 1]]
    BY <1>10, <1>15, <2>1
  <2> QED
    BY <1>14, <2>2, RunSame
<1>17. L > 0 => 1 \in 1..L /\ L \in 1..L
  BY <1>14
<1>18. Meet(s, L, w, 1, next', prev')
  BY <1>10, <1>13, <1>14, <1>15, <1>17 DEF Meet
<1>19. L > 0 => head'[l] = s[1] /\ prev'[s[1]] = Nil
  BY <1>9, <1>10, <1>14, <1>15, <1>17
<1>20. L = 0 => head'[l] = w[1] /\ prev'[w[1]] = Nil
  BY <1>9, <1>10, <1>13, <1>14
<1>21. tail'[l] = w[1] /\ next'[w[1]] = Nil
  BY <1>9, <1>10, <1>13
<1>22. DataHung(seq'[l], s, L, w, 1, d')
  <2>1. seq[l] = DataAs(s, L, d')
    BY <1>10, <1>14, <1>15 DEF DataAs
  <2>2. PICK y : y = DataAs(w, 1, d')
    OBVIOUS
  <2>3. Spans(y, 1) /\ y[1] = v
    BY <1>10, <1>13, <2>2 DEF DataAs, Spans
  <2>4. Append(seq[l], v) = seq[l] \o y
    BY <1>14, <2>3, AppendOne
  <2> QED
    BY <1>9, <2>1, <2>2, <2>4 DEF DataHung
<1>23. Members(s, L) \cap Members(w, 1) = {}
  BY <1>12, <1>13
<1>24. ListIs(u, L + 1, head'[l], tail'[l], next', prev', d', seq'[l]) /\ Members(u, L + 1) = Members(s, L) \cup Members(w, 1)
  <2>1. EndsAre(s, L, w, 1, head'[l], tail'[l], next', prev')
    BY <1>19, <1>20, <1>21 DEF EndsAre
  <2>2. L \in Nat /\ 1 \in Nat
    BY <1>14
  <2>3. Run(w, 1, Node, next', prev')
    BY <1>13
  <2> HIDE DEF u
  <2>4. /\ ListIs(Joined(s, L, w, 1), L + 1, head'[l], tail'[l], next', prev', d', seq'[l])
        /\ Members(Joined(s, L, w, 1), L + 1) = Members(s, L) \cup Members(w, 1)
    BY ONLY <1>16, <1>18, <1>22, <1>23, <2>1, <2>2, <2>3, ListJoin
  <2> QED
    BY <2>4 DEF u
<1>25. Aside(o, t)
  BY <1>7, <1>9, <1>10, <1>12 DEF Aside, PairShape, M
<1>26. Owned(Members(u, L + 1), Members(t, M), live', unlinked')
  BY <1>4, <1>5, <1>6, <1>7, <1>12, <1>13, <1>24 DEF Owned, PairShape, L, M
<1>27. Place(u, L + 1, l, look', owner', pos')
  <2>1. \A i \in 1..L : u[i] = s[i]
    BY <1>14, JoinedOne DEF w
  <2>2. owner = l => pos \in 0..L /\ (pos = 0 => look = Nil) /\ (pos > 0 => look = s[pos])
    BY <1>7 DEF PairShape, Place, L
  <2>3. pos \in 0..L => pos \in 0..(L + 1) /\ (pos > 0 => pos \in 1..L)
    BY <1>14
  <2> HIDE DEF u
  <2> QED
    BY <1>5, <2>1, <2>2, <2>3 DEF Place
<1>28. Place(t, M, o, look', owner', pos') /\ (owner' = 0 => look' = Nil /\ pos' = 0)
  BY <1>5, <1>7 DEF PairShape, M
<1> QED
  BY <1>1, <1>3, <1>8, <1>9, <1>24, <1>25, <1>26, <1>27, <1>28, OneListChanges DEF M

\* addToHead(): the new node comes before the first.
LEMMA ListAddToHeadKeeps ==
  ASSUME ListKept, NEW l \in {1, 2}, NEW v \in ListData, List!AddToHead(l, v)
  PROVE  ListKept'
<1>1. PICK o \in {1, 2} : o # l
  OBVIOUS
<1>2. ListTypeOK
  BY DEF ListKept
<1>3. PICK s, t : Pair(l, o, s, t)
  BY <1>1, PairBefore
<1>4. PICK n \in List!NewNode :
          /\ live' = live \cup {n}
          /\ d' = [d EXCEPT ![n] = v]
          /\ next' = [next EXCEPT ![n] = head[l]]
          /\ prev' = [x \in Node |-> IF x = n THEN Nil ELSE IF x = head[l] THEN n ELSE prev[x]]
          /\ head' = [head EXCEPT ![l] = n]
          /\ tail' = [tail EXCEPT ![l] = IF tail[l] = Nil THEN n ELSE tail[l]]
  BY DEF List!AddToHead
<1>5. /\ remain' = [remain EXCEPT ![l] = remain[l] + 1] /\ seq' = [seq EXCEPT ![l] = <<v>> \o seq[l]]
      /\ enabled' = enabled /\ unlinked' = unlinked /\ look' = look /\ owner' = owner
      /\ pos' = IF owner = l /\ pos > 0 THEN pos + 1 ELSE pos
  BY DEF List!AddToHead
<1>6. n \in Node /\ n \notin live
  BY <1>2, NewNodeIs DEF ListTypeOK
<1> DEFINE L == remain[l]
           M == remain[o]
           w == One(n)
           u == Joined(w, 1, s, L)
<1>7. PairShape(l, o, s, t)
  BY <1>3, PairParts
<1>8. ListTypeOK'
  <2>1. /\ d' \in [Node -> ListData]
        /\ next' \in [Node -> Node \cup {Nil}] /\ prev' \in [Node -> Node \cup {Nil}]
    BY <1>2, <1>4, <1>6 DEF ListTypeOK
  <2>2. head' \in [{1, 2} -> Node \cup {Nil}] /\ tail' \in [{1, 2} -> Node \cup {Nil}]
    BY <1>2, <1>4, <1>6 DEF ListTypeOK
  <2>3. remain' \in [{1, 2} -> Nat] /\ live' \in SUBSET Node /\ unlinked' \in SUBSET Node /\ pos' \in Nat
    BY <1>2, <1>4, <1>5, <1>6 DEF ListTypeOK
  <2>4. seq' = [x \in {1, 2} |-> seq'[x]]
    BY <1>2, <1>5 DEF ListTypeOK
  <2> QED
    BY <1>2, <1>5, <2>1, <2>2, <2>3, <2>4 DEF ListTypeOK
<1>9. /\ remain'[l] = L + 1 /\ remain'[o] = M /\ head'[o] = head[o] /\ tail'[o] = tail[o] /\ seq'[o] = seq[o]
      /\ head'[l] = n /\ (tail[l] = Nil => tail'[l] = n) /\ (tail[l] # Nil => tail'[l] = tail[l])
      /\ seq'[l] = <<v>> \o seq[l]
  BY <1>1, <1>2, <1>4, <1>5 DEF ListTypeOK
<1>10. /\ d'[n] = v /\ prev'[n] = Nil /\ next'[n] = head[l]
       /\ \A x \in Node : x # n =>
             /\ d'[x] = d[x] /\ next'[x] = next[x]
             /\ (x = head[l] => prev'[x] = n) /\ (x # head[l] => prev'[x] = prev[x])
  BY <1>2, <1>4, <1>6 DEF ListTypeOK
<1>11. ListShape(s, L, head[l], tail[l], next, prev, d, seq[l])
  BY <1>7 DEF PairShape
<1>12. n \notin Members(s, L) /\ n \notin Members(t, M) /\ Members(s, L) \subseteq Node /\ Members(t, M) \subseteq Node
  BY <1>6, <1>7 DEF PairShape, ListShape
<1>13. Run(w, 1, Node, next', prev') /\ Members(w, 1) = {n} /\ w[1] = n
  BY <1>6, RunOne
<1> HIDE DEF L, M, w
<1>14. /\ L \in Nat /\ Run(s, L, Node, next, prev) /\ s \in [1..L -> Node]
       /\ \A i, j \in 1..L : s[i] = s[j] => i = j
       /\ (L = 0 <=> head[l] = Nil) /\ (L = 0 <=> tail[l] = Nil)
       /\ L > 0 => head[l] = s[1] /\ tail[l] = s[L] /\ next[s[L]] = Nil /\ prev[s[1]] = Nil
       /\ \A i \in 1..L : s[i] \in Members(s, L)
       /\ seq[l] = DataAs(s, L, d) /\ Spans(seq[l], L)
  BY <1>11 DEF ListShape
<1>15. \A i \in 1..L : s[i] \in Node /\ s[i] # n /\ (i > 1 => s[i] # head[l])
  <2>1. \A i \in 1..L : i > 1 => 1 \in 1..L /\ i # 1 /\ L > 0
    BY <1>14
  <2> QED
    BY <1>12, <1>14, <2>1
<1>16. Run(s, L, Node, next', prev')
  <2>1. \A i \in 1..L : i < L => i + 1 \in 1..L /\ i + 1 > 1
    BY <1>14
  <2>2. \A i \in 1..L : i < L => next'[s[i]] = next[s[i]] /\ prev'[s[i + 1]] = prev[s[i + 1]]
    BY <1>10, <1>15, <2>1
  <2> QED
    BY <1>14, <2>2, RunSame
<1>17. L > 0 => 1 \in 1..L /\ L \in 1..L
  BY <1>14
<1>18. Meet(w, 1, s, L, next', prev')
  BY <1>10, <1>13, <1>14, <1>15, <1>17 DEF Meet
<1>19. head'[l] = w[1] /\ prev'[w[1]] = Nil
  BY <1>9, <1>10, <1>13
<1>20. L > 0 => tail'[l] = s[L] /\ next'[s[L]] = Nil
  BY <1>9, <1>10, <1>14, <1>15, <1>17
<1>21. L = 0 => tail'[l] = w[1] /\ next'[w[1]] = Nil
  BY <1>9, <1>10, <1>13, <1>14
<1>22. DataHung(seq'[l], w, 1, s, L, d')
  <2>1. seq[l] = DataAs(s, L, d')
    BY <1>10, <1>14, <1>15 DEF DataAs
  <2>2. DataAs(w, 1, d') = <<v>>
    BY <1>10, <1>13 DEF DataAs
  <2> QED
    BY <1>9, <2>1, <2>2 DEF DataHung
<1>23. Members(w, 1) \cap Members(s, L) = {}
  BY <1>12, <1>13
<1>24. ListIs(u, L + 1, head'[l], tail'[l], next', prev', d', seq'[l]) /\ Members(u, L + 1) = Members(s, L) \cup Members(w, 1)
  <2>1. EndsAre(w, 1, s, L, head'[l], tail'[l], next', prev')
    BY <1>19, <1>20, <1>21 DEF EndsAre
  <2>2. L \in Nat /\ 1 \in Nat /\ 1 + L = L + 1
    BY <1>14
  <2>3. Run(w, 1, Node, next', prev')
    BY <1>13
  <2> HIDE DEF u
  <2>4. /\ ListIs(Joined(w, 1, s, L), 1 + L, head'[l], tail'[l], next', prev', d', seq'[l])
        /\ Members(Joined(w, 1, s, L), 1 + L) = Members(w, 1) \cup Members(s, L)
    BY ONLY <1>16, <1>18, <1>22, <1>23, <2>1, <2>2, <2>3, ListJoin
  <2> QED
    BY <2>2, <2>4 DEF u
<1>25. Aside(o, t)
  BY <1>7, <1>9, <1>10, <1>12 DEF Aside, PairShape, M
<1>26. Owned(Members(u, L + 1), Members(t, M), live', unlinked')
  BY <1>4, <1>5, <1>6, <1>7, <1>12, <1>13, <1>24 DEF Owned, PairShape, L, M
<1>27. Place(u, L + 1, l, look', owner', pos')
  <2>1. \A i \in 1..L : u[i + 1] = s[i]
    BY <1>14, OneJoined DEF w
  <2>2. owner = l => pos \in 0..L /\ (pos = 0 => look = Nil) /\ (pos > 0 => look = s[pos])
    BY <1>7 DEF PairShape, Place, L
  <2>3. pos \in 0..L => (pos = 0 => pos \in 0..(L + 1)) /\ (pos > 0 => pos \in 1..L /\ pos + 1 \in 0..(L + 1) /\ pos + 1 > 0)
    BY <1>14
  <2>4. (owner = l /\ pos > 0 => pos' = pos + 1) /\ (owner = l /\ ~(pos > 0) => pos' = pos)
    BY <1>5
  <2> HIDE DEF u
  <2>5. CASE owner = l /\ pos > 0
    <3>1. pos' = pos + 1 /\ look = u[pos + 1] /\ pos + 1 \in 0..(L + 1) /\ pos + 1 > 0
      BY <2>1, <2>2, <2>3, <2>4, <2>5
    <3> QED
      BY <1>5, <3>1 DEF Place
  <2>6. CASE owner = l /\ ~(pos > 0)
    <3>1. pos' = pos /\ pos = 0 /\ look = Nil /\ pos \in 0..(L + 1)
      BY <2>2, <2>3, <2>4, <2>6
    <3> QED
      BY <1>5, <3>1 DEF Place
  <2> QED
    BY <1>5, <2>5, <2>6 DEF Place
<1>28. Place(t, M, o, look', owner', pos') /\ (owner' = 0 => look' = Nil /\ pos' = 0)
  <2>1. owner # l => pos' = pos
    BY <1>5
  <2>2. Place(t, M, o, look, owner, pos) /\ (owner = 0 => look = Nil /\ pos = 0)
    BY <1>7 DEF PairShape, M
  <2> QED
    BY <1>1, <1>5, <2>1, <2>2 DEF Place
<1> QED
  BY <1>1, <1>3, <1>8, <1>9, <1>24, <1>25, <1>26, <1>27, <1>28, OneListChanges DEF M

\* A link is taken out of one list, and freed or left to the caller.
TakesOut(l, o, s, t, p, n) ==
    /\ s[p] = n
    /\ Spliced(Node, n, next, prev, d, next', prev', d')
    /\ EndsMove(n, head[l], tail[l], next, prev, head'[l], tail'[l])
    /\ head'[o] = head[o] /\ tail'[o] = tail[o] /\ remain'[o] = remain[o] /\ seq'[o] = seq[o]
    /\ remain'[l] = remain[l] - 1 /\ seq'[l] = Without(seq[l], remain[l], p)
    /\ \/ live' = live \ {n} /\ unlinked' = unlinked
       \/ live' = live /\ unlinked' = unlinked \cup {n}
    /\ Place(Without(s, remain[l], p), remain[l] - 1, l, look', owner', pos')
    /\ Place(t, remain[o], o, look', owner', pos')
    /\ owner' = 0 => look' = Nil /\ pos' = 0

\* A call that takes one node out of a list keeps the invariant.
LEMMA TakeOutKeeps ==
  ASSUME ListTypeOK', NEW l \in {1, 2}, NEW o \in {1, 2}, l # o, NEW s, NEW t, Pair(l, o, s, t),
         NEW p \in 1..remain[l], NEW n, TakesOut(l, o, s, t, p, n)
  PROVE  ListKept'
<1> DEFINE L == remain[l]
           M == remain[o]
           u == Without(s, L, p)
<1>1. PairShape(l, o, s, t)
  BY PairParts
<1>2. /\ s[p] = n
      /\ Spliced(Node, n, next, prev, d, next', prev', d')
      /\ EndsMove(n, head[l], tail[l], next, prev, head'[l], tail'[l])
      /\ head'[o] = head[o] /\ tail'[o] = tail[o] /\ remain'[o] = M /\ seq'[o] = seq[o]
      /\ remain'[l] = L - 1 /\ seq'[l] = Without(seq[l], L, p)
      /\ \/ live' = live \ {n} /\ unlinked' = unlinked
         \/ live' = live /\ unlinked' = unlinked \cup {n}
      /\ Place(u, L - 1, l, look', owner', pos')
      /\ Place(t, M, o, look', owner', pos')
      /\ owner' = 0 => look' = Nil /\ pos' = 0
  BY DEF TakesOut
<1>3. /\ L \in Nat /\ ChainIs(s, L, head[l], tail[l], next, prev) /\ Members(s, L) \subseteq Node
      /\ Members(t, M) \subseteq Node /\ \A i \in 1..L : s[i] \in Members(s, L)
      /\ Nil \notin Node
  BY <1>1 DEF PairShape, ListShape
<1>4. ListIs(s, L, head[l], tail[l], next, prev, d, seq[l])
  BY <1>1 DEF PairShape
<1>5. Spliced(Members(s, L), n, next, prev, d, next', prev', d')
  BY <1>2, <1>3 DEF Spliced
<1>6. n \in Members(s, L) /\ next[n] \in Members(s, L) \cup {Nil} /\ prev[n] \in Members(s, L) \cup {Nil}
  <2>1. Around(s, L, head[l], tail[l], next, prev, p)
    BY <1>3, Neighbours
  <2>2. /\ p > 1 => p - 1 \in 1..L /\ prev[s[p]] = s[p - 1]
        /\ p = 1 => prev[s[p]] = Nil
        /\ p < L => p + 1 \in 1..L /\ next[s[p]] = s[p + 1]
        /\ p = L => next[s[p]] = Nil
    BY <2>1 DEF Around
  <2>3. (p > 1 \/ p = 1) /\ (p < L \/ p = L)
    BY <1>3
  <2> HIDE DEF L
  <2> QED
    BY <1>2, <1>3, <2>2, <2>3
<1> HIDE DEF L, M, u
<1>7. ListIs(u, L - 1, head'[l], tail'[l], next', prev', d', seq'[l]) /\ Members(u, L - 1) = Members(s, L) \ {n}
  <2>1. p \in 1..L
    BY DEF L
  <2>2. /\ ListIs(Without(s, L, p), L - 1, head'[l], tail'[l], next', prev', d', Without(seq[l], L, p))
        /\ Members(Without(s, L, p), L - 1) = Members(s, L) \ {n}
    <3>1. s[p] = n /\ EndsMove(n, head[l], tail[l], next, prev, head'[l], tail'[l])
      BY <1>2
    <3> QED
      BY ONLY <1>4, <1>5, <2>1, <3>1, Unlink
  <2> QED
    BY <1>2, <2>2 DEF u
<1>8. /\ Members(s, L) \cap Members(t, M) = {}
      /\ live = unlinked \cup Members(s, L) \cup Members(t, M)
      /\ unlinked \cap Members(s, L) = {} /\ unlinked \cap Members(t, M) = {}
  BY <1>1 DEF PairShape, L, M
<1>9. Aside(o, t)
  <2>1. \A x \in Members(t, M) : x \in Node /\ x # n /\ x # next[n] /\ x # prev[n]
    BY <1>3, <1>6, <1>8
  <2> QED
    BY <1>2, <2>1 DEF Aside, Spliced, M
<1>10. Owned(Members(u, L - 1), Members(t, M), live', unlinked')
  <2>1. CASE live' = live \ {n} /\ unlinked' = unlinked
    BY <1>6, <1>7, <1>8, <2>1 DEF Owned
  <2>2. CASE live' = live /\ unlinked' = unlinked \cup {n}
    BY <1>6, <1>7, <1>8, <2>2 DEF Owned
  <2> QED
    BY <1>2, <2>1, <2>2
<1> QED
  BY <1>2, <1>7, <1>9, <1>10, OneListChanges DEF M

\* removeHead(): the first node is freed.
LEMMA RemoveHeadKeeps ==
  ASSUME ListKept, NEW l \in {1, 2}, List!RemoveHead(l)
  PROVE  ListKept'
<1>1. PICK o \in {1, 2} : o # l
  OBVIOUS
<1>2. ListTypeOK
  BY DEF ListKept
<1>3. PICK s, t : Pair(l, o, s, t)
  BY <1>1, PairBefore
<1> DEFINE n == head[l]
           L == remain[l]
<1>4. /\ owner # l /\ n # Nil
      /\ tail' = [tail EXCEPT ![l] = IF n = tail[l] THEN Nil ELSE tail[l]]
      /\ head' = [head EXCEPT ![l] = next[n]]
      /\ prev' = [x \in DOMAIN prev |-> IF x \in {n, next[n]} THEN Nil ELSE prev[x]]
      /\ next' = [x \in DOMAIN next |-> IF x \in {n} THEN Nil ELSE next[x]]
      /\ d' = [x \in DOMAIN d |-> IF x \in {n} THEN "blank" ELSE d[x]]
      /\ live' = live \ {n}
      /\ remain' = [remain EXCEPT ![l] = L - 1] /\ seq' = [seq EXCEPT ![l] = Tail(seq[l])]
      /\ unlinked' = unlinked /\ enabled' = enabled /\ look' = look /\ owner' = owner /\ pos' = pos
  BY DEF List!RemoveHead, List!NoIterOn, List!Fill, List!Blank, List!iterVars
<1>5. PairShape(l, o, s, t)
  BY <1>3, PairParts
<1>6. /\ L \in Nat /\ L > 0 /\ ChainIs(s, L, n, tail[l], next, prev) /\ Spans(seq[l], L) /\ Nil \notin Node
  <2>1. L \in Nat /\ (L = 0 <=> n = Nil) /\ ChainIs(s, L, n, tail[l], next, prev) /\ Spans(seq[l], L) /\ Nil \notin Node
    BY <1>5 DEF PairShape, ListShape
  <2> QED
    BY <1>4, <2>1
<1>7. 1 \in 1..L /\ L \in 1..L
  BY <1>6
<1>8. s[1] = n /\ n \in Node /\ prev[n] = Nil /\ (tail[l] = n => next[n] = Nil) /\ next[n] \in Node \cup {Nil}
  <2>1. Around(s, L, n, tail[l], next, prev, 1)
    BY <1>6, <1>7, Neighbours
  <2>2. /\ \A i, j \in 1..L : s[i] = s[j] => i = j
        /\ s[1] \in Node /\ n = s[1] /\ tail[l] = s[L] /\ prev[s[1]] = Nil
        /\ 1 < L => next[s[1]] \in Node
        /\ 1 = L => next[s[1]] = Nil
    BY <2>1 DEF Around
  <2>3. 1 < L \/ 1 = L
    BY <1>6
  <2> QED
    BY <1>7, <2>2, <2>3
<1> HIDE DEF n
<1>9. ListTypeOK'
  <2>1. /\ d' \in [Node -> ListData]
        /\ next' \in [Node -> Node \cup {Nil}] /\ prev' \in [Node -> Node \cup {Nil}]
    BY <1>2, <1>4 DEF ListTypeOK, ListData
  <2>2. head' \in [{1, 2} -> Node \cup {Nil}] /\ tail' \in [{1, 2} -> Node \cup {Nil}]
    BY <1>2, <1>4, <1>8 DEF ListTypeOK
  <2>3. remain' \in [{1, 2} -> Nat] /\ live' \in SUBSET Node /\ unlinked' \in SUBSET Node
    BY <1>2, <1>4, <1>6 DEF ListTypeOK
  <2>4. seq' = [x \in {1, 2} |-> seq'[x]]
    BY <1>2, <1>4 DEF ListTypeOK
  <2> QED
    BY <1>2, <1>4, <2>1, <2>2, <2>3, <2>4 DEF ListTypeOK
<1>10. Spliced(Node, n, next, prev, d, next', prev', d')
  <2>1. \A x \in Node : x # n =>
            /\ next'[x] = next[x] /\ d'[x] = d[x]
            /\ x = next[n] => prev'[x] = Nil
            /\ x # next[n] => prev'[x] = prev[x]
    BY <1>2, <1>4 DEF ListTypeOK
  <2> QED
    BY <1>6, <1>8, <2>1 DEF Spliced
<1>11. /\ head'[l] = next[n] /\ (tail[l] = n => tail'[l] = Nil) /\ (tail[l] # n => tail'[l] = tail[l])
       /\ head'[o] = head[o] /\ tail'[o] = tail[o] /\ remain'[o] = remain[o] /\ seq'[o] = seq[o]
       /\ remain'[l] = L - 1 /\ seq'[l] = Tail(seq[l])
  BY <1>1, <1>2, <1>4 DEF ListTypeOK
<1>12. EndsMove(n, head[l], tail[l], next, prev, head'[l], tail'[l])
  BY <1>8, <1>11 DEF EndsMove, n
<1>13. seq'[l] = Without(seq[l], L, 1)
  BY <1>6, <1>11, TailWithout
<1>14. /\ Place(Without(s, L, 1), L - 1, l, look', owner', pos') /\ Place(t, remain[o], o, look', owner', pos')
       /\ owner' = 0 => look' = Nil /\ pos' = 0
  BY <1>4, <1>5 DEF PairShape, Place
<1>15. TakesOut(l, o, s, t, 1, n)
  BY <1>4, <1>8, <1>10, <1>11, <1>12, <1>13, <1>14 DEF TakesOut
<1> QED
  BY <1>1, <1>3, <1>7, <1>9, <1>15, TakeOutKeeps

\* removeTail(): the last node is freed.
LEMMA RemoveTailKeeps ==
  ASSUME ListKept, NEW l \in {1, 2}, List!RemoveTail(l)
  PROVE  ListKept'
<1>1. PICK o \in {1, 2} : o # l
  OBVIOUS
<1>2. ListTypeOK
  BY DEF ListKept
<1>3. PICK s, t : Pair(l, o, s, t)
  BY <1>1, PairBefore
<1> DEFINE n == tail[l]
           L == remain[l]
<1>4. /\ owner # l /\ n # Nil
      /\ head' = [head EXCEPT ![l] = IF n = head[l] THEN Nil ELSE head[l]]
      /\ tail' = [tail EXCEPT ![l] = prev[n]]
      /\ next' = [x \in DOMAIN next |-> IF x \in {n, prev[n]} THEN Nil ELSE next[x]]
      /\ prev' = [x \in DOMAIN prev |-> IF x \in {n} THEN Nil ELSE prev[x]]
      /\ d' = [x \in DOMAIN d |-> IF x \in {n} THEN "blank" ELSE d[x]]
      /\ live' = live \ {n}
      /\ remain' = [remain EXCEPT ![l] = L - 1] /\ seq' = [seq EXCEPT ![l] = List!Front(seq[l])]
      /\ unlinked' = unlinked /\ enabled' = enabled /\ look' = look /\ owner' = owner /\ pos' = pos
  BY DEF List!RemoveTail, List!NoIterOn, List!Fill, List!Blank, List!iterVars
<1>5. PairShape(l, o, s, t)
  BY <1>3, PairParts
<1>6. /\ L \in Nat /\ L > 0 /\ ChainIs(s, L, head[l], n, next, prev) /\ Spans(seq[l], L) /\ Nil \notin Node
  <2>1. L \in Nat /\ (L = 0 <=> n = Nil) /\ ChainIs(s, L, head[l], n, next, prev) /\ Spans(seq[l], L) /\ Nil \notin Node
    BY <1>5 DEF PairShape, ListShape
  <2> QED
    BY <1>4, <2>1
<1>7. 1 \in 1..L /\ L \in 1..L
  BY <1>6
<1>8. s[L] = n /\ n \in Node /\ next[n] = Nil /\ (head[l] = n => prev[n] = Nil) /\ prev[n] \in Node \cup {Nil}
  <2>1. Around(s, L, head[l], n, next, prev, L)
    BY <1>6, <1>7, Neighbours
  <2>2. /\ \A i, j \in 1..L : s[i] = s[j] => i = j
        /\ s[L] \in Node /\ n = s[L] /\ head[l] = s[1] /\ next[s[L]] = Nil
        /\ L > 1 => prev[s[L]] \in Node
        /\ L = 1 => prev[s[L]] = Nil
    BY <2>1 DEF Around
  <2>3. L > 1 \/ L = 1
    BY <1>6
  <2> QED
    BY <1>7, <2>2, <2>3
<1> HIDE DEF n
<1>9. ListTypeOK'
  <2>1. /\ d' \in [Node -> ListData]
        /\ next' \in [Node -> Node \cup {Nil}] /\ prev' \in [Node -> Node \cup {Nil}]
    BY <1>2, <1>4 DEF ListTypeOK, ListData
  <2>2. head' \in [{1, 2} -> Node \cup {Nil}] /\ tail' \in [{1, 2} -> Node \cup {Nil}]
    BY <1>2, <1>4, <1>8 DEF ListTypeOK
  <2>3. remain' \in [{1, 2} -> Nat] /\ live' \in SUBSET Node /\ unlinked' \in SUBSET Node
    BY <1>2, <1>4, <1>6 DEF ListTypeOK
  <2>4. seq' = [x \in {1, 2} |-> seq'[x]]
    BY <1>2, <1>4 DEF ListTypeOK
  <2> QED
    BY <1>2, <1>4, <2>1, <2>2, <2>3, <2>4 DEF ListTypeOK
<1>10. Spliced(Node, n, next, prev, d, next', prev', d')
  <2>1. \A x \in Node : x # n =>
            /\ prev'[x] = prev[x] /\ d'[x] = d[x]
            /\ x = prev[n] => next'[x] = Nil
            /\ x # prev[n] => next'[x] = next[x]
    BY <1>2, <1>4 DEF ListTypeOK
  <2> QED
    BY <1>6, <1>8, <2>1 DEF Spliced
<1>11. /\ tail'[l] = prev[n] /\ (head[l] = n => head'[l] = Nil) /\ (head[l] # n => head'[l] = head[l])
       /\ head'[o] = head[o] /\ tail'[o] = tail[o] /\ remain'[o] = remain[o] /\ seq'[o] = seq[o]
       /\ remain'[l] = L - 1 /\ seq'[l] = List!Front(seq[l])
  BY <1>1, <1>2, <1>4 DEF ListTypeOK
<1>12. EndsMove(n, head[l], tail[l], next, prev, head'[l], tail'[l])
  BY <1>8, <1>11 DEF EndsMove, n
<1>13. seq'[l] = Without(seq[l], L, L)
  BY <1>6, <1>11, FrontWithout
<1>14. /\ Place(Without(s, L, L), L - 1, l, look', owner', pos') /\ Place(t, remain[o], o, look', owner', pos')
       /\ owner' = 0 => look' = Nil /\ pos' = 0
  BY <1>4, <1>5 DEF PairShape, Place
<1>15. TakesOut(l, o, s, t, L, n)
  BY <1>4, <1>8, <1>10, <1>11, <1>12, <1>13, <1>14 DEF TakesOut
<1> QED
  BY <1>1, <1>3, <1>7, <1>9, <1>15, TakeOutKeeps

\* The iterator of a list that has not ended.
LEMMA IterAt ==
  ASSUME ListKept, look # Nil
  PROVE  /\ ListTypeOK /\ owner \in {1, 2}
         /\ \E o \in {1, 2} : \E s, t :
                /\ o # owner /\ Pair(owner, o, s, t) /\ pos \in 1..remain[owner] /\ look = s[pos]
                /\ Around(s, remain[owner], head[owner], tail[owner], next, prev, pos)
<1>1. ListTypeOK /\ \E s, t : Pair(1, 2, s, t)
  BY DEF ListKept
<1>2. owner # 0
  BY <1>1 DEF Pair
<1>3. owner \in {1, 2} /\ pos \in Nat
  BY <1>1, <1>2 DEF ListTypeOK
<1>4. PICK o \in {1, 2} : o # owner
  BY <1>3
<1>5. PICK s, t : Pair(owner, o, s, t)
  BY <1>3, <1>4, PairBefore
<1>6. PairShape(owner, o, s, t)
  BY <1>5, PairParts
<1>7. /\ pos \in 0..remain[owner] /\ (pos = 0 => look = Nil) /\ (pos > 0 => look = s[pos])
      /\ remain[owner] \in Nat /\ ChainIs(s, remain[owner], head[owner], tail[owner], next, prev)
  BY <1>6 DEF PairShape, Place, ListShape
<1>8. pos \in 1..remain[owner] /\ look = s[pos]
  BY <1>7
<1>9. Around(s, remain[owner], head[owner], tail[owner], next, prev, pos)
  BY <1>7, <1>8, Neighbours
<1> QED
  BY <1>1, <1>3, <1>4, <1>5, <1>8, <1>9

\* removeLink() takes the link of the iterator out, wherever the iterator goes.
LEMMA RemoveLinkKeeps ==
  ASSUME ListTypeOK, owner \in {1, 2}, NEW o \in {1, 2}, NEW s, NEW t, o # owner, Pair(owner, o, s, t),
         pos \in 1..remain[owner], look = s[pos],
         Around(s, remain[owner], head[owner], tail[owner], next, prev, pos),
         List!RemoveLink(owner, look), seq' = [seq EXCEPT ![owner] = List!RemoveAt(seq[owner], pos)],
         owner' = owner, look' \in Node \cup {Nil}, pos' \in Nat,
         Place(Without(s, remain[owner], pos), remain[owner] - 1, owner, look', owner', pos')
  PROVE  ListKept'
<1> DEFINE l == owner
           n == look
           L == remain[owner]
           p == pos
<1>1. /\ prev' = [x \in DOMAIN prev |-> IF x \in {next[n]} THEN prev[n] ELSE prev[x]]
      /\ next' = [x \in DOMAIN next |-> IF x \in {prev[n]} THEN next[n] ELSE next[x]]
      /\ head' = [head EXCEPT ![l] = IF head[l] = n THEN next[n] ELSE head[l]]
      /\ tail' = [tail EXCEPT ![l] = IF tail[l] = n THEN prev[n] ELSE tail[l]]
      /\ remain' = [remain EXCEPT ![l] = L - 1]
      /\ unlinked' = unlinked \cup {n} /\ d' = d /\ live' = live /\ enabled' = enabled
  BY DEF List!RemoveLink, List!Fill
<1>2. PairShape(l, o, s, t)
  BY PairParts
<1>3. L \in Nat /\ Spans(seq[l], L) /\ Nil \notin Node
  BY <1>2 DEF PairShape, ListShape
<1>4. n \in Node /\ next[n] \in Node \cup {Nil} /\ prev[n] \in Node \cup {Nil}
  <2>1. n \in Node
    BY DEF Around
  <2> QED
    BY <2>1 DEF ListTypeOK
<1>5. ListTypeOK'
  <2>1. next' \in [Node -> Node \cup {Nil}] /\ prev' \in [Node -> Node \cup {Nil}]
    BY <1>1, <1>4 DEF ListTypeOK
  <2>2. head' \in [{1, 2} -> Node \cup {Nil}] /\ tail' \in [{1, 2} -> Node \cup {Nil}]
    BY <1>1, <1>4 DEF ListTypeOK
  <2>3. remain' \in [{1, 2} -> Nat] /\ live' \in SUBSET Node /\ unlinked' \in SUBSET Node
    BY <1>1, <1>3, <1>4 DEF ListTypeOK
  <2>4. seq' = [x \in {1, 2} |-> seq'[x]]
    BY DEF ListTypeOK
  <2> QED
    BY <1>1, <2>1, <2>2, <2>3, <2>4 DEF ListTypeOK
<1>6. Spliced(Node, n, next, prev, d, next', prev', d')
  BY <1>1 DEF Spliced, ListTypeOK
<1>7. /\ EndsMove(n, head[l], tail[l], next, prev, head'[l], tail'[l])
      /\ head'[o] = head[o] /\ tail'[o] = tail[o] /\ remain'[o] = remain[o] /\ seq'[o] = seq[o]
      /\ remain'[l] = L - 1 /\ seq'[l] = List!RemoveAt(seq[l], p)
  BY <1>1 DEF EndsMove, ListTypeOK
<1>8. seq'[l] = Without(seq[l], L, p)
  BY <1>3, <1>7, RemoveAtIs
<1>9. Place(t, remain[o], o, look', owner', pos') /\ (owner' = 0 => look' = Nil /\ pos' = 0)
  BY DEF Place
<1>10. TakesOut(l, o, s, t, p, n)
  BY <1>1, <1>6, <1>7, <1>8, <1>9 DEF TakesOut
<1> QED
  BY <1>5, <1>10, TakeOutKeeps

\* removeNext(): the node under the iterator goes, the iterator moves on.
LEMMA RemoveNextKeeps ==
  ASSUME ListKept, List!RemoveNext
  PROVE  ListKept'
<1>1. /\ look # Nil /\ List!RemoveLink(owner, look) /\ look' = next[look] /\ owner' = owner
      /\ pos' = IF pos < Len(seq[owner]) THEN pos ELSE 0
      /\ seq' = [seq EXCEPT ![owner] = List!RemoveAt(seq[owner], pos)]
  BY DEF List!RemoveNext
<1>2. ListTypeOK /\ owner \in {1, 2}
  BY <1>1, IterAt
<1>3. PICK o, s, t :
          /\ o \in {1, 2} /\ o # owner
          /\ Pair(owner, o, s, t) /\ pos \in 1..remain[owner] /\ look = s[pos]
          /\ Around(s, remain[owner], head[owner], tail[owner], next, prev, pos)
  BY <1>1, IterAt
<1> o \in {1, 2}
  BY <1>3
<1> DEFINE L == remain[owner]
           u == Without(s, L, pos)
<1>4. L \in Nat /\ Len(seq[owner]) = L
  BY <1>3, PairParts DEF PairShape, ListShape
<1>5. /\ pos < L => next[look] = s[pos + 1] /\ next[look] \in Node
      /\ pos = L => next[look] = Nil
  BY <1>3 DEF Around
<1> HIDE DEF L
<1>6. pos \in 1..L
  BY <1>3 DEF L
<1>7. \A i \in 1..(L - 1) : i >= pos => u[i] = s[i + 1]
  BY <1>4, <1>6, WithoutElements
<1> HIDE DEF u
<1>8. (pos < L => pos' = pos) /\ (pos = L => pos' = 0)
  BY <1>1, <1>4, <1>6
<1>9. CASE pos < L
  <2>1. pos \in 1..(L - 1) /\ pos \in 0..(L - 1) /\ pos >= pos /\ pos > 0
    BY <1>4, <1>6, <1>9
  <2>2. look' = u[pos] /\ look' \in Node /\ pos' = pos /\ pos' \in Nat
    BY <1>1, <1>5, <1>7, <1>8, <1>9, <2>1
  <2>3. Place(u, L - 1, owner, look', owner', pos')
    BY <2>1, <2>2 DEF Place
  <2> QED
    BY <1>1, <1>2, <1>3, <2>2, <2>3, RemoveLinkKeeps DEF L, u
<1>10. CASE pos = L
  <2>1. look' = Nil /\ pos' = 0 /\ 0 \in 0..(L - 1)
    BY <1>1, <1>4, <1>5, <1>6, <1>8, <1>10
  <2>2. Place(u, L - 1, owner, look', owner', pos') /\ pos' \in Nat /\ look' \in Node \cup {Nil}
    BY <2>1 DEF Place
  <2> QED
    BY <1>1, <1>2, <1>3, <2>2, RemoveLinkKeeps DEF L, u
<1> QED
  BY <1>4, <1>6, <1>9, <1>10

\* removePrev(): the node under the iterator goes, the iterator moves back.
LEMMA RemovePrevKeeps ==
  ASSUME ListKept, List!RemovePrev
  PROVE  ListKept'
<1>1. /\ look # Nil /\ List!RemoveLink(owner, look) /\ look' = prev[look] /\ owner' = owner
      /\ pos' = pos - 1
      /\ seq' = [seq EXCEPT ![owner] = List!RemoveAt(seq[owner], pos)]
  BY DEF List!RemovePrev
<1>2. ListTypeOK /\ owner \in {1, 2}
  BY <1>1, IterAt
<1>3. PICK o, s, t :
          /\ o \in {1, 2} /\ o # owner
          /\ Pair(owner, o, s, t) /\ pos \in 1..remain[owner] /\ look = s[pos]
          /\ Around(s, remain[owner], head[owner], tail[owner], next, prev, pos)
  BY <1>1, IterAt
<1> o \in {1, 2}
  BY <1>3
<1> DEFINE L == remain[owner]
           u == Without(s, L, pos)
<1>4. L \in Nat
  BY <1>3, PairParts DEF PairShape, ListShape
<1>5. /\ pos > 1 => prev[look] = s[pos - 1] /\ prev[look] \in Node
      /\ pos = 1 => prev[look] = Nil
  BY <1>3 DEF Around
<1> HIDE DEF L
<1>6. pos \in 1..L
  BY <1>3 DEF L
<1>7. \A i \in 1..(L - 1) : i < pos => u[i] = s[i]
  BY <1>4, <1>6, WithoutElements
<1> HIDE DEF u
<1>9. CASE pos > 1
  <2>1. pos - 1 \in 1..(L - 1) /\ pos - 1 \in 0..(L - 1) /\ pos - 1 < pos /\ pos - 1 > 0
    BY <1>4, <1>6, <1>9
  <2>2. look' = u[pos - 1] /\ look' \in Node /\ pos' = pos - 1 /\ pos' \in Nat
    BY <1>1, <1>5, <1>7, <1>9, <2>1
  <2>3. Place(u, L - 1, owner, look', owner', pos')
    BY <2>1, <2>2 DEF Place
  <2> QED
    BY <1>1, <1>2, <1>3, <2>2, <2>3, RemoveLinkKeeps DEF L, u
<1>10. CASE pos = 1
  <2>1. look' = Nil /\ pos' = 0 /\ 0 \in 0..(L - 1)
    BY <1>1, <1>4, <1>5, <1>6, <1>10
  <2>2. Place(u, L - 1, owner, look', owner', pos') /\ pos' \in Nat /\ look' \in Node \cup {Nil}
    BY <2>1 DEF Place
  <2> QED
    BY <1>1, <1>2, <1>3, <2>2, RemoveLinkKeeps DEF L, u
<1> QED
  BY <1>4, <1>6, <1>9, <1>10

\* A call that moves only the iterator.
OnlyIter ==
    /\ d' = d /\ next' = next /\ prev' = prev /\ live' = live /\ unlinked' = unlinked
    /\ head' = head /\ tail' = tail /\ remain' = remain /\ enabled' = enabled /\ seq' = seq

\* A call that only moves the iterator along its list keeps the invariant.
LEMMA IterMoves ==
  ASSUME ListTypeOK, NEW l \in {1, 2}, NEW o \in {1, 2}, l # o, NEW s, NEW t, Pair(l, o, s, t), OnlyIter,
         look' \in Node \cup {Nil}, pos' \in Nat, owner' = l, Place(s, remain[l], l, look', owner', pos')
  PROVE  ListKept'
<1>1. ListTypeOK'
  BY DEF ListTypeOK, OnlyIter
<1>2. Place(t, remain[o], o, look', owner', pos') /\ (owner' = 0 => look' = Nil /\ pos' = 0)
  BY DEF Place
<1>3. PairAfter(l, o, s, t)
  BY <1>2 DEF PairAfter, Pair, OnlyIter
<1> QED
  BY <1>1, <1>3, PairKept

\* startIterHead(): the iterator is at the first node.
LEMMA StartIterHeadKeeps ==
  ASSUME ListKept, NEW l \in {1, 2}, List!StartIterHead(l)
  PROVE  ListKept'
<1>1. PICK o \in {1, 2} : o # l
  OBVIOUS
<1>2. PICK s, t : Pair(l, o, s, t)
  BY <1>1, PairBefore
<1>3. /\ OnlyIter /\ look' = head[l] /\ owner' = l /\ pos' = IF seq[l] = <<>> THEN 0 ELSE 1
  BY DEF List!StartIterHead, List!linkVars, List!endVars, OnlyIter
<1>4. /\ remain[l] \in Nat /\ Spans(seq[l], remain[l]) /\ Len(seq[l]) = remain[l]
      /\ (remain[l] = 0 => head[l] = Nil) /\ (remain[l] > 0 => head[l] = s[1])
  BY <1>2, PairParts DEF PairShape, ListShape
<1>5. ListTypeOK /\ head[l] \in Node \cup {Nil}
  BY DEF ListKept, ListTypeOK
<1>6. Place(s, remain[l], l, look', owner', pos') /\ pos' \in Nat
  <2>1. CASE remain[l] = 0
    <3>1. pos' = 0
      <4>1. seq[l] = <<>>
        BY <1>4, <2>1 DEF Spans
      <4> QED
        BY <1>3, <4>1
    <3> QED
      BY <1>3, <1>4, <2>1, <3>1 DEF Place
  <2>2. CASE remain[l] > 0
    <3>1. pos' = 1
      <4>1. seq[l] # <<>>
        BY <1>4, <2>2
      <4> QED
        BY <1>3, <4>1
    <3>2. 1 \in 0..remain[l]
      BY <1>4, <2>2
    <3> QED
      BY <1>3, <1>4, <2>2, <3>1, <3>2 DEF Place
  <2> QED
    BY <1>4, <2>1, <2>2
<1> QED
  BY <1>1, <1>2, <1>3, <1>5, <1>6, IterMoves

\* startIterTail(): the iterator is at the last node.
LEMMA StartIterTailKeeps ==
  ASSUME ListKept, NEW l \in {1, 2}, List!StartIterTail(l)
  PROVE  ListKept'
<1>1. PICK o \in {1, 2} : o # l
  OBVIOUS
<1>2. PICK s, t : Pair(l, o, s, t)
  BY <1>1, PairBefore
<1>3. /\ OnlyIter /\ look' = tail[l] /\ owner' = l /\ pos' = Len(seq[l])
  BY DEF List!StartIterTail, List!linkVars, List!endVars, OnlyIter
<1>4. /\ remain[l] \in Nat /\ Len(seq[l]) = remain[l]
      /\ (remain[l] = 0 => tail[l] = Nil) /\ (remain[l] > 0 => tail[l] = s[remain[l]])
  BY <1>2, PairParts DEF PairShape, ListShape
<1>5. ListTypeOK /\ tail[l] \in Node \cup {Nil}
  BY DEF ListKept, ListTypeOK
<1>6. Place(s, remain[l], l, look', owner', pos') /\ pos' \in Nat
  BY <1>3, <1>4 DEF Place
<1> QED
  BY <1>1, <1>2, <1>3, <1>5, <1>6, IterMoves

\* releaseIter(): the iterator is nowhere.
LEMMA ListReleaseIterKeeps ==
  ASSUME ListKept, List!ReleaseIter
  PROVE  ListKept'
<1>1. PICK s, t : Pair(1, 2, s, t)
  BY DEF ListKept
<1>2. OnlyIter /\ look' = Nil /\ owner' = 0 /\ pos' = 0
  BY DEF List!ReleaseIter, List!linkVars, List!endVars, OnlyIter
<1>3. ListTypeOK'
  BY <1>2 DEF ListKept, ListTypeOK, OnlyIter
<1>4. Place(s, remain[1], 1, look', owner', pos') /\ Place(t, remain[2], 2, look', owner', pos')
  BY <1>2 DEF Place
<1>5. PairAfter(1, 2, s, t)
  BY <1>1, <1>2, <1>4 DEF PairAfter, Pair, OnlyIter
<1> QED
  BY <1>3, <1>5, PairKept

\* getNext() and getPrev().
LEMMA ListGetNextKeeps ==
  ASSUME ListKept, List!GetNext
  PROVE  ListKept'
<1>1. /\ look # Nil /\ look' = next[look] /\ owner' = owner /\ OnlyIter
      /\ pos' = IF pos < Len(seq[owner]) THEN pos + 1 ELSE 0
  BY DEF List!GetNext, List!linkVars, List!endVars, OnlyIter
<1>2. ListTypeOK /\ owner \in {1, 2}
  BY <1>1, IterAt
<1>3. PICK o, s, t :
          /\ o \in {1, 2} /\ o # owner
          /\ Pair(owner, o, s, t) /\ pos \in 1..remain[owner] /\ look = s[pos]
          /\ Around(s, remain[owner], head[owner], tail[owner], next, prev, pos)
  BY <1>1, IterAt
<1> o \in {1, 2}
  BY <1>3
<1>4. remain[owner] \in Nat /\ Len(seq[owner]) = remain[owner]
  BY <1>3, PairParts DEF PairShape, ListShape
<1>5. /\ pos < remain[owner] => next[look] = s[pos + 1] /\ next[look] \in Node
      /\ pos = remain[owner] => next[look] = Nil
  BY <1>3 DEF Around
<1>6. (pos < remain[owner] => pos' = pos + 1) /\ (pos = remain[owner] => pos' = 0)
  BY <1>1, <1>3, <1>4
<1>7. /\ pos < remain[owner] => pos + 1 \in 0..remain[owner] /\ pos + 1 > 0 /\ pos + 1 \in Nat
      /\ pos < remain[owner] \/ pos = remain[owner]
      /\ 0 \in 0..remain[owner]
  BY <1>3, <1>4
<1>8. Place(s, remain[owner], owner, look', owner', pos') /\ look' \in Node \cup {Nil} /\ pos' \in Nat
  BY <1>1, <1>5, <1>6, <1>7 DEF Place
<1> QED
  BY <1>1, <1>2, <1>3, <1>8, IterMoves

\* getPrev(): the iterator moves back.
LEMMA ListGetPrevKeeps ==
  ASSUME ListKept, List!GetPrev
  PROVE  ListKept'
<1>1. look # Nil /\ look' = prev[look] /\ owner' = owner /\ OnlyIter /\ pos' = pos - 1
  BY DEF List!GetPrev, List!linkVars, List!endVars, OnlyIter
<1>2. ListTypeOK /\ owner \in {1, 2}
  BY <1>1, IterAt
<1>3. PICK o, s, t :
          /\ o \in {1, 2} /\ o # owner
          /\ Pair(owner, o, s, t) /\ pos \in 1..remain[owner] /\ look = s[pos]
          /\ Around(s, remain[owner], head[owner], tail[owner], next, prev, pos)
  BY <1>1, IterAt
<1> o \in {1, 2}
  BY <1>3
<1>4. remain[owner] \in Nat
  BY <1>3, PairParts DEF PairShape, ListShape
<1>5. /\ pos > 1 => prev[look] = s[pos - 1] /\ prev[look] \in Node
      /\ pos = 1 => prev[look] = Nil
  BY <1>3 DEF Around
<1>7. /\ pos > 1 => pos - 1 \in 0..remain[owner] /\ pos - 1 > 0
      /\ pos = 1 => pos - 1 = 0 /\ 0 \in 0..remain[owner]
      /\ pos > 1 \/ pos = 1
      /\ pos - 1 \in Nat
  BY <1>3, <1>4
<1>8. Place(s, remain[owner], owner, look', owner', pos') /\ look' \in Node \cup {Nil} /\ pos' \in Nat
  BY <1>1, <1>5, <1>7 DEF Place
<1> QED
  BY <1>1, <1>2, <1>3, <1>8, IterMoves

\* setCurrent() and setCurrentVal().
LEMMA SetCurrentKeeps ==
  ASSUME ListKept, NEW v \in ListData, List!SetCurrent(v)
  PROVE  ListKept'
<1>1. /\ look # Nil /\ d' = [d EXCEPT ![look] = v] /\ seq' = [seq EXCEPT ![owner][pos] = v]
      /\ next' = next /\ prev' = prev /\ live' = live /\ unlinked' = unlinked
      /\ head' = head /\ tail' = tail /\ remain' = remain /\ enabled' = enabled
      /\ look' = look /\ owner' = owner /\ pos' = pos
  BY DEF List!SetCurrent, List!endVars, List!iterVars
<1>2. ListTypeOK /\ owner \in {1, 2}
  BY <1>1, IterAt
<1>3. PICK o, s, t :
          /\ o \in {1, 2} /\ o # owner
          /\ Pair(owner, o, s, t) /\ pos \in 1..remain[owner] /\ look = s[pos]
  BY <1>1, IterAt
<1> o \in {1, 2}
  BY <1>3
<1> DEFINE L == remain[owner]
           e == seq[owner]
<1>4. PairShape(owner, o, s, t)
  BY <1>3, PairParts
<1>5. /\ L \in Nat /\ ChainIs(s, L, head[owner], tail[owner], next, prev) /\ s \in [1..L -> Node]
      /\ \A i, j \in 1..L : s[i] = s[j] => i = j
      /\ Spans(e, L) /\ e = DataAs(s, L, d) /\ look \in Members(s, L) /\ look \in Node
  BY <1>3, <1>4 DEF PairShape, ListShape
<1>6. seq'[owner] = [e EXCEPT ![pos] = v] /\ seq'[o] = seq[o] /\ seq' = [x \in {1, 2} |-> seq'[x]]
  BY <1>1, <1>2, <1>3 DEF ListTypeOK
<1>7. d' \in [Node -> ListData] /\ d'[look] = v /\ \A x \in Node : x # look => d'[x] = d[x]
  BY <1>1, <1>2, <1>5 DEF ListTypeOK
<1>8. ListTypeOK'
  BY <1>1, <1>2, <1>6, <1>7 DEF ListTypeOK
<1>9. pos \in 1..L
  BY <1>3
<1> HIDE DEF L, e
<1>10. \A i \in 1..L : d'[s[i]] = IF i = pos THEN v ELSE d[s[i]]
  BY <1>3, <1>5, <1>7, <1>9
<1>11. [e EXCEPT ![pos] = v] = DataAs(s, L, d')
  <2>1. e = [i \in 1..L |-> d[s[i]]]
    BY <1>5 DEF DataAs
  <2>2. [e EXCEPT ![pos] = v] = [i \in 1..L |-> IF i = pos THEN v ELSE d[s[i]]]
    BY ONLY <1>9, <2>1
  <2> QED
    BY <1>10, <2>2 DEF DataAs
<1>12. ListIs(s, L, head'[owner], tail'[owner], next', prev', d', seq'[owner])
  BY <1>1, <1>5, <1>6, <1>11 DEF ListIs
<1>13. Aside(o, t)
  <2>1. \A x \in Members(t, remain[o]) : x \in Node /\ x # look
    BY <1>4, <1>5 DEF PairShape, ListShape, L
  <2> QED
    BY <1>1, <1>6, <1>7, <2>1 DEF Aside
<1>14. /\ Owned(Members(s, L), Members(t, remain[o]), live', unlinked')
       /\ Place(s, L, owner, look', owner', pos') /\ Place(t, remain[o], o, look', owner', pos')
       /\ owner' = 0 => look' = Nil /\ pos' = 0
  BY <1>1, <1>4 DEF PairShape, Owned, L
<1>15. remain'[owner] = L
  BY <1>1 DEF L
<1> QED
  BY <1>2, <1>3, <1>8, <1>12, <1>13, <1>14, <1>15, OneListChanges

\* enable(), disable(), and a call that is refused.
LEMMA ListFlagKeeps ==
  ASSUME ListKept, OnlyIter \/ \E l \in {1, 2}, b \in BOOLEAN :
            /\ enabled' = [enabled EXCEPT ![l] = b]
            /\ d' = d /\ next' = next /\ prev' = prev /\ live' = live /\ unlinked' = unlinked
            /\ head' = head /\ tail' = tail /\ remain' = remain /\ seq' = seq,
         look' = look, owner' = owner, pos' = pos
  PROVE  ListKept'
<1>1. PICK s, t : Pair(1, 2, s, t)
  BY DEF ListKept
<1>2. /\ d' = d /\ next' = next /\ prev' = prev /\ live' = live /\ unlinked' = unlinked
      /\ head' = head /\ tail' = tail /\ remain' = remain /\ seq' = seq
      /\ enabled' = enabled \/ \E l \in {1, 2}, b \in BOOLEAN : enabled' = [enabled EXCEPT ![l] = b]
  BY DEF OnlyIter
<1>3. enabled' \in [{1, 2} -> BOOLEAN]
  BY <1>2 DEF ListKept, ListTypeOK
<1>4. ListTypeOK'
  BY <1>2, <1>3 DEF ListKept, ListTypeOK
<1>5. PairAfter(1, 2, s, t)
  BY <1>1, <1>2 DEF PairAfter, Pair
<1> QED
  BY <1>4, <1>5, PairKept

\* A list without links.
LEMMA EmptyList ==
  ASSUME NEW nx, NEW pv, NEW dd
  PROVE  ListIs(<<>>, 0, Nil, Nil, nx, pv, dd, <<>>) /\ Members(<<>>, 0) = {}
<1>1. Run(<<>>, 0, Node, nx, pv)
  BY DEF Run
<1>2. DataAs(<<>>, 0, dd) = <<>>
  BY DEF DataAs
<1>3. Members(<<>>, 0) = {}
  BY DEF Members
<1> QED
  <2>1. ChainIs(<<>>, 0, Nil, Nil, nx, pv)
    BY <1>1 DEF ChainIs
  <2> QED
    BY <1>2, <1>3, <2>1 DEF ListIs

\* What clearAll() frees.
LEMMA ClearedIs ==
  ASSUME NEW l, NEW o, NEW s, NEW t, Pair(l, o, s, t)
  PROVE  List!Walk(next, head[l]) = s /\ List!Cleared(l) = Members(s, remain[l])
<1>1. remain[l] \in Nat /\ ChainIs(s, remain[l], head[l], tail[l], next, prev) /\ s \in [1..remain[l] -> Node]
  BY PairParts DEF PairShape, ListShape
<1>2. List!Walk(next, head[l]) = s /\ List!Walk(prev, tail[l]) = Flip(s, remain[l])
  BY ONLY <1>1, WalkIs
<1> QED
  BY <1>1, <1>2 DEF List!Cleared, List!ToSet, Members

\* clear(): the nodes of the list are freed.
LEMMA ListClearAllKeeps ==
  ASSUME ListKept, NEW l \in {1, 2}, List!ClearAll(l)
  PROVE  ListKept'
<1>1. PICK o \in {1, 2} : o # l
  OBVIOUS
<1>2. ListTypeOK
  BY DEF ListKept
<1>3. PICK s, t : Pair(l, o, s, t)
  BY <1>1, PairBefore
<1> DEFINE S == Members(s, remain[l])
<1>4. List!Cleared(l) = S
  BY <1>3, ClearedIs
<1>5. /\ owner # l /\ live' = live \ S
      /\ next' = [x \in DOMAIN next |-> IF x \in S THEN Nil ELSE next[x]]
      /\ prev' = [x \in DOMAIN prev |-> IF x \in S THEN Nil ELSE prev[x]]
      /\ d' = [x \in DOMAIN d |-> IF x \in S THEN "blank" ELSE d[x]]
      /\ head' = [head EXCEPT ![l] = Nil] /\ tail' = [tail EXCEPT ![l] = Nil]
      /\ remain' = [remain EXCEPT ![l] = 0] /\ seq' = [seq EXCEPT ![l] = <<>>]
      /\ unlinked' = unlinked /\ enabled' = enabled /\ look' = look /\ owner' = owner /\ pos' = pos
  BY <1>4 DEF List!ClearAll, List!NoIterOn, List!Fill, List!Blank, List!iterVars
<1> HIDE DEF S
<1>6. ListTypeOK'
  <2>1. /\ d' \in [Node -> ListData]
        /\ next' \in [Node -> Node \cup {Nil}] /\ prev' \in [Node -> Node \cup {Nil}]
    BY <1>2, <1>5 DEF ListTypeOK, ListData
  <2>2. head' \in [{1, 2} -> Node \cup {Nil}] /\ tail' \in [{1, 2} -> Node \cup {Nil}] /\ remain' \in [{1, 2} -> Nat]
    BY <1>2, <1>5 DEF ListTypeOK
  <2>3. live' \in SUBSET Node /\ seq' = [x \in {1, 2} |-> seq'[x]]
    BY <1>2, <1>5 DEF ListTypeOK
  <2> QED
    BY <1>2, <1>5, <2>1, <2>2, <2>3 DEF ListTypeOK
<1>7. PairShape(l, o, s, t)
  BY <1>3, PairParts
<1>8. /\ head'[l] = Nil /\ tail'[l] = Nil /\ remain'[l] = 0 /\ seq'[l] = <<>>
      /\ head'[o] = head[o] /\ tail'[o] = tail[o] /\ remain'[o] = remain[o] /\ seq'[o] = seq[o]
  BY <1>1, <1>2, <1>5 DEF ListTypeOK
<1>9. \A x \in Members(t, remain[o]) : x \in Node /\ x \notin S
  BY <1>7 DEF PairShape, ListShape, S
<1>10. Aside(o, t)
  BY <1>2, <1>5, <1>8, <1>9 DEF Aside, ListTypeOK
<1>11. ListIs(<<>>, remain'[l], head'[l], tail'[l], next', prev', d', seq'[l]) /\ Members(<<>>, remain'[l]) = {}
  BY <1>8, EmptyList
<1>12. Owned(Members(<<>>, remain'[l]), Members(t, remain[o]), live', unlinked')
  BY <1>5, <1>7, <1>11 DEF Owned, PairShape, S
<1>13. /\ Place(<<>>, remain'[l], l, look', owner', pos') /\ Place(t, remain[o], o, look', owner', pos')
       /\ owner' = 0 => look' = Nil /\ pos' = 0
  BY <1>5, <1>7 DEF PairShape, Place
<1> QED
  BY <1>1, <1>3, <1>6, <1>10, <1>11, <1>12, <1>13, OneListChanges

\* transferFrom(): the other list's links are hung on the tail.
LEMMA ListTransferFromKeeps ==
  ASSUME ListKept, NEW l \in {1, 2}, NEW o \in {1, 2}, List!TransferFrom(l, o)
  PROVE  ListKept'
<1>1. o # l
  BY DEF List!TransferFrom
<1>2. ListTypeOK
  BY DEF ListKept
<1>3. PICK s, t : Pair(l, o, s, t)
  BY <1>1, PairBefore
<1> DEFINE L == remain[l]
           M == remain[o]
           u == Joined(s, L, t, M)
<1>4. PairShape(l, o, s, t) /\ PairShape(o, l, t, s)
  <2>1. Pair(o, l, t, s)
    <3>1. (l = 1 /\ o = 2) \/ (l = 2 /\ o = 1)
      BY <1>1
    <3> QED
      BY <1>3, <3>1, PairTurned
  <2> QED
    BY <1>3, <2>1, PairParts
<1>5. /\ M \in Nat /\ Run(t, M, Node, next, prev) /\ t \in [1..M -> Node]
      /\ \A i, j \in 1..M : t[i] = t[j] => i = j
      /\ (M = 0 <=> head[o] = Nil) /\ (M = 0 <=> tail[o] = Nil)
      /\ M > 0 => head[o] = t[1] /\ tail[o] = t[M] /\ next[t[M]] = Nil /\ prev[t[1]] = Nil
      /\ Members(t, M) \subseteq Node /\ \A i \in 1..M : t[i] \in Members(t, M)
      /\ seq[o] = DataAs(t, M, d)
      /\ ChainIs(t, M, head[o], tail[o], next, prev)
  BY <1>4 DEF PairShape, ListShape
<1>6. /\ L \in Nat /\ Run(s, L, Node, next, prev) /\ s \in [1..L -> Node]
      /\ \A i, j \in 1..L : s[i] = s[j] => i = j
      /\ (L = 0 <=> head[l] = Nil) /\ (L = 0 <=> tail[l] = Nil)
      /\ L > 0 => head[l] = s[1] /\ tail[l] = s[L] /\ next[s[L]] = Nil /\ prev[s[1]] = Nil
      /\ Members(s, L) \subseteq Node /\ \A i \in 1..L : s[i] \in Members(s, L)
      /\ seq[l] = DataAs(s, L, d) /\ Nil \notin Node
  BY <1>4 DEF PairShape, ListShape
<1>7. List!Walk(next, head[o]) = t
  <2>1. Pair(o, l, t, s)
    <3>1. (l = 1 /\ o = 2) \/ (l = 2 /\ o = 1)
      BY <1>1
    <3> QED
      BY <1>3, <3>1, PairTurned
  <2> QED
    BY <2>1, ClearedIs
<1>8. Len(t) = M
  <2>1. Spans(t, M)
    BY <1>5 DEF Spans
  <2> QED
    BY <2>1, LenIs
<1>9. /\ owner # o
      /\ next' = [x \in DOMAIN next |-> IF x \in (IF head[o] # Nil THEN {tail[l]} ELSE {}) THEN head[o] ELSE next[x]]
      /\ prev' = [x \in DOMAIN prev |-> IF x \in (IF tail[l] # Nil THEN {head[o]} ELSE {}) THEN tail[l] ELSE prev[x]]
      /\ tail' = [tail EXCEPT ![l] = IF t = <<>> THEN tail[l] ELSE List!Last(t), ![o] = Nil]
      /\ head' = [head EXCEPT ![l] = IF head[l] = Nil THEN head[o] ELSE head[l], ![o] = Nil]
      /\ remain' = [remain EXCEPT ![l] = L + Len(t), ![o] = 0]
      /\ seq' = [seq EXCEPT ![l] = seq[l] \o seq[o], ![o] = <<>>]
      /\ d' = d /\ live' = live /\ unlinked' = unlinked /\ enabled' = enabled
      /\ look' = look /\ owner' = owner /\ pos' = pos
  BY <1>7 DEF List!TransferFrom, List!NoIterOn, List!Fill, List!iterVars
<1>10. /\ (M > 0 => t # <<>> /\ List!Last(t) = t[M]) /\ (M = 0 => t = <<>>)
  BY <1>5, <1>8 DEF List!Last
<1>11. (IF t = <<>> THEN tail[l] ELSE List!Last(t)) \in Node \cup {Nil}
  <2>1. M > 0 => M \in 1..M
    BY <1>5
  <2>2. M = 0 \/ M > 0
    BY <1>5
  <2> QED
    BY <1>2, <1>5, <1>10, <2>1, <2>2 DEF ListTypeOK
<1> HIDE DEF L, M, u
<1>12. ListTypeOK'
  <2>0. \A x \in {1, 2} : head[x] \in Node \cup {Nil} /\ tail[x] \in Node \cup {Nil}
    BY <1>2 DEF ListTypeOK
  <2>1. next' \in [Node -> Node \cup {Nil}] /\ prev' \in [Node -> Node \cup {Nil}]
    BY <1>2, <1>9, <2>0 DEF ListTypeOK
  <2>2. tail' \in [{1, 2} -> Node \cup {Nil}]
    BY <1>2, <1>9, <1>11 DEF ListTypeOK
  <2>3. head' \in [{1, 2} -> Node \cup {Nil}]
    BY <1>2, <1>9, <2>0 DEF ListTypeOK
  <2>4. remain' \in [{1, 2} -> Nat]
    BY <1>2, <1>5, <1>6, <1>8, <1>9 DEF ListTypeOK
  <2>5. seq' = [x \in {1, 2} |-> seq'[x]]
    BY <1>2, <1>9 DEF ListTypeOK
  <2> QED
    BY <1>2, <1>9, <2>1, <2>2, <2>3, <2>4, <2>5 DEF ListTypeOK
<1>13. /\ head'[o] = Nil /\ tail'[o] = Nil /\ remain'[o] = 0 /\ seq'[o] = <<>>
       /\ remain'[l] = L + M /\ seq'[l] = seq[l] \o seq[o]
  BY <1>1, <1>2, <1>8, <1>9 DEF ListTypeOK
<1>14. /\ (head[l] = Nil => head'[l] = head[o]) /\ (head[l] # Nil => head'[l] = head[l])
       /\ (M = 0 => tail'[l] = tail[l]) /\ (M > 0 => tail'[l] = t[M])
  <2>1. tail'[l] = IF t = <<>> THEN tail[l] ELSE List!Last(t)
    BY <1>1, <1>2, <1>9 DEF ListTypeOK
  <2>2. head'[l] = IF head[l] = Nil THEN head[o] ELSE head[l]
    BY <1>1, <1>2, <1>9 DEF ListTypeOK
  <2> QED
    BY <1>10, <2>1, <2>2
<1>15. \A x \in Node :
          /\ (x = tail[l] /\ head[o] # Nil => next'[x] = head[o])
          /\ (x # tail[l] \/ head[o] = Nil => next'[x] = next[x])
          /\ (x = head[o] /\ tail[l] # Nil => prev'[x] = tail[l])
          /\ (x # head[o] \/ tail[l] = Nil => prev'[x] = prev[x])
  BY <1>2, <1>9 DEF ListTypeOK
<1>16. /\ Members(s, L) \cap Members(t, M) = {}
       /\ live = unlinked \cup Members(s, L) \cup Members(t, M)
       /\ unlinked \cap Members(s, L) = {} /\ unlinked \cap Members(t, M) = {}
       /\ tail[l] \notin Members(t, M) /\ head[o] \notin Members(s, L)
       /\ Place(s, L, l, look, owner, pos)
       /\ owner = 0 => look = Nil /\ pos = 0
  BY <1>4 DEF PairShape, L, M
<1>17. Run(s, L, Node, next', prev')
  <2>1. \A i \in 1..L : i < L => i + 1 \in 1..L /\ L \in 1..L /\ i # L /\ L > 0
    BY <1>6
  <2>2. \A i \in 1..L : s[i] \in Node /\ s[i] # head[o] /\ (i < L => s[i] # tail[l])
    BY <1>6, <1>16, <2>1
  <2>3. \A i \in 1..L : i < L => next'[s[i]] = next[s[i]] /\ prev'[s[i + 1]] = prev[s[i + 1]]
    BY <1>15, <2>1, <2>2
  <2> QED
    BY <1>6, <2>3, RunSame
<1>18. Run(t, M, Node, next', prev')
  <2>1. \A i \in 1..M : i < M => i + 1 \in 1..M /\ 1 \in 1..M /\ i + 1 # 1 /\ M > 0
    BY <1>5
  <2>2. \A i \in 1..M : t[i] \in Node /\ t[i] # tail[l] /\ (i < M => t[i + 1] # head[o])
    BY <1>5, <1>16, <2>1
  <2>3. \A i \in 1..M : i < M => next'[t[i]] = next[t[i]] /\ prev'[t[i + 1]] = prev[t[i + 1]]
    BY <1>15, <2>1, <2>2
  <2> QED
    BY <1>5, <2>3, RunSame
<1>19. (L > 0 => 1 \in 1..L /\ L \in 1..L) /\ (M > 0 => 1 \in 1..M /\ M \in 1..M) /\ (L = 0 \/ L > 0) /\ (M = 0 \/ M > 0)
  BY <1>5, <1>6
<1>20. (L > 0 => s[1] \in Node /\ s[L] \in Node) /\ (M > 0 => t[1] \in Node /\ t[M] \in Node)
  BY <1>5, <1>6, <1>19
<1>21. Meet(s, L, t, M, next', prev')
  BY <1>5, <1>6, <1>15, <1>20 DEF Meet
<1>22. EndsAre(s, L, t, M, head'[l], tail'[l], next', prev')
  <2>1. L > 0 => head'[l] = s[1] /\ prev'[s[1]] = Nil
    <3>1. L > 0 => s[1] # head[o]
      BY <1>6, <1>16, <1>19
    <3> QED
      BY <1>6, <1>14, <1>15, <1>20, <3>1
  <2>2. L = 0 /\ M > 0 => head'[l] = t[1] /\ prev'[t[1]] = Nil
    BY <1>5, <1>6, <1>14, <1>15, <1>20
  <2>3. M > 0 => tail'[l] = t[M] /\ next'[t[M]] = Nil
    <3>1. M > 0 => t[M] # tail[l]
      BY <1>5, <1>16, <1>19
    <3> QED
      BY <1>5, <1>14, <1>15, <1>20, <3>1
  <2>4. M = 0 /\ L > 0 => tail'[l] = s[L] /\ next'[s[L]] = Nil
    BY <1>5, <1>6, <1>14, <1>15, <1>20
  <2>5. L = 0 /\ M = 0 => head'[l] = Nil /\ tail'[l] = Nil
    BY <1>5, <1>6, <1>14
  <2> QED
    BY <2>1, <2>2, <2>3, <2>4, <2>5 DEF EndsAre
<1>23. DataHung(seq'[l], s, L, t, M, d')
  BY <1>5, <1>6, <1>9, <1>13 DEF DataHung
<1>24. /\ ListIs(Joined(s, L, t, M), L + M, head'[l], tail'[l], next', prev', d', seq'[l])
       /\ Members(Joined(s, L, t, M), L + M) = Members(s, L) \cup Members(t, M)
  <2>1. L \in Nat /\ M \in Nat /\ Members(s, L) \cap Members(t, M) = {}
    BY <1>5, <1>6, <1>16
  <2> QED
    BY ONLY <1>17, <1>18, <1>21, <1>22, <1>23, <2>1, ListJoin
<1>25. ListIs(<<>>, 0, Nil, Nil, next', prev', d', <<>>) /\ Members(<<>>, 0) = {}
  BY EmptyList
<1>26. Owned(Members(u, L + M), Members(<<>>, 0), live', unlinked')
  BY <1>9, <1>16, <1>24, <1>25 DEF Owned, u
<1>27. Place(u, L + M, l, look', owner', pos')
  <2>1. \A i \in 1..L : u[i] = s[i]
    BY <1>5, <1>6, JoinedElements DEF u
  <2>2. owner = l => pos \in 0..L /\ (pos = 0 => look = Nil) /\ (pos > 0 => look = s[pos])
    BY <1>16 DEF Place
  <2>3. pos \in 0..L => pos \in 0..(L + M) /\ (pos > 0 => pos \in 1..L)
    BY <1>5, <1>6
  <2> QED
    BY <1>9, <2>1, <2>2, <2>3 DEF Place
<1>28. Place(<<>>, 0, o, look', owner', pos') /\ (owner' = 0 => look' = Nil /\ pos' = 0)
  BY <1>9, <1>16 DEF Place
<1>29. PairAfter(l, o, u, <<>>)
  BY <1>13, <1>24, <1>25, <1>26, <1>27, <1>28 DEF PairAfter, u
<1> QED
  BY <1>1, <1>12, <1>29, PairKept

\* The links operator= takes.
LEMMA ListSetToSeq ==
  ASSUME NEW S, IsFiniteSet(S)
  PROVE  /\ Cardinality(S) \in Nat
         /\ List!SetToSeq(S) \in [1..Cardinality(S) -> S]
         /\ \A i, j \in 1..Cardinality(S) : List!SetToSeq(S)[i] = List!SetToSeq(S)[j] => i = j
<1>1. PICK n \in Nat : ExistsBijection(1..n, S)
  BY FS_NatBijection
<1>2. Cardinality(S) = n
  BY <1>1, FS_CountingElements
<1>3. PICK f : f \in Bijection(1..n, S)
  BY <1>1 DEF ExistsBijection
<1>4. f \in [1..n -> S] /\ List!IsInjective(f)
  BY <1>3 DEF Bijection, Injection, IsInjective, List!IsInjective
<1>5. \E g \in [1..n -> S] : List!IsInjective(g)
  BY <1>4
<1>6. List!SetToSeq(S) = CHOOSE g \in [1..n -> S] : List!IsInjective(g)
  BY <1>2, ListSameCardinality DEF List!SetToSeq
<1>7. List!SetToSeq(S) \in [1..n -> S] /\ List!IsInjective(List!SetToSeq(S))
  BY <1>5, <1>6
<1> QED
  BY <1>2, <1>7 DEF List!IsInjective

\* operator= and the copy constructor.
LEMMA ListAssignKeeps ==
  ASSUME ListKept, NEW l \in {1, 2}, NEW o \in {1, 2}, List!Assign(l, o)
  PROVE  ListKept'
<1>1. o # l /\ owner # l /\ head[o] # Nil
  BY DEF List!Assign, List!NoIterOn
<1>2. ListTypeOK
  BY DEF ListKept
<1>3. PICK s, t : Pair(l, o, s, t)
  BY <1>1, PairBefore
<1> DEFINE L == remain[l]
           M == remain[o]
           C == Members(s, L)
           F == (Node \ live) \cup List!Cleared(l)
           w == List!SetToSeq(F)
           u == SubSeq(w, 1, Len(t))
           In(n) == CHOOSE k \in DOMAIN u : u[k] = n
           At(k) == IF k \in DOMAIN u THEN u[k] ELSE Nil
<1>4. PairShape(l, o, s, t) /\ List!Cleared(l) = C /\ List!Walk(next, head[o]) = t
  <2>1. Pair(o, l, t, s)
    <3>1. (l = 1 /\ o = 2) \/ (l = 2 /\ o = 1)
      BY <1>1
    <3> QED
      BY <1>3, <3>1, PairTurned
  <2> QED
    BY <1>3, <2>1, PairParts, ClearedIs
<1>5. /\ M \in Nat /\ M > 0 /\ t \in [1..M -> Node] /\ Members(t, M) \subseteq Node
      /\ \A i \in 1..M : t[i] \in Members(t, M)
      /\ seq[o] = DataAs(t, M, d) /\ L \in Nat /\ C \subseteq Node /\ Nil \notin Node
  <2>1. /\ M \in Nat /\ (M = 0 <=> head[o] = Nil) /\ t \in [1..M -> Node] /\ Members(t, M) \subseteq Node
        /\ \A i \in 1..M : t[i] \in Members(t, M)
        /\ seq[o] = DataAs(t, M, d)
    BY <1>4 DEF PairShape, ListShape
  <2>2. L \in Nat /\ C \subseteq Node /\ Nil \notin Node
    BY <1>4 DEF PairShape, ListShape
  <2> QED
    BY <1>1, <2>1, <2>2
<1>6. Len(t) = M
  <2>1. Spans(t, M)
    BY <1>5 DEF Spans
  <2> QED
    BY <2>1, LenIs
<1>7. /\ Len(t) <= Cardinality(F)
      /\ d' = [n \in Node |-> IF n \in List!ToSet(u) THEN d[t[In(n)]] ELSE d[n]]
      /\ next' = [n \in Node |-> IF n \in List!ToSet(u) THEN At(In(n) + 1) ELSE next[n]]
      /\ prev' = [n \in Node |-> IF n \in List!ToSet(u) THEN At(In(n) - 1) ELSE prev[n]]
      /\ live' = (live \ List!Cleared(l)) \cup List!ToSet(u)
      /\ head' = [head EXCEPT ![l] = u[1]]
      /\ tail' = [tail EXCEPT ![l] = List!Last(u)]
      /\ remain' = [remain EXCEPT ![l] = Len(u)]
      /\ enabled' = [enabled EXCEPT ![l] = enabled[o]]
      /\ seq' = [seq EXCEPT ![l] = seq[o]]
      /\ unlinked' = unlinked /\ look' = look /\ owner' = owner /\ pos' = pos
  <2>1. Len(t) <= List!Cardinality(F)
    BY <1>4 DEF List!Assign
  <2> QED
    BY <1>4, <2>1, ListSameCardinality DEF List!Assign, List!iterVars
<1>8. /\ C \cap Members(t, M) = {} /\ live = unlinked \cup C \cup Members(t, M)
      /\ unlinked \cap C = {} /\ unlinked \cap Members(t, M) = {}
      /\ Place(t, M, o, look, owner, pos) /\ (owner = 0 => look = Nil /\ pos = 0)
  BY <1>4 DEF PairShape
<1>9. F \subseteq Node /\ F \cap Members(t, M) = {} /\ F \cap unlinked = {}
  BY <1>4, <1>5, <1>8
<1>10. IsFiniteSet(F)
  BY <1>9, FS_Subset, NodeAssumption DEF NodeAssumption
<1> DEFINE K == Cardinality(F)
<1>11. K \in Nat /\ w \in [1..K -> F] /\ \A i, j \in 1..K : w[i] = w[j] => i = j
  <2> HIDE DEF F
  <2> QED
    BY <1>10, ListSetToSeq
<1>12. u = [i \in 1..M |-> w[i]] /\ Len(u) = M
  <2> HIDE DEF w
  <2>1. SubSeq(w, 1, M) = [i \in 1..M |-> w[i]]
    BY <1>5
  <2>2. u = [i \in 1..M |-> w[i]]
    BY <1>6, <2>1 DEF w
  <2> HIDE DEF u
  <2>3. Spans(u, M)
    BY <1>5, <2>2 DEF Spans
  <2> QED
    BY <2>2, <2>3, LenIs
<1> HIDE DEF F, w, K, u, L, M
<1>13. /\ u \in [1..M -> Node] /\ \A i, j \in 1..M : u[i] = u[j] => i = j
       /\ \A i \in 1..M : u[i] \in F /\ u[i] \in Node
       /\ DOMAIN u = 1..M /\ 1 \in 1..M /\ M \in 1..M
  <2>1. \A i \in 1..M : i \in 1..K
    BY <1>5, <1>6, <1>7, <1>11 DEF K
  <2> QED
    BY <1>5, <1>9, <1>11, <1>12, <2>1
<1>14. \A i \in 1..M : In(u[i]) = i
  BY <1>13
<1>15. List!ToSet(u) = Members(u, M)
  BY <1>13 DEF List!ToSet, Members
<1>16. \A i \in 1..M : u[i] \in Members(u, M)
  BY DEF Members
<1>17. Members(u, M) \subseteq F
  BY <1>13 DEF Members
<1> HIDE DEF In
<1>18. \A i \in 1..M : /\ i < M => At(i + 1) = u[i + 1] /\ i + 1 \in 1..M
                       /\ i = M => At(i + 1) = Nil
                       /\ i > 1 => At(i - 1) = u[i - 1] /\ i - 1 \in 1..M
                       /\ i = 1 => At(i - 1) = Nil
  <2>1. \A i \in 1..M : /\ i < M => i + 1 \in 1..M
                        /\ i = M => i + 1 \notin 1..M
                        /\ i > 1 => i - 1 \in 1..M
                        /\ i = 1 => i - 1 \notin 1..M
    BY <1>5
  <2> QED
    BY <1>13, <2>1
<1>19. \A i \in 1..M : At(i + 1) \in Node \cup {Nil} /\ At(i - 1) \in Node \cup {Nil}
  BY <1>13
<1> HIDE DEF At
<1>20. \A i \in 1..M : d'[u[i]] = d[t[i]] /\ next'[u[i]] = At(i + 1) /\ prev'[u[i]] = At(i - 1)
  <2> TAKE i \in 1..M
  <2>1. u[i] \in Node /\ u[i] \in List!ToSet(u) /\ In(u[i]) = i
    BY <1>13, <1>14, <1>15, <1>16
  <2>2. d'[u[i]] = d[t[In(u[i])]] /\ next'[u[i]] = At(In(u[i]) + 1) /\ prev'[u[i]] = At(In(u[i]) - 1)
    BY ONLY <1>7, <2>1
  <2> QED
    BY ONLY <2>1, <2>2
<1>21. \A x \in Node : x \notin Members(u, M) => d'[x] = d[x] /\ next'[x] = next[x] /\ prev'[x] = prev[x]
  BY <1>7, <1>15
<1>22. /\ remain'[l] = M /\ head'[l] = u[1] /\ tail'[l] = u[M] /\ seq'[l] = seq[o]
       /\ head'[o] = head[o] /\ tail'[o] = tail[o] /\ remain'[o] = M /\ seq'[o] = seq[o]
  <2>1. List!Last(u) = u[M]
    BY <1>12 DEF List!Last
  <2> QED
    BY <1>1, <1>2, <1>7, <1>12, <2>1 DEF ListTypeOK, M
<1>23. ListTypeOK'
  <2>1. ASSUME NEW x \in Node
        PROVE  d'[x] \in ListData /\ next'[x] \in Node \cup {Nil} /\ prev'[x] \in Node \cup {Nil}
    <3>1. CASE x \in Members(u, M)
      <4>1. PICK i \in 1..M : u[i] = x
        BY <3>1 DEF Members
      <4>2. d[t[i]] \in ListData
        BY <1>2, <1>5 DEF ListTypeOK
      <4> QED
        BY <1>19, <1>20, <4>1, <4>2
    <3>2. CASE x \notin Members(u, M)
      BY <1>2, <1>21, <3>2 DEF ListTypeOK
    <3> QED
      BY <3>1, <3>2
  <2>2. d' = [x \in Node |-> d'[x]] /\ next' = [x \in Node |-> next'[x]] /\ prev' = [x \in Node |-> prev'[x]]
    BY <1>7
  <2>3. d' \in [Node -> ListData] /\ next' \in [Node -> Node \cup {Nil}] /\ prev' \in [Node -> Node \cup {Nil}]
    BY <2>1, <2>2
  <2>4. List!Last(u) = u[M] /\ Len(u) = M
    BY <1>12 DEF List!Last
  <2>5. head' \in [{1, 2} -> Node \cup {Nil}] /\ tail' \in [{1, 2} -> Node \cup {Nil}] /\ remain' \in [{1, 2} -> Nat]
    BY <1>2, <1>5, <1>7, <1>13, <2>4 DEF ListTypeOK
  <2>6. enabled' \in [{1, 2} -> BOOLEAN] /\ seq' = [x \in {1, 2} |-> seq'[x]]
    BY <1>2, <1>7 DEF ListTypeOK
  <2>7. live' \in SUBSET Node
    BY <1>2, <1>7, <1>9, <1>15, <1>17 DEF ListTypeOK
  <2> QED
    BY <1>2, <1>7, <2>3, <2>5, <2>6, <2>7 DEF ListTypeOK
<1>24. ListIs(u, M, head'[l], tail'[l], next', prev', d', seq'[l])
  <2>1. Run(u, M, Node, next', prev')
    <3>1. ASSUME NEW i \in 1..M, i < M PROVE next'[u[i]] = u[i + 1] /\ prev'[u[i + 1]] = u[i]
      <4>1. i + 1 \in 1..M /\ i + 1 > 1 /\ (i + 1) - 1 = i
        BY <1>5, <3>1
      <4>2. At(i + 1) = u[i + 1]
        BY <1>18, <3>1
      <4>3. At((i + 1) - 1) = u[(i + 1) - 1]
        BY ONLY <1>18, <4>1
      <4>4. next'[u[i]] = At(i + 1) /\ prev'[u[i + 1]] = At((i + 1) - 1)
        BY ONLY <1>20, <4>1, i \in 1..M
      <4> QED
        BY <4>1, <4>2, <4>3, <4>4
    <3> QED
      BY <1>13, <3>1 DEF Run
  <2>2. next'[u[M]] = Nil /\ prev'[u[1]] = Nil
    <3>1. next'[u[M]] = At(M + 1) /\ prev'[u[1]] = At(1 - 1)
      BY ONLY <1>13, <1>20
    <3>2. At(M + 1) = Nil /\ At(1 - 1) = Nil
      BY ONLY <1>13, <1>18
    <3> QED
      BY <3>1, <3>2
  <2>3. ChainIs(u, M, head'[l], tail'[l], next', prev')
    BY <1>5, <1>22, <2>1, <2>2 DEF ChainIs
  <2>4. seq'[l] = DataAs(u, M, d')
    BY <1>5, <1>20, <1>22 DEF DataAs
  <2> QED
    BY <1>5, <2>3, <2>4 DEF ListIs
<1>25. \A x \in Members(t, M) : x \in Node /\ x \notin Members(u, M)
  BY <1>5, <1>9, <1>17
<1>26. Aside(o, t)
  BY <1>21, <1>22, <1>25 DEF Aside, M
<1>27. Owned(Members(u, M), Members(t, M), live', unlinked')
  BY <1>4, <1>7, <1>8, <1>9, <1>15, <1>17 DEF Owned
<1>28. Place(u, M, l, look', owner', pos') /\ Place(t, M, o, look', owner', pos') /\ (owner' = 0 => look' = Nil /\ pos' = 0)
  BY <1>1, <1>7, <1>8 DEF Place
<1> QED
  BY <1>1, <1>3, <1>22, <1>23, <1>24, <1>26, <1>27, <1>28, OneListChanges DEF M

\* What the links say of a list.
LEMMA ListShows ==
  ASSUME NEW l, NEW o, NEW s, NEW t, Pair(l, o, s, t)
  PROVE  /\ List!Walk(next, head[l]) = s
         /\ [k \in DOMAIN s |-> d[s[k]]] = seq[l]
         /\ List!Walk(prev, tail[l]) = List!Reverse(s)
         /\ remain[l] = Len(seq[l])
         /\ List!ToSet(s) = Members(s, remain[l])
<1> DEFINE L == remain[l]
<1>1. /\ L \in Nat /\ ChainIs(s, L, head[l], tail[l], next, prev) /\ s \in [1..L -> Node]
      /\ seq[l] = DataAs(s, L, d) /\ Len(seq[l]) = L
  BY PairParts DEF PairShape, ListShape
<1> HIDE DEF L
<1>2. List!Walk(next, head[l]) = s /\ List!Walk(prev, tail[l]) = Flip(s, L)
  BY ONLY <1>1, WalkIs
<1>3. Len(s) = L
  <2>1. Spans(s, L)
    BY <1>1 DEF Spans
  <2> QED
    BY <2>1, LenIs
<1>4. List!Reverse(s) = Flip(s, L)
  BY <1>3 DEF List!Reverse, Flip
<1>5. [k \in DOMAIN s |-> d[s[k]]] = seq[l] /\ List!ToSet(s) = Members(s, L)
  BY <1>1 DEF DataAs, List!ToSet, Members
<1> QED
  BY <1>1, <1>2, <1>4, <1>5 DEF L

\* What the invariant says of the nodes is what the loops over the lists see.
LEMMA ListKeptShows ==
  ASSUME ListKept
  PROVE  List!ListsHold
<1>1. PICK s, t : Pair(1, 2, s, t)
  BY DEF ListKept
<1>2. Pair(2, 1, t, s)
  BY <1>1, PairTurned
<1>3. /\ List!Walk(next, head[1]) = s /\ [k \in DOMAIN s |-> d[s[k]]] = seq[1]
      /\ List!Walk(prev, tail[1]) = List!Reverse(s) /\ remain[1] = Len(seq[1])
      /\ List!ToSet(s) = Members(s, remain[1])
  BY <1>1, ListShows
<1>4. /\ List!Walk(next, head[2]) = t /\ [k \in DOMAIN t |-> d[t[k]]] = seq[2]
      /\ List!Walk(prev, tail[2]) = List!Reverse(t) /\ remain[2] = Len(seq[2])
      /\ List!ToSet(t) = Members(t, remain[2])
  BY <1>2, ListShows
<1>5. List!ListIsSequence
  BY <1>3, <1>4 DEF List!ListIsSequence, List!Lists
<1>6. PairShape(1, 2, s, t)
  BY <1>1, PairParts
<1>7. List!IterKeepsPlace
  <2>1. owner \in {0, 1, 2} /\ pos \in Nat
    BY DEF ListKept, ListTypeOK
  <2>2. /\ owner = 1 => (pos = 0 => look = Nil) /\ (pos > 0 => look = s[pos])
        /\ owner = 2 => (pos = 0 => look = Nil) /\ (pos > 0 => look = t[pos])
    BY <1>6 DEF PairShape, Place
  <2>3. pos = 0 \/ pos > 0
    BY <2>1
  <2> QED
    BY <1>3, <1>4, <2>1, <2>2, <2>3 DEF List!IterKeepsPlace
<1>8. List!LinksAccounted
  BY <1>3, <1>4, <1>6 DEF List!LinksAccounted, PairShape
<1> QED
  BY <1>5, <1>7, <1>8 DEF List!ListsHold

\* Every call on the lists keeps the invariant.
LEMMA ListStepKeeps ==
  ASSUME ListKept, List!Next
  PROVE  ListKept'
<1> USE DEF List!Lists
<1>1. ASSUME NEW l \in {1, 2}, NEW v \in ListData, List!AddToTail(l, v) \/ List!AddToHead(l, v) PROVE ListKept'
  BY <1>1, AddToTailKeeps, ListAddToHeadKeeps
<1>2. ASSUME NEW l \in {1, 2}, List!RemoveHead(l) \/ List!RemoveTail(l) \/ List!ClearAll(l) PROVE ListKept'
  BY <1>2, RemoveHeadKeeps, RemoveTailKeeps, ListClearAllKeeps
<1>3. ASSUME NEW l \in {1, 2}, List!Enable(l) \/ List!Disable(l) PROVE ListKept'
  BY <1>3, ListFlagKeeps DEF List!Enable, List!Disable, List!linkVars, List!iterVars
<1>4. ASSUME NEW l \in {1, 2}, List!AddDisabled(l) PROVE ListKept'
  BY <1>4, ListFlagKeeps DEF List!AddDisabled, List!listVars, List!linkVars, List!endVars, List!iterVars, OnlyIter
<1>5. ASSUME NEW l \in {1, 2}, NEW o \in {1, 2}, List!TransferFrom(l, o) \/ List!Assign(l, o) PROVE ListKept'
  BY <1>5, ListTransferFromKeeps, ListAssignKeeps
<1>6. ASSUME NEW l \in {1, 2}, List!StartIterHead(l) \/ List!StartIterTail(l) PROVE ListKept'
  BY <1>6, StartIterHeadKeeps, StartIterTailKeeps
<1>7. ASSUME NEW l \in {1, 2}, List!OnList(l) PROVE ListKept'
  BY <1>1, <1>2, <1>3, <1>4, <1>5, <1>6, <1>7 DEF List!OnList, List!Blank, ListData
<1>8. ASSUME NEW v \in Item, List!SetCurrent(v) PROVE ListKept'
  BY <1>8, SetCurrentKeeps DEF ListData
<1>9. CASE List!ReleaseIter \/ List!GetNext \/ List!GetPrev \/ List!RemoveNext \/ List!RemovePrev
  BY <1>9, ListReleaseIterKeeps, ListGetNextKeeps, ListGetPrevKeeps, RemoveNextKeeps, RemovePrevKeeps
<1> QED
  BY <1>7, <1>8, <1>9 DEF List!Next

\* tw_List: through any adds and removals at both ends, transfers and copies between
\* two lists, and removals under the iterator, each list is the sequence its calls make
\* when followed from its head and when followed back from its tail, remain counts it,
\* the iterator stands at its place, no link is shared or freed while in use, and the
\* only links that are on no list and not freed are those removeLink() took out.
THEOREM ListsAlwaysHold == Spec => []ListsHold
<1>1. Init => ListKept
  <2> SUFFICES ASSUME Init PROVE ListKept
    OBVIOUS
  <2>1. /\ d = [n \in Node |-> "blank"] /\ next = [n \in Node |-> Nil] /\ prev = [n \in Node |-> Nil]
        /\ live = {} /\ unlinked = {}
        /\ head = [l \in {1, 2} |-> Nil] /\ tail = [l \in {1, 2} |-> Nil]
        /\ remain = [l \in {1, 2} |-> 0] /\ enabled = [l \in {1, 2} |-> TRUE]
        /\ look = Nil /\ owner = 0 /\ pos = 0
        /\ seq = [l \in {1, 2} |-> <<>>]
    BY DEF Init, List!Init, List!Lists, List!Blank
  <2>2. ListTypeOK
    BY <2>1 DEF ListTypeOK, ListData
  <2>3. ListIs(<<>>, 0, Nil, Nil, next, prev, d, <<>>) /\ Members(<<>>, 0) = {}
    BY EmptyList
  <2>4. /\ remain[1] = 0 /\ remain[2] = 0 /\ head[1] = Nil /\ head[2] = Nil /\ tail[1] = Nil /\ tail[2] = Nil
        /\ seq[1] = <<>> /\ seq[2] = <<>>
    BY <2>1
  <2>5. Owned({}, {}, live, unlinked)
    BY <2>1 DEF Owned
  <2>6. Place(<<>>, 0, 1, look, owner, pos) /\ Place(<<>>, 0, 2, look, owner, pos)
    BY <2>1 DEF Place
  <2>7. Pair(1, 2, <<>>, <<>>)
    BY <2>1, <2>3, <2>4, <2>5, <2>6 DEF Pair
  <2> QED
    BY <2>2, <2>7 DEF ListKept
<1>2. ListKept /\ [Next]_vars => ListKept'
  <2> SUFFICES ASSUME ListKept, [Next]_vars PROVE ListKept'
    OBVIOUS
  <2>1. CASE UNCHANGED listVars
    BY <2>1, ListFlagKeeps DEF listVars, OnlyIter
  <2>2. CASE List!Next
    BY <2>2, ListStepKeeps
  <2>3. UNCHANGED listVars \/ List!Next
    BY DEF Next, Done, vars
  <2> QED
    BY <2>1, <2>2, <2>3
<1>3. ListKept => ListsHold
  BY ListKeptShows DEF ListsHold
<1> QED
  BY <1>1, <1>2, <1>3, PTL DEF Spec
=============================================================================

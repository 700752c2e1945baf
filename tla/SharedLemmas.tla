---------------------------- MODULE SharedLemmas ----------------------------
(***************************************************************************)
(* What the proofs of several components rest on and no variable occurs in. *)
(*                                                                          *)
(* Induction: the library states it for an operator, which has to be        *)
(* instantiated; here it is stated for a set of numbers, from the fact that *)
(* a nonempty set of naturals has a least element.  Linked chains: what a   *)
(* loop over one visits, and chains cut, joined and changed.  Sequences: by *)
(* their elements.  Wakeups: sleepers and woken threads counted.            *)
(***************************************************************************)
EXTENDS Chains, Sequences, WellFoundedInduction, SequenceTheorems, FiniteSetTheorems, TLAPS

\* A set of naturals that has 0 and with each number the next one has them all.
LEMMA NatSetInduction ==
  ASSUME NEW P \in SUBSET Nat, 0 \in P, \A n \in P : n + 1 \in P
  PROVE  \A n \in Nat : n \in P
<1> SUFFICES ASSUME Nat \ P # {} PROVE FALSE
  OBVIOUS
<1> DEFINE R == OpToRel(<, Nat)
<1>1. PICK n \in Nat \ P : \A m \in Nat \ P : ~ (<<m, n>> \in R)
  <2>1. IsWellFoundedOn(R, Nat)
    BY NatLessThanWellFounded
  <2>2. Nat \ P \subseteq Nat
    OBVIOUS
  <2> HIDE DEF R
  <2> QED
    BY <2>1, <2>2, WFMin
<1>2. n - 1 \in Nat /\ n - 1 < n
  OBVIOUS
<1>3. <<n - 1, n>> \in R
  BY <1>2 DEF OpToRel
<1> HIDE DEF R
<1>4. n - 1 \in P
  BY <1>1, <1>2, <1>3
<1>5. (n - 1) + 1 = n
  OBVIOUS
<1> QED
  BY <1>4, <1>5

\* A set of naturals that is not empty has a least member.
LEMMA LeastExists ==
  ASSUME NEW S \in SUBSET Nat, S # {}
  PROVE  \E n \in S : \A m \in S : n <= m
<1> DEFINE R == OpToRel(<, Nat)
<1>1. PICK n \in S : \A m \in S : ~ (<<m, n>> \in R)
  <2>1. IsWellFoundedOn(R, Nat)
    BY NatLessThanWellFounded
  <2>2. S \subseteq Nat
    OBVIOUS
  <2> HIDE DEF R
  <2> QED
    BY <2>1, <2>2, WFMin
<1>2. \A m \in S : n <= m
  <2> SUFFICES ASSUME NEW m \in S, m < n PROVE FALSE
    OBVIOUS
  <2>1. <<m, n>> \in R
    BY DEF OpToRel
  <2> HIDE DEF R
  <2> QED
    BY <1>1, <2>1
<1> QED
  BY <1>2

\* The chain that starts at o and follows nx, as far as N steps: f is that walk.
IsWalk(f, N, o, nx, null) ==
    f = [k \in 0..N |-> IF k = 0 THEN o
                        ELSE IF f[k - 1] = null THEN null ELSE nx[f[k - 1]]]

\* Every chain has a walk of every length.
LEMMA WalkExists ==
  ASSUME NEW N \in Nat, NEW o, NEW nx, NEW null
  PROVE  \E f : IsWalk(f, N, o, nx, null)
<1> DEFINE P == {n \in Nat : \E f : IsWalk(f, n, o, nx, null)}
<1>1. 0 \in P
  <2> DEFINE f == [k \in 0..0 |-> o]
  <2>1. IsWalk(f, 0, o, nx, null)
    BY DEF IsWalk
  <2> QED
    BY <2>1
<1>2. ASSUME NEW n \in P PROVE n + 1 \in P
  <2>1. n \in Nat
    OBVIOUS
  <2>2. PICK f : IsWalk(f, n, o, nx, null)
    OBVIOUS
  <2> DEFINE last == IF f[n] = null THEN null ELSE nx[f[n]]
             g == [k \in 0..(n + 1) |-> IF k = n + 1 THEN last ELSE f[k]]
  <2>3. ASSUME NEW k \in 0..(n + 1)
        PROVE  g[k] = IF k = 0 THEN o
                      ELSE IF g[k - 1] = null THEN null ELSE nx[g[k - 1]]
    <3>1. CASE k = n + 1
      <4>1. k - 1 = n /\ k - 1 \in 0..(n + 1) /\ k - 1 # n + 1 /\ k # 0
        BY <2>1, <3>1
      <4>2. g[k - 1] = f[n] /\ g[k] = last
        BY <3>1, <4>1
      <4> HIDE DEF g
      <4> QED
        BY <4>1, <4>2
    <3>2. CASE k # n + 1
      <4>1. k \in 0..n /\ g[k] = f[k]
        BY <2>1, <3>2
      <4>2. f[k] = IF k = 0 THEN o
                   ELSE IF f[k - 1] = null THEN null ELSE nx[f[k - 1]]
        BY <2>2, <4>1 DEF IsWalk
      <4>3. k # 0 => g[k - 1] = f[k - 1]
        BY <2>1, <4>1
      <4> HIDE DEF g
      <4> QED
        BY <4>1, <4>2, <4>3
    <3> QED
      BY <3>1, <3>2
  <2>4. IsWalk(g, n + 1, o, nx, null)
    <3>1. g = [k \in 0..(n + 1) |-> g[k]]
      OBVIOUS
    <3> HIDE DEF g
    <3> QED
      BY <2>3, <3>1 DEF IsWalk
  <2> QED
    BY <2>1, <2>4
<1> HIDE DEF P
<1>3. P \in SUBSET Nat
  BY DEF P
<1>4. N \in P
  BY <1>1, <1>2, <1>3, NatSetInduction
<1> QED
  BY <1>4 DEF P

\* ... and only one.
LEMMA WalkUnique ==
  ASSUME NEW N \in Nat, NEW o, NEW nx, NEW null, NEW f, NEW g,
         IsWalk(f, N, o, nx, null), IsWalk(g, N, o, nx, null)
  PROVE  f = g
<1> DEFINE P == {n \in Nat : n <= N => f[n] = g[n]}
<1>1. 0 \in P
  BY DEF IsWalk
<1>2. ASSUME NEW n \in P PROVE n + 1 \in P
  <2>1. n \in Nat
    OBVIOUS
  <2>2. CASE n + 1 <= N
    <3>1. n + 1 \in 0..N /\ (n + 1) - 1 = n /\ n + 1 # 0 /\ f[n] = g[n]
      BY <2>1, <2>2
    <3>2. f[n + 1] = IF f[n] = null THEN null ELSE nx[f[n]]
      BY <3>1 DEF IsWalk
    <3>3. g[n + 1] = IF g[n] = null THEN null ELSE nx[g[n]]
      BY <3>1 DEF IsWalk
    <3> QED
      BY <2>1, <3>1, <3>2, <3>3
  <2> QED
    BY <2>1, <2>2
<1> HIDE DEF P
<1>3. P \in SUBSET Nat
  BY DEF P
<1>4. \A n \in 0..N : n \in P
  BY <1>1, <1>2, <1>3, NatSetInduction
<1>5. \A n \in 0..N : f[n] = g[n]
  BY <1>4 DEF P
<1>6. f = [n \in 0..N |-> f[n]] /\ g = [n \in 0..N |-> g[n]]
  BY DEF IsWalk
<1> QED
  BY <1>5, <1>6

-----------------------------------------------------------------------------
\* The L links s are the chain from o on.
IsThread(s, L, S, o, nx, null) ==
    /\ s \in [1..L -> S]
    /\ \A i, j \in 1..L : s[i] = s[j] => i = j
    /\ L = 0 => o = null
    /\ L > 0 => o = s[1] /\ nx[s[L]] = null
    /\ \A i \in 1..L : i < L => nx[s[i]] = s[i + 1]

\* A chain of links that are all different is no longer than there are links.
LEMMA ThreadShort ==
  ASSUME NEW S, IsFiniteSet(S), NEW L \in Nat, NEW s \in [1..L -> S],
         \A i, j \in 1..L : s[i] = s[j] => i = j
  PROVE  L <= Cardinality(S) /\ Cardinality(S) \in Nat
<1>1. s \in Injection(1..L, S)
  BY DEF Injection, IsInjective
<1>2. Cardinality(1..L) <= Cardinality(S)
  BY <1>1, FS_Injection
<1>3. Cardinality(1..L) = L
  BY FS_Interval
<1> QED
  BY <1>2, <1>3, FS_CardinalityType

\* What a loop over the chain visits.
LEMMA FollowIs ==
  ASSUME NEW S, IsFiniteSet(S), NEW null, null \notin S, NEW o, NEW nx,
         NEW L \in Nat, NEW s, IsThread(s, L, S, o, nx, null)
  PROVE  Follow(o, nx, null, Cardinality(S)) = s
<1> DEFINE N == Cardinality(S)
           w == [k \in 0..N |-> IF k < L THEN s[k + 1] ELSE null]
<1>0. s \in [1..L -> S] /\ \A i, j \in 1..L : s[i] = s[j] => i = j
  BY DEF IsThread
<1>1. N \in Nat /\ L <= N
  BY <1>0, ThreadShort
<1> HIDE DEF N
<1>2. ASSUME NEW k \in 0..N
      PROVE  w[k] = IF k = 0 THEN o ELSE IF w[k - 1] = null THEN null ELSE nx[w[k - 1]]
  <2>1. CASE k = 0
    <3>1. CASE L = 0
      BY <1>1, <2>1, <3>1 DEF IsThread
    <3>2. CASE L > 0
      <4>1. w[0] = s[0 + 1]
        BY <1>1, <3>2
      <4> QED
        BY <2>1, <3>2, <4>1 DEF IsThread
    <3> QED
      BY <3>1, <3>2
  <2>2. CASE k > 0 /\ k < L
    <3>1. w[k] = s[k + 1] /\ w[k - 1] = s[(k - 1) + 1] /\ (k - 1) + 1 = k /\ k \in 1..L
      BY <1>1, <2>2
    <3>2. s[k] # null /\ nx[s[k]] = s[k + 1]
      BY <1>0, <2>2, <3>1 DEF IsThread
    <3> QED
      BY <2>2, <3>1, <3>2
  <2>3. CASE k > 0 /\ k = L
    <3>1. w[k] = null /\ w[k - 1] = s[(k - 1) + 1] /\ (k - 1) + 1 = k /\ k \in 1..L
      BY <1>1, <2>3
    <3>2. s[k] # null /\ nx[s[k]] = null
      BY <1>0, <2>3, <3>1 DEF IsThread
    <3> QED
      BY <2>3, <3>1, <3>2
  <2>4. CASE k > 0 /\ k > L
    <3>1. w[k] = null /\ w[k - 1] = null
      BY <1>1, <2>4
    <3> QED
      BY <2>4, <3>1
  <2> QED
    BY <2>1, <2>2, <2>3, <2>4
<1>3. IsWalk(w, N, o, nx, null)
  <2>1. w = [k \in 0..N |-> w[k]]
    OBVIOUS
  <2> HIDE DEF w
  <2> QED
    BY <1>2, <2>1 DEF IsWalk
<1> DEFINE at == CHOOSE f : f = [k \in 0..N |-> IF k = 0 THEN o
                                                ELSE IF f[k - 1] = null THEN null ELSE nx[f[k - 1]]]
<1>4. IsWalk(at, N, o, nx, null)
  <2>1. \E f : f = [k \in 0..N |-> IF k = 0 THEN o ELSE IF f[k - 1] = null THEN null ELSE nx[f[k - 1]]]
    BY <1>3 DEF IsWalk
  <2>2. at = [k \in 0..N |-> IF k = 0 THEN o ELSE IF at[k - 1] = null THEN null ELSE nx[at[k - 1]]]
    BY <2>1
  <2> QED
    BY <2>2 DEF IsWalk
<1>5. Follow(o, nx, null, N) = [k \in 1..Cardinality({j \in 0..N : at[j] # null}) |-> at[k - 1]]
  BY DEF Follow
<1> HIDE DEF at
<1>6. at = w
  BY <1>1, <1>3, <1>4, WalkUnique
<1>7. {j \in 0..N : at[j] # null} = 0..(L - 1)
  <2>1. ASSUME NEW j \in 0..N PROVE w[j] # null <=> j < L
    <3>1. j < L => j + 1 \in 1..L
      OBVIOUS
    <3> QED
      BY <1>0, <3>1
  <2> HIDE DEF w
  <2> QED
    BY <1>1, <1>6, <2>1
<1>8. Cardinality(0..(L - 1)) = L
  BY FS_Interval
<1>9. ASSUME NEW k \in 1..L PROVE at[k - 1] = s[k]
  <2>1. k - 1 \in 0..N /\ k - 1 < L /\ (k - 1) + 1 = k
    BY <1>1
  <2> QED
    BY <1>6, <2>1
<1>10. s = [k \in 1..L |-> s[k]]
  BY <1>0
<1> QED
  BY <1>5, <1>7, <1>8, <1>9, <1>10 DEF N

\* Sequences by their elements.
LEMMA FunctionIsSeq ==
  ASSUME NEW S, NEW n \in Nat, NEW f \in [1..n -> S]
  PROVE  f \in Seq(S) /\ Len(f) = n
BY IsASeq

\* The elements of a sequence with one appended.
LEMMA AppendFn ==
  ASSUME NEW S, NEW n \in Nat, NEW x \in [1..n -> S], NEW e \in S
  PROVE  Append(x, e) = [i \in 1..(n + 1) |-> IF i = n + 1 THEN e ELSE x[i]]
<1> DEFINE y == [i \in 1..(n + 1) |-> IF i = n + 1 THEN e ELSE x[i]]
<1>1. x \in Seq(S) /\ Len(x) = n
  BY FunctionIsSeq
<1>2. n + 1 \in Nat /\ y \in [1..(n + 1) -> S]
  OBVIOUS
<1> HIDE DEF y
<1>3. y \in Seq(S) /\ Len(y) = n + 1
  BY <1>2, FunctionIsSeq
<1>4. Append(x, e) \in Seq(S) /\ Len(Append(x, e)) = n + 1
  BY <1>1, AppendProperties
<1>5. ASSUME NEW i \in 1..(n + 1) PROVE Append(x, e)[i] = y[i]
  BY <1>1, AppendProperties DEF y
<1> HIDE <1>1
<1>6. Append(x, e) = y
  BY ONLY <1>3, <1>4, <1>5, SeqEqual
<1> QED
  BY <1>6 DEF y

\* The elements of a sequence without its last one.
LEMMA FrontFn ==
  ASSUME NEW S, NEW n \in Nat, n > 0, NEW x \in [1..n -> S]
  PROVE  SubSeq(x, 1, Len(x) - 1) = [i \in 1..(n - 1) |-> x[i]]
<1>1. Len(x) = n
  BY FunctionIsSeq
<1> QED
  BY <1>1

\* The elements of a sequence without its first one.
LEMMA TailFn ==
  ASSUME NEW S, NEW n \in Nat, n > 0, NEW x \in [1..n -> S]
  PROVE  Tail(x) = [i \in 1..(n - 1) |-> x[i + 1]]
<1> DEFINE y == [i \in 1..(n - 1) |-> x[i + 1]]
<1>1. x \in Seq(S) /\ Len(x) = n /\ x # <<>>
  BY FunctionIsSeq
<1>2. n - 1 \in Nat /\ y \in [1..(n - 1) -> S]
  OBVIOUS
<1>0. \A i \in 1..(n - 1) : y[i] = x[i + 1]
  OBVIOUS
<1> HIDE DEF y
<1>3. y \in Seq(S) /\ Len(y) = n - 1
  BY <1>2, FunctionIsSeq
<1>4. Tail(x) \in Seq(S) /\ Len(Tail(x)) = n - 1 /\ \A i \in 1..Len(Tail(x)) : Tail(x)[i] = x[i + 1]
  BY <1>1, HeadTailProperties
<1>6. Tail(x) = y
  BY ONLY <1>0, <1>3, <1>4, SeqEqual
<1> QED
  BY <1>6 DEF y

\* x is a sequence of n elements.
Spans(x, n) == n \in Nat /\ x = [i \in 1..n |-> x[i]]

\* What has the elements of x and then those of z is their concatenation.
LEMMA ConcatIs ==
  ASSUME NEW n, NEW m, NEW x, NEW z, NEW y, Spans(x, n), Spans(z, m), Spans(y, n + m),
         \A i \in 1..n : y[i] = x[i], \A i \in 1..m : y[n + i] = z[i]
  PROVE  x \o z = y
<1> DEFINE S == {x[i] : i \in 1..n} \cup {z[i] : i \in 1..m}
<1>a. n \in Nat /\ m \in Nat
  BY DEF Spans
<1>0. x \in [1..n -> S] /\ z \in [1..m -> S] /\ y \in [1..(n + m) -> S]
  <2>1. (\A i \in 1..n : x[i] \in S) /\ (\A i \in 1..m : z[i] \in S)
    OBVIOUS
  <2> HIDE DEF S
  <2>2. ASSUME NEW i \in 1..(n + m) PROVE y[i] \in S
    <3>1. CASE i <= n
      <4>1. i \in 1..n
        BY <1>a, <3>1
      <4> QED
        BY <2>1, <4>1
    <3>2. CASE i > n
      <4>1. i - n \in 1..m /\ n + (i - n) = i
        BY <1>a, <3>2
      <4> QED
        BY <2>1, <4>1
    <3> QED
      BY <1>a, <3>1, <3>2
  <2> QED
    BY <2>1, <2>2 DEF Spans
<1> HIDE DEF S
<1>1. x \in Seq(S) /\ Len(x) = n /\ z \in Seq(S) /\ Len(z) = m
  BY ONLY <1>a, <1>0, FunctionIsSeq
<1>2. n + m \in Nat
  BY <1>a
<1>3. y \in Seq(S) /\ Len(y) = n + m
  BY ONLY <1>0, <1>2, FunctionIsSeq
<1>4. x \o z \in Seq(S) /\ Len(x \o z) = n + m /\ \A i \in 1..(n + m) : (x \o z)[i] = IF i <= n THEN x[i] ELSE z[i - n]
  BY ONLY <1>a, <1>1, ConcatProperties
<1>5. ASSUME NEW i \in 1..(n + m) PROVE (x \o z)[i] = y[i]
  <2>1. CASE i <= n
    <3>1. i \in 1..n
      BY <1>a, <2>1
    <3> QED
      BY <1>4, <2>1, <3>1
  <2>2. CASE i > n
    <3>1. i - n \in 1..m /\ n + (i - n) = i /\ ~(i <= n)
      BY <1>a, <2>2
    <3>2. y[i] = z[i - n]
      BY <3>1
    <3> QED
      BY <1>4, <3>1, <3>2
  <2>3. i <= n \/ i > n
    BY <1>a
  <2> QED
    BY ONLY <2>1, <2>2, <2>3
<1> QED
  BY ONLY <1>3, <1>4, <1>5, SeqEqual

\* What has the elements of x and then e is x with e appended.
LEMMA AppendIs ==
  ASSUME NEW n, NEW x, NEW e, NEW y, Spans(x, n), Spans(y, n + 1),
         \A i \in 1..n : y[i] = x[i], y[n + 1] = e
  PROVE  Append(x, e) = y
<1> DEFINE S == {x[i] : i \in 1..n} \cup {e}
<1>a. n \in Nat
  BY DEF Spans
<1>0. x \in [1..n -> S] /\ e \in S
  BY DEF Spans
<1> HIDE DEF S
<1>1. Append(x, e) = [i \in 1..(n + 1) |-> IF i = n + 1 THEN e ELSE x[i]]
  BY ONLY <1>a, <1>0, AppendFn
<1>2. ASSUME NEW i \in 1..(n + 1) PROVE y[i] = IF i = n + 1 THEN e ELSE x[i]
  <2>1. CASE i = n + 1
    BY <2>1
  <2>2. CASE i # n + 1
    <3>1. i \in 1..n
      BY <1>a, <2>2
    <3> QED
      BY <2>2, <3>1
  <2> QED
    BY <2>1, <2>2
<1>3. y = [i \in 1..(n + 1) |-> y[i]]
  BY DEF Spans
<1> QED
  BY <1>1, <1>2, <1>3

\* What has the elements of x from the second on is the tail of x.
LEMMA TailIs ==
  ASSUME NEW n, NEW x, NEW y, Spans(x, n), n > 0, Spans(y, n - 1), \A i \in 1..(n - 1) : y[i] = x[i + 1]
  PROVE  Tail(x) = y
<1> DEFINE S == {x[i] : i \in 1..n}
<1>a. n \in Nat /\ n > 0
  BY DEF Spans
<1>0. x \in [1..n -> S]
  BY DEF Spans
<1> HIDE DEF S
<1>1. Tail(x) = [i \in 1..(n - 1) |-> x[i + 1]]
  BY ONLY <1>a, <1>0, TailFn
<1>3. y = [i \in 1..(n - 1) |-> y[i]]
  BY DEF Spans
<1> QED
  BY <1>1, <1>3

\* The length of a sequence that is given by its elements.
LEMMA LenIs ==
  ASSUME NEW n, NEW x, Spans(x, n)
  PROVE  Len(x) = n
<1> DEFINE S == {x[i] : i \in 1..n}
<1>0. n \in Nat /\ x \in [1..n -> S]
  BY DEF Spans
<1> HIDE DEF S
<1> QED
  BY ONLY <1>0, FunctionIsSeq

\* A chain is the same as long as its links are.
LEMMA ThreadSame ==
  ASSUME NEW S, NEW null, NEW o, NEW nx, NEW nx2, NEW L \in Nat, NEW s, IsThread(s, L, S, o, nx, null),
         \A i \in 1..L : nx2[s[i]] = nx[s[i]]
  PROVE  IsThread(s, L, S, o, nx2, null)
<1>1. L > 0 => L \in 1..L
  OBVIOUS
<1> QED
  BY <1>1 DEF IsThread

\* Two chains hung on one another.
Joined(s, L, t, M) == [i \in 1..(L + M) |-> IF i <= L THEN s[i] ELSE t[i - L]]
LEMMA JoinedElements ==
  ASSUME NEW L \in Nat, NEW M \in Nat, NEW s, NEW t
  PROVE  /\ Joined(s, L, t, M) = [i \in 1..(L + M) |-> Joined(s, L, t, M)[i]]
         /\ \A i \in 1..L : Joined(s, L, t, M)[i] = s[i]
         /\ \A i \in 1..M : Joined(s, L, t, M)[L + i] = t[i]
         /\ \A i \in 1..(L + M) : i > L => i - L \in 1..M /\ Joined(s, L, t, M)[i] = t[i - L]
<1>1. \A i \in 1..L : i \in 1..(L + M) /\ i <= L
  OBVIOUS
<1>2. \A i \in 1..M : L + i \in 1..(L + M) /\ ~(L + i <= L) /\ (L + i) - L = i
  OBVIOUS
<1>3. \A i \in 1..(L + M) : i > L => i - L \in 1..M /\ ~(i <= L)
  OBVIOUS
<1>4. \A i \in 1..(L + M) : Joined(s, L, t, M)[i] = IF i <= L THEN s[i] ELSE t[i - L]
  BY DEF Joined
<1>5. Joined(s, L, t, M) = [i \in 1..(L + M) |-> Joined(s, L, t, M)[i]]
  BY DEF Joined
<1> QED
  BY <1>1, <1>2, <1>3, <1>4, <1>5

\* ... are of the kind that both are.
LEMMA JoinedType ==
  ASSUME NEW S, NEW L \in Nat, NEW M \in Nat, NEW s \in [1..L -> S], NEW t \in [1..M -> S]
  PROVE  Joined(s, L, t, M) \in [1..(L + M) -> S]
<1>1. \A i \in 1..(L + M) : (i <= L => i \in 1..L) /\ (~(i <= L) => i - L \in 1..M)
  OBVIOUS
<1> QED
  BY <1>1 DEF Joined

\* A chain of one link.
One(n) == [i \in 1..1 |-> n]

\* Appending is concatenating a sequence of one element.
LEMMA AppendOne ==
  ASSUME NEW k, NEW x, NEW e, NEW y, Spans(x, k), Spans(y, 1), y[1] = e
  PROVE  Append(x, e) = x \o y
<1> DEFINE z == [i \in 1..(k + 1) |-> IF i <= k THEN x[i] ELSE e]
<1>1. k \in Nat
  BY DEF Spans
<1>2. Spans(z, k + 1)
  BY <1>1 DEF Spans
<1>3. \A i \in 1..k : z[i] = x[i]
  BY <1>1
<1>4. z[k + 1] = e
  BY <1>1
<1>5. \A i \in 1..1 : z[k + i] = y[i]
  BY <1>4
<1> HIDE DEF z
<1>6. Append(x, e) = z
  BY ONLY <1>2, <1>3, <1>4, AppendIs, Spans(x, k)
<1>7. x \o y = z
  BY ONLY <1>2, <1>3, <1>5, ConcatIs, Spans(x, k), Spans(y, 1)
<1> QED
  BY <1>6, <1>7

\* A link hung on a chain, and one put in front.
LEMMA JoinedOne ==
  ASSUME NEW L \in Nat, NEW s, NEW n
  PROVE  /\ \A i \in 1..L : Joined(s, L, One(n), 1)[i] = s[i]
         /\ Joined(s, L, One(n), 1)[L + 1] = n
         /\ \A i \in 1..(L + 1) : i \in 1..L \/ i = L + 1
<1>1. (\A i \in 1..L : i \in 1..(L + 1) /\ i <= L) /\ L + 1 \in 1..(L + 1) /\ ~(L + 1 <= L) /\ (L + 1) - L = 1
  OBVIOUS
<1>2. One(n)[1] = n
  BY DEF One
<1>3. \A i \in 1..(L + 1) : i \in 1..L \/ i = L + 1
  OBVIOUS
<1> QED
  BY <1>1, <1>2, <1>3 DEF Joined

\* A sequence with an element put in front: the others move up by one.
LEMMA OneJoined ==
  ASSUME NEW L \in Nat, NEW s, NEW n
  PROVE  /\ \A i \in 1..L : Joined(One(n), 1, s, L)[i + 1] = s[i]
         /\ Joined(One(n), 1, s, L)[1] = n
         /\ \A i \in 1..(1 + L) : i = 1 \/ i - 1 \in 1..L
<1>1. (\A i \in 1..L : i + 1 \in 1..(1 + L) /\ ~(i + 1 <= 1) /\ (i + 1) - 1 = i) /\ 1 \in 1..(1 + L) /\ 1 <= 1
  OBVIOUS
<1>2. One(n)[1] = n
  BY DEF One
<1>3. \A i \in 1..(1 + L) : i = 1 \/ i - 1 \in 1..L
  OBVIOUS
<1> QED
  BY <1>1, <1>2, <1>3 DEF Joined

\* Two chains without a common link, the last link of the first pointing to the
\* first of the second, are one chain.
LEMMA ThreadJoin ==
  ASSUME NEW S, NEW null, NEW o, NEW nx, NEW L \in Nat, NEW M \in Nat, NEW s \in [1..L -> S], NEW t \in [1..M -> S],
         \A i, j \in 1..L : s[i] = s[j] => i = j, \A i, j \in 1..M : t[i] = t[j] => i = j,
         \A i \in 1..L : \A j \in 1..M : s[i] # t[j],
         \A i \in 1..L : i < L => nx[s[i]] = s[i + 1], \A i \in 1..M : i < M => nx[t[i]] = t[i + 1],
         M > 0 => nx[t[M]] = null, L > 0 /\ M > 0 => nx[s[L]] = t[1], L > 0 /\ M = 0 => nx[s[L]] = null,
         L > 0 => o = s[1], L = 0 /\ M > 0 => o = t[1], L = 0 /\ M = 0 => o = null
  PROVE  IsThread(Joined(s, L, t, M), L + M, S, o, nx, null)
<1> DEFINE u == Joined(s, L, t, M)
<1>1. /\ u \in [1..(L + M) -> S]
      /\ \A i \in 1..L : u[i] = s[i]
      /\ \A i \in 1..(L + M) : i > L => i - L \in 1..M /\ u[i] = t[i - L]
  <2>1. u \in [1..(L + M) -> S]
    BY JoinedType
  <2>2. L \in Nat /\ M \in Nat
    OBVIOUS
  <2>3. /\ \A i \in 1..L : u[i] = s[i]
        /\ \A i \in 1..(L + M) : i > L => i - L \in 1..M /\ u[i] = t[i - L]
    BY ONLY <2>2, JoinedElements
  <2> QED
    BY <2>1, <2>3
<1> HIDE DEF u
<1>2. ASSUME NEW i \in 1..(L + M), NEW j \in 1..(L + M), u[i] = u[j] PROVE i = j
  <2>1. CASE i <= L /\ j <= L
    <3>1. i \in 1..L /\ j \in 1..L
      BY <2>1
    <3>2. s[i] = s[j]
      BY <1>1, <1>2, <3>1
    <3> QED
      BY <3>1, <3>2
  <2>2. CASE i > L /\ j > L
    <3>1. i - L \in 1..M /\ j - L \in 1..M /\ t[i - L] = t[j - L]
      BY <1>1, <1>2, <2>2
    <3>2. i - L = j - L
      BY <3>1
    <3> QED
      BY <3>2
  <2>3. CASE i <= L /\ j > L
    <3>1. i \in 1..L /\ j - L \in 1..M
      BY <1>1, <2>3
    <3> QED
      BY <1>1, <1>2, <2>3, <3>1
  <2>4. CASE i > L /\ j <= L
    <3>1. j \in 1..L /\ i - L \in 1..M
      BY <1>1, <2>4
    <3> QED
      BY <1>1, <1>2, <2>4, <3>1
  <2>5. (i <= L \/ i > L) /\ (j <= L \/ j > L)
    OBVIOUS
  <2> QED
    BY ONLY <2>1, <2>2, <2>3, <2>4, <2>5
<1>3. ASSUME L + M = 0 PROVE o = null
  BY <1>3
<1>4. ASSUME L + M > 0 PROVE o = u[1] /\ nx[u[L + M]] = null
  <2>1. CASE L = 0
    <3>1. M > 0 /\ 1 \in 1..(L + M) /\ 1 > L /\ 1 - L = 1 /\ L + M = M /\ M \in 1..(L + M) /\ M > L /\ M - L = M
      BY <1>4, <2>1
    <3>2. u[1] = t[1] /\ u[L + M] = t[M]
      BY <1>1, <3>1
    <3> QED
      BY <2>1, <3>1, <3>2
  <2>2. CASE L > 0 /\ M = 0
    <3>1. 1 \in 1..L /\ L \in 1..L /\ L + M = L
      BY <2>2
    <3> QED
      BY <1>1, <2>2, <3>1
  <2>3. CASE L > 0 /\ M > 0
    <3>1. 1 \in 1..L /\ L + M \in 1..(L + M) /\ L + M > L /\ (L + M) - L = M
      BY <2>3
    <3>2. u[1] = s[1] /\ u[L + M] = t[M]
      BY <1>1, <3>1
    <3> QED
      BY <2>3, <3>2
  <2> QED
    BY <2>1, <2>2, <2>3
<1>5. ASSUME NEW i \in 1..(L + M), i < L + M PROVE nx[u[i]] = u[i + 1]
  <2>1. CASE i < L
    <3>1. i \in 1..L /\ i + 1 \in 1..L
      BY <2>1
    <3> QED
      BY <1>1, <2>1, <3>1
  <2>2. CASE i = L
    <3>1. i \in 1..L /\ i + 1 \in 1..(L + M) /\ i + 1 > L /\ (i + 1) - L = 1 /\ L > 0 /\ M > 0
      BY <1>5, <2>2
    <3>2. u[i] = s[L] /\ u[i + 1] = t[1]
      BY <1>1, <2>2, <3>1
    <3> QED
      BY <3>1, <3>2
  <2>3. CASE i > L
    <3>1. i - L \in 1..M /\ i - L < M /\ i + 1 \in 1..(L + M) /\ i + 1 > L /\ (i + 1) - L = (i - L) + 1
      BY <1>5, <2>3
    <3>2. u[i] = t[i - L] /\ u[i + 1] = t[(i - L) + 1]
      BY <1>1, <2>3, <3>1
    <3>3. nx[t[i - L]] = t[(i - L) + 1]
      BY <3>1
    <3> QED
      BY <3>2, <3>3
  <2> QED
    BY <2>1, <2>2, <2>3
<1>6. IsThread(u, L + M, S, o, nx, null)
  BY <1>1, <1>2, <1>3, <1>4, <1>5 DEF IsThread
<1> QED
  BY <1>6 DEF u

\* The rest of a chain from its p-th link on.
Rest(s, L, p) == [i \in 1..(L - p + 1) |-> s[i + p - 1]]
LEMMA ThreadRest ==
  ASSUME NEW S, NEW null, NEW o, NEW nx, NEW L \in Nat, NEW s, IsThread(s, L, S, o, nx, null),
         NEW p \in 1..(L + 1), NEW o2, p <= L => o2 = s[p], p = L + 1 => o2 = null
  PROVE  IsThread(Rest(s, L, p), L - p + 1, S, o2, nx, null)
<1> DEFINE M == L - p + 1
           u == Rest(s, L, p)
<1>0. /\ s \in [1..L -> S] /\ \A i, j \in 1..L : s[i] = s[j] => i = j
      /\ L > 0 => nx[s[L]] = null
      /\ \A i \in 1..L : i < L => nx[s[i]] = s[i + 1]
  BY DEF IsThread
<1>1. M \in Nat /\ \A i \in 1..M : i + p - 1 \in 1..L
  OBVIOUS
<1>2. u \in [1..M -> S] /\ \A i \in 1..M : u[i] = s[i + p - 1]
  BY <1>0, <1>1 DEF Rest
<1> HIDE DEF u
<1>3. ASSUME NEW i \in 1..M, NEW j \in 1..M, u[i] = u[j] PROVE i = j
  <2>1. i + p - 1 = j + p - 1
    BY <1>0, <1>1, <1>2, <1>3
  <2> QED
    BY <2>1
<1>4. ASSUME M > 0 PROVE o2 = u[1] /\ nx[u[M]] = null
  <2>1. 1 \in 1..M /\ 1 + p - 1 = p /\ M \in 1..M /\ M + p - 1 = L /\ p <= L /\ L > 0
    BY <1>1, <1>4
  <2>2. u[1] = s[p] /\ u[M] = s[L]
    BY <1>2, <2>1
  <2> QED
    BY <1>0, <2>1, <2>2
<1>5. ASSUME M = 0 PROVE o2 = null
  BY <1>5
<1>6. ASSUME NEW i \in 1..M, i < M PROVE nx[u[i]] = u[i + 1]
  <2>1. i + 1 \in 1..M /\ (i + 1) + p - 1 = (i + p - 1) + 1 /\ i + p - 1 < L /\ i + p - 1 \in 1..L
    BY <1>1, <1>6
  <2>2. u[i] = s[i + p - 1] /\ u[i + 1] = s[(i + p - 1) + 1]
    BY <1>2, <2>1
  <2>3. nx[s[i + p - 1]] = s[(i + p - 1) + 1]
    BY <1>0, <2>1
  <2> QED
    BY <2>2, <2>3
<1>7. IsThread(u, M, S, o2, nx, null)
  BY <1>2, <1>3, <1>4, <1>5, <1>6 DEF IsThread
<1> QED
  BY <1>7 DEF u

-----------------------------------------------------------------------------
\* More of the sleepers awake, no more units: nothing is lost.  Stated for both
\* condition variables.
LEMMA MoreAwake ==
  ASSUME NEW S, NEW W, NEW S2, NEW W2, NEW n \in Int, NEW n2 \in Int,
         S # {} => n <= Cardinality(W),
         IsFiniteSet(W), IsFiniteSet(W2),
         S2 # {} => S # {}, W \subseteq W2, n2 <= n
  PROVE  S2 # {} => n2 <= Cardinality(W2)
<1>1. Cardinality(W) \in Nat /\ Cardinality(W2) \in Nat
  BY FS_CardinalityType
<1>2. Cardinality(W) <= Cardinality(W2)
  BY FS_Subset
<1> QED
  BY <1>1, <1>2

\* A woken thread runs and takes a unit: both sides go down by one.
LEMMA TakerGone ==
  ASSUME NEW S, NEW W, NEW t, NEW n \in Int,
         S # {} => n <= Cardinality(W), IsFiniteSet(W)
  PROVE  S # {} => n - 1 <= Cardinality(W \ {t})
<1>1. Cardinality(W) \in Nat
  BY FS_CardinalityType
<1>2. Cardinality(W \ {t}) = IF t \in W THEN Cardinality(W) - 1 ELSE Cardinality(W)
  BY FS_RemoveElement
<1> QED
  BY <1>1, <1>2

\* One of the sleepers S is awake too, or there is none: both sides go up by one, or
\* nobody sleeps any more.
LEMMA OneMoreAwake ==
  ASSUME NEW S, NEW W, NEW R, NEW n \in Int,
         S = {} => R = {}, S # {} => \E u \in S : R = S \ {u},
         S # {} => n <= Cardinality(W), IsFiniteSet(W), S \cap W = {}
  PROVE  R # {} => n + 1 <= Cardinality(W \cup (S \ R))
<1>1. CASE S = {}
  BY <1>1
<1>2. CASE S # {}
  <2>1. PICK u \in S : R = S \ {u}
    BY <1>2
  <2>2. W \cup (S \ R) = W \cup {u} /\ u \notin W
    BY <2>1
  <2>3. Cardinality(W \cup {u}) = Cardinality(W) + 1
    BY <2>2, FS_AddElement
  <2>4. Cardinality(W) \in Nat
    BY FS_CardinalityType
  <2> QED
    BY <1>2, <2>2, <2>3, <2>4
<1> QED
  BY <1>1, <1>2

-----------------------------------------------------------------------------
\* The places at which b occurs among the first n elements of x.
Places(x, n, b) == {i \in 1..n : x[i] = b}

\* There are finitely many, and none exactly when b does not occur.
LEMMA PlacesFinite ==
  ASSUME NEW x, NEW n \in Nat, NEW b
  PROVE  /\ IsFiniteSet(Places(x, n, b)) /\ Cardinality(Places(x, n, b)) \in Nat
         /\ Cardinality(Places(x, n, b)) > 0 <=> \E i \in 1..n : x[i] = b
<1>1. IsFiniteSet(1..n)
  BY FS_Interval
<1>2. Places(x, n, b) \in SUBSET (1..n)
  BY DEF Places
<1>3. IsFiniteSet(Places(x, n, b))
  BY <1>1, <1>2, FS_Subset
<1>4. Cardinality(Places(x, n, b)) \in Nat /\ (Cardinality(Places(x, n, b)) = 0 <=> Places(x, n, b) = {})
  BY <1>3, FS_CardinalityType, FS_EmptySet
<1>5. Places(x, n, b) = {} <=> ~\E i \in 1..n : x[i] = b
  BY DEF Places
<1> QED
  BY <1>3, <1>4, <1>5

\* A set of numbers mapped one to one has as many elements as before.
LEMMA SameCount ==
  ASSUME NEW S, IsFiniteSet(S), NEW T, NEW f \in [S -> T],
         \A i, j \in S : f[i] = f[j] => i = j, \A k \in T : \E i \in S : f[i] = k
  PROVE  IsFiniteSet(T) /\ Cardinality(T) = Cardinality(S)
<1>1. f \in Bijection(S, T)
  BY DEF Bijection, Injection, Surjection, IsInjective
<1> QED
  BY <1>1, FS_Bijection DEF ExistsBijection

\* y is x without the r elements z after its first p: what is gone from y is in z.
CutOut(x, n, y, k, z, p, r) ==
    /\ n \in Nat /\ p \in Nat /\ r \in Nat /\ p + r <= n /\ k = n - r
    /\ \A i \in 1..p : y[i] = x[i]
    /\ \A i \in 1..k : i > p => y[i] = x[i + r]
    /\ \A i \in 1..r : z[i] = x[i + p]
LEMMA PlacesCut ==
  ASSUME NEW n, NEW p, NEW r, NEW x, NEW y, NEW z, NEW b, NEW k, CutOut(x, n, y, k, z, p, r)
  PROVE  Cardinality(Places(x, n, b)) = Cardinality(Places(y, k, b)) + Cardinality(Places(z, r, b))
<1> n \in Nat /\ p \in Nat /\ r \in Nat /\ p + r <= n /\ k = n - r
  BY DEF CutOut
<1> (\A i \in 1..p : y[i] = x[i]) /\ (\A i \in 1..r : z[i] = x[i + p])
  BY DEF CutOut
<1> \A i \in 1..(n - r) : i > p => y[i] = x[i + r]
  BY DEF CutOut
<1> DEFINE X == Places(x, n, b)
           Y == Places(y, n - r, b)
           Z == Places(z, r, b)
           A == {i \in X : i <= p \/ i > p + r}
           B == {i \in X : i > p /\ i <= p + r}
           f == [i \in Y |-> IF i <= p THEN i ELSE i + r]
           g == [i \in Z |-> i + p]
<1>0. n - r \in Nat /\ X \in SUBSET Nat /\ Y \in SUBSET Nat /\ Z \in SUBSET Nat
  BY DEF Places
<1>1. IsFiniteSet(X) /\ IsFiniteSet(Y) /\ IsFiniteSet(Z)
  BY <1>0, PlacesFinite
<1>2. Cardinality(A) = Cardinality(Y)
  <2>1. ASSUME NEW i \in Y PROVE f[i] \in A
    <3>1. i \in 1..(n - r) /\ y[i] = b
      BY DEF Places
    <3>2. CASE i <= p
      <4>1. i \in 1..n /\ i \in 1..p /\ f[i] = i
        BY <3>1, <3>2
      <4>2. x[i] = b
        BY <3>1, <4>1
      <4> QED
        BY <3>2, <4>1, <4>2 DEF Places
    <3>3. CASE i > p
      <4>1. i + r \in 1..n /\ i + r > p + r /\ f[i] = i + r
        BY <3>1, <3>3
      <4>2. x[i + r] = b
        BY <3>1, <3>3
      <4> QED
        BY <4>1, <4>2 DEF Places
    <3> QED
      BY <3>1, <3>2, <3>3
  <2>2. ASSUME NEW j \in A PROVE \E i \in Y : f[i] = j
    <3>1. j \in 1..n /\ x[j] = b
      BY DEF Places
    <3>2. CASE j <= p
      <4>1. j \in 1..(n - r) /\ j \in 1..p
        BY <3>1, <3>2
      <4>2. j \in Y
        BY <3>1, <4>1 DEF Places
      <4>3. f[j] = j
        BY <3>2, <4>2
      <4> QED
        BY <4>2, <4>3
    <3>3. CASE j > p + r
      <4>1. j - r \in 1..(n - r) /\ j - r > p /\ (j - r) + r = j /\ ~(j - r <= p)
        BY <3>1, <3>3
      <4>2. j - r \in Y
        BY <3>1, <4>1 DEF Places
      <4>3. f[j - r] = j
        BY <4>1, <4>2
      <4> QED
        BY <4>2, <4>3
    <3> QED
      BY <3>2, <3>3
  <2>3. ASSUME NEW i \in Y, NEW j \in Y, f[i] = f[j] PROVE i = j
    BY <1>0, <2>3
  <2>4. f \in [Y -> A]
    BY <2>1
  <2> HIDE DEF f, Y, A
  <2> QED
    BY <1>1, <2>2, <2>3, <2>4, SameCount
<1>3. Cardinality(B) = Cardinality(Z)
  <2>1. ASSUME NEW i \in Z PROVE g[i] \in B
    <3>1. i \in 1..r /\ z[i] = b /\ g[i] = i + p
      BY DEF Places
    <3>2. i + p \in 1..n /\ i + p > p /\ i + p <= p + r /\ x[i + p] = b
      BY <3>1
    <3> QED
      BY <3>1, <3>2 DEF Places
  <2>2. ASSUME NEW j \in B PROVE \E i \in Z : g[i] = j
    <3>1. j \in 1..n /\ x[j] = b /\ j > p /\ j <= p + r
      BY DEF Places
    <3>2. j - p \in 1..r /\ (j - p) + p = j
      BY <3>1
    <3>3. j - p \in Z
      BY <3>1, <3>2 DEF Places
    <3> QED
      BY <3>2, <3>3
  <2>3. ASSUME NEW i \in Z, NEW j \in Z, g[i] = g[j] PROVE i = j
    BY <1>0, <2>3
  <2>4. g \in [Z -> B]
    BY <2>1
  <2> HIDE DEF g, Z, B
  <2> QED
    BY <1>1, <2>2, <2>3, <2>4, SameCount
<1>4. X = A \cup B /\ A \cap B = {}
  BY <1>0
<1>5. IsFiniteSet(A) /\ IsFiniteSet(B)
  <2>1. A \in SUBSET X /\ B \in SUBSET X
    OBVIOUS
  <2> HIDE DEF A, B, X
  <2> QED
    BY <1>1, <2>1, FS_Subset
<1> HIDE DEF A, B, X, Y, Z
<1>6. Cardinality(X) = Cardinality(A) + Cardinality(B) - Cardinality({})
  BY <1>4, <1>5, FS_Union
<1>7. Cardinality({}) = 0 /\ Cardinality(A) \in Nat /\ Cardinality(B) \in Nat
  BY <1>5, FS_EmptySet, FS_CardinalityType
<1>8. Cardinality(X) = Cardinality(Y) + Cardinality(Z)
  BY <1>2, <1>3, <1>6, <1>7
<1> QED
  BY <1>8 DEF X, Y, Z

\* A family G of sets over H, as one set of pairs.
Spread(H, G) == UNION {{h} \X G[h] : h \in H}

\* It is finite when H and the sets of the family are.
LEMMA SpreadFinite ==
  ASSUME NEW H, IsFiniteSet(H), NEW G, \A h \in H : IsFiniteSet(G[h])
  PROVE  IsFiniteSet(Spread(H, G)) /\ Cardinality(Spread(H, G)) \in Nat
<1> DEFINE Of(h) == {h} \X G[h]
           F == [h \in H |-> Of(h)]
<1>1. ASSUME NEW h \in H PROVE IsFiniteSet(Of(h))
  <2>1. IsFiniteSet({h})
    BY FS_Singleton
  <2> QED
    BY <2>1, FS_Product
<1> HIDE DEF Of
<1>2. F \in Surjection(H, {Of(h) : h \in H})
  BY DEF Surjection
<1>3. IsFiniteSet({Of(h) : h \in H})
  BY <1>2, FS_Surjection
<1>4. IsFiniteSet(UNION {Of(h) : h \in H})
  BY <1>1, <1>3, FS_UNION
<1> QED
  BY <1>4, FS_CardinalityType DEF Spread, Of

\* One set of the family and the others.
LEMMA SpreadParts ==
  ASSUME NEW H, IsFiniteSet(H), NEW G, \A h \in H : IsFiniteSet(G[h]), NEW g \in H
  PROVE  Cardinality(Spread(H, G)) = Cardinality(Spread(H \ {g}, G)) + Cardinality(G[g])
<1> DEFINE A == Spread(H \ {g}, G)
           B == {g} \X G[g]
<1>1. IsFiniteSet(H \ {g}) /\ IsFiniteSet({g}) /\ Cardinality({g}) = 1
  BY FS_Difference, FS_Singleton
<1>2. IsFiniteSet(A) /\ Cardinality(A) \in Nat
  BY <1>1, SpreadFinite
<1>3. IsFiniteSet(B) /\ Cardinality(B) = 1 * Cardinality(G[g]) /\ Cardinality(G[g]) \in Nat
  BY <1>1, FS_Product, FS_CardinalityType
<1>4. Spread(H, G) = A \cup B
  BY DEF Spread
<1>5. A \cap B = {}
  BY DEF Spread
<1> HIDE DEF A, B
<1>6. Cardinality(Spread(H, G)) = Cardinality(A) + Cardinality(B) - Cardinality({})
  BY <1>2, <1>3, <1>4, <1>5, FS_Union
<1>7. Cardinality({}) = 0
  BY FS_EmptySet
<1> QED
  BY <1>2, <1>3, <1>6, <1>7 DEF A

\* One set of the family changes.
LEMMA SpreadChanges ==
  ASSUME NEW H, IsFiniteSet(H), NEW G, \A h \in H : IsFiniteSet(G[h]), NEW g \in H,
         NEW G2, IsFiniteSet(G2[g]), \A h \in H : h # g => G2[h] = G[h]
  PROVE  /\ Cardinality(Spread(H, G)) \in Nat /\ Cardinality(Spread(H, G2)) \in Nat
         /\ Cardinality(G[g]) \in Nat /\ Cardinality(G2[g]) \in Nat
         /\ Cardinality(G[g]) <= Cardinality(Spread(H, G))
         /\ Cardinality(Spread(H, G2)) = Cardinality(Spread(H, G)) - Cardinality(G[g]) + Cardinality(G2[g])
<1>1. \A h \in H : IsFiniteSet(G2[h])
  OBVIOUS
<1>2. Spread(H \ {g}, G2) = Spread(H \ {g}, G)
  BY DEF Spread
<1>3. IsFiniteSet(H \ {g})
  BY FS_Difference
<1>4. Cardinality(Spread(H \ {g}, G)) \in Nat
  BY <1>3, SpreadFinite
<1>5. Cardinality(G[g]) \in Nat /\ Cardinality(G2[g]) \in Nat
  BY FS_CardinalityType
<1>6. Cardinality(Spread(H, G)) = Cardinality(Spread(H \ {g}, G)) + Cardinality(G[g])
  BY SpreadParts
<1>7. Cardinality(Spread(H, G2)) = Cardinality(Spread(H \ {g}, G)) + Cardinality(G2[g])
  BY <1>1, <1>2, SpreadParts
<1> QED
  BY <1>4, <1>5, <1>6, <1>7
=============================================================================

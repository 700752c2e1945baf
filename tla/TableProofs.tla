---------------------------- MODULE TableProofs -----------------------------
(***************************************************************************)
(* Theorems about the tables and arrays of one thread: TW_KHash_32 with its *)
(* rehash in place, DynArray, TW_StringStringMap and TW_StringMapGeneric.   *)
(***************************************************************************)
EXTENDS MCContainers, SharedLemmas

Slots == Value \cup {Vec!Zero, Vec!Garbage}

\* What is stored is what should be there, and it is a sequence.
ArrayKept == /\ vals \in [Array -> Seq(Slots)] /\ store = vals
             /\ size = [a \in Array |-> Len(vals[a])]

\* A call that stores in an array what the calls should leave there keeps the invariant.
LEMMA SetKeepsArray ==
  ASSUME ArrayKept, NEW a \in Array, NEW s \in Seq(Slots), Vec!Set(a, s, s)
  PROVE  ArrayKept'
<1>1. vals' \in [Array -> Seq(Slots)] /\ store' = vals'
  BY DEF ArrayKept, Vec!Set
<1>2. size' = [b \in Array |-> Len(vals'[b])]
  BY DEF ArrayKept, Vec!Set
<1> QED
  BY <1>1, <1>2 DEF ArrayKept

\* A function with the domain and the elements of a sequence is that sequence.
LEMMA SameSeq ==
  ASSUME NEW S, NEW s \in Seq(S), NEW t, DOMAIN t = 1..Len(s), t = [i \in DOMAIN t |-> t[i]],
         \A i \in 1..Len(s) : t[i] = s[i]
  PROVE  t = s
<1>1. s = [i \in 1..Len(s) |-> s[i]]
  BY LenProperties
<1> QED
  BY <1>1

\* Where the elements of a concatenation are.
LEMMA ConcatElements ==
  ASSUME NEW S, NEW x \in Seq(S), NEW y \in Seq(S)
  PROVE  /\ x \o y \in Seq(S) /\ Len(x \o y) = Len(x) + Len(y)
         /\ Len(x) \in Nat /\ Len(y) \in Nat
         /\ \A i \in 1..Len(x) : (x \o y)[i] = x[i]
         /\ \A i \in (Len(x) + 1)..(Len(x) + Len(y)) : (x \o y)[i] = y[i - Len(x)]
<1> SUFFICES ASSUME NEW m \in Nat, NEW k \in Nat, Len(x) = m, Len(y) = k
    PROVE  /\ x \o y \in Seq(S) /\ Len(x \o y) = m + k
           /\ \A i \in 1..m : (x \o y)[i] = x[i]
           /\ \A i \in (m + 1)..(m + k) : (x \o y)[i] = y[i - m]
  BY LenProperties
<1>1. /\ x \o y \in Seq(S) /\ Len(x \o y) = m + k
      /\ \A i \in 1..(m + k) : (x \o y)[i] = IF i <= m THEN x[i] ELSE y[i - m]
  BY ConcatProperties
<1>2. ASSUME NEW i \in 1..m PROVE (x \o y)[i] = x[i]
  <2>1. i \in 1..(m + k) /\ i <= m
    OBVIOUS
  <2> QED
    BY <1>1, <2>1
<1>3. ASSUME NEW i \in (m + 1)..(m + k) PROVE (x \o y)[i] = y[i - m]
  <2>1. i \in 1..(m + k) /\ ~(i <= m)
    OBVIOUS
  <2> QED
    BY <1>1, <2>1
<1> QED
  BY <1>1, <1>2, <1>3

\* Elements of an array that has grown, and of one that was copied to.
LEMMA Grown ==
  ASSUME NEW s, Len(s) \in Nat, NEW n \in Nat
  PROVE  /\ DOMAIN Vec!resize(s, n, n, FALSE) = 1..n
         /\ \A i \in 1..n : i <= Len(s) => Vec!resize(s, n, n, FALSE)[i] = s[i]
BY DEF Vec!resize

\* What a copy of k elements does to each element.
LEMMA Copied ==
  ASSUME NEW s, NEW t, NEW at \in Nat, NEW from \in Nat, NEW k \in Nat
  PROVE  /\ DOMAIN Vec!CopyTo(s, at, t, from, k) = DOMAIN s
         /\ Vec!CopyTo(s, at, t, from, k) = [i \in DOMAIN s |-> Vec!CopyTo(s, at, t, from, k)[i]]
         /\ \A i \in DOMAIN s : Vec!CopyTo(s, at, t, from, k)[i] =
                                IF i > at /\ i <= at + k THEN t[from + i - at] ELSE s[i]
BY DEF Vec!CopyTo

\* resize() of an array keeps what fits, and what is new is zero or garbage.
LEMMA ResizedIs ==
  ASSUME NEW S, NEW x \in Seq(S), NEW n \in Nat, NEW z \in BOOLEAN,
         Vec!Zero \in S, Vec!Garbage \in S
  PROVE  LET s == SubSeq(x, 1, IF n < Len(x) THEN n ELSE Len(x))
                  \o [i \in 1..(IF n > Len(x) THEN n - Len(x) ELSE 0) |->
                        IF z THEN Vec!Zero ELSE Vec!Garbage]
         IN  s \in Seq(S) /\ Vec!resize(x, Len(x), n, z) = s
<1> DEFINE mm == Len(x)
           kk == IF n < mm THEN n ELSE mm
           oo == IF n > mm THEN n - mm ELSE 0
<1>0. /\ mm \in Nat /\ kk \in Nat /\ oo \in Nat
      /\ n < mm => kk = n /\ oo = 0
      /\ n >= mm => kk = mm /\ oo = n - mm
  BY LenProperties
<1> SUFFICES ASSUME NEW m \in Nat, Len(x) = m, NEW kept \in Nat, NEW more \in Nat,
                    n < m => kept = n /\ more = 0, n >= m => kept = m /\ more = n - m
    PROVE  LET s == SubSeq(x, 1, kept) \o [i \in 1..more |-> IF z THEN Vec!Zero ELSE Vec!Garbage]
           IN  s \in Seq(S) /\ Vec!resize(x, m, n, z) = s
  BY <1>0, Zenon
<1> HIDE DEF mm, kk, oo
<1> DEFINE front == SubSeq(x, 1, kept)
           back == [i \in 1..more |-> IF z THEN Vec!Zero ELSE Vec!Garbage]
           t == Vec!resize(x, m, n, z)
<1>1. kept <= m /\ kept + more = n
  OBVIOUS
<1>2. front \in Seq(S) /\ Len(front) = kept /\ \A i \in 1..kept : front[i] = x[i]
  BY <1>1, SubSeqProperties
<1>3. /\ back \in Seq(S) /\ Len(back) = more
      /\ \A i \in 1..more : back[i] = IF z THEN Vec!Zero ELSE Vec!Garbage
  BY FunctionIsSeq
<1>4. /\ DOMAIN t = 1..n /\ t = [i \in DOMAIN t |-> t[i]]
      /\ \A i \in 1..n : t[i] = IF i > m /\ z THEN Vec!Zero ELSE IF i <= m THEN x[i] ELSE Vec!Garbage
  BY DEF Vec!resize
<1> HIDE DEF front, back, t
<1>5. /\ front \o back \in Seq(S) /\ Len(front \o back) = kept + more
      /\ \A i \in 1..kept : (front \o back)[i] = front[i]
      /\ \A i \in (kept + 1)..(kept + more) : (front \o back)[i] = back[i - kept]
  <2>1. /\ front \o back \in Seq(S) /\ Len(front \o back) = Len(front) + Len(back)
        /\ \A i \in 1..Len(front) : (front \o back)[i] = front[i]
        /\ \A i \in (Len(front) + 1)..(Len(front) + Len(back)) : (front \o back)[i] = back[i - Len(front)]
    BY ONLY <1>2, <1>3, ConcatElements
  <2> QED
    BY <1>2, <1>3, <2>1
<1>6. ASSUME NEW i \in 1..n PROVE t[i] = (front \o back)[i]
  <2>1. CASE i <= kept
    <3>1. i \in 1..kept /\ i <= m
      BY <1>1, <2>1
    <3> QED
      BY <1>2, <1>4, <1>5, <3>1
  <2>2. CASE i > kept
    <3>1. i \in (kept + 1)..(kept + more) /\ i - kept \in 1..more /\ i > m
      BY <1>1, <2>2
    <3>2. (front \o back)[i] = back[i - kept]
      BY <1>5, <3>1
    <3>3. back[i - kept] = IF z THEN Vec!Zero ELSE Vec!Garbage
      BY <1>3, <3>1
    <3>4. t[i] = IF z THEN Vec!Zero ELSE Vec!Garbage
      BY <1>4, <3>1
    <3> QED
      BY <3>2, <3>3, <3>4
  <2>3. i <= kept \/ i > kept
    OBVIOUS
  <2> QED
    BY ONLY <2>1, <2>2, <2>3
<1>7. t = front \o back
  <2> DEFINE s == front \o back
  <2>1. s \in Seq(S) /\ Len(s) = n
    BY <1>1, <1>5
  <2>2. \A i \in 1..n : t[i] = s[i]
    BY <1>6
  <2> HIDE DEF s
  <2>3. t = s
    BY ONLY <1>4, <2>1, <2>2, SameSeq
  <2> QED
    BY <2>3 DEF s
<1> QED
  BY <1>5, <1>7 DEF front, back, t

\* addToEnd() of one element appends it.
LEMMA AddedIs ==
  ASSUME NEW S, NEW x \in Seq(S), NEW v \in S
  PROVE  /\ Append(x, v) \in Seq(S)
         /\ [Vec!resize(x, Len(x) + 1, Len(x) + 1, FALSE) EXCEPT ![Len(x) + 1] = v] = Append(x, v)
<1> SUFFICES ASSUME NEW m \in Nat, Len(x) = m
    PROVE  /\ Append(x, v) \in Seq(S)
           /\ [Vec!resize(x, m + 1, m + 1, FALSE) EXCEPT ![m + 1] = v] = Append(x, v)
  BY LenProperties
<1> DEFINE g == Vec!resize(x, m + 1, m + 1, FALSE)
           t == [g EXCEPT ![m + 1] = v]
<1>1. /\ Append(x, v) \in Seq(S) /\ Len(Append(x, v)) = m + 1
      /\ Append(x, v)[m + 1] = v /\ \A i \in 1..m : Append(x, v)[i] = x[i]
  BY AppendProperties
<1>2. DOMAIN g = 1..(m + 1) /\ \A i \in 1..(m + 1) : i <= m => g[i] = x[i]
  <2>1. m + 1 \in Nat /\ Len(x) \in Nat
    OBVIOUS
  <2> QED
    BY <2>1, Grown
<1> HIDE DEF g
<1>3. /\ DOMAIN t = 1..(m + 1) /\ t = [i \in DOMAIN t |-> t[i]]
      /\ \A i \in 1..(m + 1) : t[i] = Append(x, v)[i]
  <2>1. DOMAIN t = 1..(m + 1) /\ t = [i \in DOMAIN t |-> t[i]]
    BY <1>2
  <2>2. ASSUME NEW i \in 1..(m + 1) PROVE t[i] = Append(x, v)[i]
    <3>1. CASE i = m + 1
      BY <1>1, <1>2, <3>1
    <3>2. CASE i # m + 1
      <4>1. i \in 1..m /\ i <= m
        BY <3>2
      <4>2. t[i] = g[i]
        BY <1>2, <3>2
      <4> QED
        BY <1>1, <1>2, <4>1, <4>2
    <3> QED
      BY <3>1, <3>2
  <2> HIDE DEF t
  <2> QED
    BY <2>1, <2>2
<1> HIDE DEF t
<1>4. t = Append(x, v)
  BY <1>1, <1>3, SameSeq
<1> QED
  BY <1>1, <1>4 DEF t, g

\* A copy has the elements of the original.
LEMMA CopyIs ==
  ASSUME NEW S, NEW x \in Seq(S)
  PROVE  Vec!CopyTo(Vec!setup(Len(x)), 0, x, 0, Len(x)) = x
<1> SUFFICES ASSUME NEW m \in Nat, Len(x) = m PROVE Vec!CopyTo(Vec!setup(m), 0, x, 0, m) = x
  BY LenProperties
<1> DEFINE g == Vec!setup(m)
           t == Vec!CopyTo(g, 0, x, 0, m)
<1>1. DOMAIN g = 1..m
  BY DEF Vec!setup
<1> HIDE DEF g
<1>2. /\ DOMAIN t = 1..m /\ t = [i \in 1..m |-> t[i]]
      /\ \A i \in 1..m : t[i] = IF i > 0 /\ i <= 0 + m THEN x[0 + i - 0] ELSE g[i]
  BY <1>1 DEF Vec!CopyTo
<1> HIDE DEF t
<1>3. \A i \in 1..m : t[i] = x[i]
  BY <1>2
<1>4. t = x
  BY <1>2, <1>3, SameSeq
<1> QED
  BY <1>4 DEF t, g

\* addToEnd() of an array hangs its elements on.
LEMMA AppendedIs ==
  ASSUME NEW S, NEW x \in Seq(S), NEW y \in Seq(S)
  PROVE  /\ x \o y \in Seq(S)
         /\ Vec!CopyTo(Vec!resize(x, Len(x) + Len(y), Len(x) + Len(y), FALSE), Len(x), y, 0, Len(y)) = x \o y
<1> SUFFICES ASSUME NEW m \in Nat, NEW k \in Nat, Len(x) = m, Len(y) = k
    PROVE  /\ x \o y \in Seq(S)
           /\ Vec!CopyTo(Vec!resize(x, m + k, m + k, FALSE), m, y, 0, k) = x \o y
  BY LenProperties
<1> DEFINE g == Vec!resize(x, m + k, m + k, FALSE)
           t == Vec!CopyTo(g, m, y, 0, k)
<1>1. /\ x \o y \in Seq(S) /\ Len(x \o y) = m + k
      /\ \A i \in 1..m : (x \o y)[i] = x[i]
      /\ \A i \in (m + 1)..(m + k) : (x \o y)[i] = y[i - m]
  BY ConcatElements
<1>2. DOMAIN g = 1..(m + k) /\ \A i \in 1..(m + k) : i <= m => g[i] = x[i]
  <2>1. m + k \in Nat /\ Len(x) \in Nat
    OBVIOUS
  <2> QED
    BY <2>1, Grown
<1> HIDE DEF g
<1>3. /\ DOMAIN t = 1..(m + k) /\ t = [i \in 1..(m + k) |-> t[i]]
      /\ \A i \in 1..(m + k) : t[i] = IF i > m /\ i <= m + k THEN y[0 + i - m] ELSE g[i]
  BY <1>2 DEF Vec!CopyTo
<1> HIDE DEF t
<1>4. ASSUME NEW i \in 1..(m + k) PROVE t[i] = (x \o y)[i]
  <2>1. CASE i <= m
    <3>1. i \in 1..m
      BY <2>1
    <3> QED
      BY <1>1, <1>2, <1>3, <2>1, <3>1
  <2>2. CASE i > m
    <3>1. i \in (m + 1)..(m + k) /\ 0 + i - m = i - m
      BY <2>2
    <3> QED
      BY <1>1, <1>3, <2>2, <3>1
  <2> QED
    BY <2>1, <2>2
<1>5. t = x \o y
  <2> DEFINE s == x \o y
  <2>1. s \in Seq(S) /\ Len(s) = m + k
    BY <1>1
  <2>2. /\ DOMAIN t = 1..Len(s) /\ t = [i \in DOMAIN t |-> t[i]]
        /\ \A i \in 1..Len(s) : t[i] = s[i]
    <3>1. \A i \in 1..(m + k) : t[i] = s[i]
      BY <1>4
    <3> HIDE DEF s
    <3> QED
      BY <1>3, <2>1, <3>1
  <2> HIDE DEF s
  <2>3. t = s
    BY ONLY <2>1, <2>2, SameSeq
  <2> QED
    BY <2>3 DEF s
<1> QED
  BY <1>1, <1>5 DEF t, g

\* insert() puts the other array between the elements before loc and those from it on.
LEMMA InsertedIs ==
  ASSUME NEW S, NEW x \in Seq(S), NEW y \in Seq(S), NEW loc \in Nat, loc <= Len(x)
  PROVE  LET s == SubSeq(x, 1, loc) \o y \o SubSeq(x, loc + 1, Len(x))
         IN  /\ s \in Seq(S)
             /\ Vec!CopyTo(Vec!Shifted(Vec!resize(x, Len(x) + Len(y), Len(x) + Len(y), FALSE),
                                       loc, Len(x), Len(y)), loc, y, 0, Len(y)) = s
<1> SUFFICES ASSUME NEW m \in Nat, NEW k \in Nat, Len(x) = m, Len(y) = k, loc <= m
    PROVE  LET s == SubSeq(x, 1, loc) \o y \o SubSeq(x, loc + 1, m)
           IN  /\ s \in Seq(S)
               /\ Vec!CopyTo(Vec!Shifted(Vec!resize(x, m + k, m + k, FALSE), loc, m, k), loc, y, 0, k) = s
  BY LenProperties
<1> DEFINE g == Vec!resize(x, m + k, m + k, FALSE)
           apart == Vec!Shifted(g, loc, m, k)
           t == Vec!CopyTo(apart, loc, y, 0, k)
           front == SubSeq(x, 1, loc)
           back == SubSeq(x, loc + 1, m)
           s == front \o y \o back
<1>4. loc + k \in Nat /\ m - loc \in Nat /\ (loc + k) + (m - loc) = m + k /\ m + k \in Nat
  OBVIOUS
<1>1. front \in Seq(S) /\ Len(front) = loc /\ \A i \in 1..loc : front[i] = x[i]
  BY SubSeqProperties
<1>2. back \in Seq(S) /\ Len(back) = m - loc /\ \A i \in 1..(m - loc) : back[i] = x[loc + i]
  <2>1. loc + 1 \in 1..(m + 1) /\ m \in ((loc + 1) - 1)..m /\ m - (loc + 1) + 1 = m - loc
    OBVIOUS
  <2>2. back \in Seq(S) /\ Len(back) = m - loc
    BY <2>1, SubSeqProperties
  <2>3. \A i \in 1..(m - (loc + 1) + 1) : back[i] = x[(loc + 1) + i - 1]
    BY <2>1, SubSeqProperties
  <2> HIDE DEF back
  <2> QED
    BY <2>1, <2>2, <2>3
<1> HIDE DEF front, back
<1>3. /\ front \o y \in Seq(S) /\ Len(front \o y) = loc + k
      /\ \A i \in 1..loc : (front \o y)[i] = front[i]
      /\ \A i \in (loc + 1)..(loc + k) : (front \o y)[i] = y[i - loc]
  <2>1. /\ front \o y \in Seq(S) /\ Len(front \o y) = Len(front) + Len(y)
        /\ \A i \in 1..Len(front) : (front \o y)[i] = front[i]
        /\ \A i \in (Len(front) + 1)..(Len(front) + Len(y)) : (front \o y)[i] = y[i - Len(front)]
    <3>1. y \in Seq(S) /\ front \in Seq(S)
      BY <1>1
    <3> QED
      BY ONLY <3>1, ConcatElements
  <2> QED
    BY <1>1, <2>1
<1>5. /\ s \in Seq(S) /\ Len(s) = (loc + k) + (m - loc)
      /\ \A i \in 1..(loc + k) : s[i] = (front \o y)[i]
      /\ \A i \in ((loc + k) + 1)..((loc + k) + (m - loc)) : s[i] = back[i - (loc + k)]
  <2> DEFINE f == front \o y
  <2>0. s = f \o back /\ f \in Seq(S)
    BY <1>3
  <2> HIDE DEF f, s
  <2>1. /\ f \o back \in Seq(S) /\ Len(f \o back) = Len(f) + Len(back)
        /\ \A i \in 1..Len(f) : (f \o back)[i] = f[i]
        /\ \A i \in (Len(f) + 1)..(Len(f) + Len(back)) : (f \o back)[i] = back[i - Len(f)]
    BY ONLY <1>2, <2>0, ConcatElements
  <2>2. Len(f) = loc + k /\ Len(back) = m - loc
    BY <1>2, <1>3 DEF f
  <2>3. /\ s \in Seq(S) /\ Len(s) = (loc + k) + (m - loc)
        /\ \A i \in 1..(loc + k) : s[i] = f[i]
        /\ \A i \in ((loc + k) + 1)..((loc + k) + (m - loc)) : s[i] = back[i - (loc + k)]
    BY <2>0, <2>1, <2>2
  <2> QED
    BY <2>3 DEF f
<1>6. DOMAIN g = 1..(m + k) /\ \A i \in 1..(m + k) : i <= m => g[i] = x[i]
  <2>1. m + k \in Nat /\ Len(x) \in Nat
    OBVIOUS
  <2> QED
    BY <2>1, Grown
<1> HIDE DEF g
<1>7. /\ DOMAIN apart = 1..(m + k)
      /\ \A i \in 1..(m + k) : apart[i] = IF i > loc + k /\ i <= (loc + k) + (m - loc)
                                            THEN g[loc + i - (loc + k)] ELSE g[i]
  BY <1>4, <1>6 DEF Vec!Shifted, Vec!CopyTo
<1> HIDE DEF apart
<1>8. /\ DOMAIN t = 1..(m + k) /\ t = [i \in 1..(m + k) |-> t[i]]
      /\ \A i \in 1..(m + k) : t[i] = IF i > loc /\ i <= loc + k THEN y[0 + i - loc] ELSE apart[i]
  BY <1>7 DEF Vec!CopyTo
<1> HIDE DEF t, s
<1>9. ASSUME NEW i \in 1..(m + k) PROVE t[i] = s[i]
  <2>1. CASE i <= loc
    <3>1. i \in 1..loc /\ i \in 1..(loc + k) /\ i <= m
      BY <2>1
    <3>2. s[i] = x[i]
      BY <1>1, <1>3, <1>5, <3>1
    <3>3. apart[i] = x[i]
      BY <1>6, <1>7, <2>1, <3>1
    <3> QED
      BY <1>8, <2>1, <3>2, <3>3
  <2>2. CASE i > loc /\ i <= loc + k
    <3>1. i \in (loc + 1)..(loc + k) /\ i \in 1..(loc + k) /\ 0 + i - loc = i - loc
      BY <2>2
    <3> QED
      BY <1>3, <1>5, <1>8, <2>2, <3>1
  <2>3. CASE i > loc + k
    <3>1. /\ i \in ((loc + k) + 1)..(m + k) /\ i - (loc + k) \in 1..(m - loc) /\ i - k \in 1..m
          /\ i - k \in 1..(m + k) /\ i - k <= m
          /\ loc + (i - (loc + k)) = i - k /\ loc + i - (loc + k) = i - k
      BY <2>3
    <3>2. s[i] = x[i - k]
      BY <1>2, <1>4, <1>5, <3>1
    <3>3. apart[i] = x[i - k]
      BY <1>4, <1>6, <1>7, <2>3, <3>1
    <3> QED
      BY <1>8, <2>3, <3>2, <3>3
  <2> QED
    BY <2>1, <2>2, <2>3
<1>10. t = s
  <2>1. s \in Seq(S) /\ Len(s) = m + k
    BY <1>4, <1>5
  <2>2. /\ DOMAIN t = 1..Len(s) /\ t = [i \in DOMAIN t |-> t[i]]
        /\ \A i \in 1..Len(s) : t[i] = s[i]
    BY <1>8, <1>9, <2>1
  <2> QED
    BY ONLY <2>1, <2>2, SameSeq
<1> QED
  BY <1>5, <1>10 DEF s, t, front, back, apart, g

\* Every call on the arrays keeps the invariant.
LEMMA ArrayStep ==
  ASSUME ArrayKept, Vec!Next
  PROVE  ArrayKept'
<1>0. \A b \in Array : vals[b] \in Seq(Slots) /\ store[b] = vals[b] /\ size[b] = Len(vals[b]) /\ size[b] \in Nat
  BY LenProperties DEF ArrayKept
<1>00. Vec!Zero \in Slots /\ Vec!Garbage \in Slots /\ Value \subseteq Slots
  BY DEF Slots
<1>1. PICK a \in Array :
       \/ \E n \in 0..MaxSize : Vec!Construct(a, n) \/ \E z \in BOOLEAN : Vec!Resize(a, n, z)
       \/ Vec!Destroy(a) \/ Vec!ZeroArray(a)
       \/ \E v \in Value : Vec!AddToEnd(a, v) \/ \E loc \in 0..MaxSize : Vec!Put(a, loc, v)
       \/ \E b \in Array : Vec!Copy(a, b) \/ Vec!Append2(a, b) \/ \E loc \in 0..MaxSize : Vec!Insert(a, loc, b)
  BY DEF Vec!Next
<1>2. ASSUME NEW n \in 0..MaxSize, Vec!Construct(a, n) PROVE ArrayKept'
  <2>1. Vec!setup(n) \in Seq(Slots)
    BY <1>00, FunctionIsSeq, ArrayAssumption DEF Vec!setup, ArrayAssumption
  <2> QED
    BY <1>2, <2>1, SetKeepsArray DEF Vec!Construct
<1>3. ASSUME NEW n \in 0..MaxSize, NEW z \in BOOLEAN, Vec!Resize(a, n, z) PROVE ArrayKept'
  <2> DEFINE kept == IF n < size[a] THEN n ELSE size[a]
             more == IF n > size[a] THEN n - size[a] ELSE 0
             s == SubSeq(vals[a], 1, kept) \o [i \in 1..more |-> IF z THEN Vec!Zero ELSE Vec!Garbage]
             t == Vec!resize(store[a], size[a], n, z)
  <2>1. n \in Nat /\ kept \in Nat /\ more \in Nat
    BY <1>0, ArrayAssumption DEF ArrayAssumption
  <2>2. s \in Seq(Slots) /\ t = s
    <3>1. LET o == SubSeq(vals[a], 1, IF n < Len(vals[a]) THEN n ELSE Len(vals[a]))
                   \o [i \in 1..(IF n > Len(vals[a]) THEN n - Len(vals[a]) ELSE 0) |->
                         IF z THEN Vec!Zero ELSE Vec!Garbage]
          IN  o \in Seq(Slots) /\ Vec!resize(vals[a], Len(vals[a]), n, z) = o
      <4>1. vals[a] \in Seq(Slots) /\ z \in BOOLEAN
        BY <1>0
      <4> QED
        BY ONLY <1>00, <2>1, <4>1, ResizedIs
    <3> QED
      BY <1>0, <3>1, Zenon
  <2>3. Vec!Set(a, t, s)
    BY <1>3 DEF Vec!Resize
  <2> HIDE DEF s, t
  <2> QED
    BY <2>2, <2>3, SetKeepsArray
<1>4. CASE Vec!Destroy(a)
  <2>1. <<>> \in Seq(Slots) /\ Vec!Set(a, <<>>, <<>>)
    BY <1>4 DEF Vec!Destroy, Vec!NoStore
  <2> QED
    BY <2>1, SetKeepsArray
<1>5. CASE Vec!ZeroArray(a)
  <2>1. [i \in 1..size[a] |-> Vec!Zero] \in Seq(Slots)
    BY <1>0, <1>00, FunctionIsSeq
  <2> QED
    BY <1>5, <2>1, SetKeepsArray DEF Vec!ZeroArray
<1>6. ASSUME NEW v \in Value, Vec!AddToEnd(a, v) PROVE ArrayKept'
  <2> DEFINE t == [Vec!resize(store[a], size[a] + 1, size[a] + 1, FALSE) EXCEPT ![size[a] + 1] = v]
  <2>1. Append(vals[a], v) \in Seq(Slots) /\ t = Append(vals[a], v)
    BY <1>0, <1>00, AddedIs
  <2>2. Vec!Set(a, t, Append(vals[a], v))
    BY <1>6 DEF Vec!AddToEnd
  <2> HIDE DEF t
  <2> QED
    BY <2>1, <2>2, SetKeepsArray
<1>7. ASSUME NEW v \in Value, NEW loc \in 0..MaxSize, Vec!Put(a, loc, v) PROVE ArrayKept'
  <2>1. CASE loc < size[a]
    <3>1. [vals[a] EXCEPT ![loc + 1] = v] \in Seq(Slots)
      BY <1>0, <1>00, <2>1, ArrayAssumption, ExceptSeq DEF ArrayAssumption
    <3> QED
      BY <1>0, <1>7, <2>1, <3>1, SetKeepsArray DEF Vec!Put
  <2>2. CASE ~(loc < size[a])
    BY <1>7, <2>2 DEF Vec!Put, Vec!arrayVars, ArrayKept
  <2> QED
    BY <2>1, <2>2
<1>8. ASSUME NEW b \in Array, Vec!Copy(a, b) PROVE ArrayKept'
  <2> DEFINE t == Vec!CopyTo(Vec!setup(size[b]), 0, store[b], 0, size[b])
  <2>1. t = vals[b]
    BY <1>0, CopyIs
  <2>2. Vec!Set(a, t, vals[b])
    BY <1>8 DEF Vec!Copy
  <2> HIDE DEF t
  <2> QED
    BY <1>0, <2>1, <2>2, SetKeepsArray
<1>9. ASSUME NEW b \in Array, Vec!Append2(a, b) PROVE ArrayKept'
  <2> DEFINE n == size[a] + size[b]
             t == Vec!CopyTo(Vec!resize(store[a], n, n, FALSE), size[a], store[b], 0, size[b])
             s == vals[a] \o vals[b]
  <2>1. s \in Seq(Slots) /\ t = s
    BY <1>0, AppendedIs
  <2>2. Vec!Set(a, t, s)
    BY <1>9 DEF Vec!Append2
  <2> HIDE DEF s, t
  <2> QED
    BY <2>1, <2>2, SetKeepsArray
<1>10. ASSUME NEW b \in Array, NEW loc \in 0..MaxSize, Vec!Insert(a, loc, b) PROVE ArrayKept'
  <2> DEFINE n == size[a] + size[b]
             t == Vec!CopyTo(Vec!Shifted(Vec!resize(store[a], n, n, FALSE), loc, size[a], size[b]),
                             loc, store[b], 0, size[b])
             s == SubSeq(vals[a], 1, loc) \o vals[b] \o SubSeq(vals[a], loc + 1, size[a])
  <2>1. loc \in Nat /\ loc <= size[a]
    BY <1>10, ArrayAssumption DEF Vec!Insert, ArrayAssumption
  <2>2. s \in Seq(Slots) /\ t = s
    <3>1. LET o == SubSeq(vals[a], 1, loc) \o vals[b] \o SubSeq(vals[a], loc + 1, Len(vals[a]))
          IN  /\ o \in Seq(Slots)
              /\ Vec!CopyTo(Vec!Shifted(Vec!resize(vals[a], Len(vals[a]) + Len(vals[b]),
                                                   Len(vals[a]) + Len(vals[b]), FALSE),
                                        loc, Len(vals[a]), Len(vals[b])), loc, vals[b], 0, Len(vals[b])) = o
      <4>1. vals[a] \in Seq(Slots) /\ vals[b] \in Seq(Slots) /\ loc <= Len(vals[a]) /\ loc \in Nat
        BY <1>0, <2>1
      <4> QED
        BY ONLY <4>1, InsertedIs
    <3> QED
      BY <1>0, <3>1, Zenon
  <2>3. Vec!Set(a, t, s)
    BY <1>10 DEF Vec!Insert
  <2> HIDE DEF s, t
  <2> QED
    BY <2>2, <2>3, SetKeepsArray
<1> QED
  BY <1>1, <1>2, <1>3, <1>4, <1>5, <1>6, <1>7, <1>8, <1>9, <1>10

\* DynArray: the elements are where the calls put them after every resize, for any
\* arrays, any values and any bound on their size.
THEOREM ArraysAlwaysHold == Spec => []ArrayHolds
<1>1. Init => ArrayKept
  BY DEF Init, Vec!Init, Vec!NoStore, ArrayKept
<1>2. ArrayKept /\ [Next]_vars => ArrayKept'
  <2> SUFFICES ASSUME ArrayKept, [Next]_vars PROVE ArrayKept'
    OBVIOUS
  <2>1. CASE UNCHANGED arrayVars
    BY <2>1 DEF arrayVars, ArrayKept
  <2>2. CASE Vec!Next
    BY <2>2, ArrayStep
  <2>3. Vec!Next \/ UNCHANGED arrayVars
    BY DEF Next, Done, vars
  <2> QED
    BY <2>1, <2>2, <2>3
<1>3. ArrayKept => ArrayHolds
  BY DEF ArrayKept, ArrayHolds, Vec!ArrayHolds
<1> QED
  BY <1>1, <1>2, <1>3, PTL DEF Spec

-----------------------------------------------------------------------------
\* Whose string each one is: b the boxes, m the strings, mn the caller's, st the strays
\* and sd the words that were stored.
BoxType(b) == b \in [Name -> [s : Chars \cup {0}, weak : BOOLEAN, there : BOOLEAN]]
WordType(m, mn, st, sd) ==
    /\ m \in [Chars -> Word \cup {"freed"}] /\ mn \subseteq Chars /\ st \subseteq Chars
    /\ sd \in [Name -> Word \cup {"none"}]
KeysRead(b, m, mn, st, sd) ==
    \A k \in Name :
       /\ ~b[k].there => b[k] = Strings!NoBox
       /\ b[k].there => /\ b[k].s \in Chars /\ m[b[k].s] # "freed" /\ sd[k] = m[b[k].s]
                        /\ b[k].weak <=> b[k].s \in st
                        /\ b[k].s \notin mn
KeysApart(b) ==
    \A j, k \in Name : b[j].there /\ b[k].there /\ j # k => b[j].s # b[k].s
NoLeak(b, m, mn, st) ==
    /\ mn \cap st = {}
    /\ \A c \in mn \cup st : m[c] # "freed"
    /\ \A c \in Chars : m[c] # "freed" => c \in mn \cup st \/ \E k \in Name : b[k].there /\ ~b[k].weak /\ b[k].s = c
OneOwner(b, m, mn, st, sd) ==
    /\ BoxType(b) /\ WordType(m, mn, st, sd) /\ KeysRead(b, m, mn, st, sd) /\ KeysApart(b) /\ NoLeak(b, m, mn, st)

StringsOwned == OneOwner(box, content, mine, stray, stored)

\* A string that is allocated was not in use.
LEMMA UnusedChars ==
  ASSUME NEW m, NEW c \in Strings!NewChars(m)
  PROVE  c \in Chars /\ m[c] = "freed"
<1>1. Strings!Unused(m) # {} /\ c = Strings!Min(Strings!Unused(m))
  BY DEF Strings!NewChars
<1>2. Strings!Unused(m) \in SUBSET Nat
  BY StringsAssumption DEF Strings!Unused, StringsAssumption
<1>3. \E x \in Strings!Unused(m) : \A y \in Strings!Unused(m) : x <= y
  BY <1>1, <1>2, LeastExists
<1>4. c \in Strings!Unused(m)
  BY <1>1, <1>3 DEF Strings!Min
<1> QED
  BY <1>4 DEF Strings!Unused, Strings!Freed

\* The old box of k is destroyed and the key goes.
LEMMA BoxDropped ==
  ASSUME NEW b, NEW m, NEW mn, NEW st, NEW sd, OneOwner(b, m, mn, st, sd), NEW k \in Name
  PROVE  OneOwner([b EXCEPT ![k] = Strings!NoBox], Strings!Destroyed(m, b[k]), mn, st, [sd EXCEPT ![k] = "none"])
<1> DEFINE b2 == [b EXCEPT ![k] = Strings!NoBox]
           sd2 == [sd EXCEPT ![k] = "none"]
           m2 == Strings!Destroyed(m, b[k])
<1> USE DEF BoxType, WordType
<1>0. BoxType(b) /\ WordType(m, mn, st, sd) /\ KeysRead(b, m, mn, st, sd) /\ KeysApart(b) /\ NoLeak(b, m, mn, st)
  BY DEF OneOwner
<1>1. /\ BoxType(b2) /\ sd2 \in [Name -> Word \cup {"none"}]
      /\ b2[k] = Strings!NoBox /\ ~b2[k].there /\ \A j \in Name : j # k => b2[j] = b[j] /\ sd2[j] = sd[j]
  BY <1>0 DEF Strings!NoBox, Strings!NULL
<1>2. /\ m2 \in [Chars -> Word \cup {"freed"}]
      /\ \A c \in Chars : m2[c] = IF b[k].there /\ ~b[k].weak /\ c = b[k].s THEN "freed" ELSE m[c]
  <2>1. CASE b[k].there /\ ~b[k].weak
    <3>1. m2 = [m EXCEPT ![b[k].s] = "freed"]
      BY <1>0, <2>1, StringsAssumption DEF StringsAssumption, KeysRead, Strings!Destroyed, Strings!NULL, Strings!Freed
    <3> HIDE DEF m2
    <3> QED
      BY <1>0, <2>1, <3>1
  <2>2. CASE ~(b[k].there /\ ~b[k].weak)
    <3>1. m2 = m
      BY <1>0, <2>2 DEF KeysRead, Strings!Destroyed, Strings!NoBox, Strings!NULL
    <3> HIDE DEF m2
    <3> QED
      BY <1>0, <2>2, <3>1
  <2> QED
    BY <2>1, <2>2
<1> HIDE DEF b2, sd2, m2
<1>3. KeysRead(b2, m2, mn, st, sd2)
  <2> SUFFICES ASSUME NEW j \in Name
      PROVE /\ ~b2[j].there => b2[j] = Strings!NoBox
            /\ b2[j].there => /\ b2[j].s \in Chars /\ m2[b2[j].s] # "freed" /\ sd2[j] = m2[b2[j].s]
                              /\ b2[j].weak <=> b2[j].s \in st
                              /\ b2[j].s \notin mn
    BY DEF KeysRead
  <2>1. CASE j = k
    BY <1>1, <2>1
  <2>2. CASE j # k
    <3>1. b2[j] = b[j] /\ sd2[j] = sd[j]
      BY <1>1, <2>2
    <3>2. b[j].there => b[j].s \in Chars /\ m2[b[j].s] = m[b[j].s]
      BY <1>0, <1>2, <2>2 DEF KeysRead, KeysApart
    <3> QED
      BY <1>0, <3>1, <3>2 DEF KeysRead
  <2> QED
    BY <2>1, <2>2
<1>4. KeysApart(b2)
  BY <1>0, <1>1 DEF KeysApart
<1>5. NoLeak(b2, m2, mn, st)
  <2>1. \A c \in mn \cup st : m2[c] = m[c]
    BY <1>0, <1>2 DEF KeysRead
  <2>2. ASSUME NEW c \in Chars, m2[c] # "freed", c \notin mn \cup st
        PROVE  \E j \in Name : b2[j].there /\ ~b2[j].weak /\ b2[j].s = c
    <3>1. m[c] # "freed"
      BY <1>2, <2>2
    <3>2. PICK j \in Name : b[j].there /\ ~b[j].weak /\ b[j].s = c
      BY <1>0, <2>2, <3>1 DEF NoLeak
    <3>3. j # k
      BY <1>2, <2>2, <3>2
    <3> QED
      BY <1>1, <3>2, <3>3
  <2> QED
    BY <1>0, <2>1, <2>2 DEF NoLeak
<1>6. OneOwner(b2, m2, mn, st, sd2)
  BY <1>0, <1>1, <1>2, <1>3, <1>4, <1>5 DEF OneOwner
<1> QED
  BY <1>6 DEF b2, m2, sd2

\* A key that is not there gets a string of its own.
LEMMA BoxStored ==
  ASSUME NEW b, NEW m, NEW mn, NEW st, NEW sd, OneOwner(b, m, mn, st, sd), NEW k \in Name, NEW w \in Word,
         ~b[k].there, NEW c \in Chars, m[c] = "freed"
  PROVE  OneOwner([b EXCEPT ![k] = Strings!Strong(c)], [m EXCEPT ![c] = w], mn, st, [sd EXCEPT ![k] = w])
BY StringsAssumption DEF StringsAssumption, OneOwner, BoxType, WordType, KeysRead, KeysApart, NoLeak, Strings!Strong

\* A string is made for the caller.
LEMMA StringHanded ==
  ASSUME NEW b, NEW m, NEW mn, NEW st, NEW sd, OneOwner(b, m, mn, st, sd), NEW w \in Word,
         NEW c \in Chars, m[c] = "freed"
  PROVE  OneOwner(b, [m EXCEPT ![c] = w], mn \cup {c}, st, sd)
BY StringsAssumption DEF StringsAssumption, OneOwner, BoxType, WordType, KeysRead, KeysApart, NoLeak

\* What Assigned() makes of the box of k for the caller.
LEMMA OldHanded ==
  ASSUME StringsOwned, NEW k \in Name, ~Strings!Borrowed(k), NEW new \in Strings!NewChars(content),
         Strings!HandOver(Strings!Assigned(content, box[k], new).s)
  PROVE  OneOwner(box, Strings!Assigned(content, box[k], new).content, mine', stray', stored)
<1> DEFINE old == Strings!Assigned(content, box[k], new)
<1>0. mine' = (mine \cup {old.s}) \ {0} /\ stray' = stray \ {old.s}
  BY DEF Strings!HandOver, Strings!NULL
<1>. 0 \notin mine \cup stray /\ \A c \in mine \cup stray : content[c] # "freed"
  BY StringsAssumption DEF StringsAssumption, StringsOwned, OneOwner, WordType, NoLeak
<1>1. CASE box[k].there
  <2>1. ~box[k].weak /\ box[k].s \in Chars /\ box[k].s # 0 /\ content[box[k].s] \in Word
    <3>1. ~box[k].weak /\ box[k].s \in Chars
      BY <1>1 DEF StringsOwned, OneOwner, KeysRead, Strings!Borrowed
    <3>2. content \in [Chars -> Word \cup {"freed"}] /\ content[box[k].s] # "freed"
      BY <1>1 DEF StringsOwned, OneOwner, WordType, KeysRead
    <3> QED
      BY <3>1, <3>2, StringsAssumption DEF StringsAssumption
  <2>2. new \in Chars /\ content[new] = "freed" /\ new # 0
    BY UnusedChars, StringsAssumption DEF StringsAssumption
  <2>3. old = [s |-> new, content |-> [content EXCEPT ![new] = content[box[k].s]]]
    BY <2>1 DEF Strings!Assigned, Strings!NULL
  <2> HIDE DEF old
  <2>4. old.s = new /\ old.content = [content EXCEPT ![new] = content[box[k].s]]
    BY <2>3, Zenon
  <2>5. mine' = mine \cup {new} /\ stray' = stray
    BY <1>0, <2>2, <2>4
  <2>6. OneOwner(box, [content EXCEPT ![new] = content[box[k].s]], mine \cup {new}, stray, stored)
    BY <2>1, <2>2, StringHanded DEF StringsOwned
  <2>7. OneOwner(box, old.content, mine', stray', stored)
    BY <2>4, <2>5, <2>6
  <2> QED
    BY <2>7 DEF old
<1>2. CASE ~box[k].there
  <2>1. box[k] = Strings!NoBox
    BY <1>2 DEF StringsOwned, OneOwner, KeysRead
  <2>2. old = [s |-> 0, content |-> content]
    BY <2>1 DEF Strings!Assigned, Strings!NoBox, Strings!NULL
  <2> HIDE DEF old
  <2>3. old.s = 0 /\ old.content = content
    BY <2>2, Zenon
  <2>4. mine' = mine /\ stray' = stray
    BY <1>0, <2>3
  <2>5. OneOwner(box, old.content, mine', stray', stored)
    BY <2>3, <2>4 DEF StringsOwned
  <2> QED
    BY <2>5 DEF old
<1> QED
  BY <1>1, <1>2

\* A string that no box holds and nobody owns becomes the caller's.
LEMMA StrayTaken ==
  ASSUME NEW b, NEW m, NEW mn, NEW st, NEW sd, OneOwner(b, m, mn, st, sd), NEW c \in st,
         \A j \in Name : b[j].there => b[j].s # c
  PROVE  OneOwner(b, m, mn \cup {c}, st \ {c}, sd)
BY DEF OneOwner, BoxType, WordType, KeysRead, KeysApart, NoLeak

\* The caller gets what Assigned() makes of the box of k, and the box goes.
LEMMA OldGone ==
  ASSUME StringsOwned, NEW k \in Name, NEW new \in Strings!NewChars(content),
         Strings!HandOver(Strings!Assigned(content, box[k], new).s)
  PROVE  OneOwner([box EXCEPT ![k] = Strings!NoBox],
                  Strings!Destroyed(Strings!Assigned(content, box[k], new).content, box[k]),
                  mine', stray', [stored EXCEPT ![k] = "none"])
<1> DEFINE old == Strings!Assigned(content, box[k], new)
<1>1. CASE ~Strings!Borrowed(k)
  <2>1. OneOwner(box, old.content, mine', stray', stored)
    BY <1>1, OldHanded
  <2> HIDE DEF old
  <2>2. OneOwner([box EXCEPT ![k] = Strings!NoBox], Strings!Destroyed(old.content, box[k]), mine', stray',
                 [stored EXCEPT ![k] = "none"])
    BY <2>1, BoxDropped
  <2> QED
    BY <2>2 DEF old
<1>2. CASE Strings!Borrowed(k)
  <2>1. PICK c \in Chars : c = box[k].s /\ c \in stray
    BY <1>2 DEF StringsOwned, OneOwner, KeysRead, Strings!Borrowed
  <2>2. /\ Strings!Destroyed(content, box[k]) = content
        /\ old = [s |-> c, content |-> content]
    BY <1>2, <2>1 DEF Strings!Destroyed, Strings!Assigned, Strings!Borrowed
  <2> HIDE DEF old
  <2>3. old.s = c /\ old.content = content
    BY <2>2, Zenon
  <2>4. mine' = mine \cup {c} /\ stray' = stray \ {c}
    <3>1. 0 \notin mine \cup {c}
      BY <2>1, StringsAssumption DEF StringsAssumption, StringsOwned, OneOwner, WordType
    <3>2. mine' = (mine \cup {c}) \ {0} /\ stray' = stray \ {c}
      BY <2>3 DEF Strings!HandOver, Strings!NULL, old
    <3> QED
      BY <3>1, <3>2
  <2>5. PICK b : b = [box EXCEPT ![k] = Strings!NoBox]
    OBVIOUS
  <2>6. OneOwner(b, content, mine, stray, [stored EXCEPT ![k] = "none"])
    <3>1. OneOwner([box EXCEPT ![k] = Strings!NoBox], Strings!Destroyed(content, box[k]), mine, stray,
                   [stored EXCEPT ![k] = "none"])
      BY BoxDropped DEF StringsOwned
    <3> QED
      BY <2>2, <2>5, <3>1
  <2>7. \A j \in Name : b[j].there => b[j].s # c
    <3>1. \A j \in Name : b[j] = IF j = k THEN Strings!NoBox ELSE box[j]
      BY <2>5 DEF StringsOwned, OneOwner, BoxType
    <3> QED
      BY <1>2, <2>1, <3>1 DEF StringsOwned, OneOwner, KeysApart, Strings!Borrowed, Strings!NoBox
  <2>8. OneOwner(b, content, mine \cup {c}, stray \ {c}, [stored EXCEPT ![k] = "none"])
    BY <2>1, <2>6, <2>7, StrayTaken
  <2>9. OneOwner(b, Strings!Destroyed(old.content, box[k]), mine', stray', [stored EXCEPT ![k] = "none"])
    BY <2>2, <2>3, <2>4, <2>8
  <2> QED
    BY <2>5, <2>9 DEF old
<1> QED
  BY <1>1, <1>2

\* The store of a word under k, after the old box is gone.
LEMMA WordPut ==
  ASSUME StringsOwned, NEW dm, NEW k \in Name, NEW w \in Word, NEW c \in Strings!NewChars(dm),
         OneOwner([box EXCEPT ![k] = Strings!NoBox], dm, mine', stray', [stored EXCEPT ![k] = "none"]),
         content' = [dm EXCEPT ![c] = w],
         box' = [box EXCEPT ![k] = Strings!Strong(c)],
         stored' = [stored EXCEPT ![k] = w]
  PROVE  StringsOwned'
<1> DEFINE b == [box EXCEPT ![k] = Strings!NoBox]
           sd == [stored EXCEPT ![k] = "none"]
<1>1. OneOwner(b, dm, mine', stray', sd)
  OBVIOUS
<1>2. c \in Chars /\ dm[c] = "freed"
  BY UnusedChars
<1>3. box \in [Name -> [s : Chars \cup {0}, weak : BOOLEAN, there : BOOLEAN]] /\ stored \in [Name -> Word \cup {"none"}]
  BY DEF StringsOwned, OneOwner, BoxType, WordType
<1>4. ~b[k].there
  BY <1>3 DEF Strings!NoBox
<1>5. box' = [b EXCEPT ![k] = Strings!Strong(c)] /\ stored' = [sd EXCEPT ![k] = w]
  BY <1>3
<1> HIDE DEF b, sd
<1>6. PICK mn : mn = mine'
  OBVIOUS
<1>7. PICK st : st = stray'
  OBVIOUS
<1>8. OneOwner([b EXCEPT ![k] = Strings!Strong(c)], [dm EXCEPT ![c] = w], mn, st, [sd EXCEPT ![k] = w])
  BY <1>1, <1>2, <1>4, <1>6, <1>7, BoxStored
<1>9. OneOwner(box', content', mine', stray', stored')
  BY <1>5, <1>6, <1>7, <1>8
<1> QED
  BY <1>9 DEF StringsOwned, OneOwner, BoxType, WordType, KeysRead, KeysApart, NoLeak

\* ... when nothing is handed to the caller.
LEMMA WordStored ==
  ASSUME StringsOwned, NEW k \in Name, NEW w \in Word,
         NEW c \in Strings!NewChars(Strings!Destroyed(content, box[k])),
         content' = [Strings!Destroyed(content, box[k]) EXCEPT ![c] = w],
         box' = [box EXCEPT ![k] = Strings!Strong(c)],
         stored' = [stored EXCEPT ![k] = w], mine' = mine, stray' = stray
  PROVE  StringsOwned'
<1>1. PICK dm : dm = Strings!Destroyed(content, box[k])
  OBVIOUS
<1>2. OneOwner([box EXCEPT ![k] = Strings!NoBox], dm, mine, stray, [stored EXCEPT ![k] = "none"])
  BY <1>1, BoxDropped DEF StringsOwned
<1> QED
  BY <1>1, <1>2, WordPut

\* Every call on the map, and what the caller frees.
LEMMA StringStep ==
  ASSUME StringsOwned, Strings!Next
  PROVE  StringsOwned'
<1>0. OneOwner(box, content, mine, stray, stored)
  BY DEF StringsOwned
<1>1. ASSUME NEW k \in Name, NEW w \in Word, Strings!AddReplace(k, w) PROVE StringsOwned'
  BY <1>0, <1>1, WordStored DEF Strings!AddReplace, Strings!StoreCopy
<1>2. ASSUME NEW k \in Name, NEW w \in Word, Strings!AddReplaceOld(k, w) PROVE StringsOwned'
  <2>1. PICK new \in Strings!NewChars(content) :
          /\ Strings!StoreCopy(k, w, Strings!Assigned(content, box[k], new).content)
          /\ Strings!HandOver(Strings!Assigned(content, box[k], new).s)
    BY <1>2 DEF Strings!AddReplaceOld
  <2>2. PICK dm : dm = Strings!Destroyed(Strings!Assigned(content, box[k], new).content, box[k])
    OBVIOUS
  <2>3. OneOwner([box EXCEPT ![k] = Strings!NoBox], dm, mine', stray', [stored EXCEPT ![k] = "none"])
    BY <2>1, <2>2, OldGone
  <2>4. PICK c \in Strings!NewChars(dm) :
          content' = [dm EXCEPT ![c] = w] /\ box' = [box EXCEPT ![k] = Strings!Strong(c)]
    BY <2>1, <2>2 DEF Strings!StoreCopy
  <2>5. stored' = [stored EXCEPT ![k] = w]
    BY <1>2 DEF Strings!AddReplaceOld
  <2> QED
    BY <2>3, <2>4, <2>5, WordPut
<1>3. ASSUME NEW k \in Name, NEW w \in Word, Strings!AddReplaceNew(k, w) PROVE StringsOwned'
  BY <1>0, <1>3, WordStored DEF Strings!AddReplaceNew, Strings!Fill
<1>4. ASSUME NEW k \in Name, NEW w \in Word, ~box[k].there, Strings!Fill(k, w, content) PROVE StringsOwned'
  <2>1. Strings!Destroyed(content, box[k]) = content
    BY <1>0, <1>4 DEF OneOwner, BoxType, WordType, KeysRead, KeysApart, NoLeak, Strings!Destroyed, Strings!NoBox, Strings!NULL
  <2> QED
    BY <1>0, <1>4, <2>1, WordStored DEF Strings!Fill
<1>5. ASSUME OneOwner(box', content', mine', stray', stored') PROVE StringsOwned'
  BY <1>5 DEF StringsOwned, OneOwner, BoxType, WordType, KeysRead, KeysApart, NoLeak
<1>6. ASSUME NEW k \in Name, Strings!RemoveKey(k) PROVE StringsOwned'
  <2>1. OneOwner(box', content', mine', stray', stored')
    BY <1>0, <1>6, BoxDropped DEF Strings!RemoveKey, Strings!Drop, Strings!NoWord
  <2> QED
    BY <1>5, <2>1
<1>7. ASSUME NEW k \in Name, Strings!RemoveFill(k) PROVE StringsOwned'
  <2>1. PICK new \in Strings!NewChars(content) :
          /\ Strings!Drop(k, Strings!Assigned(content, box[k], new).content)
          /\ Strings!HandOver(Strings!Assigned(content, box[k], new).s)
    BY <1>7 DEF Strings!RemoveFill
  <2>2. OneOwner(box', content', mine', stray', stored')
    BY <2>1, OldGone DEF Strings!Drop, Strings!NoWord
  <2> QED
    BY <1>5, <2>2
<1>8. ASSUME NEW k \in Name, ~Strings!Borrowed(k), Strings!FindFill(k) PROVE StringsOwned'
  <2>1. PICK new \in Strings!NewChars(content) :
          /\ content' = Strings!Assigned(content, box[k], new).content
          /\ Strings!HandOver(Strings!Assigned(content, box[k], new).s)
          /\ box' = box /\ stored' = stored
    BY <1>8 DEF Strings!FindFill
  <2>2. OneOwner(box', content', mine', stray', stored')
    BY <1>8, <2>1, OldHanded
  <2> QED
    BY <1>5, <2>2
<1>9. ASSUME NEW k \in Name, Strings!FindPointer(k) PROVE StringsOwned'
  <2> DEFINE c == box[k].s
             b == [box EXCEPT ![k].weak = TRUE]
             st == stray \cup {c}
  <2>2. c \in Chars /\ content[c] # "freed" /\ c \notin mine /\ box[k].there
    BY <1>0, <1>9 DEF Strings!FindPointer, OneOwner, KeysRead
  <2>3. /\ b \in [Name -> [s : Chars \cup {0}, weak : BOOLEAN, there : BOOLEAN]]
        /\ b[k].weak /\ b[k].s = c /\ b[k].there /\ \A j \in Name : j # k => b[j] = box[j]
    BY <1>0, <2>2 DEF OneOwner, BoxType
  <2>4. UNCHANGED <<content, mine, stored>> /\ box' = b /\ stray' = st
    BY <1>9 DEF Strings!FindPointer
  <2> HIDE DEF b
  <2>5. ASSUME NEW j \in Name, j # k, box[j].there PROVE box[j].weak <=> box[j].s \in st
    BY <1>0, <2>2, <2>5 DEF OneOwner, KeysRead, KeysApart
  <2>6. KeysRead(b, content, mine, st, stored)
    BY <1>0, <2>2, <2>3, <2>5 DEF OneOwner, KeysRead
  <2>7. KeysApart(b)
    BY <1>0, <2>2, <2>3 DEF OneOwner, KeysApart
  <2>8. NoLeak(b, content, mine, st)
    BY <1>0, <2>2, <2>3 DEF OneOwner, NoLeak
  <2>9. WordType(content, mine, st, stored) /\ BoxType(b)
    BY <1>0, <2>2, <2>3 DEF OneOwner, WordType, BoxType
  <2>10. OneOwner(b, content, mine, st, stored)
    BY <2>6, <2>7, <2>8, <2>9 DEF OneOwner
  <2>1. OneOwner(box', content', mine', stray', stored')
    BY <2>4, <2>10
  <2> QED
    BY <2>1 DEF StringsOwned, OneOwner, BoxType, WordType, KeysRead, KeysApart, NoLeak
<1>10. CASE Strings!RemoveAll
  <2>1. OneOwner(box', content', mine', stray', stored')
    BY <1>0, <1>10, StringsAssumption
    DEF StringsAssumption, Strings!RemoveAll, OneOwner, BoxType, WordType, KeysRead, KeysApart, NoLeak, Strings!NoBox, Strings!NULL, Strings!NoWord, Strings!Freed
  <2> QED
    BY <2>1 DEF StringsOwned, OneOwner, BoxType, WordType, KeysRead, KeysApart, NoLeak
<1>11. ASSUME NEW c \in Chars, Strings!CallerFrees(c) PROVE StringsOwned'
  <2>1. OneOwner(box', content', mine', stray', stored')
    BY <1>0, <1>11 DEF Strings!CallerFrees, OneOwner, BoxType, WordType, KeysRead, KeysApart, NoLeak, Strings!Freed
  <2> QED
    BY <2>1 DEF StringsOwned, OneOwner, BoxType, WordType, KeysRead, KeysApart, NoLeak
<1>12. ASSUME NEW k \in Name, Strings!Calls(k) PROVE StringsOwned'
  BY <1>1, <1>2, <1>3, <1>4, <1>6, <1>7, <1>9, <1>12
  DEF Strings!Calls, Strings!AddNoreplaceNew, Strings!FindOrNew
<1> QED
  BY <1>8, <1>10, <1>11, <1>12 DEF Strings!Next, Strings!Frees

\* TW_StringStringMap: a key reads as the word stored under it, no string has two owners
\* and none but the strays of find() is lost, for any keys, words and supply of strings,
\* while the program does not ask find() for a copy of what it has the pointer to.
THEOREM StringsAlwaysKept == Spec => []StringsKept
<1>1. Init => StringsOwned
  BY DEF Init, Strings!Init, StringsOwned, OneOwner, BoxType, WordType, KeysRead, KeysApart, NoLeak, Strings!NoBox, Strings!NULL, Strings!Freed, Strings!NoWord
<1>2. StringsOwned /\ [Next]_vars => StringsOwned'
  <2> SUFFICES ASSUME StringsOwned, [Next]_vars PROVE StringsOwned'
    OBVIOUS
  <2>1. CASE UNCHANGED stringVars
    BY <2>1 DEF stringVars, StringsOwned, OneOwner, BoxType, WordType, KeysRead, KeysApart, NoLeak
  <2>2. CASE Strings!Next
    BY <2>2, StringStep
  <2>3. Strings!Next \/ UNCHANGED stringVars
    BY DEF Next, Done, vars
  <2> QED
    BY <2>1, <2>2, <2>3
<1>3. StringsOwned => StringsKept
  <2> SUFFICES ASSUME StringsOwned PROVE StringsKept
    OBVIOUS
  <2>1. Strings!StoredWordKept
    BY StringsAssumption DEF StringsAssumption, StringsOwned, OneOwner, BoxType, WordType, KeysRead, KeysApart, NoLeak, Strings!StoredWordKept, Strings!WordOf, Strings!NULL
  <2>2. Strings!OneOwner
    BY DEF StringsOwned, OneOwner, BoxType, WordType, KeysRead, KeysApart, NoLeak, Strings!OneOwner, Strings!Freed
  <2> QED
    BY <2>1, <2>2 DEF StringsKept, Strings!StringsKept
<1> QED
  BY <1>1, <1>2, <1>3, PTL DEF Spec

-----------------------------------------------------------------------------
KeyData == KeyDatum \cup {"fresh"}
\* The entries E have keys of their own, and hold what the map mp says of them.
EntriesKept(E, m, mp) ==
    /\ E \subseteq [s : KeyChars \ {1}, d : KeyData]
    /\ m \in [KeyChars -> KeyName \cup {"freed"}] /\ m[1] \in KeyName
    /\ mp \in [KeyName -> KeyData \cup {"null"}]
    /\ \A e \in E : m[e.s] \in KeyName /\ mp[m[e.s]] = e.d
    /\ \A e, g \in E : m[e.s] = m[g.s] => e = g
    /\ \A k \in KeyName : mp[k] # "null" => \E e \in E : m[e.s] = k
KeysKept == EntriesKept(entries, keyContent, keyMap)

\* The cardinality of the instance is the cardinality.
LEMMA KeysSameCardinality == \A S : Keys!Cardinality(S) = Cardinality(S)
BY DEF Keys!Cardinality, Cardinality

\* A new entry, with the other entries where they are or moved to other strings.
LEMMA EntryInserted ==
  ASSUME KeysKept, NEW x \in KeyData, Keys!NewKey, Keys!Insert(x)
  PROVE  KeysKept'
<1> USE DEF KeyData
<1>0. EntriesKept(entries, keyContent, keyMap)
  BY DEF KeysKept
<1>1. PICK f \in [{e.s : e \in entries} -> KeyChars], c \in Keys!Spare :
       /\ \/ \A s \in DOMAIN f : f[s] = s
          \/ \A s, t \in DOMAIN f : f[s] \in Keys!Spare \ {c} /\ (f[s] = f[t] => s = t)
       /\ entries' = Keys!Moved(f) \cup {[s |-> Keys!KeyCopy(c), d |-> x]}
       /\ keyContent' = [y \in KeyChars |->
                        IF y = c THEN Keys!TheName
                        ELSE IF \E s \in DOMAIN f : f[s] = y THEN keyContent[CHOOSE s \in DOMAIN f : f[s] = y]
                        ELSE keyContent[y]]
       /\ keyMap' = [keyMap EXCEPT ![Keys!TheName] = x]
  BY DEF Keys!Insert
<1>2. c \in KeyChars \ {1} /\ \A e \in entries : e.s # c
  BY <1>1 DEF Keys!Spare, Keys!Buffer
<1>3. Keys!TheName \in KeyName /\ Keys!TheName = keyContent[1] /\ \A e \in entries : keyContent[e.s] # Keys!TheName
  BY <1>0 DEF Keys!NewKey, Keys!SameKey, Keys!TheName, Keys!Buffer, EntriesKept
<1>4. DOMAIN f = {e.s : e \in entries}
  OBVIOUS
<1>5. \A s \in DOMAIN f : f[s] \in KeyChars \ {1, c} /\ \A t \in DOMAIN f : f[s] = f[t] => s = t
  <2>1. \A s \in DOMAIN f : s \in KeyChars \ {1, c}
    BY <1>0, <1>2, <1>4 DEF EntriesKept
  <2>2. Keys!Spare \subseteq KeyChars \ {1}
    BY DEF Keys!Spare, Keys!Buffer
  <2>3. CASE \A s \in DOMAIN f : f[s] = s
    BY <2>1, <2>3
  <2>4. CASE \A s, t \in DOMAIN f : f[s] \in Keys!Spare \ {c} /\ (f[s] = f[t] => s = t)
    BY <2>2, <2>4
  <2> QED
    BY <1>1, <2>3, <2>4
<1>6. ASSUME NEW e \in entries PROVE f[e.s] \in KeyChars \ {1, c} /\ keyContent'[f[e.s]] = keyContent[e.s]
  <2>1. e.s \in DOMAIN f
    BY <1>4
  <2>2. f[e.s] \in KeyChars /\ f[e.s] # c /\ f[e.s] # 1
    BY <1>5, <2>1
  <2>3. (CHOOSE s \in DOMAIN f : f[s] = f[e.s]) = e.s
    BY <1>5, <2>1
  <2>4. keyContent'[f[e.s]] = keyContent[CHOOSE s \in DOMAIN f : f[s] = f[e.s]]
    BY <1>1, <2>1, <2>2
  <2> QED
    BY <2>2, <2>3, <2>4
<1>7. keyContent'[c] = Keys!TheName
  BY <1>1, <1>2
<1>8. keyContent'[1] = keyContent[1]
  BY <1>1, <1>2, <1>5, KeysAssumption DEF KeysAssumption
<1>9. keyContent' \in [KeyChars -> KeyName \cup {"freed"}]
  <2>1. ASSUME NEW y \in KeyChars PROVE keyContent'[y] \in KeyName \cup {"freed"}
    <3>1. CASE y = c
      BY <1>3, <1>7, <3>1
    <3>2. CASE y # c /\ \E s \in DOMAIN f : f[s] = y
      <4>1. PICK s \in DOMAIN f : f[s] = y
        BY <3>2
      <4>2. PICK e \in entries : e.s = s
        BY <1>4
      <4> QED
        BY <1>0, <1>6, <4>1, <4>2 DEF EntriesKept
    <3>3. CASE y # c /\ ~\E s \in DOMAIN f : f[s] = y
      BY <1>0, <1>1, <3>3 DEF EntriesKept
    <3> QED
      BY <3>1, <3>2, <3>3
  <2>2. keyContent' = [y \in KeyChars |-> keyContent'[y]]
    BY <1>1
  <2> QED
    BY <2>1, <2>2
<1>10. \A g \in entries' : \/ \E e \in entries : g = [s |-> f[e.s], d |-> e.d]
                           \/ g = [s |-> c, d |-> x]
  BY <1>1 DEF Keys!Moved, Keys!KeyCopy
<1>11. \A e \in entries : [s |-> f[e.s], d |-> e.d] \in entries'
  BY <1>1 DEF Keys!Moved
<1>12. [s |-> c, d |-> x] \in entries'
  BY <1>1 DEF Keys!KeyCopy
<1>13. entries' \subseteq [s : KeyChars \ {1}, d : KeyData]
  BY <1>0, <1>2, <1>6, <1>10 DEF EntriesKept
<1>14. keyMap' \in [KeyName -> KeyData \cup {"null"}] /\ keyMap'[Keys!TheName] = x
       /\ \A k \in KeyName : k # Keys!TheName => keyMap'[k] = keyMap[k]
  BY <1>0, <1>1, <1>3 DEF EntriesKept
<1>15. ASSUME NEW g \in entries' PROVE keyContent'[g.s] \in KeyName /\ keyMap'[keyContent'[g.s]] = g.d
  BY <1>0, <1>3, <1>6, <1>7, <1>10, <1>14 DEF EntriesKept
<1>16. ASSUME NEW g \in entries', NEW h \in entries', keyContent'[g.s] = keyContent'[h.s] PROVE g = h
  <2>1. CASE \E e \in entries : g = [s |-> f[e.s], d |-> e.d]
    <3>1. PICK e \in entries : g = [s |-> f[e.s], d |-> e.d]
      BY <2>1
    <3>2. keyContent'[g.s] = keyContent[e.s] /\ keyContent[e.s] # Keys!TheName
      BY <1>3, <1>6, <3>1
    <3>3. h # [s |-> c, d |-> x]
      <4> SUFFICES ASSUME h = [s |-> c, d |-> x] PROVE FALSE
        OBVIOUS
      <4>1. h.s = c
        OBVIOUS
      <4> QED
        BY <1>7, <1>16, <3>2, <4>1
    <3>4. PICK e2 \in entries : h = [s |-> f[e2.s], d |-> e2.d]
      BY <1>10, <3>3
    <3>5. keyContent[e.s] = keyContent[e2.s]
      BY <1>6, <1>16, <3>2, <3>4
    <3>6. e = e2
      BY <1>0, <3>5 DEF EntriesKept
    <3> QED
      BY <3>1, <3>4, <3>6
  <2>2. CASE g = [s |-> c, d |-> x]
    <3>1. keyContent'[h.s] = Keys!TheName
      BY <1>7, <1>16, <2>2
    <3>2. ~\E e \in entries : h = [s |-> f[e.s], d |-> e.d]
      BY <1>3, <1>6, <3>1
    <3> QED
      BY <1>10, <2>2, <3>2
  <2> QED
    BY <1>10, <2>1, <2>2
<1>17. ASSUME NEW k \in KeyName, keyMap'[k] # "null" PROVE \E g \in entries' : keyContent'[g.s] = k
  <2>1. CASE k = Keys!TheName
    BY <1>7, <1>12, <2>1
  <2>2. CASE k # Keys!TheName
    <3>1. PICK e \in entries : keyContent[e.s] = k
      BY <1>0, <1>14, <1>17, <2>2 DEF EntriesKept
    <3> QED
      BY <1>6, <1>11, <3>1
  <2> QED
    BY <2>1, <2>2
<1>18. EntriesKept(entries', keyContent', keyMap')
  BY <1>3, <1>8, <1>9, <1>13, <1>14, <1>15, <1>16, <1>17 DEF EntriesKept
<1> QED
  BY <1>18 DEF KeysKept, EntriesKept

\* Other data for a key that is there.
LEMMA EntryOverwritten ==
  ASSUME KeysKept, NEW x \in KeyData, Keys!Overwrite(x)
  PROVE  KeysKept'
<1> USE DEF KeyData
<1>0. EntriesKept(entries, keyContent, keyMap)
  BY DEF KeysKept
<1>1. PICK e \in entries : keyContent[e.s] = Keys!TheName
  BY DEF Keys!Overwrite, Keys!SameKey
<1>2. Keys!SameKey(Keys!TheName) = {e}
  BY <1>0, <1>1 DEF Keys!SameKey, EntriesKept
<1> DEFINE n == [s |-> e.s, d |-> x]
<1>3. entries' = (entries \ {e}) \cup {n}
  BY <1>0, <1>2 DEF Keys!Overwrite, EntriesKept
<1>4. keyMap' = [keyMap EXCEPT ![Keys!TheName] = x] /\ keyContent' = keyContent /\ Keys!TheName \in KeyName
  BY <1>0 DEF Keys!Overwrite, EntriesKept, Keys!TheName, Keys!Buffer
<1>5. n.s = e.s /\ n.d = x /\ n \in [s : KeyChars \ {1}, d : KeyData]
  BY <1>0 DEF EntriesKept
<1> HIDE DEF n
<1>6. EntriesKept(entries', keyContent', keyMap')
  BY <1>0, <1>1, <1>3, <1>4, <1>5 DEF EntriesKept
<1> QED
  BY <1>6 DEF KeysKept, EntriesKept

\* Every call on the table of names keeps the invariant.
LEMMA KeysStep ==
  ASSUME KeysKept, Keys!Next
  PROVE  KeysKept'
<1>0. EntriesKept(entries, keyContent, keyMap)
  BY DEF KeysKept
<1>1. ASSUME NEW k \in KeyName, Keys!Rewrite(k) PROVE KeysKept'
  BY <1>0, <1>1, KeysAssumption DEF KeysAssumption, Keys!Rewrite, Keys!Buffer, KeysKept, EntriesKept
<1>2. Keys!Fresh \in KeyData /\ KeyDatum \subseteq KeyData
  BY DEF Keys!Fresh, KeyData
<1>3. ASSUME NEW x \in KeyData, (Keys!NewKey /\ Keys!Insert(x)) \/ Keys!Overwrite(x) PROVE KeysKept'
  BY <1>3, EntryInserted, EntryOverwritten
<1>4. CASE Keys!RemoveKey
  <2>1. keyMap' = [keyMap EXCEPT ![Keys!TheName] = "null"] /\ keyContent' = keyContent /\ Keys!TheName \in KeyName
    BY <1>0, <1>4 DEF Keys!RemoveKey, EntriesKept, Keys!TheName, Keys!Buffer, Keys!NULL
  <2>2. entries' = {e \in entries : keyContent[e.s] # Keys!TheName}
    BY <1>4 DEF Keys!RemoveKey, Keys!Erase, Keys!SameKey
  <2>3. EntriesKept(entries', keyContent', keyMap')
    BY <1>0, <2>1, <2>2 DEF EntriesKept
  <2> QED
    BY <2>3 DEF KeysKept, EntriesKept
<1>5. CASE Keys!RemoveAll
  <2>1. EntriesKept(entries', keyContent', keyMap')
    BY <1>0, <1>5, KeysAssumption DEF KeysAssumption, Keys!RemoveAll, Keys!NULL, Keys!Freed, EntriesKept
  <2> QED
    BY <2>1 DEF KeysKept, EntriesKept
<1>6. CASE \E x \in KeyDatum : Keys!AddReplace(x) \/ Keys!AddReplaceOld(x)
  BY <1>2, <1>3, <1>6 DEF Keys!AddReplace, Keys!AddReplaceOld
<1>7. CASE Keys!AddReplaceNew \/ Keys!AddNoreplaceNew \/ Keys!FindOrNew
  BY <1>2, <1>3, <1>7 DEF Keys!AddReplaceNew, Keys!AddNoreplaceNew, Keys!FindOrNew
<1> QED
  BY <1>1, <1>4, <1>5, <1>6, <1>7 DEF Keys!Next, Keys!RemoveFill

\* TW_StringMapGeneric: each name finds what was put there last, in one entry, whatever
\* the caller writes into its buffer and however the table moves its keys.
THEOREM NamesAlwaysFound == Spec => []NamesFound
<1>1. Init => KeysKept
  BY KeysAssumption DEF KeysAssumption, Init, Keys!Init, KeysKept, EntriesKept, Keys!Freed, Keys!NULL, Keys!Buffer
<1>2. KeysKept /\ [Next]_vars => KeysKept'
  <2> SUFFICES ASSUME KeysKept, [Next]_vars PROVE KeysKept'
    OBVIOUS
  <2>1. CASE UNCHANGED keyVars
    BY <2>1 DEF keyVars, KeysKept, EntriesKept
  <2>2. CASE Keys!Next
    BY <2>2, KeysStep
  <2>3. Keys!Next \/ UNCHANGED keyVars
    BY DEF Next, Done, vars
  <2> QED
    BY <2>1, <2>2, <2>3
<1>3. KeysKept => NamesFound
  <2> SUFFICES ASSUME KeysKept PROVE NamesFound
    OBVIOUS
  <2>0. EntriesKept(entries, keyContent, keyMap)
    BY DEF KeysKept
  <2>1. ASSUME NEW k \in KeyName PROVE Keys!find(k) = keyMap[k] /\ Keys!Cardinality(Keys!SameKey(k)) <= 1
    <3>1. CASE Keys!SameKey(k) = {}
      <4>1. Keys!find(k) = keyMap[k]
        BY <2>0, <3>1 DEF Keys!find, Keys!SameKey, Keys!NULL, EntriesKept
      <4>2. Cardinality(Keys!SameKey(k)) = 0
        BY <3>1, FS_EmptySet
      <4> QED
        BY <4>1, <4>2, KeysSameCardinality
    <3>2. CASE Keys!SameKey(k) # {}
      <4>1. PICK e \in Keys!SameKey(k) : TRUE
        BY <3>2
      <4>2. Keys!SameKey(k) = {e} /\ e.d = keyMap[k]
        BY <2>0, <4>1 DEF Keys!SameKey, EntriesKept
      <4>3. Keys!find(k) = keyMap[k]
        BY <3>2, <4>2 DEF Keys!find
      <4>4. Cardinality(Keys!SameKey(k)) = 1
        BY <4>2, FS_Singleton
      <4> QED
        BY <4>3, <4>4, KeysSameCardinality
    <3> QED
      BY <3>1, <3>2
  <2>2. \A e \in entries : keyContent[e.s] # Keys!Freed
    BY <2>0, KeysAssumption DEF KeysAssumption, Keys!Freed, EntriesKept
  <2> QED
    BY <2>1, <2>2 DEF NamesFound, Keys!NamesFound
<1> QED
  BY <1>1, <1>2, <1>3, PTL DEF Spec

-----------------------------------------------------------------------------

\* The remainder of a multiple of n and something below n.
LEMMA ModIs ==
  ASSUME NEW n \in Nat, n > 0, NEW a \in Nat, NEW c \in 0..(n - 1)
  PROVE  (n * a + c) % n = c
OBVIOUS

\* Every number is a multiple of n and its remainder.
LEMMA DivMod ==
  ASSUME NEW n \in Nat, n > 0, NEW x \in Nat
  PROVE  \E a \in Nat, c \in 0..(n - 1) : x = n * a + c /\ c = x % n
OBVIOUS

\* The tries of every key, an odd number of buckets apart, reach all of n buckets.
Covers(n) ==
    \A h, s \in Nat : s % 2 = 1 =>
        \A i \in 0..(n - 1) : \E j \in 0..(n - 1) : (h + j * s) % n = i

\* An odd step visits the only bucket of a table of one.
LEMMA CoversOne == Covers(1)
<1> SUFFICES ASSUME NEW h \in Nat, NEW s \in Nat, NEW i \in 0..0
             PROVE  \E j \in 0..0 : (h + j * s) % 1 = i
  BY DEF Covers
<1>1. i = 0 /\ h % 1 = 0 /\ h + 0 * s = h
  OBVIOUS
<1> QED
  BY <1>1

\* When odd steps visit every bucket of a table of n, they do in one of 2 n.
LEMMA CoversDouble ==
  ASSUME NEW n \in Nat, n > 0, Covers(n)
  PROVE  Covers(2 * n)
<1> SUFFICES ASSUME NEW h \in Nat, NEW s \in Nat, s % 2 = 1, NEW i \in 0..(2 * n - 1)
             PROVE  \E j \in 0..(2 * n - 1) : (h + j * s) % (2 * n) = i
  BY DEF Covers
<1>1. PICK q \in Nat : s = 2 * q + 1
  BY DivMod
<1>2. PICK c \in 0..(n - 1) : i = c \/ i = c + n
  <2>1. CASE i < n
    <3>1. i \in 0..(n - 1)
      BY <2>1
    <3> QED
      BY <3>1
  <2>2. CASE i >= n
    <3>1. i - n \in 0..(n - 1) /\ i = (i - n) + n
      BY <2>2
    <3> QED
      BY <3>1
  <2> QED
    BY <2>1, <2>2
<1>3. PICK j \in 0..(n - 1) : (h + j * s) % n = c
  BY DEF Covers
<1> DEFINE x == h + j * s
<1>4. j \in Nat /\ x \in Nat /\ j * s \in Nat /\ n * s \in Nat /\ n * q \in Nat
  OBVIOUS
<1>5. PICK a \in Nat : x = n * a + c
  <2>1. PICK a \in Nat, e \in 0..(n - 1) : x = n * a + e /\ e = x % n
    BY <1>4, DivMod
  <2> QED
    BY <1>3, <2>1
<1>6. PICK b \in Nat : a = 2 * b \/ a = 2 * b + 1
  <2>1. PICK b \in Nat, e \in 0..(2 - 1) : a = 2 * b + e /\ e = a % 2
    BY ONLY DivMod, a \in Nat
  <2> QED
    BY <2>1
<1>7. n * (2 * b) = (2 * n) * b /\ n * (2 * b + 1) = (2 * n) * b + n /\ b + q \in Nat /\ b + q + 1 \in Nat
  OBVIOUS
<1>8. h + (j + n) * s = x + (2 * n) * q + n
  <2>1. (j + n) * s = j * s + n * s
    OBVIOUS
  <2>2. n * (2 * q + 1) = (2 * n) * q + n
    OBVIOUS
  <2> QED
    BY <2>1, <2>2, <1>1, <1>4
<1>9. j \in 0..(2 * n - 1) /\ j + n \in 0..(2 * n - 1) /\ 2 * n \in Nat /\ 2 * n > 0 /\ c \in 0..(2 * n - 1) /\ c + n \in 0..(2 * n - 1)
  OBVIOUS
<1>10. (2 * n) * b + (2 * n) * q = (2 * n) * (b + q) /\ (2 * n) * (b + q + 1) = (2 * n) * (b + q) + 2 * n
  OBVIOUS
<1> HIDE DEF x
<1>11. CASE a = 2 * b
  <2>1. x = (2 * n) * b + c
    BY <1>5, <1>7, <1>11
  <2>2. x + (2 * n) * q + n = (2 * n) * (b + q) + (c + n)
    BY <2>1, <1>10
  <2>3. x % (2 * n) = c
    BY <2>1, <1>9, ModIs
  <2>4. (x + (2 * n) * q + n) % (2 * n) = c + n
    <3>1. PICK N \in Nat, A \in Nat, C \in Nat, y \in Nat :
             N = 2 * n /\ A = b + q /\ C = c + n /\ y = x + (2 * n) * q + n
      BY <1>4, <1>7, <1>9 DEF x
    <3>2. y = N * A + C
      BY ONLY <2>2, <3>1
    <3>3. N > 0 /\ C \in 0..(N - 1)
      BY ONLY <1>9, <3>1
    <3>4. y % N = C
      BY ONLY <3>2, <3>3, ModIs, N \in Nat, A \in Nat
    <3> QED
      BY ONLY <3>1, <3>4
  <2>5. (h + j * s) % (2 * n) = c /\ (h + (j + n) * s) % (2 * n) = c + n
    BY ONLY <1>8, <2>3, <2>4 DEF x
  <2> QED
    BY ONLY <1>2, <1>9, <2>5
<1>12. CASE a = 2 * b + 1
  <2>1. x = (2 * n) * b + (c + n)
    BY <1>5, <1>7, <1>12
  <2>2. x + (2 * n) * q + n = (2 * n) * (b + q + 1) + c
    BY <2>1, <1>10
  <2>3. x % (2 * n) = c + n
    BY <2>1, <1>9, ModIs
  <2>4. (x + (2 * n) * q + n) % (2 * n) = c
    <3>1. PICK N \in Nat, A \in Nat, C \in Nat, y \in Nat :
             N = 2 * n /\ A = b + q + 1 /\ C = c /\ y = x + (2 * n) * q + n
      BY <1>4, <1>7, <1>9 DEF x
    <3>2. y = N * A + C
      BY ONLY <2>2, <3>1
    <3>3. N > 0 /\ C \in 0..(N - 1)
      BY ONLY <1>9, <3>1
    <3>4. y % N = C
      BY ONLY <3>2, <3>3, ModIs, N \in Nat, A \in Nat
    <3> QED
      BY ONLY <3>1, <3>4
  <2>5. (h + j * s) % (2 * n) = c + n /\ (h + (j + n) * s) % (2 * n) = c
    BY ONLY <1>8, <2>3, <2>4 DEF x
  <2> QED
    BY ONLY <1>2, <1>9, <2>5
<1> QED
  BY <1>6, <1>11, <1>12

\* An odd step visits every bucket of the smallest table.
LEMMA CoversFour == Covers(4)
<1>1. Covers(2 * 1)
  BY CoversOne, CoversDouble
<1>2. Covers(2 * 2)
  BY <1>1, CoversDouble
<1> QED
  BY <1>2

\* The least number of a set of naturals.
LEMMA HashMinIs ==
  ASSUME NEW S \in SUBSET Nat, S # {}
  PROVE  Hash!Min(S) \in S /\ \A y \in S : Hash!Min(S) <= y
<1>1. \E x \in S : \A y \in S : x <= y
  BY LeastExists
<1> QED
  BY <1>1 DEF Hash!Min

\* The greatest number of a bounded set of naturals.
LEMMA HashMaxIs ==
  ASSUME NEW n \in Nat, NEW S \in SUBSET (0..n), S # {}
  PROVE  Hash!Max(S) \in S /\ \A y \in S : Hash!Max(S) >= y
<1> DEFINE T == {m \in Nat : \E x \in S : m = n - x}
<1>1. T # {}
  <2>1. PICK x \in S : TRUE
    OBVIOUS
  <2>2. n - x \in T
    BY <2>1
  <2> QED
    BY <2>2
<1>2. T \in SUBSET Nat
  OBVIOUS
<1> HIDE DEF T
<1>3. PICK m \in T : \A y \in T : m <= y
  BY ONLY <1>1, <1>2, LeastExists
<1>4. PICK x \in S : m = n - x
  BY <1>3 DEF T
<1>5. \A y \in S : x >= y
  <2> SUFFICES ASSUME NEW y \in S PROVE x >= y
    OBVIOUS
  <2>1. n - y \in T
    BY DEF T
  <2>2. n - x <= n - y
    BY <1>3, <1>4, <2>1
  <2> QED
    BY <2>2
<1> QED
  BY <1>5 DEF Hash!Max

HashData == Val \cup {"fresh"}
Flags == {"empty", "set", "del"}

\* A search tries buckets of the table.
LEMMA ProbeType ==
  ASSUME NEW n \in Nat, n > 0, NEW k \in Key, NEW j \in Nat
  PROVE  Hash!Probe(n, k, j) \in 0..(n - 1)
<1>1. HashOf[k] \in Nat /\ StepOf[k] \in Nat
  BY HashAssumption DEF HashAssumption
<1>2. HashOf[k] + j * StepOf[k] \in Nat
  BY <1>1
<1> QED
  BY <1>2 DEF Hash!Probe

\* A search for a key tries every bucket.
LEMMA ProbeCovers ==
  ASSUME NEW n \in Nat, Covers(n), NEW k \in Key, NEW i \in 0..(n - 1)
  PROVE  \E j \in 0..(n - 1) : Hash!Probe(n, k, j) = i
<1>1. HashOf[k] \in Nat /\ StepOf[k] \in Nat /\ StepOf[k] % 2 = 1
  BY HashAssumption DEF HashAssumption
<1> QED
  BY <1>1 DEF Hash!Probe, Covers

\* Key k has its place in bucket i: no bucket that is tried for it before is empty.
PlacedAt(fl, n, k, i) ==
    \E j \in 0..(n - 1) : Hash!Probe(n, k, j) = i /\ \A m \in 0..(j - 1) : fl[Hash!Probe(n, k, m)] # "empty"

\* The buckets S of the arrays ky and vl hold what mp says, each key once.
Agree(S, ky, vl, mp) ==
    /\ \A i \in S : ky[i] \in Key /\ mp[ky[i]] = vl[i] /\ vl[i] \in HashData
    /\ \A i, j \in S : ky[i] = ky[j] => i = j
All(S, ky, mp) == \A k \in Key : mp[k] # Absent => \E i \in S : ky[i] = k

With(fl, n, f) == {i \in 0..(n - 1) : fl[i] = f}
Present(mp) == {k \in Key : mp[k] # Absent}

TabType(t) ==
    /\ t.n \in Nat
    /\ t \in [n : Nat, size : Nat, occ : Nat, flag : [0..(t.n - 1) -> Flags],
              key : [0..(t.n - 1) -> Key \cup {Absent}], val : [0..(t.n - 1) -> HashData \cup {Absent}]]
TabCounts(t) ==
    /\ t.n = 0 \/ (t.n >= 4 /\ Covers(t.n))
    /\ t.occ <= Hash!UpperBound(t.n)
    /\ t.size = Cardinality(With(t.flag, t.n, "set"))
    /\ t.occ = t.size + Cardinality(With(t.flag, t.n, "del"))
TabPlaces(t, mp) ==
    /\ mp \in [Key -> HashData \cup {Absent}]
    /\ Agree(With(t.flag, t.n, "set"), t.key, t.val, mp)
    /\ All(With(t.flag, t.n, "set"), t.key, mp)
    /\ \A i \in With(t.flag, t.n, "set") : PlacedAt(t.flag, t.n, t.key[i], i)
TabOK(t, mp) == TabType(t) /\ TabCounts(t) /\ TabPlaces(t, mp)

\* The buckets with a given flag are finitely many.
LEMMA WithFinite ==
  ASSUME NEW n \in Nat, NEW fl, NEW f
  PROVE  /\ With(fl, n, f) \subseteq 0..(n - 1) /\ IsFiniteSet(With(fl, n, f))
         /\ Cardinality(With(fl, n, f)) \in Nat
<1>1. IsFiniteSet(0..(n - 1))
  BY FS_Interval
<1>2. With(fl, n, f) \subseteq 0..(n - 1)
  BY DEF With
<1> QED
  BY <1>1, <1>2, FS_Subset, FS_CardinalityType

\* kh_get_A() finds a key that is there, and only such a key.
LEMMA GetFinds ==
  ASSUME NEW t, NEW mp, TabType(t), TabPlaces(t, mp), NEW k \in Key
  PROVE  /\ mp[k] # Absent => /\ Hash!kh_get(t, k) \in With(t.flag, t.n, "set")
                              /\ t.key[Hash!kh_get(t, k)] = k /\ t.val[Hash!kh_get(t, k)] = mp[k]
         /\ mp[k] = Absent => Hash!kh_get(t, k) = t.n
<1> DEFINE E == Hash!Ends(t, k)
<1>0. t.n \in Nat /\ E \subseteq 0..(t.n - 1) /\ E \subseteq Nat
  BY DEF TabType, Hash!Ends, Hash!Buckets
<1>1. ASSUME NEW j \in E
      PROVE  LET i == Hash!Probe(t.n, k, j)
             IN  i \in 0..(t.n - 1) /\ (t.flag[i] = "empty" \/ (t.flag[i] = "set" /\ t.key[i] = k))
  <2>1. t.n > 0 /\ j \in Nat
    BY <1>0
  <2>2. Hash!Probe(t.n, k, j) \in 0..(t.n - 1)
    BY <1>0, <2>1, ProbeType
  <2>3. t.flag[Hash!Probe(t.n, k, j)] = "empty" \/ (t.flag[Hash!Probe(t.n, k, j)] = "set" /\ t.key[Hash!Probe(t.n, k, j)] = k)
    BY DEF Hash!Ends
  <2> QED
    BY <2>2, <2>3
<1>2. ASSUME NEW i \in With(t.flag, t.n, "set"), t.key[i] = k
      PROVE  \E j \in E : Hash!Probe(t.n, k, j) = i /\ \A m \in 0..(j - 1) : t.flag[Hash!Probe(t.n, k, m)] # "empty"
  <2>1. PICK j \in 0..(t.n - 1) : Hash!Probe(t.n, k, j) = i /\ \A m \in 0..(j - 1) : t.flag[Hash!Probe(t.n, k, m)] # "empty"
    BY <1>2 DEF TabPlaces, PlacedAt
  <2>2. j \in E
    BY <1>2, <2>1 DEF Hash!Ends, Hash!Buckets, With
  <2> QED
    BY <2>1, <2>2
<1> HIDE DEF E
<1>3. CASE E = {}
  <2>1. Hash!kh_get(t, k) = t.n
    BY <1>3 DEF Hash!kh_get, E
  <2>2. mp[k] = Absent
    BY <1>2, <1>3 DEF TabPlaces, All
  <2> QED
    BY <2>1, <2>2
<1>4. CASE E # {}
  <2> DEFINE m == Hash!Min(E)
             i == Hash!Probe(t.n, k, m)
  <2>1. m \in E /\ \A y \in E : m <= y
    BY <1>0, <1>4, HashMinIs
  <2>2. i \in 0..(t.n - 1) /\ (t.flag[i] = "empty" \/ (t.flag[i] = "set" /\ t.key[i] = k))
    BY <1>1, <2>1
  <2>3. Hash!kh_get(t, k) = IF t.flag[i] = "set" THEN i ELSE t.n
    BY <1>4 DEF Hash!kh_get, E
  <2>4. CASE t.flag[i] = "set"
    <3>1. i \in With(t.flag, t.n, "set") /\ t.key[i] = k
      BY <2>2, <2>4 DEF With
    <3>2. mp[k] = t.val[i] /\ t.val[i] \in HashData
      BY <3>1 DEF TabPlaces, Agree
    <3>3. mp[k] # Absent
      BY <3>2, HashAssumption DEF HashAssumption, HashData
    <3> QED
      BY <2>3, <2>4, <3>1, <3>2, <3>3
  <2>5. CASE t.flag[i] = "empty"
    <3>1. Hash!kh_get(t, k) = t.n
      BY <2>3, <2>5
    <3>2. mp[k] = Absent
      <4> SUFFICES ASSUME mp[k] # Absent PROVE FALSE
        OBVIOUS
      <4>1. PICK x \in With(t.flag, t.n, "set") : t.key[x] = k
        BY DEF TabPlaces, All
      <4>2. PICK j \in E : Hash!Probe(t.n, k, j) = x /\ \A y \in 0..(j - 1) : t.flag[Hash!Probe(t.n, k, y)] # "empty"
        BY <1>2, <4>1
      <4>3. m <= j /\ m \in Nat /\ j \in Nat
        BY <1>0, <2>1
      <4>4. m # j
        BY <2>5, <4>1, <4>2 DEF With
      <4>5. m \in 0..(j - 1)
        BY <4>3, <4>4
      <4> QED
        BY <2>5, <4>2, <4>5
    <3> QED
      BY <3>1, <3>2
  <2> QED
    BY <2>2, <2>4, <2>5
<1> QED
  BY <1>3, <1>4

\* As many buckets are set as there are keys.
LEMMA PresentCount ==
  ASSUME NEW S, IsFiniteSet(S), NEW ky, NEW vl, NEW mp \in [Key -> HashData \cup {Absent}],
         Agree(S, ky, vl, mp), All(S, ky, mp)
  PROVE  IsFiniteSet(Present(mp)) /\ Cardinality(Present(mp)) = Cardinality(S)
<1> DEFINE f == [i \in S |-> ky[i]]
<1>0. Absent \notin HashData
  BY HashAssumption DEF HashAssumption, HashData
<1>1. \A i \in S : ky[i] \in Present(mp)
  BY <1>0 DEF Agree, Present
<1>2. f \in [S -> Present(mp)] /\ \A i \in S : f[i] = ky[i]
  BY <1>1
<1> HIDE DEF f
<1>3. \A i, j \in S : f[i] = f[j] => i = j
  BY <1>2 DEF Agree
<1>4. \A k \in Present(mp) : \E i \in S : f[i] = k
  BY <1>2 DEF All, Present
<1>5. f \in Bijection(S, Present(mp))
  BY <1>2, <1>3, <1>4 DEF Bijection, Injection, Surjection, IsInjective
<1>6. ExistsBijection(S, Present(mp))
  BY <1>5 DEF ExistsBijection
<1> QED
  BY <1>6, FS_Bijection

\* A key that is not there is put in a bucket that is not set and where it has its place.
PutAfter(t, k, v, x) ==
    [n |-> t.n, size |-> t.size + 1, occ |-> IF t.flag[x] = "empty" THEN t.occ + 1 ELSE t.occ,
     flag |-> [t.flag EXCEPT ![x] = "set"], key |-> [t.key EXCEPT ![x] = k], val |-> [t.val EXCEPT ![x] = v]]

\* What filling bucket x does to the table.
LEMMA PutIs ==
  ASSUME NEW t, TabType(t), NEW k, NEW v, NEW x \in 0..(t.n - 1), t.flag[x] # "set"
  PROVE  Hash!PutIn(t, k, v, x) = PutAfter(t, k, v, x)
<1> DEFINE s == Hash!SetBucket(t, k, x)
           o == IF t.flag[x] = "empty" THEN t.occ + 1 ELSE t.occ
           w == [n |-> t.n, size |-> t.size + 1, occ |-> o, flag |-> [t.flag EXCEPT ![x] = "set"],
                 key |-> [t.key EXCEPT ![x] = k], val |-> t.val]
<1>1. s = w
  BY DEF TabType, Hash!SetBucket
<1>2. Hash!PutIn(t, k, v, x) = [s EXCEPT !.val[x] = v]
  BY DEF Hash!PutIn
<1> HIDE DEF s
<1>3. [w EXCEPT !.val[x] = v] = PutAfter(t, k, v, x)
  BY DEF PutAfter
<1> QED
  BY <1>1, <1>2, <1>3

\* A bucket that is filled leaves the table well typed.
LEMMA PutType ==
  ASSUME NEW t, TabType(t), NEW k \in Key, NEW v \in HashData, NEW x \in 0..(t.n - 1)
  PROVE  TabType(PutAfter(t, k, v, x))
<1>1. /\ [t.flag EXCEPT ![x] = "set"] \in [0..(t.n - 1) -> Flags]
      /\ [t.key EXCEPT ![x] = k] \in [0..(t.n - 1) -> Key \cup {Absent}]
      /\ [t.val EXCEPT ![x] = v] \in [0..(t.n - 1) -> HashData \cup {Absent}]
  BY DEF TabType, Flags
<1>2. t.n \in Nat /\ t.size + 1 \in Nat /\ (IF t.flag[x] = "empty" THEN t.occ + 1 ELSE t.occ) \in Nat
  BY DEF TabType
<1> QED
  BY <1>1, <1>2 DEF TabType, PutAfter

\* A bucket that is filled below the upper bound leaves the counts right.
LEMMA PutCounts ==
  ASSUME NEW t, TabType(t), TabCounts(t), NEW k, NEW v, NEW x \in 0..(t.n - 1), t.flag[x] # "set",
         t.occ < Hash!UpperBound(t.n)
  PROVE  TabCounts(PutAfter(t, k, v, x))
<1> DEFINE fl == [t.flag EXCEPT ![x] = "set"]
           S == With(t.flag, t.n, "set")
           D == With(t.flag, t.n, "del")
<1>0. t.n \in Nat /\ t.flag \in [0..(t.n - 1) -> Flags] /\ t.size \in Nat /\ t.occ \in Nat /\ Hash!UpperBound(t.n) \in Nat
  BY DEF TabType, Hash!UpperBound
<1>1. With(fl, t.n, "set") = S \cup {x} /\ x \notin S
  BY <1>0 DEF With
<1>2. With(fl, t.n, "del") = D \ {x} /\ (x \in D <=> t.flag[x] # "empty")
  BY <1>0 DEF With, Flags
<1>3. IsFiniteSet(S) /\ IsFiniteSet(D) /\ Cardinality(S) \in Nat /\ Cardinality(D) \in Nat
  BY <1>0, WithFinite
<1> HIDE DEF fl, S, D
<1>4. Cardinality(With(fl, t.n, "set")) = Cardinality(S) + 1
  BY <1>1, <1>3, FS_AddElement
<1>5. Cardinality(With(fl, t.n, "del")) = IF t.flag[x] = "empty" THEN Cardinality(D) ELSE Cardinality(D) - 1
  BY <1>2, <1>3, FS_RemoveElement
<1>6. t.size = Cardinality(S) /\ t.occ = t.size + Cardinality(D) /\ (t.n = 0 \/ (t.n >= 4 /\ Covers(t.n)))
  BY DEF TabCounts, S, D
<1> DEFINE u == PutAfter(t, k, v, x)
<1>7. u.n = t.n /\ u.size = t.size + 1 /\ u.occ = (IF t.flag[x] = "empty" THEN t.occ + 1 ELSE t.occ) /\ u.flag = fl
  BY DEF PutAfter, fl
<1> HIDE DEF u
<1>8. u.occ <= Hash!UpperBound(u.n)
  BY <1>0, <1>7
<1>9. u.size = Cardinality(With(u.flag, u.n, "set"))
  BY <1>4, <1>6, <1>7
<1>10. u.occ = u.size + Cardinality(With(u.flag, u.n, "del"))
  <2>1. PICK a \in Nat, b \in Nat : a = Cardinality(D) /\ b = t.size
    BY <1>0, <1>3
  <2>2. b + a = (b + 1) + (a - 1) /\ (b + a) + 1 = (b + 1) + a
    BY ONLY a \in Nat, b \in Nat
  <2> QED
    BY <1>5, <1>6, <1>7, <2>1, <2>2
<1> QED
  BY <1>6, <1>7, <1>8, <1>9, <1>10 DEF TabCounts, u

\* A key stays where a search finds it while no bucket becomes empty.
LEMMA PlacedStays ==
  ASSUME NEW n \in Nat, NEW fl, NEW gl, NEW k \in Key, NEW i, PlacedAt(fl, n, k, i),
         \A m \in 0..(n - 1) : fl[m] # "empty" => gl[m] # "empty"
  PROVE  PlacedAt(gl, n, k, i)
<1>1. PICK j \in 0..(n - 1) : Hash!Probe(n, k, j) = i /\ \A m \in 0..(j - 1) : fl[Hash!Probe(n, k, m)] # "empty"
  BY DEF PlacedAt
<1>2. \A m \in 0..(j - 1) : Hash!Probe(n, k, m) \in 0..(n - 1)
  BY ProbeType
<1>3. \A m \in 0..(j - 1) : gl[Hash!Probe(n, k, m)] # "empty"
  BY <1>1, <1>2
<1> QED
  BY <1>1, <1>3 DEF PlacedAt

\* A key put where its search ends is found there, and so are the others.
LEMMA PutPlaces ==
  ASSUME NEW t, NEW mp, TabType(t), TabPlaces(t, mp), NEW k \in Key, mp[k] = Absent, NEW v \in HashData,
         NEW x \in 0..(t.n - 1), t.flag[x] # "set", PlacedAt(t.flag, t.n, k, x)
  PROVE  TabPlaces(PutAfter(t, k, v, x), [mp EXCEPT ![k] = v])
<1> DEFINE fl == [t.flag EXCEPT ![x] = "set"]
           ky == [t.key EXCEPT ![x] = k]
           vl == [t.val EXCEPT ![x] = v]
           mq == [mp EXCEPT ![k] = v]
           S == With(t.flag, t.n, "set")
           u == PutAfter(t, k, v, x)
<1>0. /\ t.n \in Nat /\ t.flag \in [0..(t.n - 1) -> Flags] /\ t.key \in [0..(t.n - 1) -> Key \cup {Absent}]
      /\ t.val \in [0..(t.n - 1) -> HashData \cup {Absent}] /\ mp \in [Key -> HashData \cup {Absent}]
  BY DEF TabType, TabPlaces
<1>00. Absent \notin HashData
  BY HashAssumption DEF HashAssumption, HashData
<1>1. With(fl, t.n, "set") = S \cup {x} /\ x \notin S /\ S \subseteq 0..(t.n - 1)
  BY <1>0 DEF With
<1>2. \A i \in S : ky[i] = t.key[i] /\ vl[i] = t.val[i]
  BY <1>0, <1>1
<1>3. ky[x] = k /\ vl[x] = v
  BY <1>0
<1>4. mq \in [Key -> HashData \cup {Absent}] /\ mq[k] = v /\ \A q \in Key : q # k => mq[q] = mp[q]
  BY <1>0
<1>5. /\ \A i \in S : t.key[i] \in Key /\ mp[t.key[i]] = t.val[i] /\ t.val[i] \in HashData
      /\ \A i, j \in S : t.key[i] = t.key[j] => i = j
      /\ \A q \in Key : mp[q] # Absent => \E i \in S : t.key[i] = q
      /\ \A i \in S : PlacedAt(t.flag, t.n, t.key[i], i)
  BY DEF TabPlaces, Agree, All
<1>6. \A i \in S : t.key[i] # k
  BY <1>00, <1>5
<1>7. \A m \in 0..(t.n - 1) : t.flag[m] # "empty" => fl[m] # "empty"
  BY <1>0
<1>8. u.n = t.n /\ u.flag = fl /\ u.key = ky /\ u.val = vl
  BY DEF PutAfter
<1> HIDE DEF fl, ky, vl, mq, S, u
<1>9. Agree(S \cup {x}, ky, vl, mq)
  BY <1>2, <1>3, <1>4, <1>5, <1>6 DEF Agree
<1>10. All(S \cup {x}, ky, mq)
  BY <1>2, <1>3, <1>4, <1>5 DEF All
<1>11. \A i \in S \cup {x} : PlacedAt(fl, t.n, ky[i], i)
  <2>1. ASSUME NEW i \in S PROVE PlacedAt(fl, t.n, ky[i], i)
    <3>1. ky[i] \in Key /\ PlacedAt(t.flag, t.n, ky[i], i)
      BY <1>2, <1>5
    <3> QED
      BY ONLY <3>1, <1>0, <1>7, PlacedStays
  <2>2. PlacedAt(fl, t.n, k, x)
    BY ONLY <1>0, <1>7, PlacedStays, PlacedAt(t.flag, t.n, k, x), k \in Key
  <2> QED
    BY <1>3, <2>1, <2>2
<1> QED
  BY <1>1, <1>4, <1>8, <1>9, <1>10, <1>11 DEF TabPlaces, u, mq

\* The upper bound leaves a bucket empty.
LEMMA UpperBoundBelow ==
  ASSUME NEW n \in Nat, n >= 4
  PROVE  Hash!UpperBound(n) \in Nat /\ Hash!UpperBound(n) < n
BY DEF Hash!UpperBound

\* An empty bucket is left, and every search comes to it.
LEMMA EmptyLeft ==
  ASSUME NEW t, TabType(t), TabCounts(t), t.n > 0
  PROVE  \E i \in 0..(t.n - 1) : t.flag[i] = "empty"
<1> SUFFICES ASSUME \A i \in 0..(t.n - 1) : t.flag[i] # "empty" PROVE FALSE
  OBVIOUS
<1> DEFINE S == With(t.flag, t.n, "set")
           D == With(t.flag, t.n, "del")
<1>0. t.n \in Nat /\ t.n >= 4 /\ t.flag \in [0..(t.n - 1) -> Flags]
  BY DEF TabType, TabCounts
<1>1. S \cup D = 0..(t.n - 1) /\ S \cap D = {}
  BY <1>0 DEF With, Flags
<1>2. IsFiniteSet(S) /\ IsFiniteSet(D) /\ Cardinality(S) \in Nat /\ Cardinality(D) \in Nat
  BY <1>0, WithFinite
<1>3. t.occ = Cardinality(S) + Cardinality(D) /\ t.occ <= Hash!UpperBound(t.n)
  BY DEF TabCounts
<1> HIDE DEF S, D
<1>4. Cardinality(0..(t.n - 1)) = Cardinality(S) + Cardinality(D) - Cardinality(S \cap D)
  BY <1>1, <1>2, FS_Union
<1>5. Cardinality(S \cap D) = 0
  BY <1>1, FS_EmptySet
<1>6. Cardinality(0..(t.n - 1)) = t.n
  BY <1>0, FS_Interval
<1>7. Hash!UpperBound(t.n) < t.n /\ Hash!UpperBound(t.n) \in Nat
  BY <1>0, UpperBoundBelow
<1> QED
  BY <1>0, <1>2, <1>3, <1>4, <1>5, <1>6, <1>7

\* kh_put_A() finds a place for a key that is not there.
LEMMA PutFinds ==
  ASSUME NEW t, NEW mp, TabOK(t, mp), t.n > 0, NEW k \in Key, mp[k] = Absent
  PROVE  LET x == Hash!PutAt(t, k, Hash!Min(Hash!Ends(t, k)))
         IN  x \in 0..(t.n - 1) /\ t.flag[x] # "set" /\ PlacedAt(t.flag, t.n, k, x)
<1> DEFINE E == Hash!Ends(t, k)
           m == Hash!Min(E)
           x == Hash!PutAt(t, k, m)
           P(j) == Hash!Probe(t.n, k, j)
<1>0. /\ t.n \in Nat /\ t.flag \in [0..(t.n - 1) -> Flags] /\ E \subseteq 0..(t.n - 1) /\ E \subseteq Nat
      /\ Covers(t.n) /\ TabType(t) /\ TabCounts(t) /\ TabPlaces(t, mp)
  BY DEF TabOK, TabType, TabCounts, Hash!Ends, Hash!Buckets
<1>1. \A j \in Nat : P(j) \in 0..(t.n - 1)
  BY <1>0, ProbeType
<1>2. \A j \in 0..(t.n - 1) : j \in E <=> t.flag[P(j)] = "empty" \/ (t.flag[P(j)] = "set" /\ t.key[P(j)] = k)
  BY DEF Hash!Ends, Hash!Buckets
<1>3. E # {}
  <2>1. PICK i \in 0..(t.n - 1) : t.flag[i] = "empty"
    BY <1>0, EmptyLeft
  <2>2. PICK j \in 0..(t.n - 1) : P(j) = i
    BY <1>0, ProbeCovers
  <2> HIDE DEF E
  <2> QED
    BY <1>2, <2>1, <2>2
<1>4. m \in E /\ \A y \in E : m <= y
  BY <1>0, <1>3, HashMinIs
<1>5. ~ (t.flag[P(m)] = "set" /\ t.key[P(m)] = k)
  <2> SUFFICES ASSUME t.flag[P(m)] = "set", t.key[P(m)] = k PROVE FALSE
    OBVIOUS
  <2>1. P(m) \in With(t.flag, t.n, "set")
    BY <1>0, <1>1, <1>4 DEF With
  <2>2. mp[k] \in HashData
    BY <1>0, <2>1 DEF TabPlaces, Agree
  <2> QED
    BY <2>2, HashAssumption DEF HashAssumption, HashData
<1> HIDE DEF E, m
<1>6. t.flag[P(m)] = "empty" /\ m \in 0..(t.n - 1)
  BY <1>0, <1>2, <1>4, <1>5
<1>7. \A j \in 0..(m - 1) : t.flag[P(j)] # "empty"
  <2> SUFFICES ASSUME NEW j \in 0..(m - 1), t.flag[P(j)] = "empty" PROVE FALSE
    OBVIOUS
  <2>1. j \in 0..(t.n - 1) /\ ~ (m <= j)
    BY <1>0, <1>6
  <2>2. j \in E
    BY <1>2, <2>1
  <2> QED
    BY <1>4, <2>1, <2>2
<1> DEFINE D == {j \in 0..m : t.flag[P(j)] = "del"}
<1>8. x = IF D # {} THEN P(Hash!Max(D)) ELSE P(m)
  BY <1>6 DEF Hash!PutAt
<1>9. CASE D = {}
  <2>1. x = P(m)
    BY <1>8, <1>9
  <2>2. x \in 0..(t.n - 1) /\ t.flag[x] # "set"
    BY <1>1, <1>6, <2>1
  <2>3. PlacedAt(t.flag, t.n, k, x)
    BY <1>6, <1>7, <2>1 DEF PlacedAt
  <2> QED
    BY <2>2, <2>3 DEF m, E
<1>10. CASE D # {}
  <2> DEFINE l == Hash!Max(D)
  <2>1. x = P(l)
    BY <1>8, <1>10
  <2>2. l \in D
    <3>1. D \in SUBSET (0..m) /\ m \in Nat
      BY <1>6
    <3> HIDE DEF D
    <3> QED
      BY <1>10, <3>1, HashMaxIs
  <2> HIDE DEF l
  <2>3. l \in 0..m /\ t.flag[P(l)] = "del" /\ l \in 0..(t.n - 1)
    BY <1>0, <1>6, <2>2
  <2>4. x \in 0..(t.n - 1) /\ t.flag[x] # "set"
    BY <1>1, <2>1, <2>3
  <2>5. \A j \in 0..(l - 1) : t.flag[P(j)] # "empty"
    BY <1>6, <1>7, <2>3
  <2>6. PlacedAt(t.flag, t.n, k, x)
    BY <2>1, <2>3, <2>5 DEF PlacedAt
  <2> QED
    BY <2>4, <2>6 DEF m, E
<1> QED
  BY <1>9, <1>10

\* kh_put(): the table stands for the map with the new key.
LEMMA PutKeepsTab ==
  ASSUME NEW t, NEW mp, TabOK(t, mp), NEW k \in Key, mp[k] = Absent, NEW v \in HashData,
         t.n > 0, t.occ < Hash!UpperBound(t.n)
  PROVE  TabOK(Hash!kh_put(t, k, v), [mp EXCEPT ![k] = v]) /\ Hash!kh_put(t, k, v).size = t.size + 1
<1> DEFINE x == Hash!PutAt(t, k, Hash!Min(Hash!Ends(t, k)))
<1>1. x \in 0..(t.n - 1) /\ t.flag[x] # "set" /\ PlacedAt(t.flag, t.n, k, x)
  BY PutFinds
<1>2. TabType(t) /\ TabCounts(t) /\ TabPlaces(t, mp)
  BY DEF TabOK
<1>3. Hash!kh_put(t, k, v) = Hash!PutIn(t, k, v, x)
  BY DEF Hash!kh_put
<1> HIDE DEF x
<1>4. Hash!kh_put(t, k, v) = PutAfter(t, k, v, x)
  BY <1>1, <1>2, <1>3, PutIs
<1>5. TabType(PutAfter(t, k, v, x))
  BY <1>1, <1>2, PutType
<1>6. TabCounts(PutAfter(t, k, v, x))
  BY <1>1, <1>2, PutCounts
<1>7. TabPlaces(PutAfter(t, k, v, x), [mp EXCEPT ![k] = v])
  BY <1>1, <1>2, PutPlaces
<1>8. PutAfter(t, k, v, x).size = t.size + 1
  BY DEF PutAfter
<1> QED
  BY <1>4, <1>5, <1>6, <1>7, <1>8 DEF TabOK

\* Records after an assignment to their fields.
LEMMA ValSet ==
  ASSUME NEW t, TabType(t), NEW w
  PROVE  [t EXCEPT !.val = w]
         = [n |-> t.n, size |-> t.size, occ |-> t.occ, flag |-> t.flag, key |-> t.key, val |-> w]
BY DEF TabType

\* The data in a bucket that is set is replaced.
LEMMA OverwriteKeepsTab ==
  ASSUME NEW t, NEW mp, TabOK(t, mp), NEW i \in With(t.flag, t.n, "set"), NEW v \in HashData
  PROVE  LET u == [t EXCEPT !.val[i] = v]
         IN  TabOK(u, [mp EXCEPT ![t.key[i]] = v]) /\ u.size = t.size /\ u.n = t.n /\ u.flag = t.flag /\ u.key = t.key
<1> DEFINE u == [t EXCEPT !.val[i] = v]
           vl == [t.val EXCEPT ![i] = v]
           mq == [mp EXCEPT ![t.key[i]] = v]
           S == With(t.flag, t.n, "set")
<1>0. TabType(t) /\ TabCounts(t) /\ TabPlaces(t, mp)
  BY DEF TabOK
<1>1. u = [n |-> t.n, size |-> t.size, occ |-> t.occ, flag |-> t.flag, key |-> t.key, val |-> vl]
  BY <1>0, ValSet
<1>2. u.n = t.n /\ u.size = t.size /\ u.occ = t.occ /\ u.flag = t.flag /\ u.key = t.key /\ u.val = vl
  BY <1>1
<1>3. t.val \in [0..(t.n - 1) -> HashData \cup {Absent}] /\ S \subseteq 0..(t.n - 1) /\ mp \in [Key -> HashData \cup {Absent}]
  BY <1>0 DEF TabType, TabPlaces, With
<1>4. TabType(u)
  <2>1. vl \in [0..(t.n - 1) -> HashData \cup {Absent}]
    BY <1>3
  <2> HIDE DEF u, vl
  <2> QED
    BY <1>0, <1>1, <1>2, <2>1 DEF TabType
<1>5. TabCounts(u)
  <2> HIDE DEF u
  <2> QED
    BY <1>0, <1>2 DEF TabCounts
<1>6. TabPlaces(u, mq)
  <2>1. /\ \A j \in S : t.key[j] \in Key /\ mp[t.key[j]] = t.val[j] /\ t.val[j] \in HashData
        /\ \A j, l \in S : t.key[j] = t.key[l] => j = l
        /\ \A q \in Key : mp[q] # Absent => \E j \in S : t.key[j] = q
        /\ \A j \in S : PlacedAt(t.flag, t.n, t.key[j], j)
    BY <1>0 DEF TabPlaces, Agree, All
  <2>2. i \in S /\ t.key[i] \in Key
    BY <2>1
  <2>3. vl[i] = v /\ \A j \in S : j # i => vl[j] = t.val[j]
    <3> HIDE DEF S
    <3> QED
      BY <1>3, <2>2
  <2>4. mq \in [Key -> HashData \cup {Absent}] /\ mq[t.key[i]] = v /\ \A q \in Key : q # t.key[i] => mq[q] = mp[q]
    BY <1>3, <2>2
  <2> HIDE DEF u, vl, mq, S
  <2>5. Agree(S, t.key, vl, mq)
    BY <2>1, <2>2, <2>3, <2>4 DEF Agree
  <2>6. All(S, t.key, mq)
    BY <2>1, <2>2, <2>4 DEF All
  <2> QED
    BY <1>2, <2>1, <2>4, <2>5, <2>6 DEF TabPlaces, S
<1> QED
  BY <1>2, <1>4, <1>5, <1>6 DEF TabOK

\* kh_del_A() takes the key of a bucket out.
DelAfter(t, i) ==
    [n |-> t.n, size |-> t.size - 1, occ |-> t.occ, flag |-> [t.flag EXCEPT ![i] = "del"],
     key |-> [t.key EXCEPT ![i] = Absent], val |-> [t.val EXCEPT ![i] = Absent]]

\* kh_del(): the table stands for the map without the key.
LEMMA DelKeepsTab ==
  ASSUME NEW t, NEW mp, TabOK(t, mp), NEW i \in With(t.flag, t.n, "set")
  PROVE  /\ Hash!kh_del(t, i) = DelAfter(t, i)
         /\ TabOK(DelAfter(t, i), [mp EXCEPT ![t.key[i]] = Absent])
<1> DEFINE u == DelAfter(t, i)
           fl == [t.flag EXCEPT ![i] = "del"]
           ky == [t.key EXCEPT ![i] = Absent]
           vl == [t.val EXCEPT ![i] = Absent]
           mq == [mp EXCEPT ![t.key[i]] = Absent]
           S == With(t.flag, t.n, "set")
           D == With(t.flag, t.n, "del")
<1>0. TabType(t) /\ TabCounts(t) /\ TabPlaces(t, mp)
  BY DEF TabOK
<1>1. /\ t.n \in Nat /\ t.size \in Nat /\ t.occ \in Nat
      /\ t.flag \in [0..(t.n - 1) -> Flags] /\ t.key \in [0..(t.n - 1) -> Key \cup {Absent}]
      /\ t.val \in [0..(t.n - 1) -> HashData \cup {Absent}] /\ S \subseteq 0..(t.n - 1) /\ i \in S /\ i \in 0..(t.n - 1)
      /\ mp \in [Key -> HashData \cup {Absent}]
      /\ t.flag[i] = "set" /\ i # t.n
  BY <1>0 DEF TabType, TabPlaces, With
<1>2. Hash!kh_del(t, i) = u
  BY <1>0, <1>1 DEF TabType, Hash!kh_del, DelAfter
<1>3. u.n = t.n /\ u.size = t.size - 1 /\ u.occ = t.occ /\ u.flag = fl /\ u.key = ky /\ u.val = vl
  BY DEF DelAfter
<1>4. /\ fl \in [0..(t.n - 1) -> Flags] /\ ky \in [0..(t.n - 1) -> Key \cup {Absent}]
      /\ vl \in [0..(t.n - 1) -> HashData \cup {Absent}]
  BY <1>1 DEF Flags
<1>5. With(fl, t.n, "set") = S \ {i} /\ With(fl, t.n, "del") = D \cup {i} /\ i \notin D
  BY <1>1 DEF With
<1>6. IsFiniteSet(S) /\ IsFiniteSet(D) /\ Cardinality(S) \in Nat /\ Cardinality(D) \in Nat
  BY <1>1, WithFinite
<1>7. t.size = Cardinality(S) /\ t.occ = t.size + Cardinality(D)
  BY <1>0 DEF TabCounts
<1>8. \A m \in 0..(t.n - 1) : t.flag[m] # "empty" => fl[m] # "empty"
  BY <1>1
<1>9. \A j \in S \ {i} : ky[j] = t.key[j] /\ vl[j] = t.val[j]
  BY <1>1
<1>10. /\ \A j \in S : t.key[j] \in Key /\ mp[t.key[j]] = t.val[j] /\ t.val[j] \in HashData
       /\ \A j, l \in S : t.key[j] = t.key[l] => j = l
       /\ \A q \in Key : mp[q] # Absent => \E j \in S : t.key[j] = q
       /\ \A j \in S : PlacedAt(t.flag, t.n, t.key[j], j)
  BY <1>0 DEF TabPlaces, Agree, All
<1>11. mq \in [Key -> HashData \cup {Absent}] /\ mq[t.key[i]] = Absent /\ \A q \in Key : q # t.key[i] => mq[q] = mp[q]
  BY <1>1, <1>10
<1> HIDE DEF fl, ky, vl, mq, S, D
<1>12. Cardinality(S \ {i}) = Cardinality(S) - 1 /\ Cardinality(S \ {i}) \in Nat
  <2>1. IsFiniteSet(S \ {i}) /\ Cardinality(S \ {i}) = Cardinality(S) - 1
    BY <1>1, <1>6, FS_RemoveElement
  <2> QED
    BY <2>1, FS_CardinalityType
<1>13. Cardinality(D \cup {i}) = Cardinality(D) + 1
  BY <1>5, <1>6, FS_AddElement
<1>14. TabType(u)
  <2>1. t.size - 1 \in Nat
    BY <1>7, <1>12
  <2>2. u \in [n : Nat, size : Nat, occ : Nat, flag : [0..(t.n - 1) -> Flags],
              key : [0..(t.n - 1) -> Key \cup {Absent}], val : [0..(t.n - 1) -> HashData \cup {Absent}]]
    BY <1>1, <1>4, <2>1 DEF DelAfter, fl, ky, vl
  <2> HIDE DEF u
  <2> QED
    BY <1>1, <1>3, <2>2 DEF TabType
<1> HIDE DEF u
<1>15. TabCounts(u)
  <2>1. u.size = Cardinality(With(u.flag, u.n, "set"))
    BY <1>3, <1>5, <1>7, <1>12
  <2>2. u.occ = u.size + Cardinality(With(u.flag, u.n, "del"))
    <3>1. PICK a \in Nat, b \in Nat : a = t.size /\ b = Cardinality(D)
      BY <1>1, <1>6
    <3>2. a + b = (a - 1) + (b + 1)
      BY ONLY a \in Nat, b \in Nat
    <3> QED
      BY <1>3, <1>5, <1>7, <1>13, <3>1, <3>2
  <2> QED
    BY <1>0, <1>3, <2>1, <2>2 DEF TabCounts
<1>16. TabPlaces(u, mq)
  <2>1. Agree(S \ {i}, ky, vl, mq)
    BY <1>1, <1>9, <1>10, <1>11 DEF Agree
  <2>2. All(S \ {i}, ky, mq)
    <3> SUFFICES ASSUME NEW q \in Key, mq[q] # Absent PROVE \E j \in S \ {i} : ky[j] = q
      BY DEF All
    <3>1. q # t.key[i] /\ mp[q] # Absent
      BY <1>11
    <3>2. PICK j \in S : t.key[j] = q
      BY <1>10, <3>1
    <3> QED
      BY <1>9, <3>1, <3>2
  <2>3. ASSUME NEW j \in S \ {i} PROVE PlacedAt(fl, t.n, ky[j], j)
    <3>1. ky[j] \in Key /\ PlacedAt(t.flag, t.n, ky[j], j)
      BY <1>9, <1>10
    <3> QED
      BY ONLY <3>1, <1>1, <1>8, PlacedStays
  <2> QED
    BY <1>3, <1>5, <1>11, <2>1, <2>2, <2>3 DEF TabPlaces
<1> QED
  BY <1>2, <1>14, <1>15, <1>16 DEF TabOK, u, mq

\* kh_clear_A() empties the table.
LEMMA ClearKeepsTab ==
  ASSUME NEW t, NEW mp, TabOK(t, mp)
  PROVE  TabOK(Hash!kh_clear(t), [k \in Key |-> Absent]) /\ Hash!kh_clear(t).size = 0
<1> DEFINE u == Hash!kh_clear(t)
           fl == [i \in 0..(t.n - 1) |-> "empty"]
           ab == [i \in 0..(t.n - 1) |-> Absent]
<1>0. TabType(t) /\ TabCounts(t) /\ t.n \in Nat
  BY DEF TabOK, TabType
<1>1. u = [n |-> t.n, size |-> 0, occ |-> 0, flag |-> fl, key |-> ab, val |-> ab]
  BY DEF Hash!kh_clear, Hash!Buckets
<1>2. u.n = t.n /\ u.size = 0 /\ u.occ = 0 /\ u.flag = fl /\ u.key = ab /\ u.val = ab
  BY <1>1
<1>3. fl \in [0..(t.n - 1) -> Flags] /\ ab \in [0..(t.n - 1) -> Key \cup {Absent}] /\ ab \in [0..(t.n - 1) -> HashData \cup {Absent}]
  BY DEF Flags
<1>4. With(fl, t.n, "set") = {} /\ With(fl, t.n, "del") = {}
  BY DEF With
<1> HIDE DEF u, fl, ab
<1>5. TabType(u)
  BY <1>0, <1>1, <1>2, <1>3 DEF TabType
<1>6. TabCounts(u)
  <2>1. Hash!UpperBound(t.n) \in Nat
    BY <1>0 DEF Hash!UpperBound
  <2>2. Cardinality({}) = 0
    BY FS_EmptySet
  <2> QED
    BY <1>0, <1>2, <1>4, <2>1, <2>2 DEF TabCounts
<1>7. TabPlaces(u, [k \in Key |-> Absent])
  BY <1>2, <1>4 DEF TabPlaces, Agree, All
<1> QED
  BY <1>2, <1>5, <1>6, <1>7 DEF TabOK, u

-----------------------------------------------------------------------------
\* A rehash from tn to n buckets.
RehashType(r, tn, n) ==
    r \in [old : [0..(tn - 1) -> Flags], new : [0..(n - 1) -> {"empty", "set"}],
           key : [0..(n - 1) -> Key \cup {Absent}], val : [0..(n - 1) -> HashData \cup {Absent}],
           j : 0..tn, k : Key \cup {Absent}, v : HashData \cup {Absent}, moving : BOOLEAN]

\* The buckets in which there is an element.
Lives(old, new, tn, n) == {i \in 0..(n - 1) : new[i] = "set" \/ (i < tn /\ old[i] = "set")}

\* The element that is being moved is in no bucket.
InHand(L, r, mp) ==
    r.moving => /\ r.k \in Key /\ mp[r.k] = r.v /\ r.v \in HashData
                /\ \A i \in L : r.key[i] # r.k
NoneLost(L, r, mp) ==
    \A k \in Key : mp[k] # Absent => (\E i \in L : r.key[i] = k) \/ (r.moving /\ r.k = k)
RehashHolds(r, tn, n, mp) ==
    LET L == Lives(r.old, r.new, tn, n)
    IN  /\ Agree(L, r.key, r.val, mp) /\ InHand(L, r, mp) /\ NoneLost(L, r, mp)
        /\ \A i \in 0..(tn - 1) : r.old[i] = "set" => r.new[i] = "empty"
        /\ \A i \in 0..(r.j - 1) : r.old[i] # "set"
        /\ \A i \in 0..(n - 1) : r.new[i] = "set" => PlacedAt(r.new, n, r.key[i], i)
RehashOK(r, tn, n, mp) == RehashType(r, tn, n) /\ RehashHolds(r, tn, n, mp)

\* The turns that are left at most.
TurnsLeft(r, tn) == (tn - r.j) + Cardinality(With(r.old, tn, "set")) + (IF r.moving THEN 1 ELSE 0)

\* There is a free bucket for the element that is being moved.
LEMMA FreeLeft ==
  ASSUME NEW r, NEW tn \in Nat, NEW n \in Nat, NEW mp, RehashOK(r, tn, n, mp), Covers(n), n > 0,
         IsFiniteSet(Present(mp)), Cardinality(Present(mp)) < n, r.k \in Key
  PROVE  LET i == Hash!FirstFree(r.new, n, r.k)
         IN  i \in 0..(n - 1) /\ r.new[i] = "empty" /\ PlacedAt(r.new, n, r.k, i)
<1> DEFINE P(j) == Hash!Probe(n, r.k, j)
           F == {j \in Hash!Buckets(n) : r.new[P(j)] = "empty"}
           L == Lives(r.old, r.new, tn, n)
<1>0. r.new \in [0..(n - 1) -> {"empty", "set"}] /\ Agree(L, r.key, r.val, mp)
  BY DEF RehashOK, RehashType, RehashHolds
<1>1. \E i \in 0..(n - 1) : r.new[i] = "empty"
  <2> SUFFICES ASSUME \A i \in 0..(n - 1) : r.new[i] # "empty" PROVE FALSE
    OBVIOUS
  <2>1. L = 0..(n - 1)
    BY <1>0 DEF Lives
  <2>2. \A i \in 0..(n - 1) : r.key[i] \in Key /\ mp[r.key[i]] \in HashData
    BY <1>0, <2>1 DEF Agree
  <2>3. Absent \notin HashData
    BY HashAssumption DEF HashAssumption, HashData
  <2>4. \A i \in 0..(n - 1) : r.key[i] \in Present(mp)
    BY <2>2, <2>3 DEF Present
  <2> DEFINE f == [i \in 0..(n - 1) |-> r.key[i]]
  <2>5. f \in [0..(n - 1) -> Present(mp)] /\ \A i, j \in 0..(n - 1) : f[i] = f[j] => i = j
    <3>1. \A i, j \in 0..(n - 1) : r.key[i] = r.key[j] => i = j
      BY <1>0, <2>1 DEF Agree
    <3> QED
      BY <2>4, <3>1
  <2> HIDE DEF f
  <2>6. f \in Injection(0..(n - 1), Present(mp))
    BY <2>5 DEF Injection, IsInjective
  <2>7. Cardinality(0..(n - 1)) <= Cardinality(Present(mp))
    BY <2>6, FS_Injection
  <2>8. Cardinality(0..(n - 1)) = n
    <3>1. 0 \in Int /\ n - 1 \in Int /\ ~ (0 > n - 1) /\ (n - 1) - 0 + 1 = n
      OBVIOUS
    <3> QED
      BY ONLY <3>1, FS_Interval
  <2>9. Cardinality(Present(mp)) \in Nat
    BY FS_CardinalityType
  <2> QED
    BY <2>7, <2>8, <2>9
<1>2. F # {} /\ F \in SUBSET Nat /\ F \subseteq 0..(n - 1)
  <2>1. PICK i \in 0..(n - 1) : r.new[i] = "empty"
    BY <1>1
  <2>2. PICK j \in 0..(n - 1) : P(j) = i
    BY ProbeCovers
  <2>3. j \in F
    BY <2>1, <2>2 DEF Hash!Buckets
  <2> QED
    BY <2>3 DEF Hash!Buckets
<1> DEFINE m == Hash!Min(F)
<1>3. Hash!FirstFree(r.new, n, r.k) = P(m)
  BY DEF Hash!FirstFree
<1>4. \A j \in 0..(n - 1) : r.new[P(j)] = "empty" => j \in F
  BY DEF Hash!Buckets
<1>5. \A j \in F : r.new[P(j)] = "empty"
  OBVIOUS
<1> HIDE DEF F
<1>6. m \in F /\ \A y \in F : m <= y
  BY <1>2, HashMinIs
<1> HIDE DEF m
<1>7. m \in 0..(n - 1) /\ P(m) \in 0..(n - 1) /\ r.new[P(m)] = "empty"
  BY <1>2, <1>5, <1>6, ProbeType
<1>8. \A j \in 0..(m - 1) : r.new[P(j)] # "empty"
  <2> SUFFICES ASSUME NEW j \in 0..(m - 1), r.new[P(j)] = "empty" PROVE FALSE
    OBVIOUS
  <2>1. j \in 0..(n - 1) /\ ~ (m <= j)
    BY <1>7
  <2> QED
    BY <1>4, <1>6, <2>1
<1>9. PlacedAt(r.new, n, r.k, P(m))
  BY <1>7, <1>8 DEF PlacedAt
<1> QED
  BY <1>3, <1>7, <1>9

\* The element that is being moved goes to bucket i.
KickTo(r, i) ==
    LET kicked == i \in DOMAIN r.old /\ r.old[i] = "set"
    IN  [old |-> IF kicked THEN [r.old EXCEPT ![i] = "del"] ELSE r.old, new |-> [r.new EXCEPT ![i] = "set"],
         key |-> [r.key EXCEPT ![i] = r.k], val |-> [r.val EXCEPT ![i] = r.v],
         j |-> r.j, k |-> r.key[i], v |-> r.val[i], moving |-> kicked]

\* It displaces the element of bucket i, or it does not.
KickBefore(L, ky, vl, mp, i, k, v, kyN, vlN) ==
    /\ k \in Key /\ v \in HashData /\ Agree(L, ky, vl, mp) /\ mp[k] = v /\ \A a \in L : ky[a] # k
    /\ \A q \in Key : mp[q] # Absent => (\E a \in L : ky[a] = q) \/ k = q
    /\ \A a \in L : a # i => kyN[a] = ky[a] /\ vlN[a] = vl[a]
    /\ kyN[i] = k /\ vlN[i] = v
KickAfter(L, ky, vl, mp, i, kyN, vlN) ==
    /\ Agree(L \cup {i}, kyN, vlN, mp)
    /\ i \in L => /\ ky[i] \in Key /\ mp[ky[i]] = vl[i] /\ vl[i] \in HashData
                  /\ \A a \in L : kyN[a] # ky[i]
    /\ \A q \in Key : mp[q] # Absent => (\E a \in L \cup {i} : kyN[a] = q) \/ (i \in L /\ ky[i] = q)

\* An element that takes the place of another: each is in a bucket or in hand.
LEMMA KickMoves ==
  ASSUME NEW L, NEW ky, NEW vl, NEW mp, NEW i, NEW k, NEW v, NEW kyN, NEW vlN,
         KickBefore(L, ky, vl, mp, i, k, v, kyN, vlN)
  PROVE  KickAfter(L, ky, vl, mp, i, kyN, vlN)
<1> USE DEF KickBefore
<1>1. Agree(L \cup {i}, kyN, vlN, mp)
  BY DEF Agree
<1>2. ASSUME i \in L
      PROVE  /\ ky[i] \in Key /\ mp[ky[i]] = vl[i] /\ vl[i] \in HashData
             /\ \A a \in L : kyN[a] # ky[i]
  BY <1>2 DEF Agree
<1>3. ASSUME NEW q \in Key, mp[q] # Absent
      PROVE  (\E a \in L \cup {i} : kyN[a] = q) \/ (i \in L /\ ky[i] = q)
  BY <1>3
<1> QED
  BY <1>1, <1>2, <1>3 DEF KickAfter

KickEffect(u, r, i, tn, n) ==
    LET L == Lives(r.old, r.new, tn, n)
    IN  /\ RehashType(u, tn, n)
        /\ u.moving <=> i \in L
        /\ Lives(u.old, u.new, tn, n) = L \cup {i}
        /\ With(u.old, tn, "set") = With(r.old, tn, "set") \ {i}
        /\ i \in With(r.old, tn, "set") <=> i \in L
        /\ u.j = r.j /\ u.k = r.key[i] /\ u.v = r.val[i]
        /\ u.key[i] = r.k /\ \A a \in 0..(n - 1) : a # i => u.key[a] = r.key[a]
        /\ u.val[i] = r.v /\ \A a \in 0..(n - 1) : a # i => u.val[a] = r.val[a]
        /\ u.new[i] = "set" /\ \A a \in 0..(n - 1) : a # i => u.new[a] = r.new[a]
        /\ \A a \in 0..(tn - 1) : u.old[a] = "set" <=> r.old[a] = "set" /\ a # i

\* What one turn of the kick-out loop does to the flags and arrays.
LEMMA KickFields ==
  ASSUME NEW r, NEW tn \in Nat, NEW n \in Nat, tn <= n, RehashType(r, tn, n), NEW i \in 0..(n - 1), r.new[i] = "empty"
  PROVE  KickEffect(KickTo(r, i), r, i, tn, n)
<1> DEFINE u == KickTo(r, i)
           L == Lives(r.old, r.new, tn, n)
           kicked == i \in DOMAIN r.old /\ r.old[i] = "set"
<1>0. /\ r.old \in [0..(tn - 1) -> Flags] /\ r.new \in [0..(n - 1) -> {"empty", "set"}]
      /\ r.key \in [0..(n - 1) -> Key \cup {Absent}] /\ r.val \in [0..(n - 1) -> HashData \cup {Absent}]
      /\ r.j \in 0..tn /\ r.k \in Key \cup {Absent} /\ r.v \in HashData \cup {Absent} /\ r.moving \in BOOLEAN
  BY DEF RehashType
<1> DEFINE old == IF kicked THEN [r.old EXCEPT ![i] = "del"] ELSE r.old
           new == [r.new EXCEPT ![i] = "set"]
           ky == [r.key EXCEPT ![i] = r.k]
           vl == [r.val EXCEPT ![i] = r.v]
<1>1. u = [old |-> old, new |-> new, key |-> ky, val |-> vl, j |-> r.j, k |-> r.key[i], v |-> r.val[i], moving |-> kicked]
  BY DEF KickTo
<1>2. /\ u.old = old /\ u.new = new /\ u.key = ky /\ u.val = vl /\ u.j = r.j /\ u.k = r.key[i] /\ u.v = r.val[i]
      /\ u.moving = kicked
  BY <1>1
<1>3. kicked <=> i < tn /\ r.old[i] = "set"
  BY <1>0
<1>4. /\ new \in [0..(n - 1) -> {"empty", "set"}] /\ ky \in [0..(n - 1) -> Key \cup {Absent}]
      /\ vl \in [0..(n - 1) -> HashData \cup {Absent}] /\ kicked \in BOOLEAN
  BY <1>0
<1>5. old \in [0..(tn - 1) -> Flags] /\ \A a \in 0..(tn - 1) : old[a] = "set" <=> r.old[a] = "set" /\ a # i
  <2>1. CASE kicked
    BY <1>0, <2>1 DEF Flags
  <2>2. CASE ~kicked
    BY <1>0, <1>3, <2>2
  <2> QED
    BY <2>1, <2>2
<1>6. ky[i] = r.k /\ \A a \in 0..(n - 1) : a # i => ky[a] = r.key[a]
  BY <1>0
<1>7. vl[i] = r.v /\ \A a \in 0..(n - 1) : a # i => vl[a] = r.val[a]
  BY <1>0
<1>8. new[i] = "set" /\ \A a \in 0..(n - 1) : a # i => new[a] = r.new[a]
  BY <1>0
<1> HIDE DEF u, kicked, old, new, ky, vl
<1>9. RehashType(u, tn, n)
  BY <1>0, <1>1, <1>4, <1>5 DEF RehashType
<1>10. kicked <=> i \in L
  BY <1>3 DEF Lives
<1>11. Lives(old, new, tn, n) = L \cup {i}
  BY <1>5, <1>8 DEF Lives
<1>12. With(old, tn, "set") = With(r.old, tn, "set") \ {i}
  BY <1>5 DEF With
<1>13. i \in With(r.old, tn, "set") <=> i \in L
  BY DEF With, Lives
<1> QED
  BY <1>2, <1>5, <1>6, <1>7, <1>8, <1>9, <1>10, <1>11, <1>12, <1>13 DEF u, KickEffect

\* One turn of the inner loop.
LEMMA KickKeeps ==
  ASSUME NEW r, NEW tn \in Nat, NEW n \in Nat, tn <= n, NEW mp, RehashOK(r, tn, n, mp), r.moving,
         NEW i \in 0..(n - 1), r.new[i] = "empty", PlacedAt(r.new, n, r.k, i)
  PROVE  RehashOK(KickTo(r, i), tn, n, mp) /\ TurnsLeft(KickTo(r, i), tn) = TurnsLeft(r, tn) - 1
<1> DEFINE u == KickTo(r, i)
           L == Lives(r.old, r.new, tn, n)
           O == With(r.old, tn, "set")
<1>0. RehashType(r, tn, n) /\ RehashHolds(r, tn, n, mp)
  BY DEF RehashOK
<1>1. /\ RehashType(u, tn, n)
      /\ u.moving <=> i \in L
      /\ Lives(u.old, u.new, tn, n) = L \cup {i}
      /\ With(u.old, tn, "set") = O \ {i}
      /\ i \in O <=> i \in L
      /\ u.j = r.j /\ u.k = r.key[i] /\ u.v = r.val[i]
      /\ u.key[i] = r.k /\ \A a \in 0..(n - 1) : a # i => u.key[a] = r.key[a]
      /\ u.val[i] = r.v /\ \A a \in 0..(n - 1) : a # i => u.val[a] = r.val[a]
      /\ u.new[i] = "set" /\ \A a \in 0..(n - 1) : a # i => u.new[a] = r.new[a]
      /\ \A a \in 0..(tn - 1) : u.old[a] = "set" <=> r.old[a] = "set" /\ a # i
  <2>1. KickEffect(KickTo(r, i), r, i, tn, n)
    BY <1>0, KickFields
  <2> QED
    BY <2>1 DEF KickEffect
<1>2. /\ Agree(L, r.key, r.val, mp) /\ InHand(L, r, mp) /\ NoneLost(L, r, mp)
      /\ \A a \in 0..(tn - 1) : r.old[a] = "set" => r.new[a] = "empty"
      /\ \A a \in 0..(r.j - 1) : r.old[a] # "set"
      /\ \A a \in 0..(n - 1) : r.new[a] = "set" => PlacedAt(r.new, n, r.key[a], a)
  BY <1>0 DEF RehashHolds
<1>3. L \subseteq 0..(n - 1) /\ r.j \in 0..tn
  BY <1>0 DEF Lives, RehashType
<1>4. O \subseteq 0..(tn - 1) /\ IsFiniteSet(O) /\ Cardinality(O) \in Nat
  BY WithFinite
<1> HIDE DEF u, L, O
<1>5. /\ r.k \in Key /\ r.v \in HashData /\ mp[r.k] = r.v /\ \A a \in L : r.key[a] # r.k
      /\ \A q \in Key : mp[q] # Absent => (\E a \in L : r.key[a] = q) \/ r.k = q
      /\ \A a \in L : a # i => u.key[a] = r.key[a] /\ u.val[a] = r.val[a]
  BY <1>1, <1>2, <1>3 DEF InHand, NoneLost
<1>6. /\ Agree(L \cup {i}, u.key, u.val, mp)
      /\ i \in L => /\ r.key[i] \in Key /\ mp[r.key[i]] = r.val[i] /\ r.val[i] \in HashData
                    /\ \A a \in L : u.key[a] # r.key[i]
      /\ \A q \in Key : mp[q] # Absent => (\E a \in L \cup {i} : u.key[a] = q) \/ (i \in L /\ r.key[i] = q)
  <2>1. u.key[i] = r.k /\ u.val[i] = r.v /\ Agree(L, r.key, r.val, mp)
    BY <1>1, <1>2
  <2>2. KickBefore(L, r.key, r.val, mp, i, r.k, r.v, u.key, u.val)
    BY ONLY <1>5, <2>1 DEF KickBefore
  <2>3. KickAfter(L, r.key, r.val, mp, i, u.key, u.val)
    BY ONLY <2>2, KickMoves
  <2> QED
    BY ONLY <2>3 DEF KickAfter
<1>7. InHand(L \cup {i}, u, mp)
  <2>1. u.moving => L \cup {i} = L
    BY <1>1
  <2> QED
    BY <1>1, <1>6, <2>1 DEF InHand
<1>8. NoneLost(L \cup {i}, u, mp)
  BY <1>1, <1>6 DEF NoneLost
<1>9. \A a \in 0..(tn - 1) : u.old[a] = "set" => u.new[a] = "empty"
  BY <1>1, <1>2
<1>10. \A a \in 0..(u.j - 1) : u.old[a] # "set"
  BY <1>1, <1>2, <1>3
<1>11. ASSUME NEW a \in 0..(n - 1), u.new[a] = "set"
       PROVE  PlacedAt(u.new, n, u.key[a], a)
  <2>1. \A m \in 0..(n - 1) : r.new[m] # "empty" => u.new[m] # "empty"
    BY <1>1
  <2>2. u.key[a] \in Key /\ PlacedAt(r.new, n, u.key[a], a)
    <3>1. CASE a = i
      BY <1>1, <1>5, <3>1
    <3>2. CASE a # i
      <4>1. r.new[a] = "set" /\ u.key[a] = r.key[a] /\ a \in L
        BY <1>1, <1>11, <3>2 DEF L, Lives
      <4> QED
        BY <1>2, <4>1 DEF Agree
    <3> QED
      BY <3>1, <3>2
  <2> QED
    BY ONLY <2>1, <2>2, PlacedStays, n \in Nat
<1>12. RehashHolds(u, tn, n, mp)
  BY <1>1, <1>6, <1>7, <1>8, <1>9, <1>10, <1>11 DEF RehashHolds
<1>13. TurnsLeft(u, tn) = TurnsLeft(r, tn) - 1
  <2>1. Cardinality(O \ {i}) = IF i \in O THEN Cardinality(O) - 1 ELSE Cardinality(O)
    BY <1>4, FS_RemoveElement
  <2>2. PICK c \in Nat, a \in Int : c = Cardinality(O) /\ a = tn - r.j
    BY <1>3, <1>4
  <2>3. TurnsLeft(r, tn) = a + c + 1
    BY <2>2 DEF TurnsLeft, O
  <2>4. TurnsLeft(u, tn) = a + (IF i \in O THEN c - 1 ELSE c) + (IF i \in O THEN 1 ELSE 0)
    BY <1>1, <2>1, <2>2 DEF TurnsLeft
  <2>5. a + (c - 1) + 1 = (a + c + 1) - 1 /\ a + c + 0 = (a + c + 1) - 1
    BY ONLY a \in Int, c \in Nat
  <2> QED
    BY ONLY <2>3, <2>4, <2>5
<1> QED
  BY <1>1, <1>12, <1>13 DEF RehashOK, u

\* One turn of the loop over the old buckets.
LEMMA LiftKeeps ==
  ASSUME NEW r, NEW tn \in Nat, NEW n \in Nat, tn <= n, NEW mp, RehashOK(r, tn, n, mp), ~ r.moving, r.j < tn
  PROVE  RehashOK(Hash!Lift(r), tn, n, mp) /\ TurnsLeft(Hash!Lift(r), tn) = TurnsLeft(r, tn) - 1
<1> DEFINE u == Hash!Lift(r)
           L == Lives(r.old, r.new, tn, n)
           O == With(r.old, tn, "set")
           x == r.j
<1>0. RehashType(r, tn, n) /\ RehashHolds(r, tn, n, mp)
  BY DEF RehashOK
<1>1. /\ r.old \in [0..(tn - 1) -> Flags] /\ r.new \in [0..(n - 1) -> {"empty", "set"}]
      /\ r.key \in [0..(n - 1) -> Key \cup {Absent}] /\ r.val \in [0..(n - 1) -> HashData \cup {Absent}]
      /\ x \in 0..tn /\ x \in 0..(tn - 1) /\ x \in 0..(n - 1) /\ x \in Nat /\ x + 1 \in 0..tn
      /\ r.k \in Key \cup {Absent} /\ r.v \in HashData \cup {Absent} /\ r.moving \in BOOLEAN
  BY <1>0 DEF RehashType
<1>2. /\ Agree(L, r.key, r.val, mp) /\ NoneLost(L, r, mp)
      /\ \A a \in 0..(tn - 1) : r.old[a] = "set" => r.new[a] = "empty"
      /\ \A a \in 0..(x - 1) : r.old[a] # "set"
      /\ \A a \in 0..(n - 1) : r.new[a] = "set" => PlacedAt(r.new, n, r.key[a], a)
  BY <1>0 DEF RehashHolds
<1>3. L \subseteq 0..(n - 1)
  BY DEF Lives
<1>4. IsFiniteSet(O) /\ Cardinality(O) \in Nat
  BY WithFinite
<1>5. PICK c \in Nat, a \in Nat, b \in Nat : c = Cardinality(O) /\ a = tn /\ b = x
  BY <1>1, <1>4
<1>6. TurnsLeft(r, tn) = (a - b) + c + 0
  BY <1>5 DEF TurnsLeft
<1>7. CASE r.old[x] = "set"
  <2> DEFINE old == [r.old EXCEPT ![x] = "del"]
  <2>1. u = [old |-> old, new |-> r.new, key |-> r.key, val |-> r.val, j |-> x + 1, k |-> r.key[x], v |-> r.val[x], moving |-> TRUE]
    BY <1>7 DEF Hash!Lift
  <2>2. u.old = old /\ u.new = r.new /\ u.key = r.key /\ u.val = r.val /\ u.j = x + 1 /\ u.k = r.key[x] /\ u.v = r.val[x] /\ u.moving = TRUE
    BY <2>1
  <2>3. old \in [0..(tn - 1) -> Flags] /\ \A y \in 0..(tn - 1) : old[y] = "set" <=> r.old[y] = "set" /\ y # x
    BY <1>1 DEF Flags
  <2> HIDE DEF u, old
  <2>4. RehashType(u, tn, n)
    BY <1>1, <2>1, <2>3 DEF RehashType
  <2>5. x \in L /\ Lives(old, r.new, tn, n) = L \ {x}
    <3>1. x \in L /\ r.new[x] = "empty"
      BY <1>1, <1>2, <1>7 DEF Lives
    <3>2. ASSUME NEW y \in 0..(n - 1)
          PROVE  (y < tn /\ old[y] = "set") <=> (y < tn /\ r.old[y] = "set" /\ y # x)
      BY <2>3
    <3>3. ASSUME NEW y \in 0..(n - 1)
          PROVE  y \in Lives(old, r.new, tn, n) <=> y \in L /\ y # x
      BY <3>1, <3>2 DEF Lives
    <3>4. Lives(old, r.new, tn, n) \subseteq 0..(n - 1) /\ L \subseteq 0..(n - 1)
      BY DEF Lives
    <3> HIDE DEF L
    <3> QED
      BY <3>1, <3>3, <3>4
  <2>6. x \in O /\ With(old, tn, "set") = O \ {x}
    BY <1>1, <1>7, <2>3 DEF With
  <2> HIDE DEF L, O
  <2>7. Agree(L \ {x}, u.key, u.val, mp)
    BY <1>2, <2>2 DEF Agree
  <2>8. InHand(L \ {x}, u, mp)
    BY <1>2, <2>2, <2>5 DEF Agree, InHand
  <2>9. NoneLost(L \ {x}, u, mp)
    BY <1>2, <2>2, <2>5 DEF NoneLost
  <2>10. \A y \in 0..(tn - 1) : u.old[y] = "set" => u.new[y] = "empty"
    BY <1>2, <2>2, <2>3
  <2>11. \A y \in 0..(u.j - 1) : u.old[y] # "set"
    <3> SUFFICES ASSUME NEW y \in 0..(u.j - 1) PROVE old[y] # "set"
      BY <2>2
    <3>1. y \in 0..(tn - 1) /\ (y = x \/ y \in 0..(x - 1))
      BY <1>1, <2>2
    <3> QED
      BY <1>2, <2>3, <3>1
  <2>12. RehashHolds(u, tn, n, mp)
    BY <1>2, <2>2, <2>5, <2>7, <2>8, <2>9, <2>10, <2>11 DEF RehashHolds
  <2>13. TurnsLeft(u, tn) = (a - (b + 1)) + (c - 1) + 1
    <3>1. Cardinality(O \ {x}) = c - 1
      BY <1>4, <1>5, <2>6, FS_RemoveElement
    <3> QED
      BY <1>5, <2>2, <2>6, <3>1 DEF TurnsLeft
  <2>14. (a - (b + 1)) + (c - 1) + 1 = ((a - b) + c + 0) - 1
    BY ONLY a \in Nat, b \in Nat, c \in Nat
  <2> QED
    BY <1>6, <2>4, <2>12, <2>13, <2>14 DEF RehashOK, u
<1>8. CASE r.old[x] # "set"
  <2>1. u = [r EXCEPT !.j = x + 1]
    BY <1>8 DEF Hash!Lift
  <2>2. /\ u.old = r.old /\ u.new = r.new /\ u.key = r.key /\ u.val = r.val /\ u.j = x + 1 /\ u.k = r.k /\ u.v = r.v
        /\ u.moving = r.moving
    BY <1>0, <2>1 DEF RehashType
  <2>3. RehashType(u, tn, n)
    BY <1>0, <1>1, <2>1 DEF RehashType
  <2> HIDE DEF u, L, O
  <2>4. InHand(L, u, mp) /\ NoneLost(L, u, mp)
    BY <1>2, <2>2 DEF InHand, NoneLost
  <2>5. \A y \in 0..(u.j - 1) : u.old[y] # "set"
    <3> SUFFICES ASSUME NEW y \in 0..(u.j - 1) PROVE r.old[y] # "set"
      BY <2>2
    <3>1. y = x \/ y \in 0..(x - 1)
      BY <1>1, <2>2
    <3> QED
      BY <1>2, <1>8, <3>1
  <2>6. RehashHolds(u, tn, n, mp)
    BY <1>2, <2>2, <2>4, <2>5 DEF RehashHolds, L
  <2>7. TurnsLeft(u, tn) = (a - (b + 1)) + c + 0
    BY <1>5, <2>2 DEF TurnsLeft, O
  <2>8. (a - (b + 1)) + c + 0 = ((a - b) + c + 0) - 1
    BY ONLY a \in Nat, b \in Nat, c \in Nat
  <2> QED
    BY <1>6, <2>3, <2>6, <2>7, <2>8 DEF RehashOK, u
<1> QED
  BY <1>7, <1>8

\* The turns that are left of a rehash are a number, 0 only when all is moved.
LEMMA TurnsLeftNat ==
  ASSUME NEW r, NEW tn \in Nat, NEW n \in Nat, RehashType(r, tn, n)
  PROVE  /\ TurnsLeft(r, tn) \in Nat
         /\ TurnsLeft(r, tn) = 0 => ~ r.moving /\ r.j = tn /\ With(r.old, tn, "set") = {}
<1>1. r.j \in 0..tn /\ r.moving \in BOOLEAN
  BY DEF RehashType
<1>2. IsFiniteSet(With(r.old, tn, "set")) /\ Cardinality(With(r.old, tn, "set")) \in Nat
  BY WithFinite
<1>3. Cardinality(With(r.old, tn, "set")) = 0 => With(r.old, tn, "set") = {}
  BY <1>2, FS_EmptySet
<1>4. PICK c \in Nat, a \in Nat, b \in {0, 1} :
         /\ c = Cardinality(With(r.old, tn, "set")) /\ a = tn - r.j /\ b = IF r.moving THEN 1 ELSE 0
  BY <1>1, <1>2
<1>5. TurnsLeft(r, tn) = a + c + b
  BY <1>4 DEF TurnsLeft
<1>6. a + c + b \in Nat /\ (a + c + b = 0 => a = 0 /\ c = 0 /\ b = 0)
  BY ONLY a \in Nat, c \in Nat, b \in {0, 1}
<1>7. a = 0 => r.j = tn
  BY <1>1, <1>4
<1>8. b = 0 => ~ r.moving
  BY <1>4
<1>9. c = 0 => With(r.old, tn, "set") = {}
  BY <1>3, <1>4
<1> QED
  BY ONLY <1>5, <1>6, <1>7, <1>8, <1>9

\* One turn of either loop, when there is room for all elements.
LEMMA TurnKeeps ==
  ASSUME NEW t, NEW r, NEW n \in Nat, t.n \in Nat, t.n <= n, NEW mp, RehashOK(r, t.n, n, mp),
         Covers(n), n > 0, IsFiniteSet(Present(mp)), Cardinality(Present(mp)) < n
  PROVE  /\ RehashOK(Hash!Turn(t, r, n), t.n, n, mp)
         /\ IF TurnsLeft(r, t.n) = 0 THEN Hash!Turn(t, r, n) = r
            ELSE TurnsLeft(Hash!Turn(t, r, n), t.n) = TurnsLeft(r, t.n) - 1
<1>0. RehashType(r, t.n, n) /\ r.j \in 0..t.n /\ r.moving \in BOOLEAN
  BY DEF RehashOK, RehashType
<1>1. TurnsLeft(r, t.n) \in Nat /\ (TurnsLeft(r, t.n) = 0 => ~ r.moving /\ r.j = t.n)
  BY <1>0, TurnsLeftNat
<1>2. CASE r.moving
  <2> DEFINE i == Hash!FirstFree(r.new, n, r.k)
  <2>1. r.k \in Key
    BY <1>2 DEF RehashOK, RehashHolds, InHand
  <2>2. i \in 0..(n - 1) /\ r.new[i] = "empty" /\ PlacedAt(r.new, n, r.k, i)
    BY <2>1, FreeLeft
  <2>3. Hash!Turn(t, r, n) = KickTo(r, i)
    BY <1>2 DEF Hash!Turn, Hash!Kick, KickTo
  <2> HIDE DEF i
  <2>4. RehashOK(KickTo(r, i), t.n, n, mp) /\ TurnsLeft(KickTo(r, i), t.n) = TurnsLeft(r, t.n) - 1
    BY <1>2, <2>2, KickKeeps
  <2> QED
    BY <1>1, <1>2, <2>3, <2>4
<1>3. CASE ~ r.moving /\ r.j < t.n
  <2>1. Hash!Turn(t, r, n) = Hash!Lift(r)
    BY <1>3 DEF Hash!Turn
  <2>2. RehashOK(Hash!Lift(r), t.n, n, mp) /\ TurnsLeft(Hash!Lift(r), t.n) = TurnsLeft(r, t.n) - 1
    BY <1>3, LiftKeeps
  <2> QED
    BY <1>0, <1>1, <1>3, <2>1, <2>2
<1>4. CASE ~ r.moving /\ r.j = t.n
  <2>1. Hash!Turn(t, r, n) = r
    BY <1>4 DEF Hash!Turn
  <2>2. TurnsLeft(r, t.n) = 0
    <3>1. With(r.old, t.n, "set") = {}
      BY <1>4 DEF RehashOK, RehashHolds, With
    <3>2. Cardinality(With(r.old, t.n, "set")) = 0
      BY <3>1, FS_EmptySet
    <3> QED
      BY <1>4, <3>2 DEF TurnsLeft
  <2> QED
    BY <2>1, <2>2
<1> QED
  BY <1>0, <1>2, <1>3, <1>4

\* What one call after the other makes of s: f[m] is the state after m turns.
IsTurns(f, N, s, t, n) == f = [m \in 0..N |-> IF m = 0 THEN s ELSE Hash!Turn(t, f[m - 1], n)]

\* The states of a rehash after each turn exist as a function.
LEMMA TurnsExist ==
  ASSUME NEW N \in Nat, NEW s, NEW t, NEW n
  PROVE  \E f : IsTurns(f, N, s, t, n)
<1> DEFINE P == {m \in Nat : \E f : IsTurns(f, m, s, t, n)}
<1>1. 0 \in P
  <2> DEFINE f == [m \in 0..0 |-> s]
  <2>1. IsTurns(f, 0, s, t, n)
    BY DEF IsTurns
  <2> QED
    BY <2>1
<1>2. ASSUME NEW m \in P PROVE m + 1 \in P
  <2>1. m \in Nat
    OBVIOUS
  <2>2. PICK f : IsTurns(f, m, s, t, n)
    OBVIOUS
  <2> DEFINE g == [l \in 0..(m + 1) |-> IF l = m + 1 THEN Hash!Turn(t, f[m], n) ELSE f[l]]
  <2>3. ASSUME NEW l \in 0..(m + 1)
        PROVE  g[l] = IF l = 0 THEN s ELSE Hash!Turn(t, g[l - 1], n)
    <3>1. CASE l = m + 1
      <4>1. l - 1 = m /\ l - 1 \in 0..(m + 1) /\ l - 1 # m + 1 /\ l # 0
        BY <2>1, <3>1
      <4>2. g[l - 1] = f[m] /\ g[l] = Hash!Turn(t, f[m], n)
        BY <3>1, <4>1
      <4> HIDE DEF g
      <4> QED
        BY <4>1, <4>2
    <3>2. CASE l # m + 1
      <4>1. l \in 0..m /\ g[l] = f[l]
        BY <2>1, <3>2
      <4>2. f[l] = IF l = 0 THEN s ELSE Hash!Turn(t, f[l - 1], n)
        BY <2>2, <4>1 DEF IsTurns
      <4>3. l # 0 => g[l - 1] = f[l - 1]
        BY <2>1, <4>1
      <4> HIDE DEF g
      <4> QED
        BY <4>1, <4>2, <4>3
    <3> QED
      BY <3>1, <3>2
  <2>4. IsTurns(g, m + 1, s, t, n)
    <3>1. g = [l \in 0..(m + 1) |-> g[l]]
      OBVIOUS
    <3> HIDE DEF g
    <3> QED
      BY <2>3, <3>1 DEF IsTurns
  <2> QED
    BY <2>1, <2>4
<1> HIDE DEF P
<1>3. P \in SUBSET Nat
  BY DEF P
<1>4. N \in P
  BY <1>1, <1>2, <1>3, NatSetInduction
<1> QED
  BY <1>4 DEF P

\* Both loops end with all elements in their places.
LEMMA RehashEnds ==
  ASSUME NEW t, NEW n \in Nat, t.n \in Nat, t.n <= n, NEW mp, RehashOK(Hash!Started(t, n), t.n, n, mp),
         TurnsLeft(Hash!Started(t, n), t.n) <= 2 * t.n,
         Covers(n), n > 0, IsFiniteSet(Present(mp)), Cardinality(Present(mp)) < n
  PROVE  RehashOK(Hash!Rehash(t, n), t.n, n, mp) /\ TurnsLeft(Hash!Rehash(t, n), t.n) = 0
<1> DEFINE N == 2 * t.n
           s == Hash!Started(t, n)
           f == CHOOSE g : IsTurns(g, N, s, t, n)
<1>1. N \in Nat
  OBVIOUS
<1>2. Hash!Rehash(t, n) = f[N]
  BY DEF Hash!Rehash, IsTurns
<1>3. IsTurns(f, N, s, t, n)
  <2> HIDE DEF N, s
  <2> QED
    BY <1>1, TurnsExist
<1> HIDE DEF f, N, s
<1> DEFINE P == {m \in Nat : m <= N => RehashOK(f[m], t.n, n, mp) /\ TurnsLeft(f[m], t.n) <= N - m}
<1>4. 0 \in P
  <2>1. f[0] = s
    BY <1>1, <1>3 DEF IsTurns
  <2>2. RehashOK(s, t.n, n, mp) /\ TurnsLeft(s, t.n) <= N - 0
    BY DEF s, N
  <2> QED
    BY <2>1, <2>2
<1>5. ASSUME NEW m \in P PROVE m + 1 \in P
  <2> SUFFICES ASSUME m + 1 <= N
               PROVE  RehashOK(f[m + 1], t.n, n, mp) /\ TurnsLeft(f[m + 1], t.n) <= N - (m + 1)
    BY <1>1
  <2>1. m \in Nat /\ m + 1 \in 0..N /\ m + 1 # 0 /\ (m + 1) - 1 = m /\ m <= N
    BY <1>1
  <2>2. RehashOK(f[m], t.n, n, mp) /\ TurnsLeft(f[m], t.n) <= N - m
    BY <2>1
  <2>3. f[m + 1] = Hash!Turn(t, f[m], n)
    BY <1>3, <2>1 DEF IsTurns
  <2> DEFINE r == f[m]
             u == Hash!Turn(t, r, n)
  <2>4. /\ RehashOK(u, t.n, n, mp)
        /\ IF TurnsLeft(r, t.n) = 0 THEN u = r ELSE TurnsLeft(u, t.n) = TurnsLeft(r, t.n) - 1
    <3> HIDE DEF r
    <3>1. RehashOK(r, t.n, n, mp)
      BY <2>2 DEF r
    <3> QED
      BY <3>1, TurnKeeps
  <2>5. TurnsLeft(r, t.n) \in Nat
    BY <2>2, TurnsLeftNat DEF RehashOK
  <2> HIDE DEF u
  <2>6. TurnsLeft(u, t.n) <= N - (m + 1)
    BY <1>1, <2>1, <2>2, <2>4, <2>5
  <2> QED
    BY <2>3, <2>4, <2>6 DEF u
<1>6. P \in SUBSET Nat
  OBVIOUS
<1> HIDE DEF P
<1>7. N \in P
  BY <1>1, <1>4, <1>5, <1>6, NatSetInduction
<1>8. RehashOK(f[N], t.n, n, mp) /\ TurnsLeft(f[N], t.n) <= N - N
  BY <1>1, <1>7 DEF P
<1>9. TurnsLeft(f[N], t.n) \in Nat
  BY <1>8, TurnsLeftNat DEF RehashOK
<1> QED
  BY <1>1, <1>2, <1>8, <1>9

\* A rehash starts with all elements in the old buckets.
LEMMA RehashStarts ==
  ASSUME NEW t, NEW mp, TabOK(t, mp), NEW n \in Nat, t.n <= n
  PROVE  /\ RehashOK(Hash!Started(t, n), t.n, n, mp)
         /\ TurnsLeft(Hash!Started(t, n), t.n) <= 2 * t.n
<1> DEFINE u == Hash!Started(t, n)
           S == With(t.flag, t.n, "set")
           new == [i \in 0..(n - 1) |-> "empty"]
           ky == [i \in 0..(n - 1) |-> IF i < t.n THEN t.key[i] ELSE Absent]
           vl == [i \in 0..(n - 1) |-> IF i < t.n THEN t.val[i] ELSE Absent]
<1>0. TabType(t) /\ TabCounts(t) /\ TabPlaces(t, mp)
  BY DEF TabOK
<1>1. /\ t.n \in Nat /\ t.size \in Nat /\ t.flag \in [0..(t.n - 1) -> Flags]
      /\ t.key \in [0..(t.n - 1) -> Key \cup {Absent}] /\ t.val \in [0..(t.n - 1) -> HashData \cup {Absent}]
  BY <1>0 DEF TabType
<1>2. Hash!Buckets(IF n > t.n THEN n ELSE t.n) = 0..(n - 1)
  BY <1>1 DEF Hash!Buckets
<1>3. Hash!Extend(t.key, t, n) = ky /\ Hash!Extend(t.val, t, n) = vl
  BY <1>2 DEF Hash!Extend
<1>4. u = [old |-> t.flag, new |-> new, key |-> ky, val |-> vl, j |-> 0, k |-> Absent, v |-> Absent, moving |-> FALSE]
  BY <1>3 DEF Hash!Started, Hash!Buckets
<1>5. /\ u.old = t.flag /\ u.new = new /\ u.key = ky /\ u.val = vl /\ u.j = 0 /\ u.moving = FALSE
  BY <1>4
<1>6. /\ new \in [0..(n - 1) -> {"empty", "set"}] /\ ky \in [0..(n - 1) -> Key \cup {Absent}]
      /\ vl \in [0..(n - 1) -> HashData \cup {Absent}] /\ \A i \in 0..(n - 1) : new[i] = "empty"
      /\ \A i \in 0..(t.n - 1) : ky[i] = t.key[i] /\ vl[i] = t.val[i]
  BY <1>1
<1> HIDE DEF u, new, ky, vl
<1>7. RehashType(u, t.n, n)
  BY <1>1, <1>4, <1>6 DEF RehashType
<1>8. Lives(t.flag, new, t.n, n) = S /\ S \subseteq 0..(t.n - 1)
  BY <1>1, <1>6 DEF Lives, With
<1>9. IsFiniteSet(S) /\ Cardinality(S) \in Nat /\ Cardinality(S) <= t.n
  <2>1. IsFiniteSet(0..(t.n - 1)) /\ Cardinality(0..(t.n - 1)) <= t.n
    <3>1. PICK a \in Int : a = t.n - 1
      BY <1>1
    <3>2. IsFiniteSet(0..a) /\ Cardinality(0..a) = IF 0 > a THEN 0 ELSE a - 0 + 1
      BY ONLY FS_Interval, a \in Int, 0 \in Int
    <3> QED
      BY ONLY <1>1, <3>1, <3>2
  <2>2. Cardinality(S) <= Cardinality(0..(t.n - 1)) /\ IsFiniteSet(S)
    BY <1>8, <2>1, FS_Subset
  <2>3. Cardinality(S) \in Nat /\ Cardinality(0..(t.n - 1)) \in Nat
    BY <2>1, <2>2, FS_CardinalityType
  <2> QED
    BY <1>1, <2>1, <2>2, <2>3
<1>10. Agree(S, t.key, t.val, mp) /\ All(S, t.key, mp)
  BY <1>0 DEF TabPlaces
<1>11. Cardinality(With(u.old, t.n, "set")) = Cardinality(S)
  BY <1>5
<1> HIDE DEF S
<1>12. Agree(S, ky, vl, mp)
  BY <1>6, <1>8, <1>10 DEF Agree
<1>13. InHand(S, u, mp)
  BY <1>5 DEF InHand
<1>14. NoneLost(S, u, mp)
  <2> SUFFICES ASSUME NEW q \in Key, mp[q] # Absent PROVE \E i \in S : ky[i] = q
    BY <1>5 DEF NoneLost
  <2>1. PICK i \in S : t.key[i] = q
    BY <1>10 DEF All
  <2> QED
    BY <1>6, <1>8, <2>1
<1>15. RehashHolds(u, t.n, n, mp)
  <2>1. \A i \in 0..(t.n - 1) : new[i] = "empty"
    BY <1>1, <1>6
  <2>2. \A i \in 0..(u.j - 1) : FALSE
    BY <1>5
  <2> QED
    BY <1>5, <1>6, <1>8, <1>12, <1>13, <1>14, <2>1, <2>2 DEF RehashHolds
<1>16. TurnsLeft(u, t.n) <= 2 * t.n
  <2>1. PICK a \in Nat, c \in Nat : a = t.n /\ c = Cardinality(S) /\ c <= a
    BY <1>1, <1>9
  <2>2. TurnsLeft(u, t.n) = (a - 0) + c + 0
    BY <1>5, <1>11, <2>1 DEF TurnsLeft
  <2>3. (a - 0) + c + 0 <= 2 * a
    BY ONLY <2>1
  <2> QED
    BY <2>1, <2>2, <2>3
<1> QED
  BY <1>7, <1>15, <1>16 DEF RehashOK, u

\* kh_resize_A() to no fewer buckets, with room for one element more than there are.
LEMMA ResizeKeepsTab ==
  ASSUME NEW t, NEW mp, TabOK(t, mp), NEW n \in Nat, n >= 4, Covers(n), t.n <= n, t.size < Hash!UpperBound(n)
  PROVE  LET u == Hash!kh_resize(t, n)
         IN  TabOK(u, mp) /\ u.n = n /\ u.size = t.size /\ u.occ = t.size
<1> DEFINE r == Hash!Rehash(t, n)
           u == Hash!Rehashed(t, n, r)
           S == With(t.flag, t.n, "set")
           R == With(r.new, n, "set")
<1>0. TabType(t) /\ TabCounts(t) /\ TabPlaces(t, mp) /\ t.n \in Nat /\ t.size \in Nat /\ mp \in [Key -> HashData \cup {Absent}]
  BY DEF TabOK, TabType, TabPlaces
<1>1. Hash!UpperBound(n) \in Nat /\ Hash!UpperBound(n) < n
  BY UpperBoundBelow
<1>2. Hash!kh_resize(t, n) = u
  BY <1>0, <1>1 DEF Hash!kh_resize
<1>3. IsFiniteSet(Present(mp)) /\ Cardinality(Present(mp)) = t.size
  <2>1. IsFiniteSet(S) /\ t.size = Cardinality(S) /\ Agree(S, t.key, t.val, mp) /\ All(S, t.key, mp)
    BY <1>0, WithFinite DEF TabCounts, TabPlaces
  <2> HIDE DEF S
  <2> QED
    BY <1>0, <2>1, PresentCount
<1>4. t.size < n
  BY <1>0, <1>1
<1>5. RehashOK(r, t.n, n, mp) /\ TurnsLeft(r, t.n) = 0
  <2>1. RehashOK(Hash!Started(t, n), t.n, n, mp) /\ TurnsLeft(Hash!Started(t, n), t.n) <= 2 * t.n
    BY RehashStarts
  <2> QED
    BY <1>0, <1>3, <1>4, <2>1, RehashEnds
<1>6. RehashType(r, t.n, n) /\ RehashHolds(r, t.n, n, mp)
  BY <1>5 DEF RehashOK
<1>7. ~ r.moving /\ With(r.old, t.n, "set") = {}
  BY <1>0, <1>5, <1>6, TurnsLeftNat
<1>8. /\ r.new \in [0..(n - 1) -> {"empty", "set"}] /\ r.key \in [0..(n - 1) -> Key \cup {Absent}]
      /\ r.val \in [0..(n - 1) -> HashData \cup {Absent}]
  BY <1>6 DEF RehashType
<1> HIDE DEF r
<1>9. Lives(r.old, r.new, t.n, n) = R
  BY <1>0, <1>7 DEF Lives, With
<1>10. /\ Agree(R, r.key, r.val, mp) /\ All(R, r.key, mp)
       /\ \A i \in R : PlacedAt(r.new, n, r.key[i], i)
  BY <1>6, <1>7, <1>9 DEF RehashHolds, NoneLost, All, With
<1> DEFINE ky == [i \in 0..(n - 1) |-> IF r.new[i] = "set" THEN r.key[i] ELSE Absent]
           vl == [i \in 0..(n - 1) |-> IF r.new[i] = "set" THEN r.val[i] ELSE Absent]
<1>11. [i \in 0..(n - 1) |-> r.new[i]] = r.new
  BY <1>8
<1>12. u = [n |-> n, size |-> t.size, occ |-> t.size, flag |-> r.new, key |-> ky, val |-> vl]
  BY <1>11 DEF Hash!Rehashed, Hash!Kept, Hash!Buckets
<1>13. u.n = n /\ u.size = t.size /\ u.occ = t.size /\ u.flag = r.new /\ u.key = ky /\ u.val = vl
  BY <1>12
<1>14. /\ ky \in [0..(n - 1) -> Key \cup {Absent}] /\ vl \in [0..(n - 1) -> HashData \cup {Absent}]
       /\ r.new \in [0..(n - 1) -> Flags]
  BY <1>8 DEF Flags
<1>15. R \subseteq 0..(n - 1) /\ \A i \in R : ky[i] = r.key[i] /\ vl[i] = r.val[i]
  BY DEF With
<1> HIDE DEF u, ky, vl
<1>16. TabType(u)
  BY <1>0, <1>12, <1>13, <1>14 DEF TabType
<1>17. TabCounts(u)
  <2>1. IsFiniteSet(R)
    BY WithFinite
  <2>2. Cardinality(Present(mp)) = Cardinality(R)
    <3> HIDE DEF R
    <3> QED
      BY <1>0, <1>10, <2>1, PresentCount
  <2>3. With(r.new, n, "del") = {}
    BY <1>8 DEF With
  <2>4. Cardinality({}) = 0
    BY FS_EmptySet
  <2> QED
    BY <1>0, <1>1, <1>3, <1>13, <2>2, <2>3, <2>4 DEF TabCounts
<1>18. TabPlaces(u, mp)
  <2> HIDE DEF R
  <2>1. Agree(R, ky, vl, mp) /\ All(R, ky, mp) /\ \A i \in R : PlacedAt(r.new, n, ky[i], i)
    BY <1>10, <1>15 DEF Agree, All
  <2> QED
    BY <1>0, <1>13, <2>1 DEF TabPlaces, R
<1> QED
  BY <1>2, <1>13, <1>16, <1>17, <1>18 DEF TabOK

\* Before an insert there is room for one element more.
LEMMA RoomKeepsTab ==
  ASSUME NEW t, NEW mp, TabOK(t, mp)
  PROVE  LET u == Hash!Room(t)
         IN  TabOK(u, mp) /\ u.n > 0 /\ u.occ < Hash!UpperBound(u.n) /\ u.size = t.size
<1>0. /\ t.n \in Nat /\ t.size \in Nat /\ t.occ \in Nat /\ (t.n = 0 \/ (t.n >= 4 /\ Covers(t.n)))
      /\ t.size = Cardinality(With(t.flag, t.n, "set")) /\ t.occ = t.size + Cardinality(With(t.flag, t.n, "del"))
      /\ t.occ <= Hash!UpperBound(t.n)
  BY DEF TabOK, TabType, TabCounts
<1>1. t.size <= t.occ
  <2>1. PICK c \in Nat : c = Cardinality(With(t.flag, t.n, "del"))
    BY <1>0, WithFinite
  <2> QED
    BY <1>0, <2>1
<1>2. CASE t.occ < Hash!UpperBound(t.n)
  <2>1. Hash!UpperBound(t.n) \in Nat /\ t.n > 0
    BY <1>0, <1>2 DEF Hash!UpperBound
  <2>2. Hash!Room(t) = t
    BY <1>0, <1>2, <2>1 DEF Hash!Room
  <2> QED
    BY <1>2, <2>1, <2>2
<1>3. CASE ~ (t.occ < Hash!UpperBound(t.n))
  <2> DEFINE n == Hash!NewSize(t)
  <2>1. Hash!Room(t) = Hash!kh_resize(t, n)
    <3>1. Hash!UpperBound(t.n) \in Nat
      BY <1>0 DEF Hash!UpperBound
    <3> QED
      BY <1>0, <1>3, <3>1 DEF Hash!Room
  <2>2. n \in Nat /\ n >= 4 /\ Covers(n) /\ t.n <= n /\ t.size < Hash!UpperBound(n)
    <3>1. CASE t.n = 0
      <4>1. n = 4 /\ t.size = 0 /\ Hash!UpperBound(4) = 3
        BY <1>0, <1>1, <3>1 DEF Hash!NewSize, Hash!UpperBound
      <4> QED
        BY <3>1, <4>1, CoversFour
    <3>2. CASE t.n > 2 * t.size /\ t.n >= 4
      <4>1. n = t.n /\ t.size < Hash!UpperBound(t.n)
        BY <1>0, <3>2 DEF Hash!NewSize, Hash!UpperBound
      <4> QED
        BY <1>0, <3>2, <4>1
    <3>3. CASE ~ (t.n > 2 * t.size) /\ t.n >= 4
      <4>1. n = 2 * t.n
        BY <1>0, <3>3 DEF Hash!NewSize
      <4>2. t.size < t.n
        BY <1>0, <1>1, <3>3, UpperBoundBelow
      <4>3. t.size < Hash!UpperBound(2 * t.n)
        BY <1>0, <3>3, <4>2 DEF Hash!UpperBound
      <4>4. Covers(2 * t.n)
        BY <1>0, <3>3, CoversDouble
      <4> QED
        BY <1>0, <3>3, <4>1, <4>3, <4>4
    <3> QED
      BY <1>0, <3>1, <3>2, <3>3
  <2> HIDE DEF n
  <2> DEFINE u == Hash!kh_resize(t, n)
  <2>3. TabOK(u, mp) /\ u.n = n /\ u.size = t.size /\ u.occ = t.size
    BY <2>2, ResizeKeepsTab
  <2> QED
    BY <2>1, <2>2, <2>3
<1> QED
  BY <1>2, <1>3

-----------------------------------------------------------------------------
\* What an iterator at bucket i has shown.
Shown(t, i, s) == i = -1 \/ (i \in 0..t.n /\ \A j \in With(t.flag, t.n, "set") : j <= i => t.key[j] \in s)
HashState(t, o, m, i, s) == TabOK(t, m) /\ o = t.size /\ Shown(t, i, s)
HashKept == HashState(tab, objects, map, it, seen)

\* The invariant after a step.
LEMMA HashKeptAfter ==
  ASSUME HashState(tab', objects', map', it', seen')
  PROVE  HashKept'
BY DEF HashKept

\* The cardinality of the instance is the cardinality.
LEMMA HashSameCardinality == \A S : Hash!Cardinality(S) = Cardinality(S)
BY DEF Hash!Cardinality, Cardinality

\* A search finds a key exactly when the map has it.
LEMMA HasIs ==
  ASSUME HashKept, NEW k \in Key
  PROVE  /\ Hash!Has(k) <=> map[k] # Absent
         /\ Hash!Has(k) => /\ Hash!kh_get(tab, k) \in With(tab.flag, tab.n, "set")
                           /\ tab.key[Hash!kh_get(tab, k)] = k
<1>1. TabType(tab) /\ TabPlaces(tab, map) /\ tab.n \in Nat
  BY DEF HashKept, HashState, TabOK, TabType
<1>2. /\ map[k] # Absent => /\ Hash!kh_get(tab, k) \in With(tab.flag, tab.n, "set")
                            /\ tab.key[Hash!kh_get(tab, k)] = k
      /\ map[k] = Absent => Hash!kh_get(tab, k) = tab.n
  BY <1>1, GetFinds
<1>3. tab.n \notin With(tab.flag, tab.n, "set")
  BY <1>1 DEF With
<1> QED
  BY <1>2, <1>3 DEF Hash!Has

\* An insert of a new key, through whatever rehash it takes.
LEMMA InsertKeeps ==
  ASSUME HashKept, NEW k \in Key, NEW v \in HashData, Hash!Insert(k, v)
  PROVE  HashKept'
<1>1. TabOK(tab, map) /\ objects = tab.size /\ map[k] = Absent /\ it = -1
  BY HasIs DEF HashKept, HashState, Hash!Insert, Hash!NoIter
<1> DEFINE u == Hash!Room(tab)
<1>2. TabOK(u, map) /\ u.n > 0 /\ u.occ < Hash!UpperBound(u.n) /\ u.size = tab.size
  BY <1>1, RoomKeepsTab
<1> HIDE DEF u
<1>3. TabOK(Hash!kh_put(u, k, v), [map EXCEPT ![k] = v]) /\ Hash!kh_put(u, k, v).size = u.size + 1
  BY <1>1, <1>2, PutKeepsTab
<1>4. tab' = Hash!kh_put(u, k, v) /\ map' = [map EXCEPT ![k] = v] /\ objects' = objects + 1 /\ it' = it
  BY DEF Hash!Insert, u
<1>5. TabOK(tab', map') /\ objects' = tab'.size
  BY <1>1, <1>2, <1>3, <1>4
<1>6. Shown(tab', it', seen')
  BY <1>1, <1>4 DEF Shown
<1> QED
  BY <1>5, <1>6, HashKeptAfter DEF HashState

\* The data of a bucket that is set is replaced, by a call or through the iterator.
LEMMA StoreKeeps ==
  ASSUME HashKept, NEW i \in With(tab.flag, tab.n, "set"), NEW v \in HashData,
         tab' = [tab EXCEPT !.val[i] = v], map' = [map EXCEPT ![tab.key[i]] = v],
         UNCHANGED <<objects, it, seen>>
  PROVE  HashKept'
<1>1. TabOK(tab, map) /\ objects = tab.size /\ Shown(tab, it, seen)
  BY DEF HashKept, HashState
<1> DEFINE u == [tab EXCEPT !.val[i] = v]
<1>2. TabOK(u, [map EXCEPT ![tab.key[i]] = v]) /\ u.size = tab.size /\ u.n = tab.n /\ u.flag = tab.flag /\ u.key = tab.key
  BY <1>1, OverwriteKeepsTab
<1> HIDE DEF u
<1>3. tab' = u /\ map' = [map EXCEPT ![tab.key[i]] = v] /\ objects' = objects /\ it' = it /\ seen' = seen
  BY DEF u
<1>4. TabOK(tab', map') /\ objects' = tab'.size
  BY <1>1, <1>2, <1>3
<1>5. Shown(tab', it', seen')
  BY <1>1, <1>2, <1>3 DEF Shown
<1> QED
  BY <1>4, <1>5, HashKeptAfter DEF HashState

\* An insert of a key that is there.
LEMMA OverwriteKeeps ==
  ASSUME HashKept, NEW k \in Key, NEW v \in HashData, Hash!Overwrite(k, v)
  PROVE  HashKept'
<1> DEFINE i == Hash!kh_get(tab, k)
<1>1. i \in With(tab.flag, tab.n, "set") /\ tab.key[i] = k
  BY HasIs DEF Hash!Overwrite
<1>2. tab' = [tab EXCEPT !.val[i] = v] /\ map' = [map EXCEPT ![tab.key[i]] = v] /\ UNCHANGED <<objects, it, seen>>
  BY <1>1 DEF Hash!Overwrite
<1> HIDE DEF i
<1> QED
  BY <1>1, <1>2, StoreKeeps

\* The data of a bucket that is not set is nobody's.
LEMMA StaleKeeps ==
  ASSUME HashKept, NEW i \in 0..(tab.n - 1), tab.flag[i] # "set", NEW v \in HashData,
         tab' = [tab EXCEPT !.val[i] = v], map' = map, UNCHANGED <<objects, it, seen>>
  PROVE  HashKept'
<1> DEFINE vl == [tab.val EXCEPT ![i] = v]
<1>0. TabType(tab) /\ TabCounts(tab) /\ TabPlaces(tab, map) /\ objects = tab.size /\ Shown(tab, it, seen)
  BY DEF HashKept, HashState, TabOK
<1>1. tab' = [n |-> tab.n, size |-> tab.size, occ |-> tab.occ, flag |-> tab.flag, key |-> tab.key, val |-> vl]
  BY <1>0, ValSet
<1>2. /\ tab'.n = tab.n /\ tab'.size = tab.size /\ tab'.occ = tab.occ /\ tab'.flag = tab.flag
      /\ tab'.key = tab.key /\ tab'.val = vl
  BY <1>1
<1>3. vl \in [0..(tab.n - 1) -> HashData \cup {Absent}] /\ \A j \in With(tab.flag, tab.n, "set") : vl[j] = tab.val[j]
  BY <1>0 DEF TabType, With
<1> HIDE DEF vl
<1>4. TabType(tab')
  BY <1>0, <1>1, <1>2, <1>3 DEF TabType
<1>5. TabCounts(tab')
  BY <1>0, <1>2 DEF TabCounts
<1>6. TabPlaces(tab', map')
  BY <1>0, <1>2, <1>3 DEF TabPlaces, Agree
<1>7. objects' = tab'.size /\ Shown(tab', it', seen')
  BY <1>0, <1>2 DEF Shown
<1> QED
  BY <1>4, <1>5, <1>6, <1>7, HashKeptAfter DEF HashState, TabOK

\* setData() of the iterator.
LEMMA SetDataKeeps ==
  ASSUME HashKept, NEW v \in HashData, Hash!SetData(v)
  PROVE  HashKept'
<1>1. tab.n \in Nat /\ Shown(tab, it, seen)
  BY DEF HashKept, HashState, TabOK, TabType
<1>2. it \in 0..(tab.n - 1)
  BY <1>1 DEF Shown, Hash!SetData, Hash!NoIter
<1>3. CASE tab.flag[it] = "set"
  <2>1. it \in With(tab.flag, tab.n, "set")
    BY <1>2, <1>3 DEF With
  <2>2. /\ tab' = [tab EXCEPT !.val[it] = v] /\ map' = [map EXCEPT ![tab.key[it]] = v]
        /\ UNCHANGED <<objects, it, seen>>
    BY <1>3 DEF Hash!SetData
  <2> QED
    BY <2>1, <2>2, StoreKeeps
<1>4. CASE tab.flag[it] # "set"
  BY <1>2, <1>4, StaleKeeps DEF Hash!SetData
<1> QED
  BY <1>3, <1>4

\* remove(): the bucket is marked deleted.
LEMMA RemoveKeyKeeps ==
  ASSUME HashKept, NEW k \in Key, Hash!RemoveKey(k)
  PROVE  HashKept'
<1> DEFINE i == Hash!kh_get(tab, k)
<1>1. TabOK(tab, map) /\ objects = tab.size /\ Shown(tab, it, seen) /\ tab.n \in Nat /\ map \in [Key -> HashData \cup {Absent}]
  BY DEF HashKept, HashState, TabOK, TabType, TabPlaces
<1>2. CASE Hash!Has(k)
  <2>1. i \in With(tab.flag, tab.n, "set") /\ tab.key[i] = k
    BY <1>2, HasIs
  <2>2. tab' = Hash!kh_del(tab, i) /\ objects' = objects - 1 /\ map' = [map EXCEPT ![k] = Absent] /\ it' = it /\ seen' = seen
    BY <1>2 DEF Hash!RemoveKey
  <2> HIDE DEF i
  <2> DEFINE u == DelAfter(tab, i)
  <2>3. Hash!kh_del(tab, i) = u /\ TabOK(u, [map EXCEPT ![tab.key[i]] = Absent])
    BY <1>1, <2>1, DelKeepsTab
  <2>4. u.n = tab.n /\ u.size = tab.size - 1 /\ u.flag = [tab.flag EXCEPT ![i] = "del"] /\ u.key = [tab.key EXCEPT ![i] = Absent]
    BY DEF DelAfter
  <2> HIDE DEF u
  <2>5. TabOK(tab', map') /\ objects' = tab'.size
    BY <1>1, <2>1, <2>2, <2>3, <2>4
  <2>6. \A j \in With(u.flag, u.n, "set") : j \in With(tab.flag, tab.n, "set") /\ u.key[j] = tab.key[j]
    BY <1>1, <2>1, <2>4 DEF With, TabOK, TabType
  <2>7. Shown(u, it, seen)
    BY <1>1, <2>4, <2>6 DEF Shown
  <2> QED
    BY <2>2, <2>3, <2>5, <2>7, HashKeptAfter DEF HashState
<1>3. CASE ~ Hash!Has(k)
  <2>1. map[k] = Absent /\ i = tab.n
    BY <1>3, HasIs DEF Hash!Has
  <2>2. tab' = tab
    BY <2>1 DEF Hash!RemoveKey, Hash!kh_del
  <2>3. objects' = objects /\ it' = it /\ seen' = seen /\ map' = map
    BY <1>1, <1>3, <2>1 DEF Hash!RemoveKey
  <2> QED
    BY <1>1, <2>2, <2>3, HashKeptAfter DEF HashState
<1> QED
  BY <1>2, <1>3

\* removeAll(): every bucket is emptied.
LEMMA RemoveAllKeeps ==
  ASSUME HashKept, Hash!RemoveAll
  PROVE  HashKept'
<1>1. TabOK(tab, map) /\ objects = tab.size /\ tab.size \in Nat /\ tab.size = Cardinality(With(tab.flag, tab.n, "set"))
  BY DEF HashKept, HashState, TabOK, TabType, TabCounts
<1>2. TabOK(Hash!kh_clear(tab), [k \in Key |-> Absent]) /\ Hash!kh_clear(tab).size = 0
  BY <1>1, ClearKeepsTab
<1>3. Hash!Cardinality({i \in Hash!Buckets(tab.n) : tab.flag[i] = "set"}) = Cardinality(With(tab.flag, tab.n, "set"))
  BY HashSameCardinality DEF With, Hash!Buckets
<1>4. tab' = Hash!kh_clear(tab) /\ map' = [k \in Key |-> Absent] /\ it' = -1 /\ objects' = objects - tab.size
  BY <1>1, <1>3 DEF Hash!RemoveAll, Hash!NoIter
<1>5. objects' = 0
  BY <1>1, <1>4
<1>6. Shown(tab', it', seen')
  BY <1>4 DEF Shown
<1> QED
  BY <1>2, <1>4, <1>5, <1>6, HashKeptAfter DEF HashState

\* The iterator goes on to the next bucket that is set and has shown all up to it.
LEMMA ShowKeeps ==
  ASSUME HashKept, NEW i \in 0..tab.n, Hash!Show(Hash!SetFrom(i)), UNCHANGED <<tab, objects, map>>,
         \A j \in With(tab.flag, tab.n, "set") : j < i => tab.key[j] \in seen
  PROVE  HashKept'
<1> DEFINE T == {tab.n} \cup {j \in i..(tab.n - 1) : tab.flag[j] = "set"}
           m == Hash!Min(T)
<1>1. TabOK(tab, map) /\ objects = tab.size /\ tab.n \in Nat
  BY DEF HashKept, HashState, TabOK, TabType
<1>2. T \in SUBSET Nat /\ T # {} /\ T \subseteq i..tab.n /\ tab.n \in T
  BY <1>1
<1>3. \A j \in With(tab.flag, tab.n, "set") : j >= i => j \in T
  BY <1>1 DEF With
<1>4. Hash!SetFrom(i) = m
  BY DEF Hash!SetFrom
<1> HIDE DEF T
<1>5. m \in T /\ \A y \in T : m <= y
  BY <1>2, HashMinIs
<1> HIDE DEF m
<1>6. m \in 0..tab.n
  BY <1>1, <1>2, <1>5
<1>7. it' = m /\ seen' = IF m = tab.n THEN seen ELSE seen \cup {tab.key[m]}
  BY <1>4 DEF Hash!Show
<1>8. ASSUME NEW j \in With(tab.flag, tab.n, "set"), j <= m PROVE tab.key[j] \in seen'
  <2>0. j \in 0..(tab.n - 1)
    BY DEF With
  <2>1. CASE j < i
    BY <1>7, <2>1
  <2>2. CASE j >= i
    <3>1. j \in T /\ m <= j
      BY <1>3, <1>5, <2>2
    <3>2. j = m /\ m # tab.n
      BY <1>1, <1>6, <1>8, <2>0, <3>1
    <3> QED
      BY <1>7, <3>2
  <2> QED
    BY <1>1, <2>0, <2>1, <2>2
<1>9. Shown(tab', it', seen')
  BY <1>6, <1>7, <1>8 DEF Shown
<1> QED
  BY <1>1, <1>9, HashKeptAfter DEF HashState

\* Every call on the hash table keeps the invariant.
LEMMA HashStep ==
  ASSUME HashKept, Hash!Next
  PROVE  HashKept'
<1>0. "fresh" \in HashData /\ Val \subseteq HashData /\ Hash!Fresh = "fresh"
  BY DEF HashData, Hash!Fresh
<1>1. ASSUME Hash!Same PROVE HashKept'
  BY <1>1, HashKeptAfter DEF Hash!Same, Hash!khashVars, HashKept
<1>2. ASSUME NEW k \in Key, NEW v \in HashData, Hash!Insert(k, v) \/ Hash!Overwrite(k, v) PROVE HashKept'
  BY <1>2, InsertKeeps, OverwriteKeeps
<1>3. ASSUME NEW k \in Key, Hash!AddReplaceNew(k) \/ Hash!AddNoreplaceNew(k) \/ Hash!FindOrNew(k) PROVE HashKept'
  BY <1>0, <1>1, <1>2, <1>3 DEF Hash!AddReplaceNew, Hash!AddNoreplaceNew, Hash!FindOrNew
<1>4. ASSUME NEW k \in Key, NEW v \in Val, Hash!AddReplace(k, v) \/ Hash!AddNoreplace(k, v) PROVE HashKept'
  BY <1>0, <1>1, <1>2, <1>4 DEF Hash!AddReplace, Hash!AddNoreplace
<1>5. ASSUME NEW k \in Key, Hash!RemoveKey(k) PROVE HashKept'
  BY <1>5, RemoveKeyKeeps
<1>6. ASSUME NEW v \in Val, Hash!SetData(v) PROVE HashKept'
  BY <1>0, <1>6, SetDataKeeps
<1>7. CASE Hash!RemoveAll
  BY <1>7, RemoveAllKeeps
<1>8. tab.n \in Nat /\ Shown(tab, it, seen) /\ TabOK(tab, map) /\ objects = tab.size
  BY DEF HashKept, HashState, TabOK, TabType
<1>9. CASE Hash!GotoStart
  <2>1. \A j \in With(tab.flag, tab.n, "set") : ~ (j < 0)
    BY <1>8 DEF With
  <2>2. 0 \in 0..tab.n
    BY <1>8
  <2> QED
    BY <1>9, <2>1, <2>2, ShowKeeps DEF Hash!GotoStart
<1>10. CASE Hash!GetNext
  <2>1. it \in 0..tab.n /\ it # tab.n /\ \A j \in With(tab.flag, tab.n, "set") : j <= it => tab.key[j] \in seen
    BY <1>8, <1>10 DEF Hash!GetNext, Hash!NoIter, Shown
  <2>2. it + 1 \in 0..tab.n
    BY <1>8, <2>1
  <2>3. \A j \in With(tab.flag, tab.n, "set") : j < it + 1 => tab.key[j] \in seen
    BY <1>8, <2>1 DEF With
  <2> QED
    BY <1>10, <2>2, <2>3, ShowKeeps DEF Hash!GetNext
<1>11. CASE Hash!ReleaseIter
  <2>1. tab' = tab /\ map' = map /\ objects' = objects /\ it' = -1
    BY <1>11 DEF Hash!ReleaseIter, Hash!NoIter
  <2>2. Shown(tab', it', seen')
    BY <2>1 DEF Shown
  <2> QED
    BY <1>8, <2>1, <2>2, HashKeptAfter DEF HashState
<1> QED
  BY <1>3, <1>4, <1>5, <1>6, <1>7, <1>9, <1>10, <1>11 DEF Hash!Next

\* The hash table keeps its invariant in every behaviour.
LEMMA HashAlwaysKept == Spec => []HashKept
<1>1. Init => HashKept
  <2> SUFFICES ASSUME Hash!Init PROVE HashKept
    BY DEF Init
  <2> DEFINE t == Hash!NoTable
             f(x) == [i \in 0..(-1) |-> x]
  <2>1. t.n = 0 /\ t.size = 0 /\ t.occ = 0
    BY DEF Hash!NoTable
  <2>2. t.flag \in [0..(0 - 1) -> Flags] /\ t.key \in [0..(0 - 1) -> Key \cup {Absent}] /\ t.val \in [0..(0 - 1) -> HashData \cup {Absent}]
    BY DEF Hash!NoTable
  <2>3. TabType(t)
    <3>1. t = [n |-> 0, size |-> 0, occ |-> 0, flag |-> t.flag, key |-> t.key, val |-> t.val]
      BY DEF Hash!NoTable
    <3> HIDE DEF t
    <3> QED
      BY <2>1, <2>2, <3>1 DEF TabType
  <2>4. \A x : With(t.flag, t.n, x) = {}
    BY <2>1 DEF With
  <2> HIDE DEF t
  <2>5. TabCounts(t)
    BY <2>1, <2>4, FS_EmptySet DEF TabCounts, Hash!UpperBound
  <2>6. TabPlaces(t, [k \in Key |-> Absent])
    BY <2>4 DEF TabPlaces, Agree, All
  <2> QED
    BY <2>1, <2>3, <2>5, <2>6 DEF Hash!Init, Hash!NoIter, HashKept, HashState, Shown, TabOK, t
<1>2. HashKept /\ [Next]_vars => HashKept'
  <2> SUFFICES ASSUME HashKept, [Next]_vars PROVE HashKept'
    OBVIOUS
  <2>1. CASE UNCHANGED khashVars
    BY <2>1, HashKeptAfter DEF khashVars, HashKept
  <2>2. CASE Hash!Next
    BY <2>2, HashStep
  <2>3. Hash!Next \/ UNCHANGED khashVars
    BY DEF Next, Done, vars
  <2> QED
    BY <2>1, <2>2, <2>3
<1> QED
  BY <1>1, <1>2, PTL DEF Spec

\* TW_KHash_32: after any mixture of inserts, removals and rehashes in place a key is
\* found exactly when it is there, with its data; the data objects that are allocated
\* are those of the table; and an iterator at its end has shown every key.
THEOREM TableAlwaysHolds == Spec => []TableHolds
<1>1. HashKept => TableHolds
  <2> SUFFICES ASSUME HashKept PROVE TableHolds
    OBVIOUS
  <2>1. TabOK(tab, map) /\ TabType(tab) /\ TabPlaces(tab, map) /\ tab.n \in Nat /\ objects = tab.size /\ Shown(tab, it, seen)
    BY DEF HashKept, HashState, TabOK, TabType
  <2>2. ASSUME NEW k \in Key
        PROVE  map[k] = IF Hash!kh_get(tab, k) = tab.n THEN Absent ELSE tab.val[Hash!kh_get(tab, k)]
    <3>1. /\ map[k] # Absent => /\ Hash!kh_get(tab, k) \in With(tab.flag, tab.n, "set")
                                /\ tab.val[Hash!kh_get(tab, k)] = map[k]
          /\ map[k] = Absent => Hash!kh_get(tab, k) = tab.n
      BY <2>1, GetFinds
    <3>2. tab.n \notin With(tab.flag, tab.n, "set")
      BY <2>1 DEF With
    <3> QED
      BY <3>1, <3>2
  <2>3. Hash!FindsWhatIsThere
    BY <2>2 DEF Hash!FindsWhatIsThere
  <2>4. Hash!IterShowsAll
    <3> SUFFICES ASSUME it = tab.n, tab.n > 0, NEW k \in Key, map[k] # Absent PROVE k \in seen
      BY DEF Hash!IterShowsAll
    <3>1. PICK i \in With(tab.flag, tab.n, "set") : tab.key[i] = k
      BY <2>1 DEF TabPlaces, All
    <3>2. i <= it /\ it # -1
      BY <2>1 DEF With
    <3> QED
      BY <2>1, <3>1, <3>2 DEF Shown
  <2> QED
    BY <2>1, <2>3, <2>4 DEF TableHolds, Hash!TableHolds, Hash!DataInTable
<1> QED
  BY <1>1, HashAlwaysKept, PTL

\* TW_KHash_32: size and n_occupied are what the flags say, and a bucket stays empty, so
\* that every search ends.
THEOREM CountsAlwaysAgree == Spec => []CountsAgree
<1>1. HashKept => CountsAgree
  <2> SUFFICES ASSUME HashKept PROVE CountsAgree
    OBVIOUS
  <2>1. TabOK(tab, map) /\ TabType(tab) /\ TabCounts(tab) /\ TabPlaces(tab, map) /\ tab.n \in Nat /\ tab.occ \in Nat
    BY DEF HashKept, HashState, TabOK, TabType
  <2>2. \A f : Hash!Marked(f) = Cardinality(With(tab.flag, tab.n, f))
    BY HashSameCardinality DEF Hash!Marked, Hash!Buckets, With
  <2>3. tab.size = Hash!Marked("set") /\ tab.occ = Hash!Marked("set") + Hash!Marked("del")
    BY <2>1, <2>2 DEF TabCounts
  <2>4. ASSUME tab.n > 0 PROVE Hash!Marked("empty") > 0
    <3>1. With(tab.flag, tab.n, "empty") # {}
      BY <2>1, <2>4, EmptyLeft DEF With
    <3>2. IsFiniteSet(With(tab.flag, tab.n, "empty")) /\ Cardinality(With(tab.flag, tab.n, "empty")) \in Nat
      BY <2>1, WithFinite
    <3>3. Cardinality(With(tab.flag, tab.n, "empty")) # 0
      BY <3>1, <3>2, FS_EmptySet
    <3> QED
      BY <2>2, <3>2, <3>3
  <2>5. tab.size = Hash!Cardinality({k \in Key : map[k] # Absent})
    <3> DEFINE S == With(tab.flag, tab.n, "set")
    <3>1. /\ IsFiniteSet(S) /\ tab.size = Cardinality(S) /\ Agree(S, tab.key, tab.val, map) /\ All(S, tab.key, map)
          /\ map \in [Key -> HashData \cup {Absent}]
      BY <2>1, WithFinite DEF TabCounts, TabPlaces
    <3> HIDE DEF S
    <3>2. Cardinality(Present(map)) = Cardinality(S)
      BY <3>1, PresentCount
    <3> QED
      BY <3>1, <3>2, HashSameCardinality DEF Present
  <2> QED
    BY <2>3, <2>4, <2>5 DEF CountsAgree, Hash!CountsAgree
<1> QED
  BY <1>1, HashAlwaysKept, PTL
=============================================================================

-------------------------------- MODULE KTree --------------------------------
(***************************************************************************)
(* TW_KTree_32 (include/TW/tw_ktree.h): a B-tree of minimum degree t.      *)
(*                                                                         *)
(* A node is [keys, kids]; a leaf has no kids.  keys[i + 1] and kids[i + 1]*)
(* are the code's __KB_KEY(x)[i] and __KB_PTR(x)[i].  copies is the bag of *)
(* keys the calls of put() and del() make: put() does not look whether the *)
(* key is there.  The class has a MUTEX parameter and does not use it, so  *)
(* one thread calls it.                                                    *)
(***************************************************************************)
EXTENDS Integers, SequencesExt

CONSTANTS T,          \* b->t: nodes hold T - 1 to 2 T - 1 keys
          TreeKey,    \* integers
          MaxKeys,    \* keys in the tree, at most
          MaxCopies   \* of one key, at most

VARIABLES root, n_keys, copies,
          asked    \* the last del() returned the key it was asked for
treeVars == <<root, n_keys, copies, asked>>

Leaf == [keys |-> <<>>, kids |-> <<>>]
IsLeaf(x) == x.kids = <<>>
n(x) == Len(x.keys)

\* tw_kb_init_tree()
Init == root = Leaf /\ n_keys = 0 /\ copies = [k \in TreeKey |-> 0] /\ asked = TRUE

\* tw_kb_getp_aux(): where k is in a node, or the key before it, and how k compares
\* with the key that was looked at.
getp_aux(x, k) ==
    LET less == Cardinality({i \in 1..n(x) : x.keys[i] < k})
    IN  IF n(x) = 0 THEN [i |-> -1, r |-> 0]
        ELSE IF less = n(x) THEN [i |-> n(x) - 1, r |-> 1]
        ELSE IF k < x.keys[less + 1] THEN [i |-> less - 1, r |-> -1]
        ELSE [i |-> less, r |-> 0]

\* tw_kb_getp()
RECURSIVE getp(_, _)
getp(x, k) ==
    LET at == getp_aux(x, k)
    IN  IF at.i >= 0 /\ at.r = 0 THEN TRUE
        ELSE IF IsLeaf(x) THEN FALSE ELSE getp(x.kids[at.i + 2], k)

\* tw_kb_split(): kid i, which is full, in two, and its middle key up into x.
split(x, i) ==
    LET y == x.kids[i + 1]
        left == [keys |-> SubSeq(y.keys, 1, T - 1),
                 kids |-> IF IsLeaf(y) THEN <<>> ELSE SubSeq(y.kids, 1, T)]
        right == [keys |-> SubSeq(y.keys, T + 1, 2 * T - 1),
                  kids |-> IF IsLeaf(y) THEN <<>> ELSE SubSeq(y.kids, T + 1, 2 * T)]
    IN  [keys |-> InsertAt(x.keys, i + 1, y.keys[T]),
         kids |-> SubSeq(x.kids, 1, i) \o <<left, right>> \o SubSeq(x.kids, i + 2, Len(x.kids))]

\* tw_kb_putp_aux(): full nodes are split on the way down.
RECURSIVE putp_aux(_, _)
putp_aux(x, k) ==
    LET i == getp_aux(x, k).i + 1
    IN  IF IsLeaf(x) THEN [x EXCEPT !.keys = InsertAt(@, i + 1, k)]
        ELSE LET full == n(x.kids[i + 1]) = 2 * T - 1
                 x2 == IF full THEN split(x, i) ELSE x
                 j == IF full /\ k > x2.keys[i + 1] THEN i + 1 ELSE i
             IN  [x2 EXCEPT !.kids[j + 1] = putp_aux(@, k)]

\* tw_kb_putp(): a full root becomes the only kid of a new one first.
putp(r, k) ==
    IF n(r) = 2 * T - 1 THEN putp_aux(split([keys |-> <<>>, kids |-> <<r>>], 0), k)
    ELSE putp_aux(r, k)

-----------------------------------------------------------------------------
\* A node of kids i and i + 1 of x with key mid between them, in place of both.
Joined(y, mid, z) == [keys |-> y.keys \o <<mid>> \o z.keys, kids |-> y.kids \o z.kids]
Join(x, i, mid) ==
    [keys |-> RemoveAt(x.keys, i + 1),
     kids |-> RemoveAt([x.kids EXCEPT ![i + 1] = Joined(@, mid, x.kids[i + 2])], i + 2)]

\* Kid i of x gets a key from the kid before it, or after it, by way of x.
FromLeft(x, i) ==
    LET y == x.kids[i]
        xp == x.kids[i + 1]
    IN  [keys |-> [x.keys EXCEPT ![i] = Last(y.keys)],
         kids |-> [x.kids EXCEPT
            ![i] = [keys |-> Front(y.keys), kids |-> IF IsLeaf(y) THEN <<>> ELSE Front(y.kids)],
            ![i + 1] = [keys |-> <<x.keys[i]>> \o xp.keys,
                        kids |-> IF IsLeaf(xp) THEN <<>> ELSE <<Last(y.kids)>> \o xp.kids]]]
FromRight(x, i) ==
    LET y == x.kids[i + 2]
        xp == x.kids[i + 1]
    IN  [keys |-> [x.keys EXCEPT ![i + 1] = Head(y.keys)],
         kids |-> [x.kids EXCEPT
            ![i + 2] = [keys |-> Tail(y.keys), kids |-> IF IsLeaf(y) THEN <<>> ELSE Tail(y.kids)],
            ![i + 1] = [keys |-> Append(xp.keys, x.keys[i + 1]),
                        kids |-> IF IsLeaf(xp) THEN <<>> ELSE Append(xp.kids, Head(y.kids))]]]

\* Mutant of Refill: a kid at the lower limit is left as it is.
RefillNever(x, i) == [x |-> x, i |-> i]

\* Before the way down into kid i: one that is at the lower limit gets a key from
\* a neighbour that can spare one, or is joined with a neighbour.
Refill(x, i) ==
    IF n(x.kids[i + 1]) # T - 1 THEN [x |-> x, i |-> i]
    ELSE IF i > 0 /\ n(x.kids[i]) >= T THEN [x |-> FromLeft(x, i), i |-> i]
    ELSE IF i < n(x) /\ n(x.kids[i + 2]) >= T THEN [x |-> FromRight(x, i), i |-> i]
    ELSE IF i > 0 THEN [x |-> Join(x, i - 1, x.keys[i]), i |-> i - 1]
    ELSE [x |-> Join(x, i, x.keys[i + 1]), i |-> i]

\* tw_kb_delp_aux(): s is 0 to delete k, 1 for the largest key, 2 for the least.
RECURSIVE delp_aux(_, _, _)
delp_aux(x, k, s) ==
    LET at == CASE s = 0 -> getp_aux(x, k)
                [] s = 1 -> [i |-> n(x) - 1, r |-> 1]
                [] s = 2 -> [i |-> -1, r |-> -1]
        i  == at.i
        Down(x2, j) == LET sub == delp_aux(x2.kids[j + 1], k, s)
                       IN  [kp |-> sub.kp, x |-> [x2 EXCEPT !.kids[j + 1] = sub.x]]
        Replace(j, side) == LET sub == delp_aux(x.kids[j + 1], k, side)
                            IN  [kp |-> x.keys[i + 1],
                                 x |-> [x EXCEPT !.keys[i + 1] = sub.kp, !.kids[j + 1] = sub.x]]
    IN  IF IsLeaf(x)
        THEN LET j == IF s = 2 THEN 1 ELSE i + 1
             IN  [kp |-> x.keys[j], x |-> [x EXCEPT !.keys = RemoveAt(@, j)]]
        ELSE IF at.r = 0
        THEN IF n(x.kids[i + 1]) >= T THEN Replace(i, 1)
             ELSE IF n(x.kids[i + 2]) >= T THEN Replace(i + 1, 2)
             ELSE Down(Join(x, i, k), i)
        ELSE LET f == Refill(x, i + 1) IN Down(f.x, f.i)

\* tw_kb_delp(): an inner root that ran empty is dropped.
delp(r, k) ==
    LET d == delp_aux(r, k, 0)
    IN  [kp |-> d.kp, x |-> IF n(d.x) = 0 /\ ~IsLeaf(d.x) THEN d.x.kids[1] ELSE d.x]

\* tw_kb_traverse(): the keys in the order the callback sees them.
RECURSIVE traverse(_)
traverse(x) ==
    IF IsLeaf(x) THEN x.keys
    ELSE FlattenSeq([i \in 1..n(x) + 1 |->
            traverse(x.kids[i]) \o IF i <= n(x) THEN <<x.keys[i]>> ELSE <<>>])

-----------------------------------------------------------------------------
Put(k) ==
    /\ n_keys < MaxKeys /\ copies[k] < MaxCopies
    /\ root' = putp(root, k)
    /\ n_keys' = n_keys + 1
    /\ copies' = [copies EXCEPT ![k] = @ + 1]
    /\ UNCHANGED asked

\* del() is for a key that is there: of one that is not it takes the key before it
\* from a leaf, or reads in front of the node.
Del(k) ==
    /\ copies[k] > 0
    /\ LET d == delp(root, k) IN root' = d.x /\ asked' = (d.kp = k)
    /\ n_keys' = n_keys - 1
    /\ copies' = [copies EXCEPT ![k] = @ - 1]

Next == \E k \in TreeKey : Put(k) \/ Del(k)
Spec == Init /\ [][Next]_treeVars

-----------------------------------------------------------------------------
\* traverse() meets every key as often as it was put and not deleted, in order;
\* n_keys counts them; del() returns the key it was asked for.
InOrder ==
    LET s == traverse(root)
    IN  /\ \A i \in 1..Len(s) - 1 : s[i] <= s[i + 1]
        /\ \A k \in TreeKey : Len(SelectSeq(s, LAMBDA x : x = k)) = copies[k]
        /\ n_keys = Len(s)
        /\ asked

\* A search finds a key exactly when it is there.
GetFinds == \A k \in TreeKey : getp(root, k) = (copies[k] > 0)

\* The shape the search times and the array bounds rest on: no node above 2T - 1
\* keys, none but the root below T - 1, one kid more than keys, and all leaves at
\* one depth.
RECURSIVE Depths(_), Filled(_, _)
Depths(x) == IF IsLeaf(x) THEN {0} ELSE {1 + h : h \in UNION {Depths(x.kids[i]) : i \in DOMAIN x.kids}}
Filled(x, least) ==
    /\ n(x) >= least /\ n(x) <= 2 * T - 1
    /\ ~IsLeaf(x) => /\ Len(x.kids) = n(x) + 1
                     /\ \A i \in DOMAIN x.kids : Filled(x.kids[i], T - 1)
Balanced == Filled(root, 0) /\ Cardinality(Depths(root)) = 1

\* After any splits on the way down and any borrowing and merging of a deletion the
\* tree holds the keys that were put and not deleted, in order, finds each of them,
\* and has the shape that the next call relies on.
TreeHolds == InOrder /\ GetFinds /\ Balanced
=============================================================================

------------------------------- MODULE DynArray -------------------------------
(***************************************************************************)
(* DynArray (include/TW/tw_array.h): an array that grows with realloc().   *)
(* Every call that takes another array computes the new _size before it    *)
(* reads the other one's _size and storage, so the model keeps the two     *)
(* apart: a call copies from the storage as it is after realloc().         *)
(***************************************************************************)
EXTENDS Integers, SequencesExt

CONSTANTS Array,     \* the arrays of the program
          Value,
          MaxSize    \* bound on _size
Zero == "zero"       \* what memset() writes
Garbage == "garbage" \* what malloc() and realloc() leave

VARIABLES store,     \* per array: the elements of _array, or NoStore
          size,      \* per array: _size
          vals       \* per array: the elements it should hold
arrayVars == <<store, size, vals>>

NoStore == <<>>
Init ==
    /\ store = [a \in Array |-> NoStore]
    /\ size = [a \in Array |-> 0]
    /\ vals = [a \in Array |-> <<>>]

\* setup(): malloc().
setup(n) == [i \in 1..n |-> Garbage]

\* resize(): realloc() keeps what fits; zeroout clears what is new.  olds is _size
\* as resize() finds it: the calls that grow the array have changed it already.
resize(s, olds, n, zeroout) ==
    [i \in 1..n |-> IF i > olds /\ zeroout THEN Zero ELSE IF i <= Len(s) THEN s[i] ELSE Garbage]

\* memmove() and memcpy() of n elements to place at in s, from place from of t.
CopyTo(s, at, t, from, n) ==
    [i \in DOMAIN s |-> IF i > at /\ i <= at + n THEN t[from + i - at] ELSE s[i]]

Set(a, s, v) ==
    /\ store' = [store EXCEPT ![a] = s]
    /\ size' = [size EXCEPT ![a] = Len(s)]
    /\ vals' = [vals EXCEPT ![a] = v]

-----------------------------------------------------------------------------
\* DynArray(size), and the destructor.
Construct(a, n) == size[a] = 0 /\ Set(a, setup(n), setup(n))
Destroy(a) == Set(a, NoStore, <<>>)

\* The copy constructor and operator=: the old storage is freed, a new one is
\* allocated, and _size elements are copied.
Copy(a, b) == a # b /\ Set(a, CopyTo(setup(size[b]), 0, store[b], 0, size[b]), vals[b])

ZeroArray(a) == Set(a, [i \in 1..size[a] |-> Zero], [i \in 1..size[a] |-> Zero])

\* put() and putByRef(): false, and nothing stored, past the end.
Put(a, loc, v) ==
    IF loc < size[a] THEN Set(a, [store[a] EXCEPT ![loc + 1] = v], [vals[a] EXCEPT ![loc + 1] = v])
                     ELSE UNCHANGED arrayVars

AddToEnd(a, v) ==
    /\ size[a] < MaxSize
    /\ Set(a, [resize(store[a], size[a] + 1, size[a] + 1, FALSE) EXCEPT ![size[a] + 1] = v],
           Append(vals[a], v))

\* addToEnd() of an array.  Of the array itself it would read o._size when it is
\* doubled already.
Append2(a, b) ==
    LET n == size[a] + size[b]
    IN  /\ a # b /\ size[b] > 0 /\ n <= MaxSize
        /\ Set(a, CopyTo(resize(store[a], n, n, FALSE), size[a], store[b], 0, size[b]),
               vals[a] \o vals[b])

\* Mutant of Shifted: memmove() forgets that the elements begin at loc.
ShiftedAll(s, loc, olds, n) == CopyTo(s, n, s, 0, olds)

\* The memmove() of insert(): the elements from loc on make room for n others.
Shifted(s, loc, olds, n) == CopyTo(s, loc + n, s, loc, olds - loc)

\* insert(): room is made with memmove(), then the other array is copied in.  Nothing
\* checks loc; behind the end, the length of the memmove() would be negative.
Insert(a, loc, b) ==
    LET n == size[a] + size[b]
    IN  /\ a # b /\ size[b] > 0 /\ n <= MaxSize /\ loc <= size[a]
        /\ Set(a, CopyTo(Shifted(resize(store[a], n, n, FALSE), loc, size[a], size[b]),
                         loc, store[b], 0, size[b]),
               SubSeq(vals[a], 1, loc) \o vals[b] \o SubSeq(vals[a], loc + 1, size[a]))

Resize(a, n, zeroout) ==
    Set(a, resize(store[a], size[a], n, zeroout),
        SubSeq(vals[a], 1, IF n < size[a] THEN n ELSE size[a])
        \o [i \in 1..(IF n > size[a] THEN n - size[a] ELSE 0) |-> IF zeroout THEN Zero ELSE Garbage])

Next ==
    \E a \in Array :
       \/ \E n \in 0..MaxSize : Construct(a, n) \/ \E z \in BOOLEAN : Resize(a, n, z)
       \/ Destroy(a) \/ ZeroArray(a)
       \/ \E v \in Value : AddToEnd(a, v) \/ \E loc \in 0..MaxSize : Put(a, loc, v)
       \/ \E b \in Array : Copy(a, b) \/ Append2(a, b) \/ \E loc \in 0..MaxSize : Insert(a, loc, b)

-----------------------------------------------------------------------------
\* An array holds the elements that were put, added, inserted or copied into it, in
\* their places, and the zeroes and garbage of the room it was given beside them.
ArrayHolds == \A a \in Array : store[a] = vals[a] /\ size[a] = Len(vals[a])
=============================================================================

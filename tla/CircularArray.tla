---------------------------- MODULE CircularArray ----------------------------
(***************************************************************************)
(* The array-like functions get(n), set(n) and setMv(n) of                 *)
(* tw_safeCircular beside the queue operations.  The index they compute    *)
(* can be Size, one past the storage: a read there yields anything, a      *)
(* write there changes no slot.                                            *)
(***************************************************************************)
EXTENDS SafeCircular

\* Mutant of WalkStart: the walk starts at the newest element.
WalkFromNewest == nextIn

\* Where the walk of get() and set() starts: nextOut, or, in a reversed ring, two
\* slots below nextIn plus one.
WalkStart ==
    IF ~reversed THEN nextOut
    ELSE (IF nextIn - 2 < 0 THEN Size - 1 ELSE nextIn - 2) + 1

\* The walk: wrap first, then go one slot up.
ArrayIndex(n) ==
    LET walk[c \in 0..n] == IF c = 0 THEN WalkStart
                            ELSE (IF walk[c - 1] >= Size THEN 0 ELSE walk[c - 1]) + 1
    IN  walk[n]

InRange(n) == n >= 0 /\ n < Remain

ArrayGet(t, n) ==
    /\ Enter(t)
    /\ \/ /\ InRange(n)
          /\ \E d \in IF ArrayIndex(n) < Size THEN {data[ArrayIndex(n)]} ELSE Value :
                ret' = [ret EXCEPT ![t] = d]
       \/ /\ ~InRange(n)
          /\ ret' = [ret EXCEPT ![t] = Failed]
    /\ UNCHANGED <<semaVars, ringVars, enabled, arg, iter>>

ArraySet(t, n, v) ==
    /\ Enter(t)
    /\ \/ /\ InRange(n)
          /\ data' = IF ArrayIndex(n) < Size THEN [data EXCEPT ![ArrayIndex(n)] = v] ELSE data
          /\ ret' = [ret EXCEPT ![t] = v]
       \/ /\ ~InRange(n)
          /\ ret' = [ret EXCEPT ![t] = Failed]
          /\ UNCHANGED data
    /\ UNCHANGED <<semaVars, nextIn, nextOut, reversed, enabled, arg, iter>>

\* The indices callers use: one below and one above the valid ones included.
Index == -1..Size

\* Every call on one ring.
ArrayNext ==
    \/ Next
    \/ \E t \in Thread :
          \/ Clear(t)
          \/ \E n \in Index : ArrayGet(t, n) \/ \E v \in Value : ArraySet(t, n, v)

ArraySpec == Init /\ [][ArrayNext]_vars

\* Of the elements that get(n) and set(n) name, their walk over an upward ring misses
\* one only: the element of slot 0, when the ring goes on there from the end of the
\* storage.  For it the walk stops at Size, outside the storage; the elements behind it
\* are reached again, each as the n-th of the next removals would take it.  So
\* "assert(theQ.get(n,d)); assert(d.x == n);" (tests/test_twcircular_array.cpp:166) holds
\* in the ring of the test, which has not wrapped, and not in every ring.
ArrayMissesOnlyWrapped ==
    ~reversed => \A n \in 0..(Remain - 1) :
        ArrayIndex(n) = IF n > 0 /\ Slot(n) = 0 THEN Size ELSE Slot(n)
=============================================================================

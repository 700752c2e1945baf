------------------------- MODULE CircularRefinement -------------------------
(***************************************************************************)
(* The ring buffer implements BoundedQueue: the queue is Contents, and a   *)
(* blocked call is a waiting one.                                          *)
(***************************************************************************)
EXTENDS CircularArray

Waiting == [t \in Thread |->
    IF pc[t] \in GtZeroWaits \cup {"gtZeroTimedOut"} THEN "add"
    ELSE IF pc[t] \in DecrementWaits THEN "remove" ELSE "no"]

Queue == INSTANCE BoundedQueue WITH
    q <- Contents, waiting <- Waiting, want <- arg, Urgent <- {}

\* Every behaviour of the ring buffer is one of a bounded queue: whatever the
\* interleaving of adds, blocked removals, time-outs, resets, reversals and
\* clears, elements leave in the order they came, once each, and a removal
\* returns false only from an empty ring.
ImplementsQueue == Queue!Spec
=============================================================================

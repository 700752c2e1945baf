--------------------------- MODULE FIFORefinement ---------------------------
(***************************************************************************)
(* The linked list implements BoundedQueue, bounded here only by the       *)
(* number of links of the model.                                           *)
(***************************************************************************)
EXTENDS SafeFIFO

Contents == [i \in 1..remain |-> d[LinkAt[i - 1]]]

Waiting == [t \in Thread |->
    CASE pc[t] = "remove" -> "remove"
      [] pc[t] \in {"removeTimed", "removeTimedOut"} -> "removeTimed"
      [] OTHER -> "no"]

Queue == INSTANCE BoundedQueue WITH
    q <- Contents, waiting <- Waiting, want <- [t \in Thread |-> None],
    Value <- Value \cup {None}, Size <- Cardinality(Link)

\* Every behaviour of the linked list is one of a queue: elements leave in the
\* order of their adds (addToHead() before all others), once each, and a removal
\* without a deadline returns false only when the list is empty.
ImplementsQueue == Queue!Spec
=============================================================================

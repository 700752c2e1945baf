---------------------------- MODULE BoundedQueue ----------------------------
(***************************************************************************)
(* What a bounded blocking queue promises its callers: elements leave in   *)
(* the order they came, none is lost, duplicated or invented, at most Size *)
(* are held, and a removal without a deadline that reports failure found   *)
(* the queue empty.                                                        *)
(*                                                                         *)
(* A call takes effect, and returns, in one step.  A call that cannot take *)
(* effect yet may be left waiting.                                         *)
(***************************************************************************)
EXTENDS Integers, Sequences

CONSTANTS Thread, Size, Value, None, Failed,
          Urgent   \* the elements a caller may put in front of the others

VARIABLES q,        \* the elements, the next to leave first
          waiting,  \* the calls that are left waiting
          want,     \* what a waiting add was called with
          ret       \* what the last completed call of each thread returned

qVars == <<q, waiting, want, ret>>

Init ==
    /\ q = <<>>
    /\ waiting = [t \in Thread |-> "no"]
    /\ want = [t \in Thread |-> None]
    /\ ret = [t \in Thread |-> None]

Backwards(s) == [i \in 1..Len(s) |-> s[Len(s) + 1 - i]]

Return(t, result) ==
    /\ waiting' = [waiting EXCEPT ![t] = "no"]
    /\ want' = [want EXCEPT ![t] = None]
    /\ ret' = [ret EXCEPT ![t] = result]

Put(t, v) ==
    /\ Len(q) < Size
    /\ waiting[t] = "no" \/ (waiting[t] = "add" /\ want[t] = v)
    /\ q' = Append(q, v)
    /\ Return(t, v)

\* An urgent element is put at the end where elements leave.
PutFirst(t, v) ==
    /\ v \in Urgent
    /\ Len(q) < Size
    /\ waiting[t] = "no"
    /\ q' = <<v>> \o q
    /\ Return(t, v)

Get(t) ==
    /\ q # <<>>
    /\ waiting[t] \in {"no", "remove", "removeTimed"}
    /\ q' = Tail(q)
    /\ Return(t, Head(q))

\* An add is left waiting only when the queue is full, a removal only when it
\* is empty.
WaitToPut(t, v) ==
    /\ Len(q) = Size
    /\ waiting[t] = "no"
    /\ waiting' = [waiting EXCEPT ![t] = "add"]
    /\ want' = [want EXCEPT ![t] = v]
    /\ UNCHANGED <<q, ret>>

WaitToGet(t, how) ==
    /\ q = <<>>
    /\ waiting[t] = "no"
    /\ waiting' = [waiting EXCEPT ![t] = how]
    /\ UNCHANGED <<q, want, ret>>

\* A call fails: an add because the queue is full or its time is up, a removal
\* because the queue is empty or, if it has a deadline, its time is up.
FailToPut(t) ==
    /\ Len(q) = Size \/ waiting[t] = "add"
    /\ waiting[t] \in {"no", "add"}
    /\ Return(t, Failed)
    /\ UNCHANGED q

FailToGet(t) ==
    /\ q = <<>> \/ waiting[t] = "removeTimed"
    /\ waiting[t] \in {"no", "remove", "removeTimed"}
    /\ Return(t, Failed)
    /\ UNCHANGED q

\* The holder of an iterator looks at something; nothing is promised of what.
Look(t) ==
    /\ waiting[t] = "no"
    /\ \E r \in Value \cup {None, Failed} : ret' = [ret EXCEPT ![t] = r]
    /\ UNCHANGED <<q, waiting, want>>

\* An element is replaced; which one is not promised.
Overwrite(t, v) ==
    /\ waiting[t] = "no"
    /\ \E i \in 1..Len(q) : q' = [q EXCEPT ![i] = v]
    /\ ret' = [ret EXCEPT ![t] = v]
    /\ UNCHANGED <<waiting, want>>

\* The queue is turned round, or emptied.
TurnRound == q' = Backwards(q) /\ UNCHANGED <<waiting, want, ret>>
Empty     == q' = <<>> /\ UNCHANGED <<waiting, want, ret>>

Next ==
    \/ \E t \in Thread :
          \/ \E v \in Value : Put(t, v) \/ PutFirst(t, v) \/ WaitToPut(t, v) \/ Overwrite(t, v)
          \/ Get(t)
          \/ \E how \in {"remove", "removeTimed"} : WaitToGet(t, how)
          \/ FailToPut(t) \/ FailToGet(t)
          \/ Look(t)
    \/ TurnRound
    \/ Empty

Spec == Init /\ [][Next]_qVars
=============================================================================

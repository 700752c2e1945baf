--------------------------- MODULE CircularUnblock ---------------------------
(***************************************************************************)
(* A program that retires a ring buffer with unblockAll(): from then on no *)
(* call enters ("the queue is not safe to use after calling this, and      *)
(* should be discarded"), the calls that were blocked only run on.         *)
(***************************************************************************)
EXTENDS SafeCircular

VARIABLES retired,   \* unblockAll() has run
          unblocked  \* the threads that were blocked when it ran

retireVars == <<vars, retired, unblocked>>

Blocked == {t \in Thread : pc[t] # "idle"}

RetireInit == Init /\ retired = FALSE /\ unblocked = {}

Retire(t) ==
    /\ ~retired
    /\ UnblockAll(t)
    /\ retired' = TRUE
    /\ unblocked' = Blocked

RetireNext == \E t \in Thread :
    \/ /\ ~retired \/ pc[t] # "idle"
       /\ QueueStep(t)
       /\ UNCHANGED <<retired, unblocked>>
    \/ Retire(t)

RetireSpec ==
    /\ RetireInit
    /\ [][RetireNext]_retireVars
    /\ \A t \in Thread :
          /\ WF_retireVars(Resume(t) /\ UNCHANGED <<retired, unblocked>>)
          /\ SF_retireVars(TimedOut(t) /\ UNCHANGED <<retired, unblocked>>)

\* Of the removals that were blocked, every one returns.  "Unblocks everything"
\* (tw_circular.h:796) is not true of the adds: releaseAll() wakes them all and gives out
\* one unit, and those that find no slot sleep on.
RemoversReturn ==
    \A t \in Thread : (t \in unblocked /\ pc[t] \in DecrementWaits) ~> pc[t] = "idle"
=============================================================================

------------------------------- MODULE TWSema -------------------------------
(***************************************************************************)
(* TW_Sema (include/TW/tw_sema.h).  acquire() waits for a positive count   *)
(* under the mutex, unlocks, and only then executes cnt--, which is a read *)
(* and a write that nothing orders against the cnt++ and cnt-- of other    *)
(* threads.  BndSafeFIFO composes these steps.                             *)
(***************************************************************************)
EXTENDS Integers, FiniteSets

CONSTANTS Thread, NoThread,
          Size   \* init_count of the constructor

ASSUME TWSemaAssumption ==
    Size \in Nat \ {0} /\ IsFiniteSet(Thread) /\ NoThread \notin Thread

VARIABLES cnt, localMutex,
          gtZeroCond,  \* the threads asleep on gtZeroCond
          pc,          \* where each thread is
          tmp,         \* the value a thread has read for cnt-- or cnt++
          units        \* the units each thread believes it holds

semaVars == <<cnt, localMutex, gtZeroCond, pc, tmp, units>>

SemaInit ==
    /\ cnt = Size
    /\ localMutex = NoThread
    /\ gtZeroCond = {}
    /\ pc = [t \in Thread |-> "idle"]
    /\ tmp = [t \in Thread |-> 0]
    /\ units = [t \in Thread |-> 0]

-----------------------------------------------------------------------------
Free == localMutex = NoThread
Goto(t, label) == pc' = [pc EXCEPT ![t] = label]
Sleep(t, label) ==
    /\ cnt < 1
    /\ gtZeroCond' = gtZeroCond \cup {t}
    /\ Goto(t, label)
    /\ UNCHANGED <<cnt, localMutex, tmp, units>>

\* The loop of acquire(): a positive count lets t out of it, without the mutex
\* and without a decrement.
AcquireLoop(t) ==
    \/ /\ cnt >= 1
       /\ Goto(t, "decrement")
       /\ UNCHANGED <<cnt, localMutex, gtZeroCond, tmp, units>>
    \/ Sleep(t, "wait")

Acquire(t) == pc[t] = "idle" /\ units[t] = 0 /\ Free /\ AcquireLoop(t)
AcquireResume(t) == pc[t] = "wait" /\ t \notin gtZeroCond /\ Free /\ AcquireLoop(t)

\* cnt-- outside the mutex: read, then write.
DecrementRead(t) ==
    /\ pc[t] = "decrement"
    /\ tmp' = [tmp EXCEPT ![t] = cnt]
    /\ Goto(t, "decrementWrite")
    /\ UNCHANGED <<cnt, localMutex, gtZeroCond, units>>

DecrementWrite(t) ==
    /\ pc[t] = "decrementWrite"
    /\ cnt' = tmp[t] - 1
    /\ units' = [units EXCEPT ![t] = 1]
    /\ tmp' = [tmp EXCEPT ![t] = 0]
    /\ Goto(t, "idle")
    /\ UNCHANGED <<localMutex, gtZeroCond>>

-----------------------------------------------------------------------------
\* release(): cnt++ and a signal, with the mutex held from the read to the write.
ReleaseRead(t) ==
    /\ pc[t] = "idle" /\ units[t] > 0 /\ Free
    /\ localMutex' = t
    /\ tmp' = [tmp EXCEPT ![t] = cnt]
    /\ Goto(t, "releaseWrite")
    /\ UNCHANGED <<cnt, gtZeroCond, units>>

\* Mutant of ReleaseWrite: the signal is forgotten.
ReleaseNoSignal(t) ==
    /\ pc[t] = "releaseWrite"
    /\ cnt' = tmp[t] + 1
    /\ units' = [units EXCEPT ![t] = 0]
    /\ tmp' = [tmp EXCEPT ![t] = 0]
    /\ localMutex' = NoThread
    /\ Goto(t, "idle")
    /\ UNCHANGED gtZeroCond

ReleaseWrite(t) ==
    /\ pc[t] = "releaseWrite"
    /\ cnt' = tmp[t] + 1
    /\ gtZeroCond' \in IF tmp[t] + 1 > 0 /\ gtZeroCond # {}
                       THEN {gtZeroCond \ {u} : u \in gtZeroCond} ELSE {gtZeroCond}
    /\ units' = [units EXCEPT ![t] = 0]
    /\ tmp' = [tmp EXCEPT ![t] = 0]
    /\ localMutex' = NoThread
    /\ Goto(t, "idle")

SpuriousWakeup(t) ==
    /\ t \in gtZeroCond
    /\ gtZeroCond' = gtZeroCond \ {t}
    /\ UNCHANGED <<cnt, localMutex, pc, tmp, units>>
=============================================================================

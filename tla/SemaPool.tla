------------------------------ MODULE SemaPool ------------------------------
(***************************************************************************)
(* TW_SemaTwoWay used by itself: threads share Size units, a thread        *)
(* acquires a unit in any of the ways the class offers and gives back only *)
(* what it acquired, other threads wait for acquirers.  Calls named        *)
(* ...KeepLock return with the mutex held; its holder may then use the     *)
(* ...WithoutLock calls and lets go with releaseSemaLock().                *)
(***************************************************************************)
EXTENDS TwoWaySema

VARIABLES keepLock,  \* the blocked call of each thread returns with the mutex
          units,     \* the units each thread has acquired and not given back
          result     \* the result of the last completed call of each thread

poolVars == <<semaVars, keepLock, units, result>>

PoolInit ==
    /\ SemaInit
    /\ keepLock = [t \in Thread |-> FALSE]
    /\ units = [t \in Thread |-> 0]
    /\ result = [t \in Thread |-> "none"]

\* The call of t returns r, with the mutex when k says so.
Return(t, r, k) ==
    /\ pc' = [pc EXCEPT ![t] = "idle"]
    /\ keepLock' = [keepLock EXCEPT ![t] = FALSE]
    /\ result' = [result EXCEPT ![t] = r]
    /\ localMutex' = IF k THEN t ELSE NoThread

Block(t, how, k) ==
    /\ pc' = [pc EXCEPT ![t] = how]
    /\ keepLock' = [keepLock EXCEPT ![t] = k]
    /\ UNCHANGED <<localMutex, units, result>>

-----------------------------------------------------------------------------
\* The count is positive: take a unit.
TakeUnit(t, k) ==
    /\ Acquired
    /\ units' = [units EXCEPT ![t] = @ + 1]
    /\ Return(t, "ok", k)

\* acquire and acquireAndKeepLock, without and with a deadline.  A thread asks
\* for one unit at a time.
Acquire(t, how, k) ==
    /\ Enter(t) /\ units[t] = 0
    /\ TakeUnit(t, k) \/ (SleepOnGtZero(t) /\ Block(t, how, k))

AcquireResume(t) ==
    /\ BackFromGtZero(t)
    /\ TakeUnit(t, keepLock[t]) \/ (SleepOnGtZero(t) /\ Block(t, pc[t], keepLock[t]))

\* Mutant of AcquireTimedOut: a unit that has become free is taken, and the
\* caller is told that it has none.
TakeAndReportTimeOut(t) ==
    /\ pc[t] = "gtZeroTimedOut" /\ Free
    /\ cnt' = IF cnt >= 1 THEN cnt - 1 ELSE cnt
    /\ Return(t, "timeout", keepLock[t])
    /\ UNCHANGED <<gtZeroCond, decrementCond, units>>

\* A timed-out acquire returns the error and takes nothing.
AcquireTimedOut(t) ==
    /\ pc[t] = "gtZeroTimedOut" /\ Free
    /\ Return(t, "timeout", keepLock[t])
    /\ UNCHANGED <<cnt, gtZeroCond, decrementCond, units>>

\* acquireAndKeepLockNoBlock keeps the mutex whether or not it got a unit.
AcquireNoBlock(t) ==
    /\ Enter(t) /\ units[t] = 0
    /\ \/ TakeUnit(t, TRUE)
       \/ /\ cnt < 1
          /\ Return(t, "failed", TRUE)
          /\ UNCHANGED <<cnt, gtZeroCond, decrementCond, units>>

-----------------------------------------------------------------------------
\* release and releaseAndKeepLock.
Release(t, k) ==
    /\ Enter(t) /\ units[t] > 0
    /\ Released
    /\ units' = [units EXCEPT ![t] = @ - 1]
    /\ Return(t, "ok", k)

\* releaseWithoutLock, by the thread that holds the mutex.
ReleaseWithoutLock(t) ==
    /\ localMutex = t /\ units[t] > 0
    /\ Released
    /\ units' = [units EXCEPT ![t] = @ - 1]
    /\ UNCHANGED <<localMutex, pc, keepLock, result>>

LockSemaOnly(t) ==
    /\ Enter(t)
    /\ localMutex' = t
    /\ UNCHANGED <<cnt, gtZeroCond, decrementCond, pc, keepLock, units, result>>

ReleaseSemaLock(t) ==
    /\ localMutex = t
    /\ localMutex' = NoThread
    /\ UNCHANGED <<cnt, gtZeroCond, decrementCond, pc, keepLock, units, result>>

\* releaseAllAcquireLocks.
ReleaseAllAcquireLocks(t) ==
    /\ Enter(t)
    /\ ReleasedAllAcquireLocks
    /\ UNCHANGED <<localMutex, pc, keepLock, units, result>>

-----------------------------------------------------------------------------
\* waitForAcquirers and waitForAcquirersKeepLock: one wait when nobody holds a
\* unit, none otherwise.
WaitForAcquirers(t, how, k) ==
    /\ Enter(t)
    /\ \/ SleepOnDecrement(t) /\ Block(t, how, k)
       \/ /\ cnt < Size
          /\ Return(t, "ok", k)
          /\ UNCHANGED <<cnt, gtZeroCond, decrementCond, units>>

WaitResume(t) ==
    /\ BackFromDecrement(t)
    /\ Return(t, IF cnt >= Size THEN "failed" ELSE "ok", keepLock[t])
    /\ UNCHANGED <<cnt, gtZeroCond, decrementCond, units>>

\* A timed-out wait also looks at the count, and reports -1 for a full one.
WaitTimedOut(t) ==
    /\ pc[t] = "decrementTimedOut" /\ Free
    /\ Return(t, IF cnt >= Size THEN "failed" ELSE "timeout", keepLock[t])
    /\ UNCHANGED <<cnt, gtZeroCond, decrementCond, units>>

\* The condition variables' own steps.
PoolCond(t) == (SpuriousWakeup(t) \/ TimeOut(t)) /\ UNCHANGED <<keepLock, units, result>>

PoolResume(t) ==
    AcquireResume(t) \/ AcquireTimedOut(t) \/ WaitResume(t) \/ WaitTimedOut(t)

PoolNext == \E t \in Thread :
    \/ \E k \in BOOLEAN :
          \/ \E how \in GtZeroWaits : Acquire(t, how, k)
          \/ \E how \in {"decrement", IF k THEN "decrementAbstime" ELSE "decrementTimed"} :
                WaitForAcquirers(t, how, k)
          \/ Release(t, k)
    \/ AcquireNoBlock(t) \/ ReleaseWithoutLock(t)
    \/ LockSemaOnly(t) \/ ReleaseSemaLock(t) \/ ReleaseAllAcquireLocks(t)
    \/ PoolResume(t)
    \/ PoolCond(t)

PoolSpec == PoolInit /\ [][PoolNext]_poolVars

-----------------------------------------------------------------------------
\* The type of the pool's state.
PoolTypeOK ==
    /\ SemaTypeOK
    /\ keepLock \in [Thread -> BOOLEAN]
    /\ units \in [Thread -> 0..1]
    /\ result \in [Thread -> {"none", "ok", "timeout", "failed"}]

Holders == {t \in Thread : units[t] > 0}

\* No unit is lost or made up: what threads hold and what the semaphore still
\* has add up to Size, whichever calls timed out, were woken for nothing or
\* found their unit taken by somebody faster.
UnitsConserved == cnt + Cardinality(Holders) = Size

\* What the semaphore promises to threads that use it in any mixture of calls: the
\* units add up, and no wakeup for a unit is lost.
PoolKept == PoolTypeOK /\ UnitsConserved /\ NoLostRelease
=============================================================================

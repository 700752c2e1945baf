----------------------------- MODULE TwoWaySema -----------------------------
(***************************************************************************)
(* The state of TW_SemaTwoWay (include/TW/tw_sema2.h) and the building     *)
(* blocks of its operations.  A mutex protects the count; threads sleep on *)
(* gtZeroCond until the count is positive and on decrementCond until       *)
(* somebody decrements it.                                                 *)
(*                                                                         *)
(* A critical section that neither waits nor returns with the mutex held   *)
(* is one action, guarded by the mutex being free.  A thread inside a      *)
(* blocking call is asleep while it is in the wait set of its condition    *)
(* variable; once it has left the set it has been signalled (or woke up    *)
(* spuriously) and competes for the mutex.                                 *)
(***************************************************************************)
EXTENDS Integers, FiniteSets

CONSTANTS Thread,    \* the threads that share the semaphore
          Size,      \* init_count of the constructor
          NoThread   \* the owner of a free mutex

ASSUME SemaAssumption ==
    /\ Size \in Nat \ {0}
    /\ IsFiniteSet(Thread)
    /\ NoThread \notin Thread

VARIABLES cnt,            \* the count
          localMutex,     \* the owner of localMutex, or NoThread
          gtZeroCond,     \* the threads asleep on gtZeroCond
          decrementCond,  \* the threads asleep on decrementCond
          pc              \* the blocking point each thread is at

semaVars == <<cnt, localMutex, gtZeroCond, decrementCond, pc>>

\* Where a thread can be: outside the class, or in a pthread_cond_wait or
\* pthread_cond_timedwait on one of the two condition variables, or on its way
\* out of a pthread_cond_timedwait that timed out.  "decrementAbstime" is the
\* wait of waitForAcquirersKeepLock(abstime): it is given a deadline but calls
\* pthread_cond_wait, so TimeOut does not apply to it.
GtZeroWaits    == {"gtZero", "gtZeroTimed"}
DecrementWaits == {"decrement", "decrementTimed", "decrementAbstime"}
TimedOuts      == {"gtZeroTimedOut", "decrementTimedOut"}
PC             == {"idle"} \cup GtZeroWaits \cup DecrementWaits \cup TimedOuts

SemaInit ==
    /\ cnt = Size
    /\ localMutex = NoThread
    /\ gtZeroCond = {}
    /\ decrementCond = {}
    /\ pc = [t \in Thread |-> "idle"]

-----------------------------------------------------------------------------
\* pthread_mutex_lock can be granted.
Free == localMutex = NoThread

\* A thread outside the class enters a call and is granted the mutex.
Enter(t) == pc[t] = "idle" /\ Free

\* pthread_cond_signal: one of the sleepers, if there is one, leaves the set.
Signal(sleepers) == IF sleepers = {} THEN {{}}
                                     ELSE {sleepers \ {u} : u \in sleepers}

\* pthread_cond_broadcast: every sleeper leaves the set.
Broadcast(sleepers) == {{}}

\* A thread back from its wait with the mutex; t was signalled or woke up
\* spuriously.
BackFromGtZero(t)    == pc[t] \in GtZeroWaits /\ t \notin gtZeroCond /\ Free
BackFromDecrement(t) == pc[t] \in DecrementWaits /\ t \notin decrementCond /\ Free

\* The threads that left a wait set and have not run since.
WokenAcquirers == {t \in Thread : pc[t] \in GtZeroWaits} \ gtZeroCond
WokenWaiters   == {t \in Thread : pc[t] \in DecrementWaits} \ decrementCond

\* Mutant of Acquired: the signal is forgotten.
AcquiredNoSignal ==
    /\ cnt >= 1
    /\ cnt' = cnt - 1
    /\ UNCHANGED <<gtZeroCond, decrementCond>>

\* Mutant of Acquired: the wrong condition variable is signalled.
AcquiredWrongSignal ==
    /\ cnt >= 1
    /\ cnt' = cnt - 1
    /\ gtZeroCond' \in Signal(gtZeroCond)
    /\ UNCHANGED decrementCond

\* The end of every acquire once the count is positive: cnt--, signal
\* decrementCond.
Acquired ==
    /\ cnt >= 1
    /\ cnt' = cnt - 1
    /\ decrementCond' \in Signal(decrementCond)
    /\ UNCHANGED gtZeroCond

\* The loop of every blocking acquire: cnt < 1, so wait on gtZeroCond.
SleepOnGtZero(t) ==
    /\ cnt < 1
    /\ gtZeroCond' = gtZeroCond \cup {t}
    /\ UNCHANGED <<cnt, decrementCond>>

\* Mutant of Released: the signal is forgotten.
ReleasedNoSignal ==
    /\ cnt' = cnt + 1
    /\ UNCHANGED <<gtZeroCond, decrementCond>>

\* releaseWithoutLock, and release between lock and unlock: cnt++, signal
\* gtZeroCond.
Released ==
    /\ cnt' = cnt + 1
    /\ gtZeroCond' \in IF cnt + 1 > 0 THEN Signal(gtZeroCond) ELSE {gtZeroCond}
    /\ UNCHANGED decrementCond

\* waitForAcquirers*: nobody has acquired, so wait, once, on decrementCond.
SleepOnDecrement(t) ==
    /\ cnt >= Size
    /\ decrementCond' = decrementCond \cup {t}
    /\ UNCHANGED <<cnt, gtZeroCond>>

\* resetNoLock: the count goes back to its maximum and nobody is signalled.
ResetNoLock ==
    /\ cnt' = Size
    /\ UNCHANGED <<gtZeroCond, decrementCond>>

\* releaseAllAcquireLocks: broadcast decrementCond.
ReleasedAllAcquireLocks ==
    /\ decrementCond' \in Broadcast(decrementCond)
    /\ UNCHANGED <<cnt, gtZeroCond>>

\* Mutant of ReleasedAll: only one of the two condition variables is broadcast.
ReleasedAllGtZero ==
    /\ cnt' = cnt + 1
    /\ gtZeroCond' \in Broadcast(gtZeroCond)
    /\ UNCHANGED decrementCond

\* releaseAll: cnt++ once, then broadcast both.
ReleasedAll ==
    /\ cnt' = cnt + 1
    /\ decrementCond' \in Broadcast(decrementCond)
    /\ gtZeroCond' \in Broadcast(gtZeroCond)

-----------------------------------------------------------------------------
\* A sleeper wakes up although nobody signalled it, as POSIX allows.
SpuriousWakeup(t) ==
    /\ \/ /\ t \in gtZeroCond
          /\ gtZeroCond' = gtZeroCond \ {t}
          /\ UNCHANGED decrementCond
       \/ /\ t \in decrementCond
          /\ decrementCond' = decrementCond \ {t}
          /\ UNCHANGED gtZeroCond
    /\ UNCHANGED <<cnt, localMutex, pc>>

\* The deadline of a pthread_cond_timedwait passes while t sleeps: t leaves the
\* wait set and will report ETIMEDOUT.  It takes no signal with it: glibc sees to
\* that, POSIX does not promise it.
TimeOut(t) ==
    /\ \/ /\ pc[t] = "gtZeroTimed" /\ t \in gtZeroCond
          /\ gtZeroCond' = gtZeroCond \ {t}
          /\ pc' = [pc EXCEPT ![t] = "gtZeroTimedOut"]
          /\ UNCHANGED decrementCond
       \/ /\ pc[t] = "decrementTimed" /\ t \in decrementCond
          /\ decrementCond' = decrementCond \ {t}
          /\ pc' = [pc EXCEPT ![t] = "decrementTimedOut"]
          /\ UNCHANGED gtZeroCond
    /\ UNCHANGED <<cnt, localMutex>>

-----------------------------------------------------------------------------
\* The type of the semaphore's state: a sleeper is in the wait set of the
\* condition variable its blocking point names.
SemaTypeOK ==
    /\ cnt \in Nat
    /\ localMutex \in Thread \cup {NoThread}
    /\ pc \in [Thread -> PC]
    /\ gtZeroCond \subseteq {t \in Thread : pc[t] \in GtZeroWaits}
    /\ decrementCond \subseteq {t \in Thread : pc[t] \in DecrementWaits}

\* No wakeup for an acquirer is lost: while an acquirer sleeps on gtZeroCond,
\* every unit of the count is spoken for by an acquirer that has been woken and
\* has not run yet ("Waits until the semaphore is positive, then decrements").
NoLostRelease == gtZeroCond # {} => cnt <= Cardinality(WokenAcquirers)
=============================================================================

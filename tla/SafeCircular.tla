---------------------------- MODULE SafeCircular ----------------------------
(***************************************************************************)
(* tw_safeCircular (include/TW/tw_circular.h): a bounded ring buffer whose *)
(* count of free slots is a TW_SemaTwoWay.  Every operation except         *)
(* reverse() runs under the semaphore's mutex; the iterator keeps it       *)
(* between getIter() and release().                                        *)
(*                                                                         *)
(* The copying and the moving form of an operation differ only in how the  *)
(* element is assigned and are one action.                                 *)
(***************************************************************************)
EXTENDS TwoWaySema, Sequences

CONSTANTS Value,   \* the elements
          None,    \* no element: an untouched slot, no pending argument
          Failed   \* the result of a call that returned false

ASSUME CircularAssumption ==
    /\ None \notin Value
    /\ Failed \notin Value
    /\ None # Failed

VARIABLES nextIn,    \* slot of the newest element, -1 after a reset
          nextOut,   \* slot of the oldest element
          reversed,  \* _reverse: the ring runs downwards
          data,      \* the slots 0 .. Size-1
          enabled,   \* set by enable(), disable(), clear()
          arg,       \* the element a blocked add() was called with
          ret,       \* what the last completed call of each thread returned
          iter       \* the iterator that holds the mutex: its n, p and valid

ringVars == <<nextIn, nextOut, reversed, data>>
userVars == <<arg, ret>>
vars == <<semaVars, ringVars, enabled, userVars, iter>>

NoIter == [n |-> 0, p |-> 0, valid |-> FALSE]

Init ==
    /\ SemaInit
    /\ nextIn = -1
    /\ nextOut = 0
    /\ reversed = FALSE
    /\ data = [s \in 0..(Size - 1) |-> None]
    /\ enabled = TRUE
    /\ arg = [t \in Thread |-> None]
    /\ ret = [t \in Thread |-> None]
    /\ iter = NoIter

-----------------------------------------------------------------------------
\* The slot after slot s in the direction the ring runs.
Following(s) == IF reversed THEN IF s - 1 < 0 THEN Size - 1 ELSE s - 1
                            ELSE IF s + 1 >= Size THEN 0 ELSE s + 1

NextNextIn  == Following(nextIn)
NextNextOut == Following(nextOut)

\* remain(): the number of elements in the ring.
Remain == Size - cnt

\* Mutant of ResetRing: _reverse is not put back.
ResetKeepsDirection ==
    /\ nextIn' = -1
    /\ nextOut' = 0
    /\ UNCHANGED reversed

\* The ring is put back to how the constructor left it.
ResetRing ==
    /\ nextIn' = -1
    /\ nextOut' = 0
    /\ reversed' = FALSE

Return(t, result) ==
    /\ pc' = [pc EXCEPT ![t] = "idle"]
    /\ arg' = [arg EXCEPT ![t] = None]
    /\ ret' = [ret EXCEPT ![t] = result]

\* A call that returns false and changes nothing else.
ReturnFalse(t) ==
    /\ Return(t, Failed)
    /\ UNCHANGED <<cnt, localMutex, gtZeroCond, decrementCond, ringVars, enabled, iter>>

-----------------------------------------------------------------------------
\* The body of every add once acquireAndKeepLock has a slot: store v in the
\* following slot.
Put(t, v) ==
    /\ Acquired
    /\ nextIn' = NextNextIn
    /\ data' = [data EXCEPT ![NextNextIn] = v]
    /\ Return(t, v)
    /\ UNCHANGED <<localMutex, nextOut, reversed, enabled, iter>>

\* No slot: sleep on gtZeroCond, at blocking point `how`.
AwaitSlot(t, v, how) ==
    /\ SleepOnGtZero(t)
    /\ pc' = [pc EXCEPT ![t] = how]
    /\ arg' = [arg EXCEPT ![t] = v]
    /\ UNCHANGED <<localMutex, ringVars, enabled, ret, iter>>

\* add(d) and addMv(d).
Add(t, v) == Enter(t) /\ (Put(t, v) \/ AwaitSlot(t, v, "gtZero"))

\* add(d, usec_wait) and addMv(d, usec_wait).
AddTimed(t, v) == Enter(t) /\ (Put(t, v) \/ AwaitSlot(t, v, "gtZeroTimed"))

\* A woken adder tests the count again, and sleeps again when there is no slot.
AddResume(t) == BackFromGtZero(t) /\ (Put(t, arg[t]) \/ AwaitSlot(t, arg[t], pc[t]))

\* Mutant of AddTimedOut: a wait that timed out is begun again.
AddWaitsAgain(t) ==
    /\ pc[t] = "gtZeroTimedOut" /\ Free
    /\ Put(t, arg[t]) \/ AwaitSlot(t, arg[t], "gtZeroTimed")

\* A timed adder whose wait timed out returns false without testing the count.
AddTimedOut(t) == pc[t] = "gtZeroTimedOut" /\ Free /\ ReturnFalse(t)

\* addIfRoom(d) and addMvIfRoom(d) never wait.
AddIfRoom(t, v) == Enter(t) /\ (Put(t, v) \/ (cnt < 1 /\ ReturnFalse(t)))

-----------------------------------------------------------------------------
\* The branch of every removal that finds an element: free its slot, and put
\* the ring back to its start when that was the last element.
Take(t) ==
    /\ Remain > 0
    /\ Released
    /\ Return(t, data[nextOut])
    /\ IF Remain = 1 THEN ResetRing
                     ELSE nextOut' = NextNextOut /\ UNCHANGED <<nextIn, reversed>>
    /\ UNCHANGED <<localMutex, data, enabled, iter>>

\* remove(fill) and removeMv(fill).
Remove(t) == Enter(t) /\ (Take(t) \/ (Remain <= 0 /\ ReturnFalse(t)))

\* The other branch of a blocking removal: waitForAcquirersKeepLock.
AwaitElement(t, how) ==
    /\ Remain <= 0
    /\ SleepOnDecrement(t)
    /\ pc' = [pc EXCEPT ![t] = how]
    /\ UNCHANGED <<localMutex, ringVars, enabled, userVars, iter>>

\* removeOrBlock(fill) and removeMvOrBlock(fill).
RemoveOrBlock(t) == Enter(t) /\ (Take(t) \/ AwaitElement(t, "decrement"))

\* removeOrBlock(fill, usec_wait) and removeMvOrBlock(fill, usec_wait).
RemoveOrBlockTimed(t) == Enter(t) /\ (Take(t) \/ AwaitElement(t, "decrementAbstime"))

\* Mutant of RemoveResume: a woken removal gives up without looking.
RemoveGivesUp(t) == BackFromDecrement(t) /\ ReturnFalse(t)

\* A woken removal looks once.  It does not put the ring back to its start when
\* it takes the last element: its test of remain() precedes the release of the
\* slot, so the test never succeeds here.
RemoveResume(t) ==
    /\ BackFromDecrement(t)
    /\ \/ /\ cnt < Size
          /\ Return(t, data[nextOut])
          /\ nextOut' = NextNextOut
          /\ Released
          /\ UNCHANGED <<localMutex, nextIn, reversed, data, enabled, iter>>
       \/ /\ cnt >= Size
          /\ ReturnFalse(t)

-----------------------------------------------------------------------------
\* getIter(): lock, start at nextOut.
GetIter(t) ==
    /\ Enter(t)
    /\ localMutex' = t
    /\ iter' = [n |-> 0, p |-> nextOut, valid |-> Remain > 0]
    /\ UNCHANGED <<cnt, gtZeroCond, decrementCond, pc, ringVars, enabled, userVars>>

\* Mutant of IterNext: it wraps one slot too late.
IterNextLateWrap(t) ==
    /\ localMutex = t
    /\ iter.n < Remain
    /\ iter' = IF iter.n + 1 < Remain
               THEN [iter EXCEPT !.n = @ + 1, !.p = IF @ + 1 > Size THEN 0 ELSE @ + 1]
               ELSE [iter EXCEPT !.n = @ + 1, !.valid = FALSE]
    /\ UNCHANGED <<semaVars, ringVars, enabled, userVars>>

\* iter::next().  Calls after the end only count n up; n stops at Remain here.
IterNext(t) ==
    /\ localMutex = t
    /\ iter.n < Remain
    /\ iter' = IF iter.n + 1 < Remain
               THEN [iter EXCEPT !.n = @ + 1, !.p = IF @ + 1 >= Size THEN 0 ELSE @ + 1]
               ELSE [iter EXCEPT !.n = @ + 1, !.valid = FALSE]
    /\ UNCHANGED <<semaVars, ringVars, enabled, userVars>>

\* iter::data(d), whose guard is also that of atEnd().
IterData(t) ==
    /\ localMutex = t
    /\ ret' = [ret EXCEPT ![t] = IF iter.valid /\ iter.n < Remain THEN data[iter.p] ELSE Failed]
    /\ UNCHANGED <<semaVars, ringVars, enabled, arg, iter>>

\* iter::release(): unlock.
IterRelease(t) ==
    /\ localMutex = t
    /\ localMutex' = NoThread
    /\ iter' = NoIter
    /\ UNCHANGED <<cnt, gtZeroCond, decrementCond, pc, ringVars, enabled, userVars>>

-----------------------------------------------------------------------------
\* enable() and disable().
SetEnabled(t, b) ==
    /\ Enter(t)
    /\ enabled' = b
    /\ UNCHANGED <<semaVars, ringVars, userVars, iter>>

\* Mutant of Reverse: an empty ring is reversed too.
ReverseEmpty(t) ==
    /\ Enter(t)
    /\ reversed' = ~reversed
    /\ nextOut' = nextIn
    /\ nextIn' = nextOut
    /\ UNCHANGED <<semaVars, data, enabled, userVars, iter>>

\* reverse() takes no lock, so its caller has to keep other calls out while it
\* runs; here it runs alone, as the tests use it.
Reverse(t) ==
    /\ Enter(t)
    /\ Remain >= 1
    /\ reversed' = ~reversed
    /\ nextOut' = nextIn
    /\ nextIn' = nextOut
    /\ UNCHANGED <<semaVars, data, enabled, userVars, iter>>

\* unblockAllRemovers().
UnblockAllRemovers(t) ==
    /\ Enter(t)
    /\ ReleasedAllAcquireLocks
    /\ UNCHANGED <<localMutex, pc, ringVars, enabled, userVars, iter>>

\* clear(): the slots hold default-constructed elements afterwards, or keep
\* their old ones when the ring was not told to construct objects.
Clear(t) ==
    /\ Enter(t)
    /\ ResetRing
    /\ enabled' = TRUE
    /\ ResetNoLock
    /\ data' \in {data, [s \in 0..(Size - 1) |-> None]}
    /\ UNCHANGED <<localMutex, pc, userVars, iter>>

\* unblockAll().  "The queue is not safe to use after calling this."
UnblockAll(t) ==
    /\ Enter(t)
    /\ ReleasedAll
    /\ UNCHANGED <<localMutex, pc, ringVars, enabled, userVars, iter>>

-----------------------------------------------------------------------------
\* The condition variables' own steps.
Spurious(t) == SpuriousWakeup(t) /\ UNCHANGED <<ringVars, enabled, userVars, iter>>
TimedOut(t) == TimeOut(t) /\ UNCHANGED <<ringVars, enabled, userVars, iter>>

\* A call that was blocked goes on.
Resume(t) == AddResume(t) \/ AddTimedOut(t) \/ RemoveResume(t)

\* Adding and removing.
QueueStep(t) ==
    \/ \E v \in Value : Add(t, v) \/ AddTimed(t, v) \/ AddIfRoom(t, v)
    \/ Remove(t) \/ RemoveOrBlock(t) \/ RemoveOrBlockTimed(t)
    \/ Resume(t)
    \/ Spurious(t) \/ TimedOut(t)

IterStep(t) == GetIter(t) \/ IterNext(t) \/ IterData(t) \/ IterRelease(t)

\* Every call but clear(), which frees all slots and signals nobody: NoLostRelease and
\* SlotReachesAdder do not hold with it.  CircularArray has the calls with clear().
Next == \E t \in Thread :
    \/ QueueStep(t)
    \/ IterStep(t)
    \/ \E b \in BOOLEAN : SetEnabled(t, b)
    \/ Reverse(t)
    \/ UnblockAllRemovers(t)

Spec == Init /\ [][Next]_vars

\* A thread that was woken, or whose wait timed out, gets the mutex and goes on:
\* no call keeps it, so the step stays enabled.  A deadline that has passed ends
\* the next timed wait of the call as well, however often the call was woken in
\* between, hence strong fairness of TimeOut.
Fairness == \A t \in Thread :
    /\ WF_vars(Resume(t))
    /\ SF_vars(TimedOut(t))

FairSpec == Init /\ [][\E t \in Thread : QueueStep(t)]_vars /\ Fairness

-----------------------------------------------------------------------------
\* The slot of the i-th element (from 0), counted from nextOut.
Slot(i) == IF reversed
           THEN IF nextOut - i < 0 THEN nextOut - i + Size ELSE nextOut - i
           ELSE IF nextOut + i >= Size THEN nextOut + i - Size ELSE nextOut + i

\* The elements in the order in which they will leave.
Contents == [i \in 1..Remain |-> data[Slot(i - 1)]]

\* The ring has Size slots, of which at most Size are free.
RingTypeOK ==
    /\ cnt \in 0..Size
    /\ nextIn \in -1..(Size - 1)
    /\ nextOut \in 0..(Size - 1)
    /\ reversed \in BOOLEAN
    /\ data \in [0..(Size - 1) -> Value \cup {None}]

UserTypeOK ==
    /\ enabled \in BOOLEAN
    /\ arg \in [Thread -> Value \cup {None}]
    /\ ret \in [Thread -> Value \cup {None, Failed}]
    /\ iter \in [n : 0..Size, p : 0..(Size - 1), valid : BOOLEAN]

\* The type invariant.
TypeOK == SemaTypeOK /\ RingTypeOK /\ UserTypeOK

\* "nextIn is always ahead of nextOut. circular" (line 183): the slot the next
\* add() will use is the one Remain slots after nextOut, in both directions of
\* the ring and through every wrap-around, reset and blocked removal.
RingConsistent ==
    /\ Slot(Remain) = NextNextIn
    /\ nextIn = -1 => cnt = Size /\ ~reversed

\* No wakeup for a blocked removal is lost: while one sleeps on decrementCond,
\* every element is spoken for by a removal that was woken and has not run yet.
NoLostAcquire == decrementCond # {} => Remain <= Cardinality(WokenWaiters)

\* Adders and removers never sleep at the same time with nobody left to wake
\* them: add() sleeps on a full ring, removeOrBlock() on an empty one.
NotAllAsleep ==
    (gtZeroCond # {} /\ decrementCond # {})
        => (WokenAcquirers # {} \/ WokenWaiters # {})

\* An element that is there while a removal sleeps does not stay there: a
\* removal takes it, or every sleeping removal is woken.
ElementReachesRemover ==
    (decrementCond # {} /\ Remain > 0) ~> (decrementCond = {} \/ Remain = 0)

\* A slot that is free while an add sleeps is used, or every sleeping add woken.
SlotReachesAdder == (gtZeroCond # {} /\ cnt > 0) ~> (gtZeroCond = {} \/ cnt = 0)

\* add(d, usec_wait) returns, whatever the other threads do.
TimedAddReturns == \A t \in Thread : pc[t] = "gtZeroTimed" ~> pc[t] = "idle"

\* removeOrBlock(fill, usec_wait) returns.  tw_circular.h expects its wait to end
\* with "waitForAcquirers timeout or error" (line 685); the wait it calls has no
\* deadline.
TimedRemoveReturns == \A t \in Thread : pc[t] = "decrementAbstime" ~> pc[t] = "idle"

\* While the ring runs upwards an iterator is at the element it says it is at,
\* wherever the ring starts.  (next() goes upwards in a reversed ring too, and
\* there leaves the elements.)
IterInOrder ==
    (~Free /\ iter.valid /\ ~reversed) => iter.p = Slot(iter.n)
=============================================================================

------------------------------ MODULE SafeFIFO ------------------------------
(***************************************************************************)
(* tw_safeFIFO (include/TW/tw_fifo.h), and tw_safeFIFOmv, which is the same *)
(* code with moving assignments: a singly linked list with its two end     *)
(* pointers, one mutex, and one condition variable for the calls that wait *)
(* for data.                                                               *)
(*                                                                         *)
(* add() links the element in one critical section and signals in a        *)
(* second one, unblock(), so another thread can come in between.           *)
(***************************************************************************)
EXTENDS Integers, FiniteSets

CONSTANTS Thread, NoThread,
          Link,         \* the list links malloc() can hand out
          Null,         \* the null pointer
          Value,
          Urgent,       \* the elements that callers use addToHead() for
          None,         \* a default-constructed element, or no result
          Failed,       \* the result of a call that returned false
          MaxBlockCnt   \* bound of this model on _block_cnt

ASSUME FIFOAssumption ==
    /\ IsFiniteSet(Thread) /\ NoThread \notin Thread
    /\ IsFiniteSet(Link) /\ Null \notin Link
    /\ None \notin Value /\ Failed \notin Value /\ None # Failed
    /\ Urgent \subseteq Value
    /\ MaxBlockCnt \in Nat

VARIABLES in,           \* tail link: add from this end
          out,          \* head link: remove from this end
          next,         \* the next field of each link
          d,            \* the d field of each link
          remain,
          enabled,
          blockCnt,     \* _block_cnt
          dataMutex,
          newdataCond,  \* the threads asleep on newdataCond
          pc,           \* where each thread is
          look,         \* the look field of each thread's iterator
          ret           \* what the last completed call of each thread returned

listVars == <<in, out, next, d, remain>>
syncVars == <<blockCnt, dataMutex, newdataCond>>
vars == <<listVars, enabled, syncVars, pc, look, ret>>

Init ==
    /\ in = Null /\ out = Null
    /\ next = [l \in Link |-> Null]
    /\ d = [l \in Link |-> None]
    /\ remain = 0
    /\ enabled = TRUE
    /\ blockCnt = 0
    /\ dataMutex = NoThread
    /\ newdataCond = {}
    /\ pc = [t \in Thread |-> "idle"]
    /\ look = [t \in Thread |-> Null]
    /\ ret = [t \in Thread |-> None]

-----------------------------------------------------------------------------
Free == dataMutex = NoThread
Enter(t) == pc[t] = "idle" /\ Free

RemoveWaits == {"remove", "removeTimed"}
PeekWaits   == {"peek", "peekTimed"}

\* The links reached from out, following next: LinkAt[k] is the k-th of them.
LinkAt[k \in 0..Cardinality(Link)] ==
    IF k = 0 THEN out
    ELSE IF LinkAt[k - 1] = Null THEN Null ELSE next[LinkAt[k - 1]]
InList == {LinkAt[k] : k \in 0..Cardinality(Link)} \ {Null}

Goto(t, label) == pc' = [pc EXCEPT ![t] = label]
Return(t, r) == Goto(t, "idle") /\ ret' = [ret EXCEPT ![t] = r]

-----------------------------------------------------------------------------
\* Mutant of LinkAtTail: the link goes to the other end.
LinkAtWrongEnd(l, v) ==
    /\ next' = [next EXCEPT ![l] = out]
    /\ d' = [d EXCEPT ![l] = v]
    /\ out' = l
    /\ in' = IF in = Null THEN l ELSE in
    /\ remain' = remain + 1

\* add(d) under the mutex: link l becomes the tail.
LinkAtTail(l, v) ==
    /\ next' = [x \in Link |-> IF x = l THEN Null ELSE IF x = in THEN l ELSE next[x]]
    /\ d' = [d EXCEPT ![l] = v]
    /\ in' = l
    /\ out' = IF out = Null THEN l ELSE out
    /\ remain' = remain + 1

\* addToHead(d) under the mutex: link l becomes the head.
LinkAtHead(l, v) ==
    /\ next' = [next EXCEPT ![l] = out]
    /\ d' = [d EXCEPT ![l] = v]
    /\ out' = l
    /\ in' = IF in = Null THEN l ELSE in
    /\ remain' = remain + 1

\* An add that is not enabled links nothing; it still goes on to unblock().
Refuse(t) ==
    /\ ~enabled
    /\ UNCHANGED <<listVars, ret>>

\* Mutant of Add: nobody is told of the new element.
AddNoUnblock(t, v) ==
    /\ Enter(t) /\ enabled
    /\ \E l \in Link \ InList : LinkAtTail(l, v)
    /\ Return(t, v)
    /\ UNCHANGED <<enabled, syncVars, look>>

\* The first critical section of add, addToHead and addEmpty.  The second is
\* Unblock.
Add(t, v) ==
    /\ Enter(t)
    /\ \/ /\ enabled
          /\ \E l \in Link \ InList : LinkAtTail(l, v)
          /\ ret' = [ret EXCEPT ![t] = v]
       \/ Refuse(t)
    /\ Goto(t, "unblock")
    /\ UNCHANGED <<enabled, syncVars, look>>

AddToHead(t, v) ==
    /\ Enter(t)
    /\ \/ /\ enabled
          /\ \E l \in Link \ InList : LinkAtHead(l, v)
          /\ ret' = [ret EXCEPT ![t] = v]
       \/ Refuse(t)
    /\ Goto(t, "unblock")
    /\ UNCHANGED <<enabled, syncVars, look>>

\* unblock(): as the end of an add, or called by itself.
Unblock(t) ==
    /\ pc[t] \in {"idle", "unblock"} /\ Free
    /\ \/ /\ blockCnt > 0
          /\ newdataCond' \in IF newdataCond = {} THEN {{}}
                              ELSE {newdataCond \ {u} : u \in newdataCond}
          /\ blockCnt' = blockCnt - 1
       \/ /\ blockCnt <= 0
          /\ UNCHANGED <<newdataCond, blockCnt>>
    /\ Goto(t, "idle")
    /\ UNCHANGED <<listVars, enabled, dataMutex, look, ret>>

\* unblockAll(): as the end of clearAll, or called by itself.
UnblockAll(t) ==
    /\ pc[t] \in {"idle", "unblockAll"} /\ Free
    /\ \/ /\ blockCnt > 0
          /\ newdataCond' = {}
          /\ blockCnt' = 0
       \/ /\ blockCnt <= 0
          /\ UNCHANGED <<newdataCond, blockCnt>>
    /\ Goto(t, "idle")
    /\ UNCHANGED <<listVars, enabled, dataMutex, look, ret>>

-----------------------------------------------------------------------------
\* Mutant of DropTail: the tail stays when its link goes.
KeepTail == UNCHANGED in

\* `if(in==out) in = NULL;', with which every removal begins.
DropTail == in' = IF in = out THEN Null ELSE in

\* The head link is unlinked and freed.
TakeHead(t) ==
    /\ out # Null
    /\ DropTail
    /\ out' = next[out]
    /\ next' = [next EXCEPT ![out] = Null]
    /\ d' = [d EXCEPT ![out] = None]
    /\ remain' = remain - 1
    /\ Return(t, d[out])
    /\ UNCHANGED <<enabled, syncVars, look>>

FindNothing(t) ==
    /\ out = Null
    /\ DropTail
    /\ Return(t, Failed)
    /\ UNCHANGED <<out, next, d, remain, enabled, syncVars, look>>

\* remove(fill) and remove_mv(fill).
Remove(t) == Enter(t) /\ (TakeHead(t) \/ FindNothing(t))

\* Mutant of AwaitData: the sleeper is not counted.
AwaitUncounted(t, how) ==
    /\ out = Null
    /\ newdataCond' = newdataCond \cup {t}
    /\ Goto(t, how)
    /\ UNCHANGED <<out, next, d, remain, enabled, blockCnt, dataMutex, look, ret>>

\* _block_cnt++ and wait on newdataCond at blocking point `how'.
AwaitData(t, how) ==
    /\ out = Null
    /\ blockCnt < MaxBlockCnt
    /\ blockCnt' = blockCnt + 1
    /\ newdataCond' = newdataCond \cup {t}
    /\ Goto(t, how)
    /\ UNCHANGED <<out, next, d, remain, enabled, dataMutex, look, ret>>

\* removeOrBlock(fill) and removeOrBlock(fill, t).
RemoveOrBlock(t, how) == Enter(t) /\ (TakeHead(t) \/ (DropTail /\ AwaitData(t, how)))

\* Back from the wait, a removal looks once.
RemoveResume(t) ==
    /\ pc[t] \in RemoveWaits /\ t \notin newdataCond /\ Free
    /\ TakeHead(t) \/ FindNothing(t)

\* peek(fill), and what peekOrBlock does when it has, or has waited for, data.
Look(t) ==
    /\ Return(t, IF out # Null THEN d[out] ELSE Failed)
    /\ UNCHANGED <<listVars, enabled, syncVars, look>>

Peek(t) == Enter(t) /\ Look(t)

\* peekOrBlock(fill) and peekOrBlock(fill, t).
PeekOrBlock(t, how) ==
    /\ Enter(t)
    /\ \/ out # Null /\ Look(t)
       \/ UNCHANGED in /\ AwaitData(t, how)

PeekResume(t) == pc[t] \in PeekWaits /\ t \notin newdataCond /\ Free /\ Look(t)

\* The wait of a timed call timed out: it returns false.  _block_cnt stays up.
ReturnTimedOut(t) ==
    /\ pc[t] \in {"removeTimedOut", "peekTimedOut"} /\ Free
    /\ Return(t, Failed)
    /\ UNCHANGED <<listVars, enabled, syncVars, look>>

-----------------------------------------------------------------------------
\* The condition variable's own steps: a wakeup nobody asked for, and a deadline, with
\* which, in glibc, no signal is taken.
SpuriousWakeup(t) ==
    /\ t \in newdataCond
    /\ newdataCond' = newdataCond \ {t}
    /\ UNCHANGED <<listVars, enabled, blockCnt, dataMutex, pc, look, ret>>

TimeOut(t) ==
    /\ t \in newdataCond
    /\ pc[t] \in {"removeTimed", "peekTimed"}
    /\ Goto(t, IF pc[t] = "removeTimed" THEN "removeTimedOut" ELSE "peekTimedOut")
    /\ newdataCond' = newdataCond \ {t}
    /\ UNCHANGED <<listVars, enabled, blockCnt, dataMutex, look, ret>>

\* enable() and disable().
SetEnabled(t, b) ==
    /\ Enter(t)
    /\ enabled' = b
    /\ UNCHANGED <<listVars, syncVars, pc, look, ret>>

\* clearAll(): free every link in one critical section, then unblockAll().
ClearAll(t) ==
    /\ Enter(t)
    /\ in' = Null /\ out' = Null /\ remain' = 0
    /\ next' = [l \in Link |-> Null]
    /\ d' = [l \in Link |-> None]
    /\ Goto(t, "unblockAll")
    /\ UNCHANGED <<enabled, syncVars, look, ret>>

-----------------------------------------------------------------------------
\* startIter() reads out first and locks second.
StartIter(t) ==
    /\ pc[t] = "idle"
    /\ look' = [look EXCEPT ![t] = out]
    /\ Goto(t, "startIter")
    /\ UNCHANGED <<listVars, enabled, syncVars, ret>>

StartIterLock(t) ==
    /\ pc[t] = "startIter" /\ Free
    /\ dataMutex' = t
    /\ Goto(t, "iter")
    /\ UNCHANGED <<listVars, enabled, blockCnt, newdataCond, look, ret>>

\* iter::getNext(fill).
IterGetNext(t) ==
    /\ pc[t] = "iter" /\ look[t] # Null
    /\ ret' = [ret EXCEPT ![t] = d[look[t]]]
    /\ look' = [look EXCEPT ![t] = next[look[t]]]
    /\ UNCHANGED <<listVars, enabled, syncVars, pc>>

ReleaseIter(t) ==
    /\ pc[t] = "iter"
    /\ look' = [look EXCEPT ![t] = Null]
    /\ dataMutex' = NoThread
    /\ Goto(t, "idle")
    /\ UNCHANGED <<listVars, enabled, blockCnt, newdataCond, ret>>

-----------------------------------------------------------------------------
\* A call in progress goes on.
Resume(t) ==
    \/ RemoveResume(t) \/ ReturnTimedOut(t)
    \/ pc[t] # "idle" /\ (Unblock(t) \/ UnblockAll(t))

FIFOStep(t) ==
    \/ \E v \in Value \cup {None} : Add(t, v)
    \/ \E v \in Urgent : AddToHead(t, v)
    \/ Remove(t)
    \/ \E how \in RemoveWaits : RemoveOrBlock(t, how)
    \/ Peek(t)
    \/ Unblock(t) \/ UnblockAll(t)
    \/ Resume(t)
    \/ SpuriousWakeup(t) \/ TimeOut(t)
    \/ \E b \in BOOLEAN : SetEnabled(t, b)
    \/ ClearAll(t)

Next == \E t \in Thread : FIFOStep(t)

\* With calls that wait in peekOrBlock(), and with iterators.
PeekNext == \E t \in Thread :
    FIFOStep(t) \/ PeekResume(t) \/ \E how \in PeekWaits : PeekOrBlock(t, how)
IterNext == \E t \in Thread :
    FIFOStep(t) \/ StartIter(t) \/ StartIterLock(t) \/ IterGetNext(t) \/ ReleaseIter(t)

Spec == Init /\ [][Next]_vars
PeekSpec == Init /\ [][PeekNext]_vars
IterSpec == Init /\ [][IterNext]_vars

\* A thread that has been woken, or is between the two critical sections of a
\* call, gets the mutex and goes on.
Fairness == \A t \in Thread : WF_vars(Resume(t))
FairSpec == Spec /\ Fairness
FairPeekSpec == PeekSpec /\ Fairness /\ \A t \in Thread : WF_vars(PeekResume(t))

-----------------------------------------------------------------------------
\* The type of the state; only waiting threads are in the wait set.
TypeOK ==
    /\ in \in Link \cup {Null} /\ out \in Link \cup {Null}
    /\ next \in [Link -> Link \cup {Null}]
    /\ d \in [Link -> Value \cup {None}]
    /\ remain \in Nat
    /\ enabled \in BOOLEAN
    /\ blockCnt \in 0..MaxBlockCnt
    /\ dataMutex \in Thread \cup {NoThread}
    /\ pc \in [Thread -> {"idle", "unblock", "unblockAll", "removeTimedOut", "peekTimedOut",
                          "startIter", "iter"} \cup RemoveWaits \cup PeekWaits]
    /\ newdataCond \subseteq {t \in Thread : pc[t] \in RemoveWaits \cup PeekWaits}
    /\ look \in [Thread -> Link \cup {Null}]
    /\ ret \in [Thread -> Value \cup {None, Failed}]

\* The list is well formed: from out, remain links follow one another and the
\* last one is in; with no links both ends are null; and the types are right.
ListWellFormed ==
    /\ TypeOK
    /\ \A k \in 0..Cardinality(Link) : LinkAt[k] = Null <=> k >= remain
    /\ in = IF remain = 0 THEN Null ELSE LinkAt[remain - 1]
    /\ Cardinality(InList) = remain

\* _block_cnt never falls below the number of sleepers, so that unblock() does
\* not skip the signal a sleeper is waiting for ("we only .._signal() when at
\* least 1 or more calls are blocking").
BlockCntCoversSleepers == Cardinality(newdataCond) <= blockCnt

\* No wakeup for a removal is lost: while one sleeps, every element is spoken for
\* by a woken removal or by an add that has yet to signal.
NoLostAdd ==
    newdataCond # {} =>
        remain <= Cardinality({t \in Thread : pc[t] \in RemoveWaits \cup {"unblock"}} \ newdataCond)

\* "wait until new data arrives" (line 1090): data that is there while a removal
\* waits is taken, or every waiting call is woken.
DataReachesRemover ==
    (remain > 0 /\ \E t \in newdataCond : pc[t] \in RemoveWaits)
        ~> (remain = 0 \/ \A t \in newdataCond : pc[t] \notin RemoveWaits)

\* "This is a thread-safe, blocking queue" (line 114): the holder of an iterator
\* looks at a link of the list, not at one that was freed before it got the
\* mutex.
IterLinkLive == \A t \in Thread : (pc[t] = "iter" /\ look[t] # Null) => look[t] \in InList
=============================================================================

----------------------------- MODULE BndSafeFIFO -----------------------------
(***************************************************************************)
(* tw_bndSafeFIFO (include/TW/tw_fifo.h): a tw_safeFIFO whose adders first *)
(* acquire a slot from a TW_Sema and whose removers release it afterwards. *)
(* The list is represented by its length; that it behaves as a queue is    *)
(* shown by FIFORefinement.                                                *)
(***************************************************************************)
EXTENDS TWSema

CONSTANT Adder   \* the thread that adds, where one thread does

ASSUME AdderAssumption == Adder \in Thread

VARIABLES remain,  \* elements in _fifo
          phase    \* the bounded operation each thread is in

bndVars == <<semaVars, remain, phase>>

BndInit == SemaInit /\ remain = 0 /\ phase = [t \in Thread |-> "none"]

\* add, addToHead and addEmpty: acquire a slot ...
AddAcquire(t) ==
    /\ phase[t] = "none"
    /\ Acquire(t)
    /\ phase' = [phase EXCEPT ![t] = "adding"]
    /\ UNCHANGED remain

\* ... then add to the list.
AddToFIFO(t) ==
    /\ phase[t] = "adding" /\ pc[t] = "idle"
    /\ remain' = remain + 1
    /\ units' = [units EXCEPT ![t] = 0]
    /\ phase' = [phase EXCEPT ![t] = "none"]
    /\ UNCHANGED <<cnt, localMutex, gtZeroCond, pc, tmp>>

\* remove and removeOrBlock: take from the list ...
RemoveFromFIFO(t) ==
    /\ phase[t] = "none" /\ pc[t] = "idle" /\ remain > 0
    /\ remain' = remain - 1
    /\ units' = [units EXCEPT ![t] = 1]
    /\ phase' = [phase EXCEPT ![t] = "removing"]
    /\ UNCHANGED <<cnt, localMutex, gtZeroCond, pc, tmp>>

\* Mutant of RemoveRelease: the slot is not given back.
RemoveKeepsSlot(t) ==
    /\ phase[t] = "removing"
    /\ units' = [units EXCEPT ![t] = 0]
    /\ phase' = [phase EXCEPT ![t] = "none"]
    /\ UNCHANGED <<cnt, localMutex, gtZeroCond, pc, tmp, remain>>

\* ... then release the slot.
RemoveRelease(t) ==
    /\ phase[t] = "removing"
    /\ \/ ReleaseRead(t) /\ UNCHANGED phase
       \/ ReleaseWrite(t) /\ phase' = [phase EXCEPT ![t] = "none"]
    /\ UNCHANGED remain

SemaStep(t) ==
    /\ AcquireResume(t) \/ DecrementRead(t) \/ DecrementWrite(t) \/ SpuriousWakeup(t)
    /\ UNCHANGED <<remain, phase>>

\* The steps that follow the call of an adder, and the removals.
Proceed(t) == AddToFIFO(t) \/ RemoveFromFIFO(t) \/ RemoveRelease(t) \/ SemaStep(t)

BndSpec == BndInit /\ [][\E t \in Thread : AddAcquire(t) \/ Proceed(t)]_bndVars

\* A program in which one thread adds and any number of them remove, in every
\* interleaving: the removals step into the window of its acquire().
OneAdderNext == AddAcquire(Adder) \/ \E t \in Thread : Proceed(t)
OneAdderSpec == BndInit /\ [][OneAdderNext]_bndVars

\* Threads that are in a call and not asleep run; nobody need make another call.
BndFairness == \A t \in Thread :
    WF_bndVars((AddToFIFO(t) \/ RemoveRelease(t) \/ SemaStep(t)) /\ t \notin gtZeroCond)

-----------------------------------------------------------------------------
Removing == {t \in Thread : phase[t] = "removing"}

\* "there is a bounded limit on the number of units it can hold" (line 193): the
\* list never holds more than that.
BoundKept == remain <= Size

\* With one adder the count can lose an update, when a release() comes between the
\* read and the write of acquire() or around both; but it never loses the last slot.
\* While the adder sleeps there is no slot it could have, and there is an element to
\* remove or a removal whose release() has yet to wake it.
AdderNotStranded == Adder \in gtZeroCond => cnt = 0 /\ (remain > 0 \/ Removing # {})

\* Once an element has been taken from the list, the sleeping adder goes on.
SlotReachesAdder == (pc[Adder] = "wait" /\ Removing # {}) ~> pc[Adder] # "wait"
=============================================================================

------------------------- MODULE SafeCircularProofs -------------------------
(***************************************************************************)
(* Theorems about the ring buffer, for every number of threads, every      *)
(* capacity and every set of elements.                                     *)
(*                                                                         *)
(* TypeOK is not inductive by itself: reverse() copies nextIn to nextOut,  *)
(* which is a slot only because nextIn = -1 means an empty ring.  The      *)
(* inductive invariant is Ring, TypeOK with RingConsistent.                *)
(***************************************************************************)
EXTENDS CircularRefinement, SharedLemmas

\* A signal takes at most one thread out of a wait set and puts none in.
LEMMA SignalShrinks ==
  ASSUME NEW S, NEW R \in Signal(S)
  PROVE  R \subseteq S
BY DEF Signal

\* The woken threads are finitely many, before and after a step.
LEMMA WokenFinite ==
  /\ IsFiniteSet(WokenAcquirers) /\ Cardinality(WokenAcquirers) \in Nat
  /\ IsFiniteSet(WokenWaiters) /\ Cardinality(WokenWaiters) \in Nat
  /\ IsFiniteSet(WokenAcquirers') /\ Cardinality(WokenAcquirers') \in Nat
  /\ IsFiniteSet(WokenWaiters') /\ Cardinality(WokenWaiters') \in Nat
<1>1. /\ WokenAcquirers \in SUBSET Thread /\ WokenWaiters \in SUBSET Thread
      /\ WokenAcquirers' \in SUBSET Thread /\ WokenWaiters' \in SUBSET Thread
  BY DEF WokenAcquirers, WokenWaiters
<1>2. ASSUME NEW S \in SUBSET Thread PROVE IsFiniteSet(S) /\ Cardinality(S) \in Nat
  BY SemaAssumption, FS_Subset, FS_CardinalityType DEF SemaAssumption
<1> QED
  BY <1>1, <1>2

\* A unit is given back and a sleeper signalled: both sides go up by one, or
\* nobody sleeps any more.
LEMMA SignalCovers ==
  ASSUME NEW S, NEW W, NEW R \in Signal(S), NEW n \in Int,
         S # {} => n <= Cardinality(W), IsFiniteSet(W), S \cap W = {}
  PROVE  R # {} => n + 1 <= Cardinality(W \cup (S \ R))
<1>1. (S = {} => R = {}) /\ (S # {} => \E u \in S : R = S \ {u})
  BY DEF Signal
<1> QED
  BY <1>1, OneMoreAwake

\* Who is awake after a signal that lets nobody back into the wait set.
LEMMA WokenBySignal ==
  ASSUME SemaTypeOK, NEW t \in Thread, pc' = [pc EXCEPT ![t] = "idle"],
         t \notin gtZeroCond, t \notin decrementCond,
         gtZeroCond' \subseteq gtZeroCond, decrementCond' \subseteq decrementCond
  PROVE  /\ WokenAcquirers' = (WokenAcquirers \ {t}) \cup (gtZeroCond \ gtZeroCond')
         /\ WokenWaiters' = (WokenWaiters \ {t}) \cup (decrementCond \ decrementCond')
         /\ gtZeroCond \cap WokenAcquirers = {}
         /\ decrementCond \cap WokenWaiters = {}
BY DEF SemaTypeOK, WokenAcquirers, WokenWaiters, GtZeroWaits, DecrementWaits

-----------------------------------------------------------------------------
Ring == TypeOK /\ RingConsistent

\* The state of a thread that is about to put an element: outside any call, or
\* woken from its wait for a slot.
CanPut(t) == pc[t] \in {"idle"} \cup GtZeroWaits /\ t \notin gtZeroCond

\* A thread that has just entered a call sleeps nowhere.
LEMMA EnteredAwake ==
  ASSUME SemaTypeOK, NEW t \in Thread, pc[t] = "idle"
  PROVE  t \notin gtZeroCond /\ t \notin decrementCond /\ CanPut(t)
BY DEF SemaTypeOK, CanPut, GtZeroWaits, DecrementWaits

\* The initial state of the constructor is consistent.
LEMMA RingInit == Init => Ring
<1> SUFFICES ASSUME Init PROVE Ring
  OBVIOUS
<1>1. SemaTypeOK
  BY SemaAssumption DEF Init, SemaInit, SemaTypeOK, PC, GtZeroWaits, DecrementWaits, TimedOuts
<1>2. RingTypeOK
  <2>1. reversed \in BOOLEAN
    BY DEF Init
  <2>2. data \in [0..(Size - 1) -> Value \cup {None}]
    BY DEF Init
  <2> QED
    BY <2>1, <2>2, SemaAssumption DEF Init, SemaInit, RingTypeOK
<1>3. UserTypeOK
  BY SemaAssumption DEF Init, NoIter, UserTypeOK
<1>4. RingConsistent
  BY SemaAssumption DEF Init, SemaInit, RingConsistent, Slot, Remain, NextNextIn, Following
<1> QED
  BY <1>1, <1>2, <1>3, <1>4 DEF Ring, TypeOK

\* An add that has a slot keeps the ring consistent, at whatever slot the ring
\* starts and in whichever direction it runs.
LEMMA PutKeepsRing ==
  ASSUME Ring, NEW t \in Thread, NEW v \in Value \cup {None}, CanPut(t), Put(t, v)
  PROVE  Ring'
<1> USE SemaAssumption DEF Ring, TypeOK, Put, Acquired, Return
<1>1. SemaTypeOK'
  <2>1. decrementCond' \subseteq decrementCond
    BY SignalShrinks
  <2> QED
    BY <2>1 DEF SemaTypeOK, CanPut, PC, GtZeroWaits, DecrementWaits, TimedOuts
<1>2. RingTypeOK'
  BY DEF RingTypeOK, NextNextIn, Following
<1>3. UserTypeOK'
  BY DEF UserTypeOK
<1>4. RingConsistent'
  BY DEF RingTypeOK, RingConsistent, Slot, Remain, NextNextIn, Following
<1> QED
  BY <1>1, <1>2, <1>3, <1>4

\* An add that finds no slot only goes to sleep.
LEMMA AwaitSlotKeepsRing ==
  ASSUME Ring, NEW t \in Thread, NEW v \in Value \cup {None}, NEW how \in GtZeroWaits,
         CanPut(t), AwaitSlot(t, v, how)
  PROVE  Ring'
<1> USE DEF Ring, TypeOK, AwaitSlot, SleepOnGtZero, ringVars
<1>1. SemaTypeOK'
  BY DEF SemaTypeOK, CanPut, PC, GtZeroWaits, DecrementWaits, TimedOuts
<1>2. RingTypeOK'
  BY DEF RingTypeOK
<1>3. UserTypeOK'
  BY DEF UserTypeOK
<1>4. RingConsistent'
  BY DEF RingConsistent, Slot, Remain, NextNextIn, Following
<1> QED
  BY <1>1, <1>2, <1>3, <1>4

\* A call that returns false only returns.
LEMMA ReturnFalseKeepsRing ==
  ASSUME Ring, NEW t \in Thread, t \notin gtZeroCond, t \notin decrementCond, ReturnFalse(t)
  PROVE  Ring'
<1> USE DEF Ring, TypeOK, ReturnFalse, Return, ringVars
<1>1. SemaTypeOK'
  BY DEF SemaTypeOK, PC, GtZeroWaits, DecrementWaits, TimedOuts
<1>2. RingTypeOK'
  BY DEF RingTypeOK
<1>3. UserTypeOK'
  BY DEF UserTypeOK
<1>4. RingConsistent'
  BY DEF RingConsistent, Slot, Remain, NextNextIn, Following
<1> QED
  BY <1>1, <1>2, <1>3, <1>4

\* Giving a slot back wakes at most one adder.
LEMMA ReleasedShrinks ==
  ASSUME Released
  PROVE  gtZeroCond' \subseteq gtZeroCond /\ decrementCond' = decrementCond /\ cnt' = cnt + 1
BY SignalShrinks DEF Released

\* A removal that finds an element keeps the ring consistent, the one that takes
\* the last element and puts the ring back to its start too.
LEMMA TakeKeepsRing ==
  ASSUME Ring, NEW t \in Thread, pc[t] = "idle", Take(t)
  PROVE  Ring'
<1> USE SemaAssumption, ReleasedShrinks DEF Ring, TypeOK, Take, Return
<1>1. SemaTypeOK'
  BY DEF SemaTypeOK, RingTypeOK, PC, GtZeroWaits, DecrementWaits, TimedOuts
<1>2. RingTypeOK'
  <2>1. CASE Remain = 1
    <3>1. reversed' \in BOOLEAN
      BY <2>1 DEF ResetRing
    <3> QED
      BY <2>1, <3>1 DEF RingTypeOK, ResetRing, Remain
  <2>2. CASE Remain # 1
    BY <2>2 DEF RingTypeOK, NextNextOut, Following, Remain
  <2> QED
    BY <2>1, <2>2
<1>3. UserTypeOK'
  BY DEF UserTypeOK, RingTypeOK
<1>4. RingConsistent'
  <2>1. CASE Remain = 1
    BY <2>1 DEF RingTypeOK, RingConsistent, ResetRing, Slot, Remain, NextNextIn, Following
  <2>2. CASE Remain # 1
    <3>1. nextOut' = NextNextOut /\ nextIn' = nextIn /\ reversed' = reversed
      BY <2>2
    <3>2. cnt' = cnt + 1 /\ cnt < Size
      BY DEF Remain, RingTypeOK
    <3> HIDE DEF Take
    <3> QED
      BY <3>1, <3>2 DEF RingTypeOK, RingConsistent, Slot, Remain, NextNextIn, NextNextOut, Following
  <2> QED
    BY <2>1, <2>2
<1> QED
  BY <1>1, <1>2, <1>3, <1>4

\* A removal that finds nothing only goes to sleep.
LEMMA AwaitElementKeepsRing ==
  ASSUME Ring, NEW t \in Thread, NEW how \in DecrementWaits, pc[t] = "idle", AwaitElement(t, how)
  PROVE  Ring'
<1> USE DEF Ring, TypeOK, AwaitElement, SleepOnDecrement, ringVars, userVars
<1>1. SemaTypeOK'
  BY DEF SemaTypeOK, PC, GtZeroWaits, DecrementWaits, TimedOuts
<1>2. RingTypeOK'
  BY DEF RingTypeOK
<1>3. UserTypeOK'
  BY DEF UserTypeOK
<1>4. RingConsistent'
  BY DEF RingConsistent, Slot, Remain, NextNextIn, Following
<1> QED
  BY <1>1, <1>2, <1>3, <1>4

\* A woken removal keeps the ring consistent although it never puts it back to
\* its start.
LEMMA RemoveResumeKeepsRing ==
  ASSUME Ring, NEW t \in Thread, RemoveResume(t)
  PROVE  Ring'
<1>0. t \notin gtZeroCond /\ t \notin decrementCond
  BY DEF Ring, TypeOK, SemaTypeOK, RemoveResume, BackFromDecrement, GtZeroWaits, DecrementWaits
<1>1. CASE ReturnFalse(t)
  BY <1>0, <1>1, ReturnFalseKeepsRing
<1>2. CASE /\ cnt < Size
           /\ Return(t, data[nextOut])
           /\ nextOut' = NextNextOut
           /\ Released
           /\ UNCHANGED <<localMutex, nextIn, reversed, data, enabled, iter>>
  <2> USE <1>0, <1>2, SemaAssumption, ReleasedShrinks DEF Ring, TypeOK, Return
  <2>1. SemaTypeOK'
    BY DEF SemaTypeOK, RingTypeOK, PC, GtZeroWaits, DecrementWaits, TimedOuts
  <2>2. RingTypeOK'
    BY DEF RingTypeOK, NextNextOut, Following
  <2>3. UserTypeOK'
    BY DEF UserTypeOK, RingTypeOK
  <2>4. RingConsistent'
    BY DEF RingTypeOK, RingConsistent, Slot, Remain, NextNextIn, NextNextOut, Following
  <2> QED
    BY <2>1, <2>2, <2>3, <2>4
<1> QED
  BY <1>1, <1>2 DEF RemoveResume

\* The condition variables' own steps leave the ring alone.
LEMMA CondKeepsRing ==
  ASSUME Ring, NEW t \in Thread, Spurious(t) \/ TimedOut(t)
  PROVE  Ring'
<1> USE DEF Ring, TypeOK, Spurious, SpuriousWakeup, TimedOut, TimeOut, ringVars, userVars
<1>1. SemaTypeOK'
  BY DEF SemaTypeOK, PC, GtZeroWaits, DecrementWaits, TimedOuts
<1>2. RingTypeOK'
  BY DEF RingTypeOK
<1>3. UserTypeOK'
  BY DEF UserTypeOK
<1>4. RingConsistent'
  BY DEF RingConsistent, Slot, Remain, NextNextIn, Following
<1> QED
  BY <1>1, <1>2, <1>3, <1>4

\* An iterator changes nothing but its own position and the owner of the mutex.
LEMMA IterKeepsRing ==
  ASSUME Ring, NEW t \in Thread, IterStep(t)
  PROVE  Ring'
<1> USE SemaAssumption DEF Ring, TypeOK, IterStep, GetIter, IterNext, IterData, IterRelease,
        ringVars, userVars, semaVars
<1>1. SemaTypeOK'
  BY DEF SemaTypeOK
<1>2. RingTypeOK'
  BY DEF RingTypeOK
<1>3. UserTypeOK'
  <2>1. CASE GetIter(t)
    BY <2>1 DEF UserTypeOK, RingTypeOK
  <2>2. CASE IterNext(t)
    <3>1. iter \in [n : 0..Size, p : 0..(Size - 1), valid : BOOLEAN] /\ cnt \in 0..Size
      BY DEF UserTypeOK, RingTypeOK
    <3>2. iter.n + 1 \in 0..Size
      BY <2>2, <3>1 DEF Remain
    <3>3. (IF iter.p + 1 >= Size THEN 0 ELSE iter.p + 1) \in 0..(Size - 1)
      BY <3>1
    <3>4. iter' \in [n : 0..Size, p : 0..(Size - 1), valid : BOOLEAN]
      BY <2>2, <3>1, <3>2, <3>3
    <3> QED
      BY <2>2, <3>4 DEF UserTypeOK
  <2>3. CASE IterData(t)
    BY <2>3 DEF UserTypeOK, RingTypeOK
  <2>4. CASE IterRelease(t)
    BY <2>4 DEF UserTypeOK, NoIter
  <2> QED
    BY <2>1, <2>2, <2>3, <2>4
<1>4. RingConsistent'
  BY DEF RingConsistent, Slot, Remain, NextNextIn, Following
<1> QED
  BY <1>1, <1>2, <1>3, <1>4

\* enable(), disable(), unblockAllRemovers() and reverse().  reverse() is where
\* RingConsistent is needed for the types.
LEMMA ControlKeepsRing ==
  ASSUME Ring, NEW t \in Thread,
         (\E b \in BOOLEAN : SetEnabled(t, b)) \/ Reverse(t) \/ UnblockAllRemovers(t)
  PROVE  Ring'
<1> USE SemaAssumption DEF Ring, TypeOK
<1>1. CASE \E b \in BOOLEAN : SetEnabled(t, b)
  <2> USE <1>1 DEF SetEnabled, semaVars, ringVars, userVars
  <2>1. SemaTypeOK'
    BY DEF SemaTypeOK
  <2>2. RingTypeOK'
    BY DEF RingTypeOK
  <2>3. UserTypeOK'
    BY DEF UserTypeOK
  <2>4. RingConsistent'
    BY DEF RingConsistent, Slot, Remain, NextNextIn, Following
  <2> QED
    BY <2>1, <2>2, <2>3, <2>4
<1>2. CASE UnblockAllRemovers(t)
  <2> USE <1>2 DEF UnblockAllRemovers, ReleasedAllAcquireLocks, Broadcast, ringVars, userVars
  <2>1. SemaTypeOK'
    BY DEF SemaTypeOK
  <2>2. RingTypeOK'
    BY DEF RingTypeOK
  <2>3. UserTypeOK'
    BY DEF UserTypeOK
  <2>4. RingConsistent'
    BY DEF RingConsistent, Slot, Remain, NextNextIn, Following
  <2> QED
    BY <2>1, <2>2, <2>3, <2>4
<1>3. CASE Reverse(t)
  <2> USE <1>3 DEF Reverse, semaVars, userVars
  <2>1. SemaTypeOK'
    BY DEF SemaTypeOK
  <2>2. RingTypeOK'
    <3>1. nextIn # -1
      BY DEF RingConsistent, Remain, RingTypeOK
    <3> QED
      BY <3>1 DEF RingTypeOK
  <2>3. UserTypeOK'
    BY DEF UserTypeOK
  <2>4. RingConsistent'
    <3>1. nextIn \in 0..(Size - 1) /\ nextOut \in 0..(Size - 1) /\ cnt \in 0..(Size - 1)
      BY DEF RingConsistent, Remain, RingTypeOK
    <3>2. nextIn' = nextOut /\ nextOut' = nextIn /\ cnt' = cnt
      OBVIOUS
    <3>3. Slot(Remain) = NextNextIn
      BY DEF RingConsistent
    <3> HIDE <1>3 DEF Reverse, Ring
    <3>4. ASSUME reversed, ~reversed' PROVE Slot(Remain)' = NextNextIn'
      BY <3>1, <3>2, <3>3, <3>4 DEF Slot, Remain, NextNextIn, Following
    <3>5. ASSUME ~reversed, reversed' PROVE Slot(Remain)' = NextNextIn'
      BY <3>1, <3>2, <3>3, <3>5 DEF Slot, Remain, NextNextIn, Following
    <3>6. reversed' = ~reversed /\ reversed \in BOOLEAN
      BY <1>3 DEF Reverse, Ring, RingTypeOK
    <3>7. nextIn' # -1
      BY <3>1, <3>2
    <3> QED
      BY <3>4, <3>5, <3>6, <3>7 DEF RingConsistent
  <2> QED
    BY <2>1, <2>2, <2>3, <2>4
<1> QED
  BY <1>1, <1>2, <1>3

\* Ring is inductive.
LEMMA RingStep == Ring /\ [Next]_vars => Ring'
<1> SUFFICES ASSUME Ring, [Next]_vars PROVE Ring'
  OBVIOUS
<1>1. CASE UNCHANGED vars
  <2> USE <1>1 DEF Ring, TypeOK, vars, semaVars, ringVars, userVars
  <2>1. SemaTypeOK'
    BY DEF SemaTypeOK
  <2>2. RingTypeOK'
    BY DEF RingTypeOK
  <2>3. UserTypeOK'
    BY DEF UserTypeOK
  <2>4. RingConsistent'
    BY DEF RingConsistent, Slot, Remain, NextNextIn, Following
  <2> QED
    BY <2>1, <2>2, <2>3, <2>4
<1>2. ASSUME NEW t \in Thread, QueueStep(t) PROVE Ring'
  <2>0. SemaTypeOK /\ RingTypeOK /\ arg[t] \in Value \cup {None}
    BY DEF Ring, TypeOK, UserTypeOK
  <2>1. ASSUME NEW v \in Value, Add(t, v) \/ AddTimed(t, v) \/ AddIfRoom(t, v) PROVE Ring'
    BY <2>0, <2>1, EnteredAwake, PutKeepsRing, AwaitSlotKeepsRing, ReturnFalseKeepsRing
    DEF Add, AddTimed, AddIfRoom, Enter, GtZeroWaits
  <2>2. CASE Remove(t)
    BY <2>0, <2>2, EnteredAwake, TakeKeepsRing, ReturnFalseKeepsRing DEF Remove, Enter
  <2>3. CASE RemoveOrBlock(t) \/ RemoveOrBlockTimed(t)
    BY <2>3, TakeKeepsRing, AwaitElementKeepsRing
    DEF RemoveOrBlock, RemoveOrBlockTimed, Enter, DecrementWaits
  <2>4. CASE AddResume(t)
    BY <2>0, <2>4, PutKeepsRing, AwaitSlotKeepsRing DEF AddResume, BackFromGtZero, CanPut
  <2>5. CASE AddTimedOut(t)
    <3>1. t \notin gtZeroCond /\ t \notin decrementCond
      BY <2>0, <2>5 DEF AddTimedOut, SemaTypeOK, GtZeroWaits, DecrementWaits
    <3> QED
      BY <2>5, <3>1, ReturnFalseKeepsRing DEF AddTimedOut
  <2>6. CASE RemoveResume(t)
    BY <2>6, RemoveResumeKeepsRing
  <2>7. CASE Spurious(t) \/ TimedOut(t)
    BY <2>7, CondKeepsRing
  <2> QED
    BY <1>2, <2>1, <2>2, <2>3, <2>4, <2>5, <2>6, <2>7 DEF QueueStep, Resume
<1>3. ASSUME NEW t \in Thread, IterStep(t) PROVE Ring'
  BY <1>3, IterKeepsRing
<1>4. ASSUME NEW t \in Thread,
             (\E b \in BOOLEAN : SetEnabled(t, b)) \/ Reverse(t) \/ UnblockAllRemovers(t)
      PROVE  Ring'
  BY <1>4, ControlKeepsRing
<1> QED
  BY <1>1, <1>2, <1>3, <1>4 DEF Next

\* The state of the ring buffer always has its type: the count of free slots stays
\* within 0 .. Size, and nextIn and nextOut stay inside the storage.
THEOREM TypeCorrect == Spec => []TypeOK
<1>1. Spec => []Ring
  BY RingInit, RingStep, PTL DEF Spec
<1>2. Ring => TypeOK
  BY DEF Ring
<1> QED
  BY <1>1, <1>2, PTL

\* nextIn, nextOut, the direction and the count always describe the same elements.
THEOREM RingAlwaysConsistent == Spec => []RingConsistent
<1>1. Spec => []Ring
  BY RingInit, RingStep, PTL DEF Spec
<1>2. Ring => RingConsistent
  BY DEF Ring
<1> QED
  BY <1>1, <1>2, PTL
-----------------------------------------------------------------------------
\* No wakeup is lost.  Wake is inductive with Ring: the count has to stay within
\* 0 .. Size, and a sleeper has to be at the blocking point of its condition
\* variable, for the counting below to hold.
Wake == NoLostRelease /\ NoLostAcquire

\* An add that has a slot, and the signal of its cnt--.
LEMMA PutKeepsWake ==
  ASSUME Ring, Wake, NEW t \in Thread, NEW v, CanPut(t), Put(t, v)
  PROVE  Wake'
<1>1. SemaTypeOK /\ cnt \in Int /\ Remain \in Int
  BY SemaAssumption DEF Ring, TypeOK, RingTypeOK, Remain
<1>2. t \notin gtZeroCond /\ t \notin decrementCond /\ t \notin WokenWaiters
  BY <1>1 DEF CanPut, SemaTypeOK, GtZeroWaits, DecrementWaits, WokenWaiters
<1>3. /\ gtZeroCond' = gtZeroCond /\ decrementCond' \in Signal(decrementCond)
      /\ pc' = [pc EXCEPT ![t] = "idle"]
      /\ cnt' = cnt - 1
  BY DEF Put, Acquired, Return
<1>4. Remain' = Remain + 1
  BY <1>1, <1>3, SemaAssumption DEF Remain
<1>5. /\ WokenAcquirers' = WokenAcquirers \ {t}
      /\ WokenWaiters' = WokenWaiters \cup (decrementCond \ decrementCond')
      /\ decrementCond \cap WokenWaiters = {}
  <2>1. decrementCond' \subseteq decrementCond
    BY <1>3, SignalShrinks
  <2>2. WokenAcquirers' = (WokenAcquirers \ {t}) \cup (gtZeroCond \ gtZeroCond')
    BY <1>1, <1>2, <1>3, <2>1, WokenBySignal
  <2>3. /\ WokenWaiters' = (WokenWaiters \ {t}) \cup (decrementCond \ decrementCond')
        /\ decrementCond \cap WokenWaiters = {}
    BY <1>1, <1>2, <1>3, <2>1, WokenBySignal
  <2> QED
    BY <1>2, <1>3, <2>2, <2>3
<1>6. NoLostRelease'
  BY <1>1, <1>3, <1>5, WokenFinite, TakerGone DEF Wake, NoLostRelease
<1>7. NoLostAcquire'
  BY <1>1, <1>3, <1>4, <1>5, WokenFinite, SignalCovers DEF Wake, NoLostAcquire
<1> QED
  BY <1>6, <1>7 DEF Wake

\* A removal that takes an element, from outside or woken, and the signal of its
\* cnt++.
LEMMA ReleaseKeepsWake ==
  ASSUME Ring, Wake, NEW t \in Thread, Released, pc' = [pc EXCEPT ![t] = "idle"],
         pc[t] \in {"idle"} \cup DecrementWaits, t \notin decrementCond
  PROVE  Wake'
<1>1. SemaTypeOK /\ cnt \in Int /\ Remain \in Int
  BY SemaAssumption DEF Ring, TypeOK, RingTypeOK, Remain
<1>2. t \notin gtZeroCond /\ t \notin WokenAcquirers
  BY <1>1 DEF SemaTypeOK, GtZeroWaits, DecrementWaits, WokenAcquirers
<1>3. gtZeroCond' \in Signal(gtZeroCond) /\ decrementCond' = decrementCond /\ cnt' = cnt + 1
  BY <1>1 DEF Released, Ring, TypeOK, RingTypeOK
<1>4. Remain' = Remain - 1
  BY <1>1, <1>3, SemaAssumption DEF Remain
<1>5. /\ WokenAcquirers' = WokenAcquirers \cup (gtZeroCond \ gtZeroCond')
      /\ gtZeroCond \cap WokenAcquirers = {}
      /\ WokenWaiters' = WokenWaiters \ {t}
  <2>1. gtZeroCond' \subseteq gtZeroCond
    BY <1>3, SignalShrinks
  <2>2. WokenWaiters' = (WokenWaiters \ {t}) \cup (decrementCond \ decrementCond')
    BY <1>1, <1>2, <1>3, <2>1, WokenBySignal
  <2>3. /\ WokenAcquirers' = (WokenAcquirers \ {t}) \cup (gtZeroCond \ gtZeroCond')
        /\ gtZeroCond \cap WokenAcquirers = {}
    BY <1>1, <1>2, <1>3, <2>1, WokenBySignal
  <2> QED
    BY <1>2, <1>3, <2>2, <2>3
<1>6. NoLostRelease'
  BY <1>1, <1>3, <1>5, WokenFinite, SignalCovers DEF Wake, NoLostRelease
<1>7. NoLostAcquire'
  BY <1>1, <1>3, <1>4, <1>5, WokenFinite, TakerGone DEF Wake, NoLostAcquire
<1> QED
  BY <1>6, <1>7 DEF Wake

\* A step that leaves the count alone, puts nobody to sleep and lets no woken
\* thread run.
LEMMA QuietKeepsWake ==
  ASSUME Ring, Wake, cnt' = cnt,
         gtZeroCond' \subseteq gtZeroCond, decrementCond' \subseteq decrementCond,
         WokenAcquirers \subseteq WokenAcquirers', WokenWaiters \subseteq WokenWaiters'
  PROVE  Wake'
<1>1. cnt \in Int /\ Remain \in Int /\ Remain' = Remain
  BY SemaAssumption DEF Ring, TypeOK, RingTypeOK, Remain
<1>2. NoLostRelease'
  BY <1>1, WokenFinite, MoreAwake DEF Wake, NoLostRelease
<1>3. NoLostAcquire'
  BY <1>1, WokenFinite, MoreAwake DEF Wake, NoLostAcquire
<1> QED
  BY <1>2, <1>3 DEF Wake

\* An add goes to sleep only when there is no unit to be lost.
LEMMA AwaitSlotKeepsWake ==
  ASSUME Ring, Wake, NEW t \in Thread, NEW v, NEW how \in GtZeroWaits,
         CanPut(t), AwaitSlot(t, v, how)
  PROVE  Wake'
<1>1. SemaTypeOK /\ cnt \in 0..Size
  BY DEF Ring, TypeOK, RingTypeOK
<1>2. cnt' = cnt /\ cnt < 1 /\ decrementCond' = decrementCond /\ pc' = [pc EXCEPT ![t] = how]
  BY DEF AwaitSlot, SleepOnGtZero
<1>3. WokenWaiters' = WokenWaiters
  BY <1>1, <1>2 DEF CanPut, SemaTypeOK, GtZeroWaits, DecrementWaits, WokenWaiters
<1>4. NoLostRelease'
  BY <1>1, <1>2, WokenFinite, SemaAssumption DEF NoLostRelease
<1>5. NoLostAcquire'
  BY <1>2, <1>3 DEF Wake, NoLostAcquire, Remain
<1> QED
  BY <1>4, <1>5 DEF Wake

\* A removal goes to sleep, or gives up, only when there is no element to be lost.
LEMMA EmptyKeepsWake ==
  ASSUME Ring, Wake, NEW t \in Thread, pc[t] \in {"idle"} \cup DecrementWaits,
         NEW how \in {"idle"} \cup DecrementWaits, pc' = [pc EXCEPT ![t] = how],
         cnt >= Size, cnt' = cnt, gtZeroCond' = gtZeroCond
  PROVE  Wake'
<1>1. SemaTypeOK /\ cnt \in 0..Size
  BY DEF Ring, TypeOK, RingTypeOK
<1>2. WokenAcquirers' = WokenAcquirers
  BY <1>1 DEF SemaTypeOK, GtZeroWaits, DecrementWaits, WokenAcquirers
<1>3. NoLostRelease'
  BY <1>2 DEF Wake, NoLostRelease
<1>4. NoLostAcquire'
  BY <1>1, WokenFinite, SemaAssumption DEF NoLostAcquire, Remain
<1> QED
  BY <1>3, <1>4 DEF Wake

\* A call that returns false from outside any wait, or after a time-out.
LEMMA ReturnFalseKeepsWake ==
  ASSUME Ring, Wake, NEW t \in Thread, pc[t] \in {"idle"} \cup TimedOuts, ReturnFalse(t)
  PROVE  Wake'
<1>1. SemaTypeOK
  BY DEF Ring, TypeOK
<1>2. /\ cnt' = cnt /\ gtZeroCond' = gtZeroCond /\ decrementCond' = decrementCond
      /\ pc' = [pc EXCEPT ![t] = "idle"]
  BY DEF ReturnFalse, Return
<1>3. WokenAcquirers' = WokenAcquirers /\ WokenWaiters' = WokenWaiters
  BY <1>1, <1>2
  DEF SemaTypeOK, GtZeroWaits, DecrementWaits, TimedOuts, WokenAcquirers, WokenWaiters
<1> QED
  BY <1>2, <1>3, QuietKeepsWake

\* A wakeup nobody asked for, and a deadline.
LEMMA CondKeepsWake ==
  ASSUME Ring, Wake, NEW t \in Thread, Spurious(t) \/ TimedOut(t)
  PROVE  Wake'
<1>1. SemaTypeOK
  BY DEF Ring, TypeOK
<1>2. CASE Spurious(t)
  BY <1>1, <1>2, QuietKeepsWake
  DEF Spurious, SpuriousWakeup, SemaTypeOK, WokenAcquirers, WokenWaiters
<1>3. CASE TimedOut(t)
  BY <1>1, <1>3, QuietKeepsWake
  DEF TimedOut, TimeOut, SemaTypeOK, GtZeroWaits, DecrementWaits, WokenAcquirers, WokenWaiters
<1> QED
  BY <1>2, <1>3

\* The calls that neither add nor remove.
LEMMA ControlKeepsWake ==
  ASSUME Ring, Wake, NEW t \in Thread,
         \/ IterStep(t)
         \/ \E b \in BOOLEAN : SetEnabled(t, b)
         \/ Reverse(t)
         \/ UnblockAllRemovers(t)
  PROVE  Wake'
<1>1. cnt' = cnt /\ gtZeroCond' = gtZeroCond /\ pc' = pc /\ decrementCond' \in {decrementCond, {}}
  BY DEF IterStep, GetIter, IterNext, IterData, IterRelease, SetEnabled, Reverse,
         UnblockAllRemovers, ReleasedAllAcquireLocks, Broadcast, semaVars
<1> QED
  BY <1>1, QuietKeepsWake DEF WokenAcquirers, WokenWaiters

\* Wake, with Ring, is inductive.
LEMMA WakeStep == Ring /\ Wake /\ [Next]_vars => Wake'
<1> SUFFICES ASSUME Ring, Wake, [Next]_vars PROVE Wake'
  OBVIOUS
<1>0. SemaTypeOK /\ RingTypeOK
  BY DEF Ring, TypeOK
<1>1. CASE UNCHANGED vars
  BY <1>1, QuietKeepsWake DEF vars, semaVars, WokenAcquirers, WokenWaiters
<1>2. ASSUME NEW t \in Thread, QueueStep(t) PROVE Wake'
  <2>1. ASSUME NEW v \in Value, Add(t, v) \/ AddTimed(t, v) \/ AddIfRoom(t, v) PROVE Wake'
    BY <1>0, <2>1, EnteredAwake, PutKeepsWake, AwaitSlotKeepsWake, ReturnFalseKeepsWake
    DEF Add, AddTimed, AddIfRoom, Enter, GtZeroWaits
  <2>2. ASSUME Enter(t), Take(t) PROVE Wake'
    BY <1>0, <2>2, EnteredAwake, ReleaseKeepsWake DEF Take, Return, Enter
  <2>3. CASE Remove(t)
    BY <2>2, <2>3, ReturnFalseKeepsWake DEF Remove, Enter
  <2>4. ASSUME Enter(t), NEW how \in DecrementWaits, AwaitElement(t, how) PROVE Wake'
    <3>1. /\ pc[t] = "idle" /\ pc' = [pc EXCEPT ![t] = how]
          /\ cnt >= Size /\ cnt' = cnt /\ gtZeroCond' = gtZeroCond
      BY <2>4 DEF Enter, AwaitElement, SleepOnDecrement
    <3> QED
      BY <3>1, EmptyKeepsWake
  <2>5. CASE RemoveOrBlock(t) \/ RemoveOrBlockTimed(t)
    BY <2>2, <2>4, <2>5 DEF RemoveOrBlock, RemoveOrBlockTimed, DecrementWaits
  <2>6. CASE AddResume(t)
    BY <2>6, PutKeepsWake, AwaitSlotKeepsWake DEF AddResume, BackFromGtZero, CanPut
  <2>7. CASE AddTimedOut(t)
    BY <2>7, ReturnFalseKeepsWake DEF AddTimedOut, TimedOuts
  <2>8. CASE RemoveResume(t)
    <3>1. pc[t] \in DecrementWaits /\ t \notin decrementCond /\ pc' = [pc EXCEPT ![t] = "idle"]
      BY <2>8 DEF RemoveResume, BackFromDecrement, ReturnFalse, Return
    <3>2. Released \/ (cnt >= Size /\ cnt' = cnt /\ gtZeroCond' = gtZeroCond)
      BY <2>8 DEF RemoveResume, ReturnFalse
    <3> QED
      BY <3>1, <3>2, ReleaseKeepsWake, EmptyKeepsWake
  <2>9. CASE Spurious(t) \/ TimedOut(t)
    BY <2>9, CondKeepsWake
  <2> QED
    BY <1>2, <2>1, <2>3, <2>5, <2>6, <2>7, <2>8, <2>9 DEF QueueStep, Resume
<1>3. ASSUME NEW t \in Thread,
             IterStep(t) \/ (\E b \in BOOLEAN : SetEnabled(t, b)) \/ Reverse(t) \/ UnblockAllRemovers(t)
      PROVE  Wake'
  BY <1>3, ControlKeepsWake
<1> QED
  BY <1>1, <1>2, <1>3 DEF Next

\* Ring and Wake together hold in every reachable state.
LEMMA AlwaysAwake == Spec => [](Ring /\ Wake)
<1>1. Init => Ring /\ Wake
  BY RingInit DEF Init, SemaInit, Wake, NoLostRelease, NoLostAcquire
<1>2. Ring /\ Wake /\ [Next]_vars => (Ring /\ Wake)'
  BY RingStep, WakeStep
<1> QED
  BY <1>1, <1>2, PTL DEF Spec

\* No wakeup for a blocked add() is lost: while one sleeps, every free slot is
\* spoken for by an adder that was woken.
THEOREM SlotWakeupsKept == Spec => []NoLostRelease
<1>1. Ring /\ Wake => NoLostRelease
  BY DEF Wake
<1> QED
  BY <1>1, AlwaysAwake, PTL

\* No wakeup for a blocked removeOrBlock() is lost: while one sleeps, every
\* element is spoken for by a removal that was woken.
THEOREM ElementWakeupsKept == Spec => []NoLostAcquire
<1>1. Ring /\ Wake => NoLostAcquire
  BY DEF Wake
<1> QED
  BY <1>1, AlwaysAwake, PTL

\* Adders and removers are never all asleep on their condition variables with
\* nobody woken: what one side lacks the other side has.
THEOREM NeverAllAsleep == Spec => []NotAllAsleep
<1>1. Ring /\ Wake => NotAllAsleep
  <2> SUFFICES ASSUME Ring, Wake, gtZeroCond # {}, decrementCond # {},
                      WokenAcquirers = {}, WokenWaiters = {}
               PROVE  FALSE
    BY DEF NotAllAsleep
  <2>1. cnt <= Cardinality({}) /\ Remain <= Cardinality({})
    BY DEF Wake, NoLostRelease, NoLostAcquire
  <2>2. Cardinality({}) = 0
    BY FS_EmptySet
  <2> QED
    BY <2>1, <2>2, SemaAssumption DEF Ring, TypeOK, RingTypeOK, Remain
<1> QED
  BY <1>1, AlwaysAwake, PTL

-----------------------------------------------------------------------------
(***************************************************************************)
(* The ring with all its calls implements the queue of BoundedQueue, and   *)
(* its iterators and array-like functions are at the elements they say.    *)
(*                                                                         *)
(* Ring says where the elements are.  What it leaves open, and what the    *)
(* steps need, is in Calls: a blocked add still has its element, no call   *)
(* waits with a deadline on decrementCond, the holder of an iterator waits *)
(* for nothing.                                                            *)
(***************************************************************************)
Adders == {"gtZeroTimedOut"} \cup GtZeroWaits

Calls ==
    /\ \A t \in Thread : pc[t] \in Adders => arg[t] \in Value
    /\ \A t \in Thread : pc[t] \notin {"decrementTimed", "decrementTimedOut"}
    /\ \A t \in Thread : localMutex = t => pc[t] = "idle"

RingInUse == Ring /\ Calls /\ IterInOrder

-----------------------------------------------------------------------------
\* The index that get(n) and set(n) compute, without the walk.
IndexAfter(n) == IF WalkStart + n <= Size THEN WalkStart + n ELSE WalkStart + n - Size

\* get(n) and set(n, d) begin at a slot, or one past the last.
LEMMA WalkStartsInside == Ring => WalkStart \in 0..Size
BY SemaAssumption DEF Ring, TypeOK, RingTypeOK, RingConsistent, WalkStart

\* The walk wraps when it has come to Size, one slot late.
LEMMA IndexFound ==
  ASSUME WalkStart \in 0..Size, NEW n \in 0..Size
  PROVE  ArrayIndex(n) = IndexAfter(n)
<1> DEFINE IsIndex(f) == f = [c \in 0..n |->
              IF c = 0 THEN WalkStart ELSE (IF f[c - 1] >= Size THEN 0 ELSE f[c - 1]) + 1]
           g == [c \in 0..n |-> IndexAfter(c)]
           walk == CHOOSE f : IsIndex(f)
<1>0. Size \in Nat \ {0} /\ n \in Nat
  BY SemaAssumption DEF SemaAssumption
<1>1. IsIndex(g)
  <2>1. ASSUME NEW c \in 0..n
        PROVE  g[c] = IF c = 0 THEN WalkStart
                      ELSE (IF g[c - 1] >= Size THEN 0 ELSE g[c - 1]) + 1
    BY <1>0 DEF IndexAfter
  <2> HIDE DEF g
  <2>2. g = [c \in 0..n |-> g[c]]
    BY DEF g
  <2> QED
    BY <2>1, <2>2
<1>2. IsIndex(walk)
  <2> HIDE DEF IsIndex, g
  <2>1. \E f : IsIndex(f)
    BY <1>1
  <2> QED
    BY <2>1, Zenon
<1> HIDE DEF walk
<1>3. \A c \in 0..n : walk[c] = g[c]
  <2> DEFINE P == {c \in Nat : c <= n => walk[c] = g[c]}
  <2>1. 0 \in P
    <3>1. walk[0] = WalkStart
      BY <1>0, <1>2
    <3>2. g[0] = WalkStart
      BY <1>0 DEF IndexAfter
    <3> QED
      BY <3>1, <3>2
  <2>2. ASSUME NEW c \in P PROVE c + 1 \in P
    <3>1. CASE c + 1 <= n
      <4>1. c \in Nat /\ c + 1 \in 0..n /\ (c + 1) - 1 = c /\ c + 1 # 0 /\ walk[c] = g[c]
        BY <1>0, <3>1
      <4>2. walk[c + 1] = (IF walk[c] >= Size THEN 0 ELSE walk[c]) + 1
        BY <1>2, <4>1
      <4>3. g[c + 1] = (IF g[c] >= Size THEN 0 ELSE g[c]) + 1
        <5> HIDE DEF g
        <5> QED
          BY <1>1, <4>1
      <4> HIDE DEF g
      <4> QED
        BY <4>1, <4>2, <4>3
    <3> QED
      BY <1>0, <3>1
  <2>3. P \in SUBSET Nat
    OBVIOUS
  <2> HIDE DEF P
  <2>4. \A c \in 0..n : c \in P
    BY <1>0, <2>1, <2>2, <2>3, NatSetInduction
  <2> QED
    BY <2>4 DEF P
<1>4. ArrayIndex(n) = walk[n]
  BY DEF ArrayIndex, walk
<1> QED
  BY <1>0, <1>3, <1>4

\* Where get(n) and set(n) look, for the indices they accept.
LEMMA IndexInside ==
  ASSUME Ring, NEW n \in Index, InRange(n)
  PROVE  /\ n \in 0..(Size - 1) /\ n < Remain
         /\ ArrayIndex(n) = IndexAfter(n) /\ ArrayIndex(n) \in 0..Size
<1>1. n \in 0..(Size - 1) /\ n < Remain
  BY SemaAssumption DEF Ring, TypeOK, RingTypeOK, InRange, Index, Remain
<1>2. WalkStart \in 0..Size /\ Size \in Nat
  BY WalkStartsInside, SemaAssumption DEF SemaAssumption
<1>3. ArrayIndex(n) = IndexAfter(n)
  BY <1>1, <1>2, IndexFound
<1> QED
  BY <1>1, <1>2, <1>3 DEF IndexAfter

\* What clear(), get() and set() do to the ring.
LEMMA ClearKeepsRing ==
  ASSUME Ring, NEW t \in Thread, Clear(t)
  PROVE  Ring'
<1> USE SemaAssumption DEF Ring, TypeOK, Clear, ResetRing, ResetNoLock, userVars
<1>1. SemaTypeOK'
  BY DEF SemaTypeOK
<1>2. RingTypeOK'
  <2>1. data' \in [0..(Size - 1) -> Value \cup {None}]
    BY DEF RingTypeOK
  <2>2. reversed' \in BOOLEAN
    OBVIOUS
  <2> QED
    BY <2>1, <2>2 DEF RingTypeOK
<1>3. UserTypeOK'
  BY DEF UserTypeOK
<1>4. RingConsistent'
  BY DEF RingConsistent, Slot, Remain, NextNextIn, Following
<1> QED
  BY <1>1, <1>2, <1>3, <1>4

\* get(n) and set(n, d) leave the indices as they are.
LEMMA ArrayKeepsRing ==
  ASSUME Ring, NEW t \in Thread, NEW n \in Index,
         ArrayGet(t, n) \/ \E v \in Value : ArraySet(t, n, v)
  PROVE  Ring'
<1> USE DEF Ring, TypeOK
<1>0. /\ UNCHANGED <<cnt, localMutex, gtZeroCond, decrementCond, pc, nextIn, nextOut, reversed>>
      /\ UNCHANGED <<enabled, arg, iter>>
  BY DEF ArrayGet, ArraySet, semaVars, ringVars
<1>1. SemaTypeOK'
  BY <1>0 DEF SemaTypeOK
<1>2. RingTypeOK'
  <2>1. data' \in [0..(Size - 1) -> Value \cup {None}]
    BY DEF RingTypeOK, ArrayGet, ArraySet, ringVars
  <2> QED
    BY <1>0, <2>1 DEF RingTypeOK
<1>3. UserTypeOK'
  <2>1. ret' \in [Thread -> Value \cup {None, Failed}]
    <3>1. CASE InRange(n) /\ ArrayIndex(n) < Size
      <4>1. ArrayIndex(n) \in 0..(Size - 1)
        BY <3>1, IndexInside, SemaAssumption
      <4> QED
        BY <3>1, <4>1 DEF ArrayGet, ArraySet, UserTypeOK, RingTypeOK
    <3>2. CASE ~(InRange(n) /\ ArrayIndex(n) < Size)
      BY <3>2 DEF ArrayGet, ArraySet, UserTypeOK, RingTypeOK
    <3> QED
      BY <3>1, <3>2
  <2> QED
    BY <1>0, <2>1 DEF UserTypeOK
<1>4. RingConsistent'
  BY <1>0 DEF RingConsistent, Slot, Remain, NextNextIn, Following
<1> QED
  BY <1>1, <1>2, <1>3, <1>4

\* The indices stay consistent through every step, array access included.
LEMMA RingArrayStep == Ring /\ [ArrayNext]_vars => Ring'
BY RingStep, ClearKeepsRing, ArrayKeepsRing DEF ArrayNext

-----------------------------------------------------------------------------
\* The calls.  A step that moves at most one thread, to a place where Calls asks
\* nothing of it, and leaves the mutex alone.
LEMMA CallsKept ==
  ASSUME Ring, Calls, NEW t \in Thread, NEW label, pc' = [pc EXCEPT ![t] = label],
         localMutex' = localMutex, Free,
         NEW a, arg' = [arg EXCEPT ![t] = a],
         label \in Adders => a \in Value,
         label \notin {"decrementTimed", "decrementTimedOut"}
  PROVE  Calls'
BY SemaAssumption DEF Calls, Ring, TypeOK, SemaTypeOK, UserTypeOK, Free, SemaAssumption

\* The holder of an iterator goes up the slots as the elements do.
LEMMA IterOrderKept ==
  ASSUME Ring, IterInOrder, NEW t \in Thread, IterStep(t)
  PROVE  IterInOrder'
<1>1. UNCHANGED <<cnt, nextOut, reversed>>
  BY DEF IterStep, GetIter, IterNext, IterData, IterRelease, semaVars, ringVars
<1>2. /\ cnt \in 0..Size /\ nextOut \in 0..(Size - 1) /\ Size \in Nat \ {0}
      /\ iter \in [n : 0..Size, p : 0..(Size - 1), valid : BOOLEAN]
  BY SemaAssumption DEF Ring, TypeOK, RingTypeOK, UserTypeOK, SemaAssumption
<1>3. CASE GetIter(t)
  BY <1>1, <1>2, <1>3 DEF GetIter, IterInOrder, Slot
<1>4. CASE IterNext(t)
  <2>0. localMutex = t /\ iter.n < Remain /\ localMutex' = localMutex /\ ~Free
    BY <1>4, SemaAssumption DEF IterNext, semaVars, Free, SemaAssumption
  <2>1. CASE iter.n + 1 < Remain
    <3>1. /\ iter'.n = iter.n + 1
          /\ iter'.p = (IF iter.p + 1 >= Size THEN 0 ELSE iter.p + 1)
          /\ iter'.valid = iter.valid
      BY <1>2, <1>4, <2>1 DEF IterNext
    <3>2. ASSUME iter.valid, ~reversed PROVE iter'.p = Slot(iter'.n)
      BY <1>2, <2>0, <2>1, <3>1, <3>2 DEF IterInOrder, Slot, Remain
    <3> QED
      BY <1>1, <3>1, <3>2 DEF IterInOrder, Slot
  <2>2. CASE ~(iter.n + 1 < Remain)
    <3>1. ~iter'.valid
      BY <1>2, <1>4, <2>2 DEF IterNext
    <3> QED
      BY <3>1 DEF IterInOrder
  <2> QED
    BY <2>1, <2>2
<1>5. CASE IterData(t)
  BY <1>1, <1>5 DEF IterData, IterInOrder, Slot, Free, semaVars
<1>6. CASE IterRelease(t)
  BY <1>6 DEF IterRelease, IterInOrder, Free
<1> QED
  BY <1>3, <1>4, <1>5, <1>6 DEF IterStep

\* A call that returns.
LEMMA ReturnCalls ==
  ASSUME Ring, Calls, NEW t \in Thread, NEW r, Free, Return(t, r), localMutex' = localMutex
  PROVE  Calls' /\ Free'
<1>1. pc' = [pc EXCEPT ![t] = "idle"] /\ arg' = [arg EXCEPT ![t] = None]
  BY DEF Return
<1>2. "idle" \notin Adders
  BY DEF Adders, GtZeroWaits
<1>3. ~ "idle" \in {"decrementTimed", "decrementTimedOut"}
  OBVIOUS
<1>4. Calls'
  BY <1>1, <1>2, <1>3, CallsKept
<1> QED
  BY <1>4 DEF Free

\* A call that has done its work, and one that goes to sleep.
LEMMA PutCalls ==
  ASSUME Ring, Calls, NEW t \in Thread, NEW v, Free, Put(t, v)
  PROVE  Calls' /\ Free'
BY ReturnCalls DEF Put

\* A call that goes to sleep for a slot leaves the mutex free.
LEMMA AwaitSlotCalls ==
  ASSUME Ring, Calls, NEW t \in Thread, NEW v \in Value, NEW how \in GtZeroWaits, Free,
         AwaitSlot(t, v, how)
  PROVE  Calls' /\ Free'
BY CallsKept DEF AwaitSlot, Free, Adders, GtZeroWaits

\* A call that gives up leaves the mutex free.
LEMMA ReturnFalseCalls ==
  ASSUME Ring, Calls, NEW t \in Thread, Free, ReturnFalse(t)
  PROVE  Calls' /\ Free'
BY ReturnCalls DEF ReturnFalse

\* A call that takes an element leaves the mutex free.
LEMMA TakeCalls ==
  ASSUME Ring, Calls, NEW t \in Thread, Free, Take(t)
  PROVE  Calls' /\ Free'
BY ReturnCalls DEF Take

\* A call that goes to sleep for an element leaves the mutex free.
LEMMA AwaitElementCalls ==
  ASSUME Ring, Calls, NEW t \in Thread, NEW how \in {"decrement", "decrementAbstime"}, Free,
         AwaitElement(t, how)
  PROVE  Calls' /\ Free'
<1>1. pc' = [pc EXCEPT ![t] = how] /\ localMutex' = localMutex /\ arg' = [arg EXCEPT ![t] = arg[t]]
  BY DEF AwaitElement, userVars, Ring, TypeOK, UserTypeOK
<1> QED
  BY <1>1, CallsKept DEF Free, Adders, GtZeroWaits

\* Every call on the ring leaves the mutex free, or leaves alone what it guards.
LEMMA QueueStepCalls ==
  ASSUME Ring, Calls, NEW t \in Thread, QueueStep(t)
  PROVE  Calls' /\ (Free' \/ UNCHANGED <<localMutex, cnt, nextOut, reversed, iter>>)
<1>1. ASSUME NEW v \in Value, Add(t, v) \/ AddTimed(t, v) \/ AddIfRoom(t, v)
      PROVE  Calls' /\ Free'
  BY <1>1, PutCalls, AwaitSlotCalls, ReturnFalseCalls
  DEF Add, AddTimed, AddIfRoom, Enter, GtZeroWaits
<1>2. CASE Remove(t) \/ RemoveOrBlock(t) \/ RemoveOrBlockTimed(t)
  BY <1>2, TakeCalls, ReturnFalseCalls, AwaitElementCalls
  DEF Remove, RemoveOrBlock, RemoveOrBlockTimed, Enter
<1>3. CASE AddResume(t)
  <2>1. arg[t] \in Value /\ pc[t] \in GtZeroWaits /\ Free
    BY <1>3 DEF AddResume, BackFromGtZero, Calls, Adders
  <2> QED
    BY <1>3, <2>1, PutCalls, AwaitSlotCalls DEF AddResume
<1>4. CASE AddTimedOut(t)
  BY <1>4, ReturnFalseCalls DEF AddTimedOut
<1>5. CASE RemoveResume(t)
  <2>1. CASE ReturnFalse(t)
    BY <1>5, <2>1, ReturnFalseCalls DEF RemoveResume, BackFromDecrement
  <2>2. CASE ~ReturnFalse(t)
    BY <1>5, <2>2, ReturnCalls DEF RemoveResume, BackFromDecrement
  <2> QED
    BY <2>1, <2>2
<1>6. CASE Spurious(t)
  BY <1>6 DEF Spurious, SpuriousWakeup, Calls, ringVars, userVars
<1>7. CASE TimedOut(t)
  <2>1. /\ pc[t] = "gtZeroTimed" /\ pc' = [pc EXCEPT ![t] = "gtZeroTimedOut"]
        /\ UNCHANGED <<localMutex, cnt, nextOut, reversed, iter, arg>>
    BY <1>7 DEF TimedOut, TimeOut, Calls, ringVars, userVars
  <2>2. pc \in [Thread -> PC]
    BY DEF Ring, TypeOK, SemaTypeOK
  <2> QED
    BY <2>1, <2>2 DEF Calls, Adders, GtZeroWaits
<1> QED
  BY <1>1, <1>2, <1>3, <1>4, <1>5, <1>6, <1>7 DEF QueueStep, Resume

\* RingInUse is inductive.
LEMMA InUseStep == RingInUse /\ [ArrayNext]_vars => RingInUse'
<1> SUFFICES ASSUME RingInUse, [ArrayNext]_vars PROVE RingInUse'
  OBVIOUS
<1>0. Ring /\ Calls /\ IterInOrder /\ Ring'
  BY RingArrayStep DEF RingInUse
<1>a. ASSUME UNCHANGED <<localMutex, nextOut, reversed, iter>> PROVE IterInOrder'
  BY <1>0, <1>a DEF IterInOrder, Free, Slot
<1>b. ASSUME Free' PROVE IterInOrder'
  BY <1>b DEF IterInOrder
<1>c. ASSUME UNCHANGED <<localMutex, pc, arg>> PROVE Calls'
  BY <1>0, <1>c DEF Calls
<1>1. CASE UNCHANGED vars
  BY <1>0, <1>1, <1>a, <1>c DEF vars, semaVars, ringVars, userVars, RingInUse
<1>2. ASSUME NEW t \in Thread, QueueStep(t) PROVE RingInUse'
  BY <1>0, <1>2, <1>a, <1>b, QueueStepCalls DEF RingInUse
<1>3. ASSUME NEW t \in Thread, IterStep(t) PROVE RingInUse'
  <2>1. Calls'
    <3>1. pc' = pc /\ arg' = arg
      BY <1>3 DEF IterStep, GetIter, IterNext, IterData, IterRelease, semaVars, userVars
    <3>2. localMutex' \in {NoThread, localMutex} \/ (localMutex' = t /\ pc[t] = "idle")
      BY <1>3 DEF IterStep, GetIter, IterNext, IterData, IterRelease, semaVars, Enter
    <3> QED
      BY <1>0, <3>1, <3>2, SemaAssumption DEF Calls, SemaAssumption
  <2> QED
    BY <1>0, <1>3, <2>1, IterOrderKept DEF RingInUse
<1>4. ASSUME NEW t \in Thread,
             \/ \E b \in BOOLEAN : SetEnabled(t, b)
             \/ Reverse(t) \/ UnblockAllRemovers(t) \/ Clear(t)
             \/ \E n \in Index : ArrayGet(t, n) \/ \E v \in Value : ArraySet(t, n, v)
      PROVE  RingInUse'
  <2>1. UNCHANGED <<localMutex, pc, arg>> /\ Free
    BY <1>4 DEF SetEnabled, Reverse, UnblockAllRemovers, Clear, ArrayGet, ArraySet, Enter,
                semaVars, userVars
  <2>2. Free'
    BY <2>1 DEF Free
  <2> QED
    BY <1>0, <1>b, <1>c, <2>1, <2>2 DEF RingInUse
<1> QED
  BY <1>1, <1>2, <1>3, <1>4 DEF ArrayNext, Next

\* The ring and the calls on it stay consistent with array access.
LEMMA AlwaysInUse == ArraySpec => []RingInUse
<1>1. Init => RingInUse
  BY RingInit, SemaAssumption
  DEF Init, SemaInit, RingInUse, Calls, IterInOrder, Free, Adders, GtZeroWaits, SemaAssumption
<1> QED
  BY <1>1, InUseStep, PTL DEF ArraySpec

\* With clear() and the array-like functions too, nextIn, nextOut, the direction and
\* the count describe the same elements.
THEOREM RingConsistentWithArray == ArraySpec => []RingConsistent
<1>1. RingInUse => RingConsistent
  BY DEF RingInUse, Ring
<1> QED
  BY <1>1, AlwaysInUse, PTL

\* While the ring runs upwards an iterator is at the element it says it is at, whatever
\* other threads do while it holds the mutex.
THEOREM IteratorsInOrder == ArraySpec => []IterInOrder
<1>1. RingInUse => IterInOrder
  BY DEF RingInUse
<1> QED
  BY <1>1, AlwaysInUse, PTL

\* The walk of get(n) and set(n) over an upward ring, through the end of the storage:
\* it is at the element that the n-th of the next removals would take, and misses that
\* of slot 0 only.
THEOREM ArrayAlwaysMissesOnlyWrapped == ArraySpec => []ArrayMissesOnlyWrapped
<1>1. RingInUse => ArrayMissesOnlyWrapped
  <2> SUFFICES ASSUME Ring, ~reversed, NEW n \in 0..(Remain - 1)
               PROVE  ArrayIndex(n) = IF n > 0 /\ Slot(n) = 0 THEN Size ELSE Slot(n)
    BY DEF RingInUse, ArrayMissesOnlyWrapped
  <2>1. /\ n \in 0..(Size - 1) /\ Size \in Nat /\ nextOut \in 0..(Size - 1)
    BY SemaAssumption DEF Ring, TypeOK, RingTypeOK, Remain, SemaAssumption
  <2>2. ArrayIndex(n) = IndexAfter(n)
    BY <2>1, WalkStartsInside, IndexFound
  <2>3. WalkStart = nextOut
    BY DEF WalkStart
  <2>4. Slot(n) = IF nextOut + n >= Size THEN nextOut + n - Size ELSE nextOut + n
    BY DEF Slot
  <2> QED
    BY <2>1, <2>2, <2>3, <2>4 DEF IndexAfter
<1> QED
  BY <1>1, AlwaysInUse, PTL

-----------------------------------------------------------------------------
\* The slots.  Different elements are in different slots.
LEMMA SlotsDiffer ==
  ASSUME Ring
  PROVE  /\ Size \in Nat \ {0} /\ cnt \in 0..Size /\ Remain \in 0..Size
         /\ nextOut \in 0..(Size - 1)
         /\ \A i \in 0..(Size - 1) : Slot(i) \in 0..(Size - 1)
         /\ \A i, j \in 0..(Size - 1) : Slot(i) = Slot(j) => i = j
         /\ Slot(0) = nextOut
<1>1. Size \in Nat \ {0} /\ cnt \in 0..Size /\ nextOut \in 0..(Size - 1)
  BY SemaAssumption DEF Ring, TypeOK, RingTypeOK, SemaAssumption
<1> QED
  BY <1>1 DEF Slot, Remain

\* The elements of the ring are a sequence.
LEMMA ContentsSeq ==
  ASSUME Ring
  PROVE  /\ Contents \in Seq(Value \cup {None}) /\ Len(Contents) = Remain
         /\ \A i \in 1..Remain : /\ Contents[i] = data[Slot(i - 1)]
                                 /\ i - 1 \in 0..(Size - 1) /\ Slot(i - 1) \in 0..(Size - 1)
<1>1. \A i \in 1..Remain : i - 1 \in 0..(Size - 1)
  BY SlotsDiffer
<1>2. \A i \in 1..Remain : Slot(i - 1) \in 0..(Size - 1)
  BY <1>1, SlotsDiffer
<1>3. data \in [0..(Size - 1) -> Value \cup {None}] /\ Remain \in Nat
  BY SlotsDiffer DEF Ring, TypeOK, RingTypeOK
<1>4. Contents \in [1..Remain -> Value \cup {None}]
  BY <1>2, <1>3 DEF Contents
<1>5. Contents \in Seq(Value \cup {None}) /\ Len(Contents) = Remain
  BY <1>3, <1>4
<1> QED
  BY <1>1, <1>2, <1>5 DEF Contents

\* The ring is empty, or full, when the count says so.
LEMMA EmptyRing == ASSUME Ring PROVE Remain <= 0 => Contents = <<>>
<1>1. Remain <= 0 => Len(Contents) = 0
  BY SlotsDiffer, ContentsSeq
<1> QED
  BY <1>1, ContentsSeq, EmptySeq

\* A step that leaves the ring alone leaves the elements alone.
LEMMA SameContents ==
  ASSUME UNCHANGED <<cnt, nextOut, reversed, data>>
  PROVE  Contents' = Contents
BY DEF Contents, Remain, Slot

\* An add appends.
LEMMA PutAppends ==
  ASSUME Ring, NEW t \in Thread, NEW v \in Value, Put(t, v)
  PROVE  Len(Contents) < Size /\ Contents' = Append(Contents, v)
<1> DEFINE n == Remain
<1>1. /\ Size \in Nat \ {0} /\ cnt \in 1..Size /\ cnt' = cnt - 1
      /\ nextOut' = nextOut /\ reversed' = reversed
      /\ data' = [data EXCEPT ![NextNextIn] = v] /\ data \in [0..(Size - 1) -> Value \cup {None}]
  BY SlotsDiffer DEF Put, Acquired, Ring, TypeOK, RingTypeOK
<1>2. n \in 0..(Size - 1) /\ Remain' = n + 1
  BY <1>1 DEF Remain
<1>3. \A i \in 0..Size : Slot(i)' = Slot(i)
  BY <1>1 DEF Slot
<1>4. Slot(n) = NextNextIn
  BY DEF Ring, RingConsistent
<1>5. Contents' = [i \in 1..(n + 1) |-> data'[Slot(i - 1)]]
  BY <1>1, <1>2, <1>3 DEF Contents, Slot
<1> HIDE DEF n
<1>6. /\ Contents \in Seq(Value \cup {None}) /\ Len(Contents) = n
      /\ \A i \in 1..n : /\ Contents[i] = data[Slot(i - 1)]
                         /\ i - 1 \in 0..(Size - 1) /\ Slot(i - 1) \in 0..(Size - 1)
  BY ContentsSeq DEF n
<1>7. ASSUME NEW i \in 1..(n + 1)
      PROVE  data'[Slot(i - 1)] = Append(Contents, v)[i]
  <2>1. /\ \A j \in 1..n : Append(Contents, v)[j] = Contents[j]
        /\ Append(Contents, v)[n + 1] = v
    BY <1>6, AppendProperties
  <2>2. CASE i <= n
    <3>1. i \in 1..n /\ n \in 0..(Size - 1) /\ i - 1 # n
      BY <1>2, <2>2
    <3>2. Slot(i - 1) # Slot(n)
      BY <1>6, <3>1, SlotsDiffer
    <3> QED
      BY <1>1, <1>4, <1>6, <2>1, <3>1, <3>2
  <2>3. CASE ~(i <= n)
    <3>1. i = n + 1 /\ i - 1 = n
      BY <1>2, <2>3
    <3>2. Slot(n) \in 0..(Size - 1)
      BY <1>2, SlotsDiffer
    <3> QED
      BY <1>1, <1>4, <2>1, <3>1, <3>2
  <2> QED
    BY <2>2, <2>3
<1>8. Append(Contents, v) = [i \in 1..(n + 1) |-> Append(Contents, v)[i]]
  <2>1. Append(Contents, v) \in Seq(Value \cup {None}) /\ Len(Append(Contents, v)) = n + 1
    BY <1>6, AppendProperties
  <2>2. Append(Contents, v) \in [1..(n + 1) -> Value \cup {None}]
    BY <2>1, LenProperties
  <2> QED
    BY <2>2
<1> QED
  BY <1>1, <1>2, <1>5, <1>6, <1>7, <1>8

\* A removal takes the first element: nextOut goes on, or, with the last element,
\* anywhere.
LEMMA TakeBeheads ==
  ASSUME Ring, cnt < Size, cnt' = cnt + 1, data' = data,
         Remain > 1 => nextOut' = NextNextOut /\ reversed' = reversed
  PROVE  Contents # <<>> /\ Contents' = Tail(Contents) /\ data[nextOut] = Head(Contents)
<1> DEFINE n == Remain
<1>1. n \in 1..Size /\ Remain' = n - 1 /\ Size \in Nat \ {0}
  BY SlotsDiffer DEF Remain
<1>2. Contents' = [i \in 1..(n - 1) |-> data[Slot(i - 1)']]
  BY <1>1 DEF Contents, Slot
<1>3. ASSUME NEW i \in 1..(n - 1) PROVE Slot(i - 1)' = Slot(i)
  <2>1. nextOut' = NextNextOut /\ reversed' = reversed /\ i \in 1..(Size - 1)
    BY <1>1
  <2>2. nextOut \in 0..(Size - 1)
    BY SlotsDiffer
  <2> QED
    BY <1>1, <2>1, <2>2 DEF Slot, NextNextOut, Following
<1> HIDE DEF n
<1>4. /\ Contents \in Seq(Value \cup {None}) /\ Len(Contents) = n
      /\ \A i \in 1..n : Contents[i] = data[Slot(i - 1)]
  BY ContentsSeq DEF n
<1>5. Contents # <<>>
  BY <1>1, <1>4, EmptySeq
<1>6. /\ Tail(Contents) \in Seq(Value \cup {None}) /\ Len(Tail(Contents)) = n - 1
      /\ \A i \in 1..(n - 1) : Tail(Contents)[i] = Contents[i + 1]
  BY <1>4, <1>5, HeadTailProperties
<1>7. Tail(Contents) \in [1..(n - 1) -> Value \cup {None}]
  BY <1>6, LenProperties
<1>8. ASSUME NEW i \in 1..(n - 1) PROVE data[Slot(i - 1)'] = Tail(Contents)[i]
  <2>1. i + 1 \in 1..n /\ (i + 1) - 1 = i
    BY <1>1
  <2> QED
    BY <1>3, <1>4, <1>6, <2>1
<1>9. Head(Contents) = Contents[1]
  BY <1>4, <1>5
<1>10. Contents[1] = data[nextOut]
  <2>1. 1 \in 1..n /\ 1 - 1 = 0 /\ Slot(0) = nextOut
    BY <1>1, SlotsDiffer
  <2> QED
    BY <1>4, <2>1
<1> QED
  BY <1>2, <1>5, <1>7, <1>8, <1>9, <1>10

\* reverse() turns the elements round.
LEMMA ReverseTurns ==
  ASSUME Ring, NEW t \in Thread, Reverse(t)
  PROVE  Contents' = Queue!Backwards(Contents)
<1> DEFINE n == Remain
<1>1. /\ Size \in Nat \ {0} /\ cnt \in 0..(Size - 1) /\ nextOut \in 0..(Size - 1)
      /\ nextIn \in 0..(Size - 1) /\ n \in 1..Size /\ n = Size - cnt
      /\ reversed \in BOOLEAN
  BY SlotsDiffer DEF Ring, TypeOK, RingTypeOK, RingConsistent, Reverse, Remain
<1>2. /\ nextOut' = nextIn /\ reversed' = ~reversed /\ data' = data /\ cnt' = cnt /\ Remain' = n
  BY DEF Reverse, semaVars, Remain
<1>3. Slot(n) = NextNextIn
  BY DEF Ring, RingConsistent
<1>4. Contents' = [i \in 1..n |-> data[Slot(i - 1)']]
  BY <1>2 DEF Contents, Slot
<1>5. ASSUME NEW i \in 1..n PROVE Slot(i - 1)' = Slot(n - i)
  <2>1. ASSUME reversed, ~reversed' PROVE Slot(i - 1)' = Slot(n - i)
    <3>1. (IF nextOut - n < 0 THEN nextOut - n + Size ELSE nextOut - n)
            = IF nextIn - 1 < 0 THEN Size - 1 ELSE nextIn - 1
      BY <1>3, <2>1 DEF Slot, NextNextIn, Following
    <3>2. Slot(i - 1)' = IF nextIn + (i - 1) >= Size THEN nextIn + (i - 1) - Size
                                                     ELSE nextIn + (i - 1)
      BY <1>2, <2>1 DEF Slot
    <3>3. Slot(n - i) = IF nextOut - (n - i) < 0 THEN nextOut - (n - i) + Size
                                                 ELSE nextOut - (n - i)
      BY <2>1 DEF Slot
    <3> HIDE DEF n
    <3> QED
      BY <1>1, <3>1, <3>2, <3>3
  <2>2. ASSUME ~reversed, reversed' PROVE Slot(i - 1)' = Slot(n - i)
    <3>1. (IF nextOut + n >= Size THEN nextOut + n - Size ELSE nextOut + n)
            = IF nextIn + 1 >= Size THEN 0 ELSE nextIn + 1
      BY <1>3, <2>2 DEF Slot, NextNextIn, Following
    <3>2. Slot(i - 1)' = IF nextIn - (i - 1) < 0 THEN nextIn - (i - 1) + Size
                                                 ELSE nextIn - (i - 1)
      BY <1>2, <2>2 DEF Slot
    <3>3. Slot(n - i) = IF nextOut + (n - i) >= Size THEN nextOut + (n - i) - Size
                                                     ELSE nextOut + (n - i)
      BY <2>2 DEF Slot
    <3> HIDE DEF n
    <3> QED
      BY <1>1, <3>1, <3>2, <3>3
  <2> QED
    BY <1>1, <1>2, <2>1, <2>2
<1>6. Len(Contents) = n /\ \A i \in 1..n : Contents[i] = data[Slot(i - 1)]
  BY ContentsSeq
<1> HIDE DEF n
<1>7. ASSUME NEW i \in 1..n PROVE data[Slot(i - 1)'] = Contents[n + 1 - i]
  <2>1. n + 1 - i \in 1..n /\ (n + 1 - i) - 1 = n - i
    BY <1>1
  <2> QED
    BY <1>5, <1>6, <2>1
<1> QED
  BY <1>4, <1>6, <1>7 DEF Queue!Backwards

-----------------------------------------------------------------------------
\* The steps.  What a thread waits for, by where it is and by where a step leaves it.
LEMMA WaitingNow ==
  ASSUME NEW t \in Thread
  PROVE  /\ pc[t] \in Adders => Waiting[t] = "add"
         /\ pc[t] \in DecrementWaits => Waiting[t] = "remove"
         /\ pc[t] = "idle" => Waiting[t] = "no"
BY DEF Waiting, Adders, GtZeroWaits, DecrementWaits

\* What the queue sees of a thread whose program counter moves.
LEMMA WaitingAfter ==
  ASSUME Ring, NEW t \in Thread, NEW label, pc' = [pc EXCEPT ![t] = label]
  PROVE  /\ label \in Adders => Waiting' = [Waiting EXCEPT ![t] = "add"]
         /\ label \in DecrementWaits => Waiting' = [Waiting EXCEPT ![t] = "remove"]
         /\ label = "idle" => Waiting' = [Waiting EXCEPT ![t] = "no"]
<1>1. pc'[t] = label /\ \A u \in Thread : u # t => pc'[u] = pc[u]
  BY DEF Ring, TypeOK, SemaTypeOK
<1>2. Waiting \in [Thread -> {"add", "remove", "no"}]
  BY DEF Waiting
<1>3. \A u \in Thread : u # t => Waiting'[u] = Waiting[u]
  BY <1>1 DEF Waiting
<1>4. /\ label \in Adders => Waiting'[t] = "add"
      /\ label \in DecrementWaits => Waiting'[t] = "remove"
      /\ label = "idle" => Waiting'[t] = "no"
  BY <1>1 DEF Waiting, Adders, GtZeroWaits, DecrementWaits
<1>5. Waiting' = [u \in Thread |-> Waiting'[u]]
  BY DEF Waiting
<1> QED
  BY <1>2, <1>3, <1>4, <1>5

\* A thread that keeps waiting for the same thing changes nothing for the queue.
LEMMA SameWaiting ==
  ASSUME NEW t \in Thread, Waiting' = [Waiting EXCEPT ![t] = Waiting[t]]
  PROVE  Waiting' = Waiting
BY DEF Waiting

\* A call that returns in the code returns in the queue.
LEMMA CallReturns ==
  ASSUME Ring, NEW t \in Thread, NEW r, Return(t, r)
  PROVE  Queue!Return(t, r)
<1>1. Waiting' = [Waiting EXCEPT ![t] = "no"]
  BY WaitingAfter DEF Return
<1> QED
  BY <1>1 DEF Queue!Return, Return

\* An add that has a slot, at once or after a wait, is a Put.
LEMMA PutRefines ==
  ASSUME Ring, NEW t \in Thread, NEW v \in Value, Put(t, v),
         pc[t] = "idle" \/ (pc[t] \in Adders /\ arg[t] = v)
  PROVE  Queue!Put(t, v)
<1>1. Len(Contents) < Size /\ Contents' = Append(Contents, v)
  BY PutAppends
<1>2. Waiting[t] = "no" \/ (Waiting[t] = "add" /\ arg[t] = v)
  BY WaitingNow
<1>3. Queue!Return(t, v)
  BY CallReturns DEF Put
<1> QED
  BY <1>1, <1>2, <1>3 DEF Queue!Put

\* An add that goes to sleep is a WaitToPut; one that sleeps again is no step.
LEMMA AwaitSlotRefines ==
  ASSUME Ring, NEW t \in Thread, NEW v \in Value, NEW how \in GtZeroWaits,
         AwaitSlot(t, v, how)
  PROVE  /\ pc[t] = "idle" => Queue!WaitToPut(t, v)
         /\ pc[t] \in Adders /\ arg[t] = v => UNCHANGED Queue!qVars
<1>1. /\ cnt < 1 /\ UNCHANGED <<cnt, nextIn, nextOut, reversed, data, ret>>
      /\ pc' = [pc EXCEPT ![t] = how] /\ arg' = [arg EXCEPT ![t] = v]
  BY DEF AwaitSlot, SleepOnGtZero, ringVars
<1>2. Contents' = Contents
  BY <1>1, SameContents
<1>3. Len(Contents) = Size
  BY <1>1, ContentsSeq, SlotsDiffer DEF Remain
<1>4. Waiting' = [Waiting EXCEPT ![t] = "add"]
  BY <1>1, WaitingAfter DEF Adders
<1>5. pc[t] \in Adders /\ arg[t] = v => Waiting' = Waiting /\ arg' = arg
  BY <1>1, <1>4, WaitingNow, SameWaiting DEF Ring, TypeOK, UserTypeOK
<1> QED
  BY <1>1, <1>2, <1>3, <1>4, <1>5, WaitingNow DEF Queue!WaitToPut, Queue!qVars

\* A removal that finds an element is a Get.
LEMMA GetRefines ==
  ASSUME Ring, NEW t \in Thread, pc[t] \in {"idle"} \cup DecrementWaits,
         cnt < Size, cnt' = cnt + 1, data' = data, Return(t, data[nextOut]),
         Remain > 1 => nextOut' = NextNextOut /\ reversed' = reversed
  PROVE  Queue!Get(t)
<1>1. Contents # <<>> /\ Contents' = Tail(Contents) /\ data[nextOut] = Head(Contents)
  BY TakeBeheads
<1>2. Waiting[t] \in {"no", "remove", "removeTimed"}
  BY WaitingNow
<1>3. Queue!Return(t, data[nextOut])
  BY CallReturns
<1> QED
  BY <1>1, <1>2, <1>3 DEF Queue!Get

\* Taking an element at once is a Get of the queue.
LEMMA TakeRefines ==
  ASSUME Ring, NEW t \in Thread, pc[t] = "idle", Take(t)
  PROVE  Queue!Get(t)
<1>1. cnt < Size /\ cnt' = cnt + 1 /\ data' = data /\ Return(t, data[nextOut])
  BY SlotsDiffer DEF Take, Remain, Released
<1>2. Remain > 1 => nextOut' = NextNextOut /\ reversed' = reversed
  BY SlotsDiffer DEF Take
<1> QED
  BY <1>1, <1>2, GetRefines

\* A call that returns false: an add from a full ring or after its time, a removal
\* from an empty ring.
LEMMA ReturnFalseRefines ==
  ASSUME Ring, NEW t \in Thread, ReturnFalse(t)
  PROVE  /\ pc[t] \in Adders => Queue!FailToPut(t)
         /\ pc[t] = "idle" /\ cnt < 1 => Queue!FailToPut(t)
         /\ pc[t] \in {"idle"} \cup DecrementWaits /\ cnt >= Size => Queue!FailToGet(t)
<1>1. Contents' = Contents
  BY SameContents DEF ReturnFalse, ringVars
<1>2. Queue!Return(t, Failed)
  BY CallReturns DEF ReturnFalse
<1>3. cnt < 1 => Len(Contents) = Size
  BY ContentsSeq, SlotsDiffer DEF Remain
<1>4. cnt >= Size => Contents = <<>>
  BY EmptyRing, SlotsDiffer DEF Remain
<1> QED
  BY <1>1, <1>2, <1>3, <1>4, WaitingNow DEF Queue!FailToPut, Queue!FailToGet

\* A removal that goes to sleep is a WaitToGet.
LEMMA AwaitElementRefines ==
  ASSUME Ring, NEW t \in Thread, pc[t] = "idle", NEW how \in DecrementWaits,
         AwaitElement(t, how)
  PROVE  Queue!WaitToGet(t, "remove")
<1>1. UNCHANGED <<cnt, nextIn, nextOut, reversed, data, arg, ret>> /\ Remain <= 0
  BY DEF AwaitElement, SleepOnDecrement, ringVars, userVars
<1>2. Contents' = Contents /\ Contents = <<>>
  BY <1>1, SameContents, EmptyRing
<1>3. Waiting' = [Waiting EXCEPT ![t] = "remove"]
  BY WaitingAfter DEF AwaitElement
<1> QED
  BY <1>1, <1>2, <1>3, WaitingNow DEF Queue!WaitToGet

\* Adding and removing.
LEMMA QueueStepRefines ==
  ASSUME Ring, Calls, NEW t \in Thread, QueueStep(t)
  PROVE  Queue!Next \/ UNCHANGED Queue!qVars
<1>a. Queue!Get(t) \/ Queue!FailToGet(t) \/ Queue!FailToPut(t) \/ Queue!WaitToGet(t, "remove")
        => Queue!Next
  BY DEF Queue!Next
<1>b. \A v \in Value : Queue!Put(t, v) \/ Queue!WaitToPut(t, v) => Queue!Next
  BY DEF Queue!Next
<1>1. ASSUME NEW v \in Value, Add(t, v) \/ AddTimed(t, v) \/ AddIfRoom(t, v)
      PROVE  Queue!Next
  BY <1>1, <1>a, <1>b, PutRefines, AwaitSlotRefines, ReturnFalseRefines
  DEF Add, AddTimed, AddIfRoom, Enter, GtZeroWaits
<1>2. CASE Remove(t)
  <2>1. Remain <= 0 => cnt >= Size
    BY SlotsDiffer DEF Remain
  <2> QED
    BY <1>2, <1>a, <2>1, TakeRefines, ReturnFalseRefines DEF Remove, Enter
<1>3. CASE RemoveOrBlock(t) \/ RemoveOrBlockTimed(t)
  BY <1>3, <1>a, TakeRefines, AwaitElementRefines
  DEF RemoveOrBlock, RemoveOrBlockTimed, Enter, DecrementWaits
<1>4. CASE AddResume(t)
  <2>1. arg[t] \in Value /\ pc[t] \in GtZeroWaits /\ pc[t] \in Adders
    BY <1>4 DEF AddResume, BackFromGtZero, Calls, Adders
  <2>2. CASE Put(t, arg[t])
    BY <1>b, <2>1, <2>2, PutRefines
  <2>3. CASE AwaitSlot(t, arg[t], pc[t])
    BY <2>1, <2>3, AwaitSlotRefines
  <2> QED
    BY <1>4, <2>2, <2>3 DEF AddResume
<1>5. CASE AddTimedOut(t)
  BY <1>5, <1>a, ReturnFalseRefines DEF AddTimedOut, Adders
<1>6. CASE RemoveResume(t)
  <2>1. pc[t] \in DecrementWaits
    BY <1>6 DEF RemoveResume, BackFromDecrement
  <2>2. CASE cnt >= Size /\ ReturnFalse(t)
    BY <1>a, <2>1, <2>2, ReturnFalseRefines
  <2>3. CASE /\ cnt < Size
             /\ Return(t, data[nextOut])
             /\ nextOut' = NextNextOut
             /\ Released
             /\ UNCHANGED <<localMutex, nextIn, reversed, data, enabled, iter>>
    BY <1>a, <2>1, <2>3, GetRefines, ReleasedShrinks
  <2> QED
    BY <1>6, <2>2, <2>3 DEF RemoveResume
<1>7. CASE Spurious(t)
  BY <1>7, SameContents
  DEF Spurious, SpuriousWakeup, ringVars, userVars, Queue!qVars, Waiting
<1>8. CASE TimedOut(t)
  <2>1. /\ pc[t] = "gtZeroTimed" /\ pc' = [pc EXCEPT ![t] = "gtZeroTimedOut"]
        /\ UNCHANGED <<cnt, nextOut, reversed, data, arg, ret>>
    BY <1>8 DEF TimedOut, TimeOut, Calls, ringVars, userVars
  <2>2. Waiting' = Waiting
    BY <2>1, WaitingNow, WaitingAfter, SameWaiting DEF Adders, GtZeroWaits
  <2> QED
    BY <2>1, <2>2, SameContents DEF Queue!qVars
<1> QED
  BY <1>1, <1>2, <1>3, <1>4, <1>5, <1>6, <1>7, <1>8 DEF QueueStep, Resume

\* A step that only sets what a thread outside any wait has read is a Look.
LEMMA LookRefines ==
  ASSUME NEW t \in Thread, pc[t] = "idle", UNCHANGED <<pc, arg>>, Contents' = Contents,
         NEW r \in Value \cup {None, Failed}, ret' = [ret EXCEPT ![t] = r]
  PROVE  Queue!Next
<1>1. Waiting[t] = "no" /\ Waiting' = Waiting
  BY WaitingNow DEF Waiting
<1>2. Queue!Look(t)
  BY <1>1 DEF Queue!Look
<1> QED
  BY <1>2 DEF Queue!Next

\* An iterator only looks.
LEMMA IterRefines ==
  ASSUME Ring, Calls, NEW t \in Thread, IterStep(t)
  PROVE  Queue!Next \/ UNCHANGED Queue!qVars
<1>1. UNCHANGED <<cnt, nextOut, reversed, data, pc, arg>>
  BY DEF IterStep, GetIter, IterNext, IterData, IterRelease, semaVars, ringVars, userVars
<1>2. Contents' = Contents
  BY <1>1, SameContents
<1>3. CASE IterData(t)
  <2> DEFINE r == IF iter.valid /\ iter.n < Remain THEN data[iter.p] ELSE Failed
  <2>1. r \in Value \cup {None, Failed}
    BY DEF Ring, TypeOK, RingTypeOK, UserTypeOK
  <2>2. ret' = [ret EXCEPT ![t] = r] /\ pc[t] = "idle"
    BY <1>3 DEF IterData, Calls
  <2> HIDE DEF r
  <2> QED
    BY <1>1, <1>2, <2>1, <2>2, LookRefines
<1>4. CASE GetIter(t) \/ IterNext(t) \/ IterRelease(t)
  <2>1. ret' = ret
    BY <1>4 DEF GetIter, IterNext, IterRelease, userVars
  <2> QED
    BY <1>1, <1>2, <2>1 DEF Waiting, Queue!qVars
<1> QED
  BY <1>3, <1>4 DEF IterStep

\* enable(), disable() and unblockAllRemovers() are no steps of the queue, reverse()
\* turns it round, clear() empties it.
LEMMA ControlRefines ==
  ASSUME Ring, NEW t \in Thread,
         \/ \E b \in BOOLEAN : SetEnabled(t, b)
         \/ Reverse(t) \/ UnblockAllRemovers(t) \/ Clear(t)
  PROVE  Queue!Next \/ UNCHANGED Queue!qVars
<1>1. UNCHANGED <<pc, arg, ret>>
  BY DEF SetEnabled, Reverse, UnblockAllRemovers, Clear, semaVars, userVars
<1>2. Waiting' = Waiting
  BY <1>1 DEF Waiting
<1>3. CASE UnblockAllRemovers(t) \/ \E b \in BOOLEAN : SetEnabled(t, b)
  <2>1. Contents' = Contents
    BY <1>3, SameContents
    DEF SetEnabled, UnblockAllRemovers, ReleasedAllAcquireLocks, semaVars, ringVars
  <2> QED
    BY <1>1, <1>2, <2>1 DEF Queue!qVars
<1>4. CASE Reverse(t)
  <2>1. Contents' = Queue!Backwards(Contents)
    BY <1>4, ReverseTurns
  <2> QED
    BY <1>1, <1>2, <2>1 DEF Queue!TurnRound, Queue!Next
<1>5. CASE Clear(t)
  <2>1. Remain' = 0
    BY <1>5, SemaAssumption DEF Clear, ResetNoLock, Remain
  <2>2. 1..0 = {}
    OBVIOUS
  <2>3. Contents' = <<>>
    BY <2>1, <2>2 DEF Contents
  <2> QED
    BY <1>1, <1>2, <2>3 DEF Queue!Empty, Queue!Next
<1> QED
  BY <1>3, <1>4, <1>5

\* get(n) looks; what it reads past the storage is any element.
LEMMA ArrayGetRefines ==
  ASSUME Ring, NEW t \in Thread, NEW n \in Index, ArrayGet(t, n)
  PROVE  Queue!Next
<1>1. UNCHANGED <<cnt, nextOut, reversed, data, pc, arg>> /\ pc[t] = "idle"
  BY DEF ArrayGet, Enter, semaVars, ringVars
<1>2. Contents' = Contents
  BY <1>1, SameContents
<1>3. \E r \in Value \cup {None, Failed} : ret' = [ret EXCEPT ![t] = r]
  <2>1. CASE InRange(n) /\ ArrayIndex(n) < Size
    <3>1. ArrayIndex(n) \in 0..(Size - 1)
      BY <2>1, IndexInside, SemaAssumption
    <3> QED
      BY <2>1, <3>1 DEF ArrayGet, Ring, TypeOK, RingTypeOK
  <2>2. CASE ~(InRange(n) /\ ArrayIndex(n) < Size)
    BY <2>2 DEF ArrayGet
  <2> QED
    BY <2>1, <2>2
<1> QED
  BY <1>1, <1>2, <1>3, LookRefines

\* set(n) replaces the element in the slot it reaches, if there is one.
LEMMA SetOverwrites ==
  ASSUME Ring, NEW s \in 0..(Size - 1), NEW v, data' = [data EXCEPT ![s] = v],
         UNCHANGED <<cnt, nextOut, reversed>>
  PROVE  \/ Contents' = Contents
         \/ \E i \in 1..Len(Contents) : Contents' = [Contents EXCEPT ![i] = v]
<1>1. /\ Len(Contents) = Remain
      /\ \A i \in 1..Remain : /\ Contents[i] = data[Slot(i - 1)]
                              /\ i - 1 \in 0..(Size - 1) /\ Slot(i - 1) \in 0..(Size - 1)
  BY ContentsSeq
<1>2. Contents' = [i \in 1..Remain |-> data'[Slot(i - 1)]] /\ data \in [0..(Size - 1) -> Value \cup {None}]
  BY DEF Contents, Remain, Slot, Ring, TypeOK, RingTypeOK
<1>3. Contents = [i \in 1..Remain |-> data[Slot(i - 1)]]
  BY DEF Contents
<1>4. CASE \A i \in 1..Remain : Slot(i - 1) # s
  BY <1>1, <1>2, <1>3, <1>4
<1>5. ASSUME NEW k \in 1..Remain, Slot(k - 1) = s
      PROVE  Contents' = [Contents EXCEPT ![k] = v]
  <2>1. ASSUME NEW i \in 1..Remain PROVE (Slot(i - 1) = s) <=> (i = k)
    <3>1. Remain \in Nat /\ i - 1 \in 0..(Size - 1) /\ k - 1 \in 0..(Size - 1)
      BY <1>1, <1>5, SlotsDiffer
    <3>2. Slot(i - 1) = s => i - 1 = k - 1
      BY <1>5, <3>1, SlotsDiffer
    <3> QED
      BY <1>5, <3>1, <3>2
  <2>2. \A i \in 1..Remain : data'[Slot(i - 1)] = IF i = k THEN v ELSE Contents[i]
    BY <1>1, <1>2, <2>1
  <2>3. [Contents EXCEPT ![k] = v] = [i \in 1..Remain |-> IF i = k THEN v ELSE Contents[i]]
    BY <1>3
  <2> QED
    BY <1>2, <2>2, <2>3
<1> QED
  BY <1>1, <1>4, <1>5

\* set(n, d) is a Set of the queue, or changes nothing in it.
LEMMA ArraySetRefines ==
  ASSUME Ring, NEW t \in Thread, NEW n \in Index, NEW v \in Value, ArraySet(t, n, v)
  PROVE  Queue!Next
<1>1. UNCHANGED <<cnt, nextOut, reversed, pc, arg>> /\ pc[t] = "idle"
  BY DEF ArraySet, Enter, semaVars
<1>2. CASE data' = data
  <2>1. Contents' = Contents
    BY <1>1, <1>2, SameContents
  <2>2. \E r \in Value \cup {None, Failed} : ret' = [ret EXCEPT ![t] = r]
    BY DEF ArraySet
  <2> QED
    BY <1>1, <2>1, <2>2, LookRefines
<1>3. CASE data' # data
  <2>1. /\ InRange(n) /\ ArrayIndex(n) < Size /\ data' = [data EXCEPT ![ArrayIndex(n)] = v]
        /\ ret' = [ret EXCEPT ![t] = v]
    BY <1>3 DEF ArraySet
  <2>2. ArrayIndex(n) \in 0..(Size - 1)
    BY <2>1, IndexInside, SemaAssumption
  <2>3. CASE Contents' = Contents
    BY <1>1, <2>1, <2>3, LookRefines
  <2>4. CASE \E i \in 1..Len(Contents) : Contents' = [Contents EXCEPT ![i] = v]
    <3>1. Waiting[t] = "no" /\ Waiting' = Waiting
      BY <1>1, WaitingNow DEF Waiting
    <3>2. Queue!Overwrite(t, v)
      BY <1>1, <2>1, <2>4, <3>1 DEF Queue!Overwrite
    <3> QED
      BY <3>2 DEF Queue!Next
  <2> QED
    BY <1>1, <2>1, <2>2, <2>3, <2>4, SetOverwrites
<1> QED
  BY <1>2, <1>3

\* Every step of the ring buffer is a step of the queue, or none.
LEMMA StepRefines == RingInUse /\ [ArrayNext]_vars => [Queue!Next]_Queue!qVars
<1> SUFFICES ASSUME RingInUse, [ArrayNext]_vars PROVE Queue!Next \/ UNCHANGED Queue!qVars
  OBVIOUS
<1>0. Ring /\ Calls
  BY DEF RingInUse
<1>1. CASE UNCHANGED vars
  <2>1. Contents' = Contents
    BY <1>1, SameContents DEF vars, semaVars, ringVars
  <2> QED
    BY <1>1, <2>1 DEF vars, semaVars, userVars, Waiting, Queue!qVars
<1>2. ASSUME NEW t \in Thread, QueueStep(t) PROVE Queue!Next \/ UNCHANGED Queue!qVars
  BY <1>0, <1>2, QueueStepRefines
<1>3. ASSUME NEW t \in Thread, IterStep(t) PROVE Queue!Next \/ UNCHANGED Queue!qVars
  BY <1>0, <1>3, IterRefines
<1>4. ASSUME NEW t \in Thread,
             \/ \E b \in BOOLEAN : SetEnabled(t, b)
             \/ Reverse(t) \/ UnblockAllRemovers(t) \/ Clear(t)
      PROVE  Queue!Next \/ UNCHANGED Queue!qVars
  BY <1>0, <1>4, ControlRefines
<1>5. ASSUME NEW t \in Thread, NEW n \in Index,
             ArrayGet(t, n) \/ \E v \in Value : ArraySet(t, n, v)
      PROVE  Queue!Next
  BY <1>0, <1>5, ArrayGetRefines, ArraySetRefines
<1> QED
  BY <1>1, <1>2, <1>3, <1>4, <1>5 DEF ArrayNext, Next

\* tw_safeCircular is a bounded queue: whatever adds, removals, blocked calls, time-outs,
\* resets, reversals, clears, iterators and array accesses any number of threads make on
\* a ring of any size, elements leave in order and once each, and a removal fails only
\* when the ring is empty.
THEOREM RingImplementsQueue == ArraySpec => ImplementsQueue
<1>1. Init => Queue!Init
  <2> SUFFICES ASSUME Init PROVE Queue!Init
    OBVIOUS
  <2>1. Remain = 0
    BY SemaAssumption DEF Init, SemaInit, Remain
  <2>2. 1..0 = {}
    OBVIOUS
  <2>3. Contents = <<>>
    BY <2>1, <2>2 DEF Contents
  <2>4. Waiting = [t \in Thread |-> "no"]
    BY DEF Init, SemaInit, Waiting, GtZeroWaits, DecrementWaits
  <2> QED
    BY <2>3, <2>4 DEF Init, Queue!Init
<1> QED
  BY <1>1, AlwaysInUse, StepRefines, PTL DEF ArraySpec, ImplementsQueue, Queue!Spec
=============================================================================

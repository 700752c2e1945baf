---------------------------- MODULE ThreadsProofs ----------------------------
(***************************************************************************)
(* Theorems about the components that threads share, for every number of   *)
(* threads, slots, callbacks, references and tasks: the bounded FIFO over  *)
(* TW_Sema, autoPointer, the tasks and their manager, TW_SemaTwoWay as a   *)
(* pool, TWDenseHash and TWSparseHash, and two rings of which one is       *)
(* copied to the other.                                                    *)
(***************************************************************************)
EXTENDS MCThreads, SharedLemmas

-----------------------------------------------------------------------------
(***************************************************************************)
(* The bounded FIFO with one adder.  AdderNotStranded is not inductive:    *)
(* the write of acquire() stores what was read before it, so the invariant *)
(* also says that the adder has read a positive count, that a release()    *)
(* writes under the mutex, and that there is always a slot: in the count,  *)
(* in the list, with the adder, or with a removal that has yet to release. *)
(***************************************************************************)

\* Where a thread is in an add or a removal; only the adder adds.
Stage(t) ==
    \/ phase[t] = "none" /\ pc[t] = "idle"
    \/ t = Adder /\ phase[t] = "adding"
         /\ pc[t] \in {"idle", "wait", "decrement", "decrementWrite"}
    \/ phase[t] = "removing" /\ pc[t] \in {"idle", "releaseWrite"}

BndTypeOK ==
    /\ cnt \in Nat /\ remain \in Nat
    /\ localMutex \in Thread \cup {NoThread} /\ gtZeroCond \subseteq {Adder}
    /\ pc \in [Thread -> {"idle", "wait", "decrement", "decrementWrite", "releaseWrite"}]
    /\ phase \in [Thread -> {"none", "adding", "removing"}]
    /\ tmp \in [Thread -> Nat] /\ \A t \in Thread : Stage(t)

\* What the threads know of the count: the adder in the window of acquire() has seen a
\* positive one, the sleeping adder none, and a release() is alone with the mutex.
CountSeen ==
    /\ pc[Adder] \in {"decrement", "decrementWrite"} => cnt > 0
    /\ pc[Adder] = "decrementWrite" => tmp[Adder] > 0
    /\ Adder \in gtZeroCond => pc[Adder] = "wait" /\ cnt = 0
    /\ \A t \in Thread : pc[t] = "releaseWrite" => localMutex = t

\* There is a slot somewhere.
SlotLeft == \/ cnt > 0 \/ remain > 0 \/ Removing # {}
            \/ phase[Adder] = "adding" /\ pc[Adder] = "idle"

OneAdderInv == BndTypeOK /\ CountSeen /\ SlotLeft

\* One lemma per operation.  The call of the adder, and its return from the wait.
LEMMA AcquireKeeps ==
  ASSUME OneAdderInv, AddAcquire(Adder) \/ (AcquireResume(Adder) /\ UNCHANGED <<remain, phase>>)
  PROVE  OneAdderInv'
<1> USE AdderAssumption, TWSemaAssumption DEF TWSemaAssumption
<1>1. PICK l \in {"decrement", "wait"} :
        /\ pc' = [pc EXCEPT ![Adder] = l] /\ UNCHANGED <<cnt, localMutex, tmp, remain>>
        /\ phase' = [phase EXCEPT ![Adder] = "adding"] /\ localMutex = NoThread
        /\ l = "decrement" => cnt > 0 /\ gtZeroCond' = gtZeroCond /\ Adder \notin gtZeroCond
        /\ l = "wait" => cnt = 0 /\ gtZeroCond' = gtZeroCond \cup {Adder}
  <2>1. CASE AddAcquire(Adder)
    BY <2>1 DEF OneAdderInv, BndTypeOK, CountSeen, Stage, AddAcquire, Acquire, AcquireLoop, Sleep, Goto, Free
  <2>2. CASE AcquireResume(Adder) /\ UNCHANGED <<remain, phase>>
    <3>1. phase' = [phase EXCEPT ![Adder] = "adding"]
      BY <2>2 DEF OneAdderInv, BndTypeOK, Stage, AcquireResume
    <3>2. localMutex = NoThread /\ Adder \notin gtZeroCond /\ AcquireLoop(Adder) /\ cnt \in Nat
      BY <2>2 DEF OneAdderInv, BndTypeOK, AcquireResume, Free
    <3>3. CASE cnt >= 1
      <4>1. /\ pc' = [pc EXCEPT ![Adder] = "decrement"] /\ gtZeroCond' = gtZeroCond
            /\ UNCHANGED <<cnt, localMutex, tmp, remain>>
        BY <2>2, <3>2, <3>3 DEF AcquireLoop, Sleep, Goto
      <4> QED
        BY ONLY <3>1, <3>2, <3>3, <4>1
    <3>4. CASE cnt < 1
      <4>1. /\ pc' = [pc EXCEPT ![Adder] = "wait"] /\ gtZeroCond' = gtZeroCond \cup {Adder}
            /\ UNCHANGED <<cnt, localMutex, tmp, remain>> /\ cnt = 0
        BY <2>2, <3>2, <3>4 DEF AcquireLoop, Sleep, Goto
      <4> QED
        BY ONLY <3>1, <3>2, <4>1
    <3> QED
      BY <3>2, <3>3, <3>4
  <2> QED
    BY <2>1, <2>2
<1>2. BndTypeOK'
  BY <1>1 DEF OneAdderInv, BndTypeOK, Stage
<1>3. CountSeen'
  BY <1>1 DEF OneAdderInv, BndTypeOK, CountSeen
<1>4. phase[Adder] \in {"none", "adding"} /\ pc[Adder] \in {"idle", "wait"}
  BY DEF OneAdderInv, BndTypeOK, Stage, AddAcquire, Acquire, AcquireResume
<1>5. SlotLeft'
  <2>1. ~(phase[Adder] = "adding" /\ pc[Adder] = "idle")
    BY DEF AddAcquire, AcquireResume
  <2>2. Removing' = Removing
    BY <1>1, <1>4 DEF OneAdderInv, BndTypeOK, Removing
  <2> QED
    BY <1>1, <2>1, <2>2 DEF OneAdderInv, SlotLeft
<1> QED
  BY <1>2, <1>3, <1>5 DEF OneAdderInv

\* cnt-- of acquire(), with what any release() has written since its read.
LEMMA DecrementKeeps ==
  ASSUME OneAdderInv, UNCHANGED <<remain, phase>>, DecrementRead(Adder) \/ DecrementWrite(Adder)
  PROVE  OneAdderInv'
<1> USE AdderAssumption, TWSemaAssumption DEF TWSemaAssumption
<1>0. Adder \notin gtZeroCond /\ phase[Adder] = "adding"
  BY DEF OneAdderInv, BndTypeOK, CountSeen, Stage, DecrementRead, DecrementWrite
<1>1. BndTypeOK'
  BY <1>0 DEF OneAdderInv, BndTypeOK, CountSeen, Stage, DecrementRead, DecrementWrite, Goto
<1>2. CountSeen'
  BY <1>0 DEF OneAdderInv, BndTypeOK, CountSeen, DecrementRead, DecrementWrite, Goto
<1>3. SlotLeft'
  <2>1. CASE DecrementRead(Adder)
    BY <2>1 DEF OneAdderInv, CountSeen, SlotLeft, DecrementRead
  <2>2. CASE DecrementWrite(Adder)
    BY <1>0, <2>2 DEF OneAdderInv, BndTypeOK, SlotLeft, DecrementWrite, Goto
  <2> QED
    BY <2>1, <2>2
<1> QED
  BY <1>1, <1>2, <1>3 DEF OneAdderInv

\* A thread adds to the list, or takes from it.
LEMMA ListStepKeeps ==
  ASSUME OneAdderInv, NEW t \in Thread, AddToFIFO(t) \/ RemoveFromFIFO(t)
  PROVE  OneAdderInv'
<1> USE AdderAssumption, TWSemaAssumption DEF TWSemaAssumption
<1>1. /\ pc[t] = "idle" /\ UNCHANGED <<cnt, localMutex, gtZeroCond, pc, tmp>> /\ remain' \in Nat
      /\ \/ phase' = [phase EXCEPT ![t] = "none"] /\ remain' > 0
         \/ phase' = [phase EXCEPT ![t] = "removing"]
  BY DEF OneAdderInv, BndTypeOK, AddToFIFO, RemoveFromFIFO
<1>2. BndTypeOK'
  BY <1>1 DEF OneAdderInv, BndTypeOK, Stage
<1>3. CountSeen'
  BY <1>1 DEF OneAdderInv, CountSeen
<1>4. SlotLeft'
  BY <1>1 DEF OneAdderInv, BndTypeOK, SlotLeft, Removing
<1> QED
  BY <1>2, <1>3, <1>4 DEF OneAdderInv

\* release() of a removal, beside an adder that may be in the window of acquire().
LEMMA ReleaseKeeps ==
  ASSUME OneAdderInv, NEW t \in Thread, RemoveRelease(t)
  PROVE  OneAdderInv'
<1> USE AdderAssumption, TWSemaAssumption DEF TWSemaAssumption
<1>1. CASE ReleaseRead(t) /\ UNCHANGED phase
  <2>1. /\ localMutex = NoThread /\ localMutex' = t /\ UNCHANGED <<cnt, gtZeroCond, phase, remain>>
        /\ tmp' = [tmp EXCEPT ![t] = cnt] /\ pc' = [pc EXCEPT ![t] = "releaseWrite"]
        /\ pc[t] = "idle" /\ phase[t] = "removing"
    BY <1>1 DEF ReleaseRead, RemoveRelease, Goto, Free
  <2>2. BndTypeOK'
    BY <2>1 DEF OneAdderInv, BndTypeOK, Stage
  <2>3. CountSeen'
    BY <2>1 DEF OneAdderInv, BndTypeOK, CountSeen
  <2>4. SlotLeft'
    BY <2>1 DEF OneAdderInv, BndTypeOK, SlotLeft, Removing
  <2> QED
    BY <2>2, <2>3, <2>4 DEF OneAdderInv
<1>2. CASE ReleaseWrite(t) /\ phase' = [phase EXCEPT ![t] = "none"]
  <2>1. /\ localMutex = t /\ localMutex' = NoThread /\ UNCHANGED remain /\ cnt' \in Nat /\ cnt' > 0
        /\ pc[t] = "releaseWrite" /\ pc' = [pc EXCEPT ![t] = "idle"]
        /\ phase' = [phase EXCEPT ![t] = "none"] /\ tmp' = [tmp EXCEPT ![t] = 0]
    BY <1>2 DEF OneAdderInv, BndTypeOK, CountSeen, ReleaseWrite, RemoveRelease, Goto
  <2>2. gtZeroCond' = {}
    <3>1. tmp[t] + 1 > 0 /\ gtZeroCond \subseteq {Adder}
      BY DEF OneAdderInv, BndTypeOK
    <3>2. gtZeroCond' \in IF gtZeroCond # {} THEN {gtZeroCond \ {u} : u \in gtZeroCond} ELSE {gtZeroCond}
      BY <1>2, <3>1 DEF ReleaseWrite
    <3> QED
      BY <3>1, <3>2
  <2>3. BndTypeOK'
    BY <2>1, <2>2 DEF OneAdderInv, BndTypeOK, Stage
  <2>4. CountSeen'
    BY <2>1, <2>2 DEF OneAdderInv, BndTypeOK, CountSeen, Stage
  <2>5. SlotLeft'
    BY <2>1 DEF SlotLeft
  <2> QED
    BY <2>3, <2>4, <2>5 DEF OneAdderInv
<1> QED
  BY <1>1, <1>2 DEF RemoveRelease

\* The bounded FIFO starts with every slot free.
LEMMA OneAdderInit == BndInit => OneAdderInv
BY AdderAssumption, TWSemaAssumption
DEF BndInit, SemaInit, TWSemaAssumption, OneAdderInv, BndTypeOK, Stage, CountSeen, SlotLeft

\* Every step of the one adder and of the removers keeps the invariant.
LEMMA OneAdderStep == OneAdderInv /\ [OneAdderNext]_bndVars => OneAdderInv'
<1>1. ASSUME OneAdderInv, UNCHANGED bndVars PROVE OneAdderInv'
  BY <1>1 DEF bndVars, semaVars, OneAdderInv, BndTypeOK, Stage, CountSeen, SlotLeft, Removing
<1>2. ASSUME OneAdderInv, NEW t \in Thread, SemaStep(t) PROVE OneAdderInv'
  <2>1. t = Adder /\ UNCHANGED <<remain, phase>>
    BY <1>2
    DEF OneAdderInv, BndTypeOK, Stage, SemaStep, AcquireResume, DecrementRead, DecrementWrite, SpuriousWakeup
  <2>2. CASE SpuriousWakeup(t)
    <3>1. UNCHANGED <<cnt, localMutex, pc, tmp, remain, phase>> /\ gtZeroCond' \subseteq gtZeroCond
      BY <2>1, <2>2 DEF SpuriousWakeup
    <3> QED
      BY <1>2, <3>1 DEF OneAdderInv, BndTypeOK, Stage, CountSeen, SlotLeft, Removing
  <2> QED
    BY <1>2, <2>1, <2>2, AcquireKeeps, DecrementKeeps DEF SemaStep
<1> QED
  BY <1>1, <1>2, AcquireKeeps, ListStepKeeps, ReleaseKeeps DEF OneAdderNext, Proceed

\* For any number of removers and slots, in every interleaving with the window of
\* acquire(): the one adder never sleeps beside a free slot, nor without an element or
\* a removal that can wake it.
THEOREM AdderNeverStranded == OneAdderSpec => []AdderNotStranded
<1>1. OneAdderInv => AdderNotStranded
  <2> SUFFICES ASSUME OneAdderInv, Adder \in gtZeroCond
               PROVE  cnt = 0 /\ (remain > 0 \/ Removing # {})
    BY DEF AdderNotStranded
  <2>1. cnt = 0 /\ pc[Adder] = "wait"
    BY DEF OneAdderInv, CountSeen
  <2> QED
    BY <2>1 DEF OneAdderInv, SlotLeft
<1> QED
  BY <1>1, OneAdderInit, OneAdderStep, PTL DEF OneAdderSpec

-----------------------------------------------------------------------------
(***************************************************************************)
(* References: a thread that has n of them has the pairs <<thread, 1>> to  *)
(* <<thread, n>>, and all threads together as many as there are pairs.     *)
(***************************************************************************)
Pairs(S, f) == UNION {{h} \X (1..f[h]) : h \in S}

\* What the pairs are.
LEMMA PairsAre ==
  ASSUME NEW S, NEW f \in [S -> Nat]
  PROVE  \A p : p \in Pairs(S, f) <=>
                   \E h \in S, i \in Nat : 1 <= i /\ i <= f[h] /\ p = <<h, i>>
BY DEF Pairs

\* There are finitely many.
LEMMA PairsFinite ==
  ASSUME NEW S, IsFiniteSet(S), NEW f \in [S -> Nat]
  PROVE  IsFiniteSet(Pairs(S, f)) /\ Cardinality(Pairs(S, f)) \in Nat
<1> DEFINE Of(h) == {h} \X (1..f[h])
           F == [h \in S |-> Of(h)]
<1>1. ASSUME NEW h \in S PROVE IsFiniteSet(Of(h))
  <2>1. f[h] \in Int /\ 1 \in Int
    OBVIOUS
  <2>2. IsFiniteSet({h})
    BY FS_Singleton
  <2>3. IsFiniteSet(1..f[h])
    BY <2>1, FS_Interval
  <2> QED
    BY <2>2, <2>3, FS_Product
<1> HIDE DEF Of
<1>2. F \in Surjection(S, {Of(h) : h \in S})
  BY DEF Surjection
<1>4. IsFiniteSet({Of(h) : h \in S})
  BY <1>2, FS_Surjection
<1>3. IsFiniteSet(UNION {Of(h) : h \in S})
  BY <1>1, <1>4, FS_UNION
<1> QED
  BY <1>3, FS_CardinalityType DEF Pairs, Of

\* One more reference, one more pair.
LEMMA PairAdded ==
  ASSUME NEW S, IsFiniteSet(S), NEW f \in [S -> Nat], NEW h \in S
  PROVE  Cardinality(Pairs(S, [f EXCEPT ![h] = f[h] + 1])) = Cardinality(Pairs(S, f)) + 1
<1> DEFINE g == [f EXCEPT ![h] = f[h] + 1]
           p == <<h, f[h] + 1>>
<1>1. g \in [S -> Nat] /\ \A k \in S : g[k] = IF k = h THEN f[h] + 1 ELSE f[k]
  OBVIOUS
<1> HIDE DEF g
<1>2. p \notin Pairs(S, f)
  BY PairsAre
<1>3. Pairs(S, g) = Pairs(S, f) \cup {p}
  <2>1. ASSUME NEW q \in Pairs(S, g) PROVE q \in Pairs(S, f) \cup {p}
    <3>1. PICK k \in S, i \in Nat : 1 <= i /\ i <= g[k] /\ q = <<k, i>>
      BY <1>1, <2>1, PairsAre
    <3>2. CASE k = h /\ i = f[h] + 1
      BY <3>1, <3>2
    <3>3. CASE ~(k = h /\ i = f[h] + 1)
      <4>1. i <= f[k]
        BY <1>1, <3>1, <3>3
      <4> QED
        BY <3>1, <4>1, PairsAre
    <3> QED
      BY <3>2, <3>3
  <2>2. ASSUME NEW q \in Pairs(S, f) PROVE q \in Pairs(S, g)
    <3>1. PICK k \in S, i \in Nat : 1 <= i /\ i <= f[k] /\ q = <<k, i>>
      BY <2>2, PairsAre
    <3>2. i <= g[k]
      BY <1>1, <3>1
    <3> QED
      BY <1>1, <3>1, <3>2, PairsAre
  <2>3. p \in Pairs(S, g)
    <3>1. f[h] + 1 \in Nat /\ 1 <= f[h] + 1 /\ f[h] + 1 <= g[h]
      BY <1>1
    <3> QED
      BY <1>1, <3>1, PairsAre
  <2> QED
    BY <2>1, <2>2, <2>3
<1> QED
  BY <1>2, <1>3, PairsFinite, FS_AddElement DEF g

\* One less.
LEMMA PairRemoved ==
  ASSUME NEW S, IsFiniteSet(S), NEW f \in [S -> Nat], NEW h \in S, f[h] > 0
  PROVE  Cardinality(Pairs(S, [f EXCEPT ![h] = f[h] - 1])) = Cardinality(Pairs(S, f)) - 1
<1> DEFINE g == [f EXCEPT ![h] = f[h] - 1]
<1>1. g \in [S -> Nat] /\ [g EXCEPT ![h] = g[h] + 1] = f
  <2>1. f[h] - 1 \in Nat /\ f[h] - 1 + 1 = f[h]
    OBVIOUS
  <2> QED
    BY <2>1
<1> HIDE DEF g
<1>2. Cardinality(Pairs(S, f)) = Cardinality(Pairs(S, g)) + 1
  BY <1>1, PairAdded
<1>3. Cardinality(Pairs(S, g)) \in Nat
  BY <1>1, PairsFinite
<1> QED
  BY <1>2, <1>3 DEF g

\* None left, no pairs.
LEMMA PairsNone ==
  ASSUME NEW S, IsFiniteSet(S), NEW f \in [S -> Nat]
  PROVE  Cardinality(Pairs(S, f)) = 0 <=> \A h \in S : f[h] = 0
<1>1. Cardinality(Pairs(S, f)) = 0 <=> Pairs(S, f) = {}
  BY PairsFinite, FS_EmptySet
<1>2. ASSUME Pairs(S, f) = {}, NEW h \in S PROVE f[h] = 0
  <2>1. SUFFICES ASSUME f[h] # 0 PROVE FALSE
    OBVIOUS
  <2>2. 1 \in Nat /\ 1 <= f[h]
    BY <2>1
  <2>3. <<h, 1>> \in Pairs(S, f)
    BY <2>2, PairsAre
  <2> QED
    BY <1>2, <2>3
<1>3. ASSUME \A h \in S : f[h] = 0 PROVE Pairs(S, f) = {}
  BY <1>3, PairsAre
<1> QED
  BY <1>1, <1>2, <1>3

-----------------------------------------------------------------------------
(***************************************************************************)
(* autoPointer.  The walk of destroy() has to be tied to what was called:  *)
(* together they are the list, and there is a walk only when the last      *)
(* reference has gone.                                                     *)
(***************************************************************************)
AutoTypeOK ==
    /\ refs \in [Holder -> Nat] /\ refCount \in Int
    /\ data \in {"null", "live"} /\ mutex \in Holder \cup {AutoPtr!Free}
    /\ entries \in Seq(Callback) /\ called \in Seq(Callback) /\ walk \in Seq(Callback)

\* In use, being destroyed, or gone.
Lifecycle ==
    \/ data = "live" /\ mutex = AutoPtr!Free /\ called = <<>>
    \/ data = "live" /\ mutex # AutoPtr!Free /\ called \o walk = entries /\ AutoPtr!Held = 0
    \/ data = "null" /\ mutex = AutoPtr!Free /\ called = entries /\ AutoPtr!Held = 0

Pointer == AutoTypeOK /\ Lifecycle /\ refCount = AutoPtr!Held

\* The instance counts as the library does.
LEMMA SameCardinality == \A S : AutoPtr!Cardinality(S) = Cardinality(S)
BY DEF AutoPtr!Cardinality, Cardinality

\* Held counts the references: one more with each, one less without, zero when nobody has any.
LEMMA HeldFacts ==
  ASSUME refs \in [Holder -> Nat]
  PROVE  /\ AutoPtr!Held \in Nat
         /\ AutoPtr!Held = 0 <=> \A h \in Holder : refs[h] = 0
         /\ \A h \in Holder : Cardinality(Pairs(Holder, [refs EXCEPT ![h] = refs[h] + 1])) = AutoPtr!Held + 1
         /\ \A h \in Holder : refs[h] > 0 =>
               Cardinality(Pairs(Holder, [refs EXCEPT ![h] = refs[h] - 1])) = AutoPtr!Held - 1
<1>1. AutoPtr!Held = Cardinality(Pairs(Holder, refs)) /\ IsFiniteSet(Holder)
  BY AutoAssumption, SameCardinality DEF AutoPtr!Held, Pairs, AutoAssumption
<1> QED
  BY <1>1, PairsFinite, PairsNone, PairAdded, PairRemoved

\* The same count after a step.
LEMMA HeldNext == AutoPtr!Held' = Cardinality(Pairs(Holder, refs'))
BY SameCardinality DEF AutoPtr!Held, Pairs

\* A fresh autoPointer.
LEMMA PointerInit == AutoPtr!Init => Pointer
<1> SUFFICES ASSUME AutoPtr!Init PROVE Pointer
  OBVIOUS
<1>1. AutoTypeOK
  BY DEF AutoPtr!Init, AutoTypeOK
<1>2. AutoPtr!Held = 0
  BY <1>1, HeldFacts DEF AutoPtr!Init, AutoTypeOK
<1> QED
  BY <1>1, <1>2 DEF Pointer, Lifecycle, AutoPtr!Init

\* reset(): one reference, where there was none.
LEMMA ResetKeepsPointer ==
  ASSUME Pointer, NEW h \in Holder, AutoPtr!Reset(h)
  PROVE  Pointer'
<1>1. refs \in [Holder -> Nat] /\ AutoPtr!Held = 0
  BY DEF Pointer, AutoTypeOK, Lifecycle, AutoPtr!Reset
<1>2. refs' = [refs EXCEPT ![h] = refs[h] + 1]
  <2>1. refs[h] = 0
    BY <1>1, HeldFacts
  <2>2. refs[h] + 1 = 1
    BY <2>1
  <2> QED
    BY <2>2 DEF AutoPtr!Reset
<1>3. AutoPtr!Held' = 1
  <2>1. AutoPtr!Held' = Cardinality(Pairs(Holder, [refs EXCEPT ![h] = refs[h] + 1]))
    BY <1>2, HeldNext
  <2>2. @ = AutoPtr!Held + 1
    BY <1>1, HeldFacts
  <2> QED
    BY <1>1, <2>1, <2>2
<1> QED
  BY <1>3 DEF Pointer, AutoTypeOK, Lifecycle, AutoPtr!Reset

\* dupP(): the one who hands the pointer on has a reference.
LEMMA DupKeepsPointer ==
  ASSUME Pointer, NEW g \in Holder, NEW h \in Holder, AutoPtr!DupP(g, h)
  PROVE  Pointer'
<1>1. refs \in [Holder -> Nat] /\ refs[g] > 0
  BY DEF Pointer, AutoTypeOK, AutoPtr!DupP
<1>2. AutoPtr!Held # 0 /\ AutoPtr!Held \in Nat
  BY <1>1, HeldFacts
<1>3. AutoPtr!Held' = AutoPtr!Held + 1
  BY <1>1, HeldFacts, HeldNext DEF AutoPtr!DupP
<1> QED
  BY <1>2, <1>3 DEF Pointer, AutoTypeOK, Lifecycle, AutoPtr!DupP

\* release(): the last one begins to destroy.
LEMMA ReleaseKeepsPointer ==
  ASSUME Pointer, NEW h \in Holder, AutoPtr!Release(h)
  PROVE  Pointer'
<1>1. refs \in [Holder -> Nat] /\ refs[h] > 0 /\ refCount = AutoPtr!Held
  BY DEF Pointer, AutoTypeOK, AutoPtr!Release
<1>2. AutoPtr!Held # 0 /\ AutoPtr!Held \in Nat
  BY <1>1, HeldFacts
<1>3. refs' = [refs EXCEPT ![h] = refs[h] - 1] /\ refCount' = refCount - 1
  BY DEF AutoPtr!Release
<1>4. AutoPtr!Held' = AutoPtr!Held - 1
  BY <1>1, <1>3, HeldFacts, HeldNext
<1>5. data = "live" /\ mutex = AutoPtr!Free /\ called = <<>>
  BY <1>2 DEF Pointer, Lifecycle
<1>6. refs' \in [Holder -> Nat]
  <2>1. refs[h] - 1 \in Nat
    BY <1>1
  <2> QED
    BY <1>1, <1>3, <2>1
<1>7. CASE AutoPtr!Unneeded(refCount')
  <2>1. AutoPtr!Held' = 0
    BY <1>1, <1>2, <1>3, <1>4, <1>7 DEF AutoPtr!Unneeded
  <2>2. called' \o walk' = entries'
    BY <1>5, <1>7 DEF AutoPtr!Release, Pointer, AutoTypeOK
  <2>3. mutex' # AutoPtr!Free /\ data' = "live" /\ UNCHANGED <<entries, called>> /\ walk' = entries /\ mutex' = h
    BY <1>5, <1>7, AutoAssumption DEF AutoPtr!Release, AutoAssumption
  <2>4. AutoTypeOK'
    BY <1>1, <1>2, <1>3, <1>6, <2>3 DEF Pointer, AutoTypeOK
  <2> QED
    BY <1>1, <1>3, <1>4, <2>1, <2>2, <2>3, <2>4 DEF Pointer, Lifecycle
<1>8. CASE ~AutoPtr!Unneeded(refCount')
  <2>1. UNCHANGED <<data, entries, called, mutex, walk>>
    BY <1>8 DEF AutoPtr!Release
  <2> QED
    BY <1>1, <1>3, <1>4, <1>5, <1>6, <2>1 DEF Pointer, AutoTypeOK, Lifecycle
<1> QED
  BY <1>7, <1>8

\* One callback moves from the walk to the called ones.
LEMMA CallBackKeepsPointer ==
  ASSUME Pointer, NEW h \in Holder, AutoPtr!CallBack(h)
  PROVE  Pointer'
<1>1. /\ walk \in Seq(Callback) /\ walk # <<>> /\ called \in Seq(Callback)
      /\ called \o walk = entries /\ AutoPtr!Held = 0
  BY AutoAssumption DEF Pointer, AutoTypeOK, Lifecycle, AutoPtr!CallBack, AutoAssumption
<1>2. /\ called' = Append(called, Head(walk)) /\ walk' = Tail(walk)
      /\ UNCHANGED <<refCount, data, entries, mutex, refs>>
  BY DEF AutoPtr!CallBack
<1>3. called' \o walk' = entries'
  BY <1>1, <1>2
<1>4. called' \in Seq(Callback) /\ walk' \in Seq(Callback)
  BY <1>1, <1>2
<1>5. AutoPtr!Held' = AutoPtr!Held
  BY <1>2 DEF AutoPtr!Held
<1>6. mutex # AutoPtr!Free /\ data = "live"
  BY AutoAssumption DEF Pointer, Lifecycle, AutoPtr!CallBack, AutoAssumption
<1> QED
  BY <1>1, <1>2, <1>3, <1>4, <1>5, <1>6 DEF Pointer, AutoTypeOK, Lifecycle

\* A callback is registered; destroy() deletes the data.
LEMMA OthersKeepPointer ==
  ASSUME Pointer, NEW h \in Holder,
         AutoPtr!DeleteData(h) \/ (\E cb \in Callback : AutoPtr!RegisterCallback(h, cb))
  PROVE  Pointer'
<1>1. AutoPtr!Held' = AutoPtr!Held
  BY DEF AutoPtr!Held, AutoPtr!DeleteData, AutoPtr!RegisterCallback
<1>2. CASE AutoPtr!DeleteData(h)
  <2>1. called \o walk = entries /\ walk = <<>> /\ called \in Seq(Callback) /\ AutoPtr!Held = 0
    BY <1>2, AutoAssumption DEF Pointer, AutoTypeOK, Lifecycle, AutoPtr!DeleteData, AutoAssumption
  <2>2. called = entries
    BY <2>1
  <2> QED
    BY <1>1, <1>2, <2>1, <2>2 DEF Pointer, AutoTypeOK, Lifecycle, AutoPtr!DeleteData
<1>3. ASSUME NEW cb \in Callback, AutoPtr!RegisterCallback(h, cb) PROVE Pointer'
  <2>1. refs \in [Holder -> Nat] /\ refs[h] > 0
    BY <1>3 DEF Pointer, AutoTypeOK, AutoPtr!RegisterCallback
  <2>2. AutoPtr!Held # 0
    BY <2>1, HeldFacts
  <2> QED
    BY <1>1, <1>3, <2>2 DEF Pointer, AutoTypeOK, Lifecycle, AutoPtr!RegisterCallback
<1> QED
  BY <1>2, <1>3

\* The destructor: nobody else has a reference.
LEMMA DestructorKeepsPointer ==
  ASSUME Pointer, NEW h \in Holder, AutoPtr!Destructor(h)
  PROVE  Pointer'
<1>1. refs' \in [Holder -> Nat] /\ \A g \in Holder : refs'[g] = 0
  BY DEF Pointer, AutoTypeOK, AutoPtr!Destructor
<1>2. AutoPtr!Held' = 0
  BY <1>1, HeldNext, PairsNone, AutoAssumption DEF AutoAssumption
<1>3. called = <<>> /\ entries \in Seq(Callback)
  BY DEF Pointer, AutoTypeOK, Lifecycle, AutoPtr!Destructor
<1>4. called' \o walk' = entries'
  BY <1>3 DEF AutoPtr!Destructor
<1> QED
  BY <1>1, <1>2, <1>3, <1>4, AutoAssumption
  DEF Pointer, AutoTypeOK, Lifecycle, AutoPtr!Destructor, AutoAssumption

\* Every step of an autoPointer.
LEMMA PointerStep == Pointer /\ [AutoPtr!Next]_autoVars => Pointer'
<1>1. ASSUME Pointer, UNCHANGED autoVars PROVE Pointer'
  BY <1>1 DEF Pointer, autoVars, AutoTypeOK, Lifecycle, AutoPtr!Held
<1> QED
  BY <1>1, ResetKeepsPointer, DupKeepsPointer, ReleaseKeepsPointer, CallBackKeepsPointer,
     OthersKeepPointer, DestructorKeepsPointer DEF AutoPtr!Next

\* The invariant says what the property does.
LEMMA PointerImplies == Pointer => CallbacksBeforeDelete
<1> SUFFICES ASSUME Pointer PROVE CallbacksBeforeDelete
  OBVIOUS
<1>1. AutoPtr!Held \in Nat
  BY HeldFacts DEF Pointer, AutoTypeOK
<1>2. AutoPtr!HeldDataLives
  BY <1>1 DEF Pointer, Lifecycle, AutoPtr!HeldDataLives
<1>3. AutoPtr!IsPrefix(called, entries)
  <2>1. called \in Seq(Callback) /\ entries \in Seq(Callback) /\ walk \in Seq(Callback)
    BY DEF Pointer, AutoTypeOK
  <2>2. CASE called = <<>>
    BY <2>1, <2>2 DEF AutoPtr!IsPrefix
  <2>3. CASE called = entries
    BY <2>1, <2>3 DEF AutoPtr!IsPrefix
  <2>4. CASE called \o walk = entries
    BY <2>1, <2>4 DEF AutoPtr!IsPrefix
  <2> QED
    BY <2>2, <2>3, <2>4 DEF Pointer, Lifecycle
<1> QED
  BY <1>2, <1>3 DEF Pointer, Lifecycle, CallbacksBeforeDelete, AutoPtr!CallbacksBeforeDelete

-----------------------------------------------------------------------------
(***************************************************************************)
(* Tasks.  What joinAll() promises rests on the threads: a thread that is  *)
(* joined serves its task, has completed it and has left its result.  The  *)
(* invariant ties the three places that name a thread to it (_pthread_dat, *)
(* a wait, the wait of joinAll()), and says how far joinAll() has come     *)
(* along the list as it was when it was called.  Nothing is said of how    *)
(* many threads a task has.                                                *)
(***************************************************************************)
Given == Param \cup {Task!NoParam}
TaskRec == [running : BOOLEAN, completed : BOOLEAN, retval : Given, param : Given, pthread : Nat]
WorkerRec == [task : TaskObj, param : Given,
              pc : {"created", "working", "returning", "exited", "joined"}]
CallRec == [call : {"idle", "create", "started", "wait", "startIter", "joinAll", "joinWait", "joined"},
            task : TaskObj \cup {"none"}, val : Given, timed : BOOLEAN,
            thread : Nat, next : Nat, due : Nat]

TaskTypeOK ==
    /\ task \in [TaskObj -> TaskRec] /\ worker \in Seq(WorkerRec)
    /\ managed \in Seq(TaskObj) /\ at \in [Caller -> CallRec]

\* A thread w of task k, and what a thread x and its task r know of each other.
ThreadOf(w, k) == w \in 1..Len(worker) /\ worker[w].task = k
Agree(x, r) ==
    /\ r.param \in Param
    /\ x.pc # "created" => x.param \in Param
    /\ x.pc \in {"returning", "exited", "joined"} => r.completed
    /\ x.pc = "joined" => r.retval \in Param
Threads == \A w \in 1..Len(worker) : Agree(worker[w], task[worker[w].task])

\* What has been started has a thread, and what is in the list has been started.
HasThread(k) == ThreadOf(task[k].pthread, k)
Started ==
    /\ \A k \in TaskObj : task[k].running => HasThread(k)
    /\ \A i \in 1..Len(managed) : HasThread(managed[i])

\* A thread of k was joined.
JoinedOf(k) == \E w \in 1..Len(worker) : worker[w].task = k /\ worker[w].pc = "joined"

\* What a call knows.
StartOK(x) ==
    /\ x.call \in {"create", "started", "wait"} => x.task \in TaskObj
    /\ x.call = "create" => x.val \in Param
    /\ x.call = "started" => HasThread(x.task)
    /\ x.call = "wait" => ThreadOf(x.thread, x.task)
ListOK(x) ==
    /\ x.due <= Len(managed) /\ (x.next = 0 => x.due = 0)
    /\ ~x.timed => \A i \in 1..x.due : i < x.next => JoinedOf(managed[i])
    /\ x.call = "joinWait" => x.next \in 1..Len(managed) /\ ThreadOf(x.thread, managed[x.next])
    /\ x.call = "joined" => ~x.timed /\ (x.due = 0 \/ x.due < x.next)
CallOK(x) == StartOK(x) /\ (x.call \in Task!Joining => ListOK(x))
Calls == \A c \in Caller : CallOK(at[c])

TasksKept == TaskTypeOK /\ Threads /\ Started /\ Calls

\* No task has been started.
LEMMA TasksInit == Task!Init => TasksKept
<1> SUFFICES ASSUME Task!Init PROVE TasksKept
  OBVIOUS
<1>1. TaskTypeOK
  BY DEF Task!Init, Task!NewTask, Task!Idle, Task!NoParam, TaskTypeOK, TaskRec, CallRec, Given
<1>2. Threads /\ Started
  BY DEF Task!Init, Task!NewTask, Threads, Started
<1>3. Calls
  BY DEF Task!Init, Task!Idle, Task!Joining, Calls, CallOK, StartOK
<1> QED
  BY <1>1, <1>2, <1>3 DEF TasksKept

\* What no step does: threads keep their task and stay joined, a started task keeps a
\* thread, and the list only grows at its end.
Grows ==
    /\ Len(worker) <= Len(worker')
    /\ \A w \in 1..Len(worker) :
          worker'[w].task = worker[w].task /\ (worker[w].pc = "joined" => worker'[w].pc = "joined")
    /\ \A k \in TaskObj : HasThread(k) => HasThread(k)'
    /\ Len(managed) <= Len(managed')
    /\ \A i \in 1..Len(managed) : managed'[i] = managed[i]

\* Then what a call knows stays true.
LEMMA CallStays ==
  ASSUME TaskTypeOK, TaskTypeOK', Grows, NEW x \in CallRec, CallOK(x)
  PROVE  CallOK(x)'
<1>1. Len(worker) \in Nat /\ Len(worker') \in Nat /\ Len(managed) \in Nat /\ Len(managed') \in Nat
  BY DEF TaskTypeOK
<1>2. ASSUME NEW w, NEW k, ThreadOf(w, k) PROVE ThreadOf(w, k)'
  BY <1>1, <1>2 DEF ThreadOf, Grows
<1>3. StartOK(x)'
  <2>1. \A k \in TaskObj : HasThread(k) => HasThread(k)'
    BY DEF Grows
  <2> QED
    BY <1>2, <2>1 DEF CallOK, StartOK
<1>4. ASSUME ListOK(x) PROVE ListOK(x)'
  <2>0. x.due \in Nat /\ x.next \in Nat
    BY DEF CallRec
  <2>1. x.due <= Len(managed') /\ \A i \in 1..x.due : i \in 1..Len(managed) /\ managed'[i] = managed[i]
    BY <1>1, <1>4, <2>0 DEF ListOK, Grows
  <2>2. ASSUME NEW k, JoinedOf(k) PROVE JoinedOf(k)'
    BY <1>1, <2>2 DEF JoinedOf, Grows
  <2>3. ~x.timed => \A i \in 1..x.due : i < x.next => JoinedOf(managed[i])'
    BY <1>4, <2>1, <2>2 DEF ListOK
  <2>4. x.call = "joinWait" => x.next \in 1..Len(managed') /\ ThreadOf(x.thread, managed[x.next])'
    BY <1>1, <1>2, <1>4, <2>0 DEF ListOK, Grows
  <2> QED
    BY <1>4, <2>1, <2>3, <2>4 DEF ListOK
<1> QED
  BY <1>3, <1>4 DEF CallOK

\* So a step that moves one caller has to show what that caller knows now.
LEMMA CallerMoves ==
  ASSUME TasksKept, TaskTypeOK', Grows, NEW c \in Caller, NEW x \in CallRec, CallOK(x)',
         at' = [at EXCEPT ![c] = x]
  PROVE  Calls'
<1> SUFFICES ASSUME NEW e \in Caller PROVE CallOK(at[e])'
  BY DEF Calls
<1>1. at \in [Caller -> CallRec]
  BY DEF TasksKept, TaskTypeOK
<1>2. CASE e = c
  <2>1. at'[e] = x
    BY <1>1, <1>2
  <2> QED
    BY <2>1
<1>3. CASE e # c
  <2>1. at'[e] = at[e] /\ at[e] \in CallRec
    BY <1>1, <1>3
  <2>2. PICK y \in CallRec : y = at[e]
    BY <2>1
  <2>3. CallOK(y)'
    BY <2>2, CallStays DEF TasksKept, Calls
  <2> QED
    BY <2>1, <2>2, <2>3
<1> QED
  BY <1>2, <1>3

\* Only a caller moves: the rest of the invariant is untouched.
LEMMA OnlyCallerMoves ==
  ASSUME TasksKept, UNCHANGED <<task, worker, managed>>,
         NEW c \in Caller, NEW x \in CallRec, CallOK(x), at' = [at EXCEPT ![c] = x]
  PROVE  TasksKept'
<1>1. TaskTypeOK'
  BY DEF TasksKept, TaskTypeOK
<1>2. Threads' /\ Started'
  BY DEF TasksKept, Threads, Started, HasThread, ThreadOf
<1>3. Grows
  BY DEF TasksKept, TaskTypeOK, Grows, HasThread, ThreadOf
<1>4. CallOK(x)'
  BY <1>1, <1>3, CallStays DEF TasksKept
<1> QED
  BY <1>1, <1>2, <1>3, <1>4, CallerMoves DEF TasksKept

\* A call with these fields.
CallOf(l, k, v, b, w, n, m) ==
    [call |-> l, task |-> k, val |-> v, timed |-> b, thread |-> w, next |-> n, due |-> m]

\* The record of a caller, and of the calls that begin.
LEMMA AtCaller ==
  ASSUME TasksKept, NEW c \in Caller
  PROVE  at[c] \in CallRec /\ CallOK(at[c])
BY DEF TasksKept, TaskTypeOK, Calls

\* startTask(): the test of _running.
LEMMA StartCheckKeeps ==
  ASSUME TasksKept, NEW c \in Caller, NEW k \in TaskObj, NEW v \in Param, Task!StartCheck(c, k, v), at' # at
  PROVE  TasksKept'
<1> DEFINE x == CallOf("create", k, v, FALSE, 0, 0, 0)
<1>1. at' = [at EXCEPT ![c] = x] /\ UNCHANGED <<task, worker, managed>>
  BY DEF Task!StartCheck, Task!Goto, Task!Idle, CallOf
<1>2. x \in CallRec /\ CallOK(x)
  BY DEF CallOf, CallRec, Given, CallOK, StartOK, Task!Joining
<1> HIDE DEF x
<1> QED
  BY <1>1, <1>2, OnlyCallerMoves

\* waitForTask(): _pthread_dat is read.
LEMMA WaitKeeps ==
  ASSUME TasksKept, NEW c \in Caller, NEW k \in TaskObj, NEW b \in BOOLEAN, Task!WaitForTask(c, k, b)
  PROVE  TasksKept'
<1>1. PICK w : w = task[k].pthread
  OBVIOUS
<1> DEFINE x == [Task!Idle EXCEPT !.call = "wait", !.task = k, !.timed = b, !.thread = w]
<1>2. at' = [at EXCEPT ![c] = x] /\ UNCHANGED <<task, worker, managed>> /\ task[k].running
  BY <1>1 DEF Task!WaitForTask, Task!Goto
<1>3. w \in Nat /\ ThreadOf(w, k)
  BY <1>1, <1>2 DEF TasksKept, TaskTypeOK, TaskRec, Started, HasThread
<1>4. x \in CallRec
  BY <1>3 DEF CallRec, Given, Task!Idle
<1>5. x.call = "wait" /\ x.task = k /\ x.thread = w
  BY DEF Task!Idle
<1> HIDE DEF x
<1>6. CallOK(x)
  BY <1>3, <1>5 DEF CallOK, StartOK, Task!Joining
<1> QED
  BY <1>2, <1>4, <1>6, OnlyCallerMoves

\* A wait ends without a join.
LEMMA IdleKeeps ==
  ASSUME TasksKept, NEW c \in Caller, UNCHANGED <<task, worker, managed>>, at' = [at EXCEPT ![c] = Task!Idle]
  PROVE  TasksKept'
<1>1. Task!Idle \in CallRec /\ \A y : y = Task!Idle => CallOK(y)
  BY DEF Task!Idle, CallRec, Given, CallOK, StartOK, Task!Joining
<1> QED
  BY <1>1, OnlyCallerMoves

\* joinAll(): the head is read.
LEMMA JoinAllKeeps ==
  ASSUME TasksKept, NEW c \in Caller, NEW b \in BOOLEAN, Task!JoinAll(c, b)
  PROVE  TasksKept'
<1>1. PICK n : n = IF managed = <<>> THEN 0 ELSE 1
  OBVIOUS
<1>2. PICK m : m = Len(managed)
  OBVIOUS
<1> DEFINE x == [Task!Idle EXCEPT !.call = "startIter", !.timed = b, !.next = n, !.due = m]
<1>3. at' = [at EXCEPT ![c] = x] /\ UNCHANGED <<task, worker, managed>>
  BY <1>1, <1>2 DEF Task!JoinAll, Task!Goto
<1>4. m \in Nat /\ n \in {0, 1} /\ (n = 0 => m = 0)
  BY <1>1, <1>2 DEF TasksKept, TaskTypeOK
<1>5. x \in CallRec
  <2>1. n \in Nat
    BY <1>4
  <2> QED
    BY ONLY <1>4, <2>1 DEF CallRec, Given, Task!Idle
<1>6. x.call = "startIter" /\ x.next = n /\ x.due = m
  BY DEF Task!Idle
<1> HIDE DEF x
<1>7. CallOK(x)
  BY <1>2, <1>4, <1>6 DEF CallOK, StartOK, ListOK
<1> QED
  BY <1>3, <1>5, <1>7, OnlyCallerMoves

\* joinAll() and a call of its that goes on, with the fields it does not name as they were.
LEMMA JoinMoves ==
  ASSUME TasksKept, NEW c \in Caller, UNCHANGED <<task, worker, managed>>,
         Task!JoinLock(c) \/ Task!JoinNext(c) \/ Task!JoinTimesOut(c) \/ Task!JoinedAll(c)
  PROVE  TasksKept'
<1>0. PICK a \in CallRec : a = at[c] /\ CallOK(a)
  BY AtCaller
<1>1. CASE Task!JoinLock(c)
  <2> DEFINE x == [a EXCEPT !.call = "joinAll"]
  <2>1. at' = [at EXCEPT ![c] = x] /\ a.call = "startIter"
    BY <1>0, <1>1 DEF Task!JoinLock, Task!Goto
  <2>2. x \in CallRec /\ CallOK(x)
    BY <1>0, <2>1 DEF CallRec, CallOK, StartOK, ListOK, Task!Joining
  <2> HIDE DEF x
  <2> QED
    BY <2>1, <2>2, OnlyCallerMoves
<1>2. CASE Task!JoinNext(c)
  <2>1. PICK w : w = task[managed[a.next]].pthread
    OBVIOUS
  <2>2. /\ at' = [at EXCEPT ![c] = [a EXCEPT !.call = "joinWait", !.thread = w]]
        /\ a.call = "joinAll" /\ a.next \in 1..Len(managed)
    BY <1>0, <1>2, <2>1 DEF Task!JoinNext, Task!Goto, TasksKept, TaskTypeOK
  <2>3. ThreadOf(w, managed[a.next]) /\ w \in Nat
    <3>1. ThreadOf(w, managed[a.next])
      BY <2>1, <2>2 DEF TasksKept, Started, HasThread
    <3> QED
      BY <3>1 DEF ThreadOf, TasksKept, TaskTypeOK
  <2> DEFINE x == [a EXCEPT !.call = "joinWait", !.thread = w]
  <2>4. x \in CallRec /\ CallOK(x)
    BY <1>0, <2>2, <2>3 DEF CallRec, CallOK, StartOK, ListOK, Task!Joining
  <2> HIDE DEF x
  <2>5. at' = [at EXCEPT ![c] = x]
    BY <2>2 DEF x
  <2> QED
    BY <2>4, <2>5, OnlyCallerMoves
<1>3. CASE Task!JoinTimesOut(c)
  <2> DEFINE x == [a EXCEPT !.call = "joinAll", !.next = @ + 1, !.thread = 0]
  <2>1. at' = [at EXCEPT ![c] = x] /\ a.call = "joinWait" /\ a.timed
    BY <1>0, <1>3 DEF Task!JoinTimesOut, Task!Goto
  <2>2. x \in CallRec
    <3>1. a.next + 1 \in Nat
      BY DEF CallRec
    <3> QED
      BY <3>1 DEF CallRec
  <2>3. /\ x.call = "joinAll" /\ x.timed /\ x.next = a.next + 1 /\ x.due = a.due
    BY <1>0, <2>1 DEF CallRec
  <2> HIDE DEF x
  <2>4. CallOK(x)
    BY <1>0, <2>1, <2>3 DEF CallRec, CallOK, StartOK, ListOK, Task!Joining
  <2> QED
    BY <2>1, <2>2, <2>4, OnlyCallerMoves
<1>4. CASE Task!JoinedAll(c)
  <2> DEFINE x == [a EXCEPT !.call = "joined"]
  <2>1. /\ at' = [at EXCEPT ![c] = IF a.timed THEN Task!Idle ELSE x]
        /\ a.call = "joinAll" /\ a.next \notin 1..Len(managed)
    BY <1>0, <1>4 DEF Task!JoinedAll, Task!Goto, TasksKept, TaskTypeOK
  <2>2. CASE a.timed
    BY <2>1, <2>2, IdleKeeps
  <2>3. CASE ~a.timed
    <3>1. Len(managed) \in Nat /\ a.next \in Nat /\ a.due \in Nat
      BY DEF TasksKept, TaskTypeOK, CallRec
    <3>2. x \in CallRec /\ CallOK(x)
      BY <1>0, <2>1, <2>3, <3>1 DEF CallRec, CallOK, StartOK, ListOK, Task!Joining
    <3> HIDE DEF x
    <3> QED
      BY <2>1, <2>3, <3>2, OnlyCallerMoves
  <2> QED
    BY <2>2, <2>3
<1> QED
  BY <1>1, <1>2, <1>3, <1>4

\* What a step may do to the record of a task.
TaskGoes(k, r) ==
    /\ r \in TaskRec /\ r.pthread = task[k].pthread
    /\ r.running => HasThread(k)
    /\ task[k].completed => r.completed
    /\ task[k].param \in Param => r.param \in Param
    /\ task[k].retval \in Param => r.retval \in Param

\* The threads after a step that creates none.
SameThreads ==
    /\ worker' \in Seq(WorkerRec) /\ Len(worker') = Len(worker)
    /\ \A w \in 1..Len(worker) :
          worker'[w].task = worker[w].task /\ (worker[w].pc = "joined" => worker'[w].pc = "joined")

\* Such a step leaves the threads of every task where they were.
LEMMA ThreadsStay ==
  ASSUME TasksKept, SameThreads, managed' = managed, at' \in [Caller -> CallRec],
         NEW k \in TaskObj, NEW r, TaskGoes(k, r), task' = [task EXCEPT ![k] = r]
  PROVE  TaskTypeOK' /\ Started' /\ Grows
<1>1. Len(worker) \in Nat /\ Len(managed) \in Nat /\ task \in [TaskObj -> TaskRec]
      /\ managed \in Seq(TaskObj)
  BY DEF TasksKept, TaskTypeOK
<1>2. \A j \in TaskObj : task'[j] = IF j = k THEN r ELSE task[j]
  BY <1>1
<1>3. TaskTypeOK'
  <2>1. task' \in [TaskObj -> TaskRec]
    BY <1>1 DEF TaskGoes
  <2> QED
    BY <1>1, <2>1 DEF TaskTypeOK, SameThreads
<1>4. ASSUME NEW j \in TaskObj, HasThread(j) PROVE HasThread(j)'
  <2>1. task'[j].pthread = task[j].pthread
    BY <1>2 DEF TaskGoes
  <2> QED
    BY <1>4, <2>1 DEF HasThread, ThreadOf, SameThreads
<1>5. Started'
  <2>1. ASSUME NEW j \in TaskObj, task'[j].running PROVE HasThread(j)'
    <3>1. HasThread(j)
      BY <1>2, <2>1 DEF TaskGoes, TasksKept, Started
    <3> QED
      BY <1>4, <3>1
  <2>2. ASSUME NEW i \in 1..Len(managed) PROVE HasThread(managed[i])'
    <3>1. managed[i] \in TaskObj /\ HasThread(managed[i])
      BY <1>1 DEF TasksKept, Started
    <3>2. PICK j \in TaskObj : j = managed[i]
      BY <3>1
    <3>3. HasThread(j)'
      BY <1>4, <3>1, <3>2
    <3> QED
      BY <3>2, <3>3
  <2> QED
    BY <2>1, <2>2 DEF Started
<1>6. Grows
  BY <1>1, <1>4 DEF Grows, SameThreads
<1> QED
  BY <1>3, <1>5, <1>6

\* The record of a task changes in the same way, and no thread does: startTask() that
\* fails to create one, and the assignment to _running.
LEMMA TaskMoves ==
  ASSUME TasksKept, UNCHANGED <<worker, managed>>, NEW c \in Caller, at' = [at EXCEPT ![c] = Task!Idle],
         NEW k \in TaskObj, NEW r, TaskGoes(k, r), task' = [task EXCEPT ![k] = r]
  PROVE  TasksKept'
<1>1. SameThreads
  BY DEF SameThreads, TasksKept, TaskTypeOK
<1>2. PICK x \in CallRec : x = Task!Idle
  BY DEF Task!Idle, CallRec, Given
<1>3. at' = [at EXCEPT ![c] = x] /\ at' \in [Caller -> CallRec]
  BY <1>2 DEF TasksKept, TaskTypeOK
<1>4. TaskTypeOK' /\ Started' /\ Grows
  BY <1>1, <1>3, ThreadsStay
<1>5. CallOK(x)'
  BY <1>2 DEF Task!Idle, CallOK, StartOK, Task!Joining
<1>6. Calls'
  BY <1>3, <1>4, <1>5, CallerMoves
<1>7. Threads'
  <2> SUFFICES ASSUME NEW w \in 1..Len(worker) PROVE Agree(worker[w], task[worker[w].task])'
    BY DEF Threads
  <2>1. worker[w] \in WorkerRec /\ task \in [TaskObj -> TaskRec] /\ Agree(worker[w], task[worker[w].task])
    BY DEF TasksKept, TaskTypeOK, Threads
  <2>2. PICK j \in TaskObj : j = worker[w].task
    BY <2>1 DEF WorkerRec
  <2>3. task'[j] = IF j = k THEN r ELSE task[j]
    BY <2>1
  <2> QED
    BY <2>1, <2>2, <2>3 DEF TaskGoes, Agree
<1> QED
  BY <1>4, <1>6, <1>7 DEF TasksKept

\* startTask(): the assignment to _running.
LEMMA StartMarkKeeps ==
  ASSUME TasksKept, NEW c \in Caller, Task!StartMark(c)
  PROVE  TasksKept'
<1>1. at[c] \in CallRec /\ CallOK(at[c]) /\ at[c].call = "started"
  BY AtCaller DEF Task!StartMark
<1>2. PICK k \in TaskObj : k = at[c].task /\ HasThread(k)
  BY <1>1 DEF CallOK, StartOK
<1>3. task \in [TaskObj -> TaskRec]
  BY DEF TasksKept, TaskTypeOK
<1>4. PICK r : r = [task[k] EXCEPT !.running = TRUE]
  OBVIOUS
<1>5. task' = [task EXCEPT ![k] = r]
  BY <1>2, <1>4 DEF Task!StartMark
<1>6. TaskGoes(k, r)
  BY <1>2, <1>3, <1>4 DEF TaskGoes, TaskRec
<1> QED
  BY <1>5, <1>6, TaskMoves DEF Task!StartMark, Task!Goto

\* startTask(): the thread is not created.
CreateFails(c) ==
    /\ at[c].call = "create"
    /\ task' = [task EXCEPT ![at[c].task].param = at[c].val]
    /\ at' = [at EXCEPT ![c] = Task!Idle]
    /\ UNCHANGED <<worker, managed>>

\* ... and keeps what was known.
LEMMA CreateFailsKeeps ==
  ASSUME TasksKept, NEW c \in Caller, CreateFails(c)
  PROVE  TasksKept'
<1>1. at[c] \in CallRec /\ CallOK(at[c]) /\ at[c].call = "create"
  BY AtCaller DEF CreateFails
<1>2. PICK k \in TaskObj : k = at[c].task
  BY <1>1 DEF CallOK, StartOK
<1>3. PICK v \in Param : v = at[c].val
  BY <1>1 DEF CallOK, StartOK
<1>4. task \in [TaskObj -> TaskRec] /\ (task[k].running => HasThread(k))
  BY DEF TasksKept, TaskTypeOK, Started
<1>5. PICK r : r = [task[k] EXCEPT !.param = v]
  OBVIOUS
<1>6. task' = [task EXCEPT ![k] = r]
  BY <1>2, <1>3, <1>5 DEF CreateFails
<1>7. TaskGoes(k, r)
  BY <1>4, <1>5 DEF TaskGoes, TaskRec, Given
<1> QED
  BY <1>6, <1>7, TaskMoves DEF CreateFails

\* startTask(): there is one more thread, and _pthread_dat names it.
Creates(c) ==
    /\ at[c].call = "create"
    /\ worker' = Append(worker, [task |-> at[c].task, param |-> Task!NoParam, pc |-> "created"])
    /\ task' = [task EXCEPT ![at[c].task].param = at[c].val, ![at[c].task].pthread = Len(worker) + 1]
    /\ at' = [at EXCEPT ![c] = [at[c] EXCEPT !.call = "started"]]
    /\ UNCHANGED managed

\* ... and the invariant is kept.
LEMMA CreatesKeeps ==
  ASSUME TasksKept, NEW c \in Caller, Creates(c)
  PROVE  TasksKept'
<1>1. at[c] \in CallRec /\ CallOK(at[c]) /\ at[c].call = "create"
  BY AtCaller DEF Creates
<1>2. PICK k \in TaskObj : k = at[c].task
  BY <1>1 DEF CallOK, StartOK
<1>3. PICK v \in Param : v = at[c].val
  BY <1>1 DEF CallOK, StartOK
<1>4. PICK n \in Nat : n = Len(worker)
  BY DEF TasksKept, TaskTypeOK
<1>5. /\ task \in [TaskObj -> TaskRec] /\ worker \in Seq(WorkerRec) /\ managed \in Seq(TaskObj)
      /\ at \in [Caller -> CallRec]
  BY DEF TasksKept, TaskTypeOK
<1>6. PICK r : r = [[task[k] EXCEPT !.param = v] EXCEPT !.pthread = n + 1]
  OBVIOUS
<1>7. task' = [task EXCEPT ![k] = r]
  BY <1>2, <1>3, <1>4, <1>5, <1>6 DEF Creates
<1>8. /\ r \in TaskRec /\ r.param = v /\ r.pthread = n + 1
      /\ (task[k].completed => r.completed) /\ r.retval = task[k].retval
  <2>1. n + 1 \in Nat /\ task[k] \in TaskRec
    BY <1>5
  <2>2. PICK q \in TaskRec : q = [task[k] EXCEPT !.param = v]
    BY <2>1 DEF TaskRec, Given
  <2>3. q.param = v /\ (task[k].completed => q.completed) /\ q.retval = task[k].retval
    BY <2>1, <2>2 DEF TaskRec
  <2>4. r = [q EXCEPT !.pthread = n + 1]
    BY <1>6, <2>2
  <2>5. r \in TaskRec
    BY ONLY <2>1, <2>2, <2>4 DEF TaskRec
  <2>6. r.param = q.param /\ r.pthread = n + 1 /\ r.retval = q.retval
    BY ONLY <2>2, <2>4 DEF TaskRec
  <2>7. q.completed => r.completed
    BY ONLY <2>2, <2>4 DEF TaskRec
  <2> QED
    BY <2>3, <2>5, <2>6, <2>7
<1>9. PICK y \in WorkerRec : y = [task |-> k, param |-> Task!NoParam, pc |-> "created"]
  BY DEF WorkerRec, Given
<1>10. worker' = Append(worker, y)
  BY <1>2, <1>9 DEF Creates
<1>11. /\ worker' \in Seq(WorkerRec) /\ Len(worker') = n + 1 /\ worker'[n + 1] = y
       /\ \A w \in 1..n : worker'[w] = worker[w]
  BY <1>4, <1>5, <1>10
<1>12. PICK x \in CallRec : x = [at[c] EXCEPT !.call = "started"]
  BY <1>1 DEF CallRec
<1>13. at' = [at EXCEPT ![c] = x] /\ at' \in [Caller -> CallRec]
  BY <1>5, <1>12 DEF Creates
<1>14. \A j \in TaskObj : task'[j] = IF j = k THEN r ELSE task[j]
  BY <1>5, <1>7
<1>15. TaskTypeOK'
  <2>1. task' \in [TaskObj -> TaskRec]
    BY <1>5, <1>7, <1>8
  <2> QED
    BY <1>5, <1>11, <1>13, <2>1 DEF TaskTypeOK, Creates
<1>16. HasThread(k)'
  BY <1>8, <1>9, <1>11, <1>14 DEF HasThread, ThreadOf
<1>17. ASSUME NEW j \in TaskObj, HasThread(j) PROVE HasThread(j)'
  <2>1. CASE j = k
    BY <1>16, <2>1
  <2>2. CASE j # k
    BY <1>4, <1>11, <1>14, <1>17, <2>2 DEF HasThread, ThreadOf
  <2> QED
    BY <2>1, <2>2
<1>18. Grows
  BY <1>4, <1>5, <1>11, <1>17 DEF Grows, Creates
<1>19. Started'
  <2>1. ASSUME NEW j \in TaskObj, task'[j].running PROVE HasThread(j)'
    <3>1. CASE j = k
      BY <1>16, <3>1
    <3>2. CASE j # k
      BY <1>14, <1>17, <2>1, <3>2 DEF TasksKept, Started
    <3> QED
      BY <3>1, <3>2
  <2>2. ASSUME NEW i \in 1..Len(managed) PROVE HasThread(managed[i])'
    <3>1. managed[i] \in TaskObj /\ HasThread(managed[i])
      BY <1>5 DEF TasksKept, Started
    <3>2. PICK j \in TaskObj : j = managed[i]
      BY <3>1
    <3>3. HasThread(j)'
      BY <1>17, <3>1, <3>2
    <3> QED
      BY <3>2, <3>3 DEF Creates
  <2> QED
    BY <2>1, <2>2 DEF Started, Creates
<1>20. Threads'
  <2> SUFFICES ASSUME NEW w \in 1..n + 1 PROVE Agree(worker[w], task[worker[w].task])'
    BY <1>11 DEF Threads
  <2>1. CASE w = n + 1
    BY <1>3, <1>8, <1>9, <1>11, <1>14, <2>1 DEF Agree
  <2>2. CASE w \in 1..n
    <3>1. worker[w] \in WorkerRec /\ Agree(worker[w], task[worker[w].task]) /\ worker'[w] = worker[w]
      BY <1>4, <1>5, <1>11, <2>2 DEF TasksKept, Threads
    <3>2. PICK j \in TaskObj : j = worker[w].task
      BY <3>1 DEF WorkerRec
    <3> QED
      BY <1>3, <1>8, <1>14, <3>1, <3>2 DEF Agree
  <2> QED
    BY <2>1, <2>2
<1>21. CallOK(x)'
  <2>1. x.call = "started" /\ x.task = k
    BY <1>1, <1>2, <1>12 DEF CallRec
  <2> QED
    BY <1>16, <2>1 DEF CallOK, StartOK, Task!Joining
<1>22. Calls'
  BY <1>13, <1>15, <1>18, <1>21, CallerMoves
<1> QED
  BY <1>15, <1>19, <1>20, <1>22 DEF TasksKept

\* A thread moves, and the record of its task with it.
LEMMA WorkerMoves ==
  ASSUME TasksKept, UNCHANGED managed, at' \in [Caller -> CallRec],
         NEW w \in 1..Len(worker), NEW y \in WorkerRec, worker' = [worker EXCEPT ![w] = y],
         y.task = worker[w].task, worker[w].pc # "joined",
         NEW r, TaskGoes(y.task, r), task' = [task EXCEPT ![y.task] = r], Agree(y, r)
  PROVE  TaskTypeOK' /\ Threads' /\ Started' /\ Grows
<1>1. worker \in Seq(WorkerRec) /\ task \in [TaskObj -> TaskRec]
  BY DEF TasksKept, TaskTypeOK
<1>2. SameThreads /\ \A v \in 1..Len(worker) : worker'[v] = IF v = w THEN y ELSE worker[v]
  BY <1>1 DEF SameThreads
<1>3. PICK k \in TaskObj : k = y.task
  BY DEF WorkerRec
<1>4. TaskTypeOK' /\ Started' /\ Grows
  BY <1>2, <1>3, ThreadsStay
<1>5. Threads'
  <2> SUFFICES ASSUME NEW v \in 1..Len(worker) PROVE Agree(worker[v], task[worker[v].task])'
    BY <1>2 DEF Threads, SameThreads
  <2>1. CASE v = w
    <3>1. worker'[v] = y /\ task'[y.task] = r
      BY <1>1, <1>2, <1>3, <2>1
    <3> QED
      BY <3>1 DEF Agree
  <2>2. CASE v # w
    <3>1. worker'[v] = worker[v] /\ worker[v] \in WorkerRec /\ Agree(worker[v], task[worker[v].task])
      BY <1>1, <1>2, <2>2 DEF TasksKept, Threads
    <3>2. PICK j \in TaskObj : j = worker[v].task
      BY <3>1 DEF WorkerRec
    <3>3. task'[j] = IF j = k THEN r ELSE task[j]
      BY <1>1, <1>3
    <3> QED
      BY <1>3, <3>1, <3>2, <3>3 DEF TaskGoes, Agree
  <2> QED
    BY <2>1, <2>2
<1> QED
  BY <1>4, <1>5

\* do_work() and the exit: no caller moves.
LEMMA WorkKeeps ==
  ASSUME TasksKept, NEW w \in DOMAIN worker, Task!Work(w)
  PROVE  TasksKept'
<1>1. /\ worker \in Seq(WorkerRec) /\ task \in [TaskObj -> TaskRec] /\ w \in 1..Len(worker)
      /\ at \in [Caller -> CallRec]
  BY DEF TasksKept, TaskTypeOK
<1>2. at' = at /\ managed' = managed
  BY DEF Task!Work, Task!WorkBegin, Task!WorkEnd, Task!WorkExit
<1>3. PICK k \in TaskObj : k = worker[w].task
  <2>1. worker[w] \in WorkerRec
    BY <1>1
  <2> QED
    BY <2>1 DEF WorkerRec
<1>4. PICK q \in TaskRec : q = task[k]
  BY <1>1
<1>5. PICK z \in WorkerRec : z = worker[w] /\ z.task = k
  BY <1>1, <1>3
<1>6. Agree(z, q)
  BY <1>1, <1>3, <1>4, <1>5 DEF TasksKept, Threads
<1>7. q.running => HasThread(k)
  BY <1>4 DEF TasksKept, Started
<1>8. \E y \in WorkerRec, r \in TaskRec :
          /\ worker' = [worker EXCEPT ![w] = y] /\ y.task = k /\ z.pc # "joined"
          /\ task' = [task EXCEPT ![k] = r] /\ TaskGoes(k, r) /\ Agree(y, r)
  <2>0. TaskGoes(k, q) /\ task = [task EXCEPT ![k] = q]
    BY <1>1, <1>4, <1>7 DEF TaskGoes
  <2>1. CASE Task!WorkBegin(w)
    <3>1. PICK p \in Param : p = q.param
      BY <1>6 DEF Agree
    <3>2. PICK y : y = [[z EXCEPT !.param = p] EXCEPT !.pc = "working"]
      OBVIOUS
    <3>3. worker' = [worker EXCEPT ![w] = y] /\ task' = task /\ z.pc = "created"
      BY <1>1, <1>3, <1>4, <1>5, <2>1, <3>1, <3>2 DEF Task!WorkBegin
    <3>4. y \in WorkerRec /\ y.task = k /\ y.param = p /\ y.pc = "working"
      BY <1>5, <3>1, <3>2 DEF WorkerRec, Given
    <3>5. Agree(y, q)
      BY <1>6, <3>4 DEF Agree
    <3> QED
      BY <2>0, <3>3, <3>4, <3>5
  <2>2. CASE Task!WorkEnd(w)
    <3>1. PICK y : y = [z EXCEPT !.pc = "returning"]
      OBVIOUS
    <3>2. PICK r : r = [q EXCEPT !.completed = TRUE]
      OBVIOUS
    <3>3. worker' = [worker EXCEPT ![w] = y] /\ task' = [task EXCEPT ![k] = r] /\ z.pc = "working"
      BY <1>1, <1>3, <1>4, <1>5, <2>2, <3>1, <3>2 DEF Task!WorkEnd
    <3>4. y \in WorkerRec /\ y.task = k /\ y.param = z.param /\ y.pc = "returning"
      BY <1>5, <3>1 DEF WorkerRec
    <3>5. r \in TaskRec /\ r.param = q.param /\ r.retval = q.retval /\ r.pthread = q.pthread /\ r.completed
      BY <3>2 DEF TaskRec
    <3>6. r.running => q.running
      BY <3>2 DEF TaskRec
    <3>7. TaskGoes(k, r)
      BY <1>4, <1>7, <3>5, <3>6 DEF TaskGoes
    <3>8. Agree(y, r)
      BY <1>6, <3>3, <3>4, <3>5 DEF Agree
    <3> QED
      BY <3>3, <3>4, <3>5, <3>7, <3>8
  <2>3. CASE Task!WorkExit(w)
    <3>1. PICK y : y = [z EXCEPT !.pc = "exited"]
      OBVIOUS
    <3>2. worker' = [worker EXCEPT ![w] = y] /\ task' = task /\ z.pc = "returning"
      BY <1>1, <1>5, <2>3, <3>1 DEF Task!WorkExit
    <3>3. y \in WorkerRec /\ y.task = k /\ y.param = z.param /\ y.pc = "exited"
      BY <1>5, <3>1 DEF WorkerRec
    <3>4. Agree(y, q)
      BY <1>6, <3>2, <3>3 DEF Agree
    <3> QED
      BY <2>0, <3>2, <3>3, <3>4
  <2> QED
    BY <2>1, <2>2, <2>3 DEF Task!Work
<1>9. TaskTypeOK' /\ Threads' /\ Started' /\ Grows
  BY <1>1, <1>2, <1>5, <1>8, WorkerMoves
<1>10. Calls'
  <2> SUFFICES ASSUME NEW e \in Caller PROVE CallOK(at[e])'
    BY DEF Calls
  <2>1. PICK x \in CallRec : x = at[e] /\ CallOK(x)
    BY AtCaller
  <2>2. CallOK(x)'
    BY <1>9, <2>1, CallStays DEF TasksKept
  <2> QED
    BY <1>2, <2>1, <2>2
<1> QED
  BY <1>9, <1>10 DEF TasksKept

\* A caller joins thread w of task k, and goes to x.
LEMMA JoinKeeps ==
  ASSUME TasksKept, NEW c \in Caller, NEW k \in TaskObj, NEW w, ThreadOf(w, k), Task!Join(w, k),
         UNCHANGED managed, NEW x \in CallRec, at' = [at EXCEPT ![c] = x],
         x.call = "idle" \/ (x.call = "joinAll" /\ \E a \in CallRec :
             /\ at[c] = a /\ a.call = "joinWait" /\ a.task = x.task /\ a.due = x.due
             /\ x.next = a.next + 1 /\ (~x.timed => ~a.timed) /\ managed[a.next] = k)
  PROVE  TasksKept'
<1>1. /\ worker \in Seq(WorkerRec) /\ task \in [TaskObj -> TaskRec] /\ w \in 1..Len(worker)
      /\ at \in [Caller -> CallRec] /\ worker[w].task = k
  BY DEF TasksKept, TaskTypeOK, ThreadOf
<1>2. PICK q \in TaskRec : q = task[k]
  BY <1>1
<1>3. PICK z \in WorkerRec : z = worker[w] /\ z.task = k
  BY <1>1
<1>4. Agree(z, q) /\ (q.running => HasThread(k))
  BY <1>1, <1>2, <1>3 DEF TasksKept, Threads, Started
<1>5. PICK y : y = [z EXCEPT !.pc = "joined"]
  OBVIOUS
<1>6. z.pc = "exited" /\ worker' = [worker EXCEPT ![w] = y]
  BY <1>1, <1>3, <1>5 DEF Task!Join, Task!Exited
<1>7. PICK p \in Param : p = z.param
  BY <1>4, <1>6 DEF Agree
<1>8. PICK r : r = [q EXCEPT !.retval = p]
  OBVIOUS
<1>9. task' = [task EXCEPT ![k] = r]
  BY <1>1, <1>2, <1>3, <1>7, <1>8 DEF Task!Join
<1>10. y \in WorkerRec /\ y.task = k /\ y.param = p /\ y.pc = "joined"
  BY <1>3, <1>5, <1>7 DEF WorkerRec
<1>11. r \in TaskRec /\ r.param = q.param /\ r.retval = p /\ r.pthread = q.pthread
  BY <1>8 DEF TaskRec, Given
<1>12. (r.running => q.running) /\ (q.completed => r.completed)
  BY <1>8 DEF TaskRec
<1>13. TaskGoes(k, r) /\ Agree(y, r)
  BY <1>2, <1>4, <1>6, <1>10, <1>11, <1>12 DEF TaskGoes, Agree
<1>14. at' \in [Caller -> CallRec]
  BY <1>1
<1>15. TaskTypeOK' /\ Threads' /\ Started' /\ Grows
  BY <1>1, <1>3, <1>6, <1>9, <1>10, <1>13, <1>14, WorkerMoves
<1>16. JoinedOf(k)'
  BY <1>1, <1>6, <1>10, <1>15 DEF JoinedOf
<1>17. CallOK(x)'
  <2>1. CASE x.call = "idle"
    BY <2>1 DEF CallOK, StartOK, Task!Joining
  <2>2. CASE x.call = "joinAll"
    <3>1. PICK a \in CallRec : /\ at[c] = a /\ a.call = "joinWait" /\ a.task = x.task /\ a.due = x.due
                               /\ x.next = a.next + 1 /\ (~x.timed => ~a.timed) /\ managed[a.next] = k
      BY <2>2
    <3>2. CallOK(a)'
      BY <1>15, <3>1, CallStays, AtCaller DEF TasksKept
    <3>3. ListOK(a)'
      BY <3>1, <3>2 DEF CallOK, Task!Joining
    <3>4. a.due \in Nat /\ a.next \in Nat
      BY DEF CallRec
    <3>5. ~x.timed => \A i \in 1..x.due : i < x.next => JoinedOf(managed[i])'
      BY <1>16, <3>1, <3>3, <3>4 DEF ListOK
    <3>6. ListOK(x)'
      BY <2>2, <3>1, <3>3, <3>4, <3>5 DEF ListOK
    <3> QED
      BY <2>2, <3>6 DEF CallOK, StartOK
  <2> QED
    BY <2>1, <2>2
<1>18. Calls'
  BY <1>15, <1>17, CallerMoves
<1> QED
  BY <1>15, <1>18 DEF TasksKept

\* addTask(): the list is longer by a task that has a thread.
LEMMA AddTaskKeeps ==
  ASSUME TasksKept, NEW c \in Caller, NEW k \in TaskObj, Task!AddTask(c, k)
  PROVE  TasksKept'
<1>1. /\ worker \in Seq(WorkerRec) /\ managed \in Seq(TaskObj) /\ at \in [Caller -> CallRec]
      /\ UNCHANGED <<task, worker, at>> /\ managed' = Append(managed, k) /\ HasThread(k)
  BY DEF TasksKept, TaskTypeOK, Started, Task!AddTask
<1>2. /\ managed' \in Seq(TaskObj) /\ Len(managed') = Len(managed) + 1 /\ managed'[Len(managed) + 1] = k
      /\ \A i \in 1..Len(managed) : managed'[i] = managed[i]
  BY <1>1
<1>3. TaskTypeOK'
  BY <1>1, <1>2 DEF TasksKept, TaskTypeOK
<1>4. Threads'
  BY <1>1 DEF TasksKept, Threads
<1>5. \A j : HasThread(j)' <=> HasThread(j)
  BY <1>1 DEF HasThread, ThreadOf
<1>6. Grows
  BY <1>1, <1>2, <1>5 DEF Grows
<1>7. Started'
  <2>1. \A j \in TaskObj : task'[j].running => HasThread(j)'
    BY <1>1, <1>5 DEF TasksKept, Started
  <2>2. ASSUME NEW i \in 1..Len(managed') PROVE HasThread(managed[i])'
    <3>1. PICK j : j = managed'[i]
      OBVIOUS
    <3>2. HasThread(j)
      <4>1. CASE i = Len(managed) + 1
        BY <1>1, <1>2, <3>1, <4>1
      <4>2. CASE i \in 1..Len(managed)
        BY <1>2, <3>1, <4>2 DEF TasksKept, Started
      <4> QED
        BY <1>1, <1>2, <4>1, <4>2
    <3>3. HasThread(j)'
      BY <1>5, <3>2
    <3> QED
      BY <3>1, <3>3
  <2> QED
    BY <2>1, <2>2 DEF Started
<1>8. Calls'
  <2> SUFFICES ASSUME NEW e \in Caller PROVE CallOK(at[e])'
    BY DEF Calls
  <2>1. PICK x \in CallRec : x = at[e] /\ CallOK(x)
    BY AtCaller
  <2>2. CallOK(x)'
    BY <1>3, <1>6, <2>1, CallStays DEF TasksKept
  <2> QED
    BY <1>1, <2>1, <2>2
<1> QED
  BY <1>3, <1>4, <1>7, <1>8 DEF TasksKept

\* The two places where a thread is joined: waitForTask() ...
LEMMA WaitJoinKeeps ==
  ASSUME TasksKept, NEW c \in Caller, Task!WaitJoin(c)
  PROVE  TasksKept'
<1>1. PICK a \in CallRec : a = at[c] /\ CallOK(a) /\ a.call = "wait"
  BY AtCaller DEF Task!WaitJoin
<1>2. PICK k \in TaskObj : k = a.task
  BY <1>1 DEF CallOK, StartOK
<1>3. PICK w : w = a.thread
  OBVIOUS
<1>4. ThreadOf(w, k) /\ Task!Join(w, k) /\ managed' = managed
  BY <1>1, <1>2, <1>3 DEF CallOK, StartOK, Task!WaitJoin
<1>5. PICK x \in CallRec : x = Task!Idle /\ x.call = "idle"
  <2>1. Task!Idle \in CallRec /\ Task!Idle.call = "idle"
    BY DEF Task!Idle, CallRec, Given
  <2> QED
    BY <2>1
<1>6. at' = [at EXCEPT ![c] = x]
  BY <1>5 DEF Task!WaitJoin, Task!Goto
<1> QED
  BY <1>4, <1>5, <1>6, JoinKeeps

\* ... and joinAll().
LEMMA JoinWaitKeeps ==
  ASSUME TasksKept, NEW c \in Caller, Task!JoinWait(c)
  PROVE  TasksKept'
<1>1. PICK a \in CallRec : a = at[c] /\ CallOK(a) /\ a.call = "joinWait"
  BY AtCaller DEF Task!JoinWait
<1>2. ListOK(a)
  BY <1>1 DEF CallOK, Task!Joining
<1>3. PICK k \in TaskObj : k = managed[a.next]
  BY <1>1, <1>2 DEF ListOK, TasksKept, TaskTypeOK
<1>4. PICK w : w = a.thread
  OBVIOUS
<1>5. ThreadOf(w, k) /\ Task!Join(w, k) /\ managed' = managed
  BY <1>1, <1>2, <1>3, <1>4 DEF ListOK, Task!JoinWait
<1> DEFINE x == [a EXCEPT !.call = "joinAll", !.next = @ + 1, !.thread = 0]
<1>6. at' = [at EXCEPT ![c] = x]
  BY <1>1 DEF Task!JoinWait, Task!Goto
<1>7. x \in CallRec
  <2>1. a.next + 1 \in Nat
    BY DEF CallRec
  <2> QED
    BY <2>1 DEF CallRec
<1>8. x.call = "joinAll" /\ a.task = x.task /\ a.due = x.due /\ x.next = a.next + 1 /\ (~x.timed => ~a.timed)
  BY <1>1 DEF CallRec
<1> HIDE DEF x
<1> QED
  BY <1>1, <1>3, <1>5, <1>6, <1>7, <1>8, JoinKeeps

\* A step of another component.
LEMMA TasksStutter ==
  ASSUME TasksKept, UNCHANGED taskVars
  PROVE  TasksKept'
BY DEF taskVars, TasksKept, TaskTypeOK, Threads, Started, HasThread, ThreadOf, Calls, CallOK, StartOK, ListOK, JoinedOf

\* Every step, of a caller or a thread.
LEMMA TasksStep ==
  ASSUME TasksKept, Task!Next
  PROVE  TasksKept'
<1>0. ASSUME UNCHANGED Task!taskVars PROVE TasksKept'
  BY <1>0, TasksStutter DEF Task!taskVars, taskVars
<1>1. ASSUME NEW c \in Caller, Task!Running(c) PROVE TasksKept'
  <2>1. CASE Task!StartCreate(c)
    <3>1. Creates(c) \/ CreateFails(c)
      BY <2>1 DEF Task!StartCreate, Task!Goto, Creates, CreateFails
    <3> QED
      BY <3>1, CreatesKeeps, CreateFailsKeeps
  <2>2. CASE Task!JoinLock(c) \/ Task!JoinNext(c) \/ Task!JoinTimesOut(c) \/ Task!JoinedAll(c)
    <3>1. UNCHANGED <<task, worker, managed>>
      BY <2>2 DEF Task!JoinLock, Task!JoinNext, Task!JoinTimesOut, Task!JoinedAll
    <3> QED
      BY <2>2, <3>1, JoinMoves
  <2>3. CASE Task!WaitTimesOut(c)
    BY <2>3, IdleKeeps DEF Task!WaitTimesOut, Task!Goto
  <2> QED
    BY <1>1, <2>1, <2>2, <2>3, StartMarkKeeps, WaitJoinKeeps, JoinWaitKeeps DEF Task!Running
<1>2. ASSUME NEW c \in Caller, Task!CallManager(c) PROVE TasksKept'
  BY <1>0, <1>2, JoinAllKeeps DEF Task!CallManager, Task!ShutdownAll
<1>3. ASSUME NEW c \in Caller, NEW k \in TaskObj, Task!CallOn(c, k) PROVE TasksKept'
  <2>1. ASSUME NEW v \in Param, Task!StartCheck(c, k, v) PROVE TasksKept'
    <3>1. CASE at' = at
      BY <1>0, <2>1, <3>1 DEF Task!StartCheck, Task!taskVars
    <3> QED
      BY <2>1, <3>1, StartCheckKeeps
  <2> QED
    BY <1>3, <2>1, WaitKeeps, AddTaskKeeps DEF Task!CallOn
<1> QED
  BY <1>1, <1>2, <1>3, WorkKeeps DEF Task!Next

\* A joinAll() that has returned has passed every task that was in the list.
LEMMA TasksImply == TasksKept => Task!JoinedMeansDone
<1> SUFFICES ASSUME TasksKept, NEW c \in Caller, at[c].call = "joined", NEW i \in 1..at[c].due
             PROVE  /\ \E w \in DOMAIN worker : worker[w].task = managed[i] /\ worker[w].pc = "joined"
                    /\ task[managed[i]].completed /\ task[managed[i]].retval # Task!NoParam
  BY DEF Task!JoinedMeansDone
<1>1. PICK a \in CallRec : a = at[c] /\ CallOK(a)
  BY AtCaller
<1>2. a.due \in Nat /\ a.next \in Nat /\ i \in 1..a.due /\ a.call = "joined" /\ ListOK(a)
  BY <1>1 DEF CallRec, CallOK, Task!Joining
<1>3. JoinedOf(managed[i])
  BY <1>2 DEF ListOK
<1>4. PICK w \in 1..Len(worker) : worker[w].task = managed[i] /\ worker[w].pc = "joined"
  BY <1>3 DEF JoinedOf
<1>5. w \in DOMAIN worker
  BY <1>4 DEF TasksKept, TaskTypeOK
<1>6. Agree(worker[w], task[managed[i]])
  BY <1>4 DEF TasksKept, Threads
<1> QED
  BY <1>4, <1>5, <1>6, TaskAssumption DEF Agree, Task!NoParam

-----------------------------------------------------------------------------
(***************************************************************************)
(* The components side by side: a step of one of them leaves the others    *)
(* alone.                                                                  *)
(***************************************************************************)

\* A step is one of the component's, or none, whichever component is in use.
LEMMA StepOfEach ==
  ASSUME [Next]_vars
  PROVE  [AutoPtr!Next]_autoVars /\ (Task!Next \/ UNCHANGED taskVars)
BY DEF Next, Done, vars

\* autoPointer: the data is there as long as anybody has a reference, and when it goes,
\* every registered callback has been called, once and in order.
THEOREM CallbacksAlwaysBeforeDelete == Spec => []CallbacksBeforeDelete
<1>1. Init => Pointer
  BY PointerInit DEF Init
<1>2. Pointer /\ [Next]_vars => Pointer'
  BY PointerStep, StepOfEach
<1> QED
  BY <1>1, <1>2, PointerImplies, PTL DEF Spec

\* TaskManager: when joinAll() has returned, every task that was in the list when it was
\* called has run, is joined and has left its result.
THEOREM JoinedTasksDone == Spec => []JoinedMeansDone
<1>1. Init => TasksKept
  BY TasksInit DEF Init
<1>2. TasksKept /\ [Next]_vars => TasksKept'
  <2> SUFFICES ASSUME TasksKept, [Next]_vars PROVE TasksKept'
    OBVIOUS
  <2>1. CASE UNCHANGED taskVars
    BY <2>1, TasksStutter
  <2>2. CASE Task!Next
    BY <2>2, TasksStep
  <2> QED
    BY <2>1, <2>2, StepOfEach
<1>3. TasksKept => JoinedMeansDone
  BY TasksImply DEF JoinedMeansDone
<1> QED
  BY <1>1, <1>2, <1>3, PTL DEF Spec

-----------------------------------------------------------------------------
(***************************************************************************)
(* TW_SemaTwoWay used in any mixture of its calls, for every number of     *)
(* threads and of units.                                                   *)
(*                                                                         *)
(* PoolKept is not inductive by itself: a woken acquirer takes a unit      *)
(* without asking what it has.  That it has none, because it had none when *)
(* it went to sleep, is Asking.                                            *)
(***************************************************************************)
\* A signal takes at most one thread out of a wait set and puts none in.
LEMMA SignalShrinks ==
  ASSUME NEW S, NEW R \in Pool!Signal(S)
  PROVE  R \subseteq S
BY DEF Pool!Signal

\* The woken threads are finitely many, before and after a step.
LEMMA PoolWokenFinite ==
  /\ IsFiniteSet(Pool!WokenAcquirers) /\ Cardinality(Pool!WokenAcquirers) \in Nat
  /\ IsFiniteSet(Pool!WokenWaiters) /\ Cardinality(Pool!WokenWaiters) \in Nat
  /\ IsFiniteSet(Pool!WokenAcquirers') /\ Cardinality(Pool!WokenAcquirers') \in Nat
  /\ IsFiniteSet(Pool!WokenWaiters') /\ Cardinality(Pool!WokenWaiters') \in Nat
<1>1. /\ Pool!WokenAcquirers \in SUBSET PoolThread /\ Pool!WokenWaiters \in SUBSET PoolThread
      /\ Pool!WokenAcquirers' \in SUBSET PoolThread /\ Pool!WokenWaiters' \in SUBSET PoolThread
  BY DEF Pool!WokenAcquirers, Pool!WokenWaiters
<1>2. ASSUME NEW S \in SUBSET PoolThread PROVE IsFiniteSet(S) /\ Cardinality(S) \in Nat
  BY PoolAssumption, FS_Subset, FS_CardinalityType DEF PoolAssumption
<1> QED
  BY <1>1, <1>2

\* A unit is given back and a sleeper signalled: both sides go up by one, or
\* nobody sleeps any more.
LEMMA SignalCovers ==
  ASSUME NEW S, NEW W, NEW R \in Pool!Signal(S), NEW n \in Int,
         S # {} => n <= Cardinality(W), IsFiniteSet(W), S \cap W = {}
  PROVE  R # {} => n + 1 <= Cardinality(W \cup (S \ R))
<1>1. (S = {} => R = {}) /\ (S # {} => \E u \in S : R = S \ {u})
  BY DEF Pool!Signal
<1> QED
  BY <1>1, OneMoreAwake

\* The units add up, no wakeup for one is lost, and a thread that waits for one has none.
UnitsAddUp == poolCnt + Cardinality(Pool!Holders) = PoolSize
NoneLost == poolGtZero # {} => poolCnt <= Cardinality(Pool!WokenAcquirers)
UnitsStand == Pool!PoolTypeOK /\ UnitsAddUp /\ NoneLost
Asking == \A t \in PoolThread : poolPc[t] \in Pool!GtZeroWaits => poolUnits[t] = 0
UnitsKept == UnitsStand /\ Asking

\* The threads that hold a unit are finitely many.
LEMMA HoldersFinite ==
  /\ IsFiniteSet(Pool!Holders) /\ Cardinality(Pool!Holders) \in Nat
<1>1. Pool!Holders \in SUBSET PoolThread
  BY DEF Pool!Holders
<1> QED
  BY <1>1, PoolAssumption, FS_Subset, FS_CardinalityType DEF PoolAssumption

\* The constructor's state.
LEMMA PoolStarts == Pool!PoolInit => UnitsKept
<1> SUFFICES ASSUME Pool!PoolInit PROVE UnitsKept
  OBVIOUS
<1>1. Pool!SemaTypeOK /\ NoneLost
  BY PoolAssumption
  DEF Pool!PoolInit, Pool!SemaInit, Pool!SemaTypeOK, NoneLost, Pool!PC, Pool!GtZeroWaits, Pool!DecrementWaits, Pool!TimedOuts
<1>2. Pool!PoolTypeOK
  BY <1>1 DEF Pool!PoolInit, Pool!PoolTypeOK
<1>3. UnitsAddUp
  <2>1. Pool!Holders = {}
    BY DEF Pool!PoolInit, Pool!Holders
  <2>2. Cardinality(Pool!Holders) = 0
    BY <2>1, FS_EmptySet
  <2> QED
    BY <2>2, PoolAssumption DEF Pool!PoolInit, Pool!SemaInit, UnitsAddUp
<1>4. Asking
  BY DEF Pool!PoolInit, Pool!SemaInit, Asking, Pool!GtZeroWaits
<1> QED
  BY <1>1, <1>2, <1>3, <1>4 DEF UnitsKept, UnitsStand

\* The types after a call returns, from wherever it was.
LEMMA ReturnTypes ==
  ASSUME UnitsKept, NEW t \in PoolThread, NEW r \in {"ok", "timeout", "failed"}, NEW k \in BOOLEAN,
         Pool!Return(t, r, k), t \notin poolGtZero, t \notin decrementCond,
         poolCnt' \in Nat, poolUnits' \in [PoolThread -> 0..1],
         poolGtZero' \subseteq poolGtZero, decrementCond' \subseteq decrementCond
  PROVE  Pool!PoolTypeOK'
<1>1. Pool!SemaTypeOK'
  BY DEF UnitsKept, UnitsStand, Pool!PoolTypeOK, Pool!SemaTypeOK, Pool!Return, Pool!PC
<1>2. keepLock' \in [PoolThread -> BOOLEAN]
  BY DEF UnitsKept, UnitsStand, Pool!PoolTypeOK, Pool!Return
<1>3. result' \in [PoolThread -> {"none", "ok", "timeout", "failed"}]
  BY DEF UnitsKept, UnitsStand, Pool!PoolTypeOK, Pool!Return
<1> QED
  BY <1>1, <1>2, <1>3 DEF Pool!PoolTypeOK

\* A call that returns without a unit, from outside or after a wait that was not for
\* a unit: nothing is taken, nobody is put to sleep.
LEMMA ReturnKeepsPool ==
  ASSUME UnitsKept, NEW t \in PoolThread, NEW r \in {"ok", "timeout", "failed"}, NEW k \in BOOLEAN,
         Pool!Return(t, r, k), t \notin decrementCond, poolPc[t] \notin Pool!GtZeroWaits,
         UNCHANGED <<poolCnt, poolGtZero, decrementCond, poolUnits>>
  PROVE  UnitsKept'
<1>1. Pool!SemaTypeOK /\ poolUnits \in [PoolThread -> 0..1]
  BY DEF UnitsKept, UnitsStand, Pool!PoolTypeOK
<1>2. t \notin poolGtZero
  BY <1>1 DEF Pool!SemaTypeOK
<1>3. Pool!PoolTypeOK'
  BY <1>1, <1>2, ReturnTypes DEF Pool!SemaTypeOK
<1>4. Pool!WokenAcquirers' = Pool!WokenAcquirers
  BY <1>1 DEF Pool!Return, Pool!SemaTypeOK, Pool!WokenAcquirers, Pool!GtZeroWaits
<1>5. NoneLost' /\ UnitsAddUp'
  BY <1>4 DEF UnitsKept, UnitsStand, NoneLost, UnitsAddUp, Pool!Holders
<1>6. Asking'
  BY <1>1 DEF UnitsKept, Asking, Pool!Return, Pool!SemaTypeOK, Pool!GtZeroWaits
<1> QED
  BY <1>3, <1>5, <1>6 DEF UnitsKept, UnitsStand

\* A unit is taken: the count goes down, the taker is among the holders, and was
\* either outside or one of the woken.
LEMMA TakeKeepsPool ==
  ASSUME UnitsKept, NEW t \in PoolThread, NEW k \in BOOLEAN, Pool!TakeUnit(t, k), poolUnits[t] = 0,
         poolPc[t] \in {"idle"} \cup Pool!GtZeroWaits, t \notin poolGtZero
  PROVE  UnitsKept'
<1>1. Pool!SemaTypeOK /\ poolUnits \in [PoolThread -> 0..1] /\ poolCnt \in Int
  BY DEF UnitsKept, UnitsStand, Pool!PoolTypeOK, Pool!SemaTypeOK
<1>2. /\ poolCnt >= 1 /\ poolCnt' = poolCnt - 1 /\ poolGtZero' = poolGtZero
      /\ decrementCond' \subseteq decrementCond
      /\ poolPc' = [poolPc EXCEPT ![t] = "idle"] /\ poolUnits' = [poolUnits EXCEPT ![t] = 1]
  BY <1>1, SignalShrinks DEF Pool!TakeUnit, Pool!Acquired, Pool!Return
<1>3. t \notin decrementCond
  BY <1>1 DEF Pool!SemaTypeOK, Pool!GtZeroWaits, Pool!DecrementWaits
<1>4. Pool!PoolTypeOK'
  <2>1. poolCnt' \in Nat /\ poolUnits' \in [PoolThread -> 0..1]
    BY <1>1, <1>2
  <2> QED
    BY <1>2, <1>3, <2>1, ReturnTypes DEF Pool!TakeUnit
<1>5. UnitsAddUp'
  <2>1. Pool!Holders' = Pool!Holders \cup {t} /\ t \notin Pool!Holders
    BY <1>1, <1>2 DEF Pool!Holders
  <2>2. Cardinality(Pool!Holders') = Cardinality(Pool!Holders) + 1
    BY <2>1, HoldersFinite, FS_AddElement
  <2> QED
    BY <1>1, <1>2, <2>2, HoldersFinite DEF UnitsKept, UnitsStand, UnitsAddUp
<1>6. NoneLost'
  <2>1. Pool!WokenAcquirers' = Pool!WokenAcquirers \ {t}
    BY <1>1, <1>2 DEF Pool!SemaTypeOK, Pool!WokenAcquirers, Pool!GtZeroWaits
  <2> QED
    BY <1>1, <1>2, <2>1, PoolWokenFinite, TakerGone DEF UnitsKept, UnitsStand, NoneLost
<1>7. Asking'
  BY <1>1, <1>2 DEF UnitsKept, Asking, Pool!SemaTypeOK, Pool!GtZeroWaits
<1> QED
  BY <1>4, <1>5, <1>6, <1>7 DEF UnitsKept, UnitsStand

\* An acquirer goes to sleep, again or for the first time: only when there is no unit.
LEMMA SleepKeepsPool ==
  ASSUME UnitsKept, NEW t \in PoolThread, NEW how \in Pool!GtZeroWaits, NEW k \in BOOLEAN,
         Pool!SleepOnGtZero(t), Pool!Block(t, how, k), poolUnits[t] = 0,
         poolPc[t] \in {"idle"} \cup Pool!GtZeroWaits
  PROVE  UnitsKept'
<1>1. Pool!SemaTypeOK /\ poolUnits \in [PoolThread -> 0..1] /\ poolCnt \in Nat /\ poolCnt' \in Nat /\ poolCnt' < 1
  BY DEF UnitsKept, UnitsStand, Pool!PoolTypeOK, Pool!SemaTypeOK, Pool!SleepOnGtZero
<1>2. Pool!SemaTypeOK'
  BY <1>1 DEF Pool!SemaTypeOK, Pool!SleepOnGtZero, Pool!Block, Pool!PC, Pool!GtZeroWaits, Pool!DecrementWaits
<1>3. keepLock' \in [PoolThread -> BOOLEAN]
  BY DEF UnitsKept, UnitsStand, Pool!PoolTypeOK, Pool!Block
<1>4. Pool!PoolTypeOK'
  BY <1>2, <1>3 DEF UnitsKept, UnitsStand, Pool!PoolTypeOK, Pool!Block
<1>5. UnitsAddUp'
  BY DEF UnitsKept, UnitsStand, UnitsAddUp, Pool!Holders, Pool!SleepOnGtZero, Pool!Block
<1>6. NoneLost'
  BY <1>1, PoolWokenFinite DEF NoneLost
<1>7. Asking'
  BY <1>1 DEF UnitsKept, Asking, Pool!Block, Pool!SemaTypeOK
<1> QED
  BY <1>4, <1>5, <1>6, <1>7 DEF UnitsKept, UnitsStand

\* A unit is given back, and a sleeper signalled.
LEMMA ReleaseKeepsPool ==
  ASSUME UnitsKept, NEW t \in PoolThread, Pool!Released, poolUnits[t] > 0,
         poolUnits' = [poolUnits EXCEPT ![t] = @ - 1],
         \A u \in PoolThread : poolPc'[u] = poolPc[u], Pool!PoolTypeOK'
  PROVE  UnitsKept'
<1>1. Pool!SemaTypeOK /\ Pool!SemaTypeOK' /\ poolUnits \in [PoolThread -> 0..1] /\ poolCnt \in Int
  BY DEF UnitsKept, UnitsStand, Pool!PoolTypeOK, Pool!SemaTypeOK
<1>2. poolCnt' = poolCnt + 1 /\ poolGtZero' \in Pool!Signal(poolGtZero) /\ poolUnits' = [poolUnits EXCEPT ![t] = 0]
  <2>1. poolUnits[t] = 1
    BY <1>1
  <2>2. poolCnt + 1 > 0
    BY DEF UnitsKept, UnitsStand, Pool!PoolTypeOK, Pool!SemaTypeOK
  <2> QED
    BY <2>1, <2>2 DEF Pool!Released
<1>3. UnitsAddUp'
  <2>1. Pool!Holders' = Pool!Holders \ {t} /\ t \in Pool!Holders
    BY <1>1, <1>2 DEF Pool!Holders
  <2>2. Cardinality(Pool!Holders') = Cardinality(Pool!Holders) - 1
    BY <2>1, HoldersFinite, FS_RemoveElement
  <2> QED
    BY <1>1, <1>2, <2>2, HoldersFinite DEF UnitsKept, UnitsStand, UnitsAddUp
<1>4. NoneLost'
  <2>1. poolGtZero' \subseteq poolGtZero
    BY <1>2, SignalShrinks
  <2>2. /\ Pool!WokenAcquirers' = Pool!WokenAcquirers \cup (poolGtZero \ poolGtZero')
        /\ poolGtZero \cap Pool!WokenAcquirers = {}
    BY <1>1, <2>1 DEF Pool!SemaTypeOK, Pool!WokenAcquirers
  <2> QED
    BY <1>1, <1>2, <2>2, PoolWokenFinite, SignalCovers DEF UnitsKept, UnitsStand, NoneLost
<1>5. Asking'
  BY <1>1, <1>2 DEF UnitsKept, Asking
<1> QED
  BY <1>3, <1>4, <1>5 DEF UnitsKept, UnitsStand

\* A step that takes and gives nothing, puts nobody to sleep for a unit and lets no
\* woken acquirer run.
LEMMA QuietKeepsPool ==
  ASSUME UnitsKept, Pool!PoolTypeOK', poolCnt' = poolCnt, poolUnits' = poolUnits, poolGtZero' \subseteq poolGtZero,
         Pool!WokenAcquirers \subseteq Pool!WokenAcquirers',
         \A u \in PoolThread : poolPc'[u] \in Pool!GtZeroWaits => poolPc[u] \in Pool!GtZeroWaits
  PROVE  UnitsKept'
<1>1. poolCnt \in Int
  BY DEF UnitsKept, UnitsStand, Pool!PoolTypeOK, Pool!SemaTypeOK
<1>2. NoneLost'
  BY <1>1, PoolWokenFinite, MoreAwake DEF UnitsKept, UnitsStand, NoneLost
<1>3. UnitsAddUp' /\ Asking'
  BY DEF UnitsKept, UnitsStand, UnitsAddUp, Pool!Holders, Asking
<1> QED
  BY <1>2, <1>3 DEF UnitsKept, UnitsStand

\* Pool is inductive.
LEMMA PoolStep == UnitsKept /\ [Pool!PoolNext]_poolVars => UnitsKept'
<1> SUFFICES ASSUME UnitsKept, [Pool!PoolNext]_poolVars PROVE UnitsKept'
  OBVIOUS
<1>0. Pool!PoolTypeOK /\ Pool!SemaTypeOK
  BY DEF UnitsKept, UnitsStand, Pool!PoolTypeOK
<1>1. CASE UNCHANGED poolVars
  BY <1>0, <1>1, QuietKeepsPool
  DEF poolVars, Pool!PoolTypeOK, Pool!SemaTypeOK, Pool!WokenAcquirers
<1>2. ASSUME NEW t \in PoolThread, Pool!Enter(t) PROVE t \notin poolGtZero /\ t \notin decrementCond
  BY <1>0, <1>2 DEF Pool!SemaTypeOK, Pool!Enter, Pool!GtZeroWaits, Pool!DecrementWaits
<1>3. ASSUME NEW t \in PoolThread, NEW k \in BOOLEAN, NEW how \in Pool!GtZeroWaits, Pool!Acquire(t, how, k)
      PROVE  UnitsKept'
  BY <1>2, <1>3, TakeKeepsPool, SleepKeepsPool DEF Pool!Acquire, Pool!Enter
<1>4. ASSUME NEW t \in PoolThread, Pool!AcquireResume(t) PROVE UnitsKept'
  <2>1. poolUnits[t] = 0 /\ poolPc[t] \in Pool!GtZeroWaits /\ t \notin poolGtZero /\ keepLock[t] \in BOOLEAN
    BY <1>0, <1>4 DEF Pool!AcquireResume, Pool!BackFromGtZero, UnitsKept, Asking, Pool!PoolTypeOK
  <2> QED
    BY <1>4, <2>1, TakeKeepsPool, SleepKeepsPool DEF Pool!AcquireResume
<1>5. ASSUME NEW t \in PoolThread, Pool!AcquireNoBlock(t) PROVE UnitsKept'
  <2>1. poolPc[t] = "idle" /\ poolUnits[t] = 0 /\ t \notin poolGtZero /\ t \notin decrementCond
    BY <1>2, <1>5 DEF Pool!AcquireNoBlock, Pool!Enter
  <2>2. CASE Pool!TakeUnit(t, TRUE)
    BY <2>1, <2>2, TakeKeepsPool
  <2>3. CASE Pool!Return(t, "failed", TRUE) /\ UNCHANGED <<poolCnt, poolGtZero, decrementCond, poolUnits>>
    BY <2>1, <2>3, ReturnKeepsPool DEF Pool!GtZeroWaits
  <2> QED
    BY <1>5, <2>2, <2>3 DEF Pool!AcquireNoBlock
<1>6. ASSUME NEW t \in PoolThread, Pool!AcquireTimedOut(t) \/ Pool!WaitTimedOut(t) PROVE UnitsKept'
  <2>1. /\ poolPc[t] \notin Pool!GtZeroWaits /\ t \notin decrementCond /\ keepLock[t] \in BOOLEAN
        /\ UNCHANGED <<poolCnt, poolGtZero, decrementCond, poolUnits>>
    BY <1>0, <1>6
    DEF Pool!AcquireTimedOut, Pool!WaitTimedOut, Pool!SemaTypeOK, Pool!PoolTypeOK, Pool!GtZeroWaits, Pool!DecrementWaits
  <2>2. \E r \in {"ok", "timeout", "failed"} : Pool!Return(t, r, keepLock[t])
    BY <1>6 DEF Pool!AcquireTimedOut, Pool!WaitTimedOut
  <2> QED
    BY <2>1, <2>2, ReturnKeepsPool
<1>7. ASSUME NEW t \in PoolThread, Pool!WaitResume(t) PROVE UnitsKept'
  <2>1. /\ poolPc[t] \notin Pool!GtZeroWaits /\ t \notin decrementCond /\ keepLock[t] \in BOOLEAN
        /\ UNCHANGED <<poolCnt, poolGtZero, decrementCond, poolUnits>>
    BY <1>0, <1>7 DEF Pool!WaitResume, Pool!BackFromDecrement, Pool!PoolTypeOK, Pool!GtZeroWaits, Pool!DecrementWaits
  <2>2. \E r \in {"ok", "timeout", "failed"} : Pool!Return(t, r, keepLock[t])
    BY <1>7 DEF Pool!WaitResume
  <2> QED
    BY <2>1, <2>2, ReturnKeepsPool
<1>8. ASSUME NEW t \in PoolThread, NEW k \in BOOLEAN, NEW how \in Pool!DecrementWaits,
             Pool!WaitForAcquirers(t, how, k)
      PROVE  UnitsKept'
  <2>1. poolPc[t] = "idle" /\ t \notin poolGtZero /\ t \notin decrementCond
    BY <1>2, <1>8 DEF Pool!WaitForAcquirers, Pool!Enter
  <2>2. CASE Pool!SleepOnDecrement(t) /\ Pool!Block(t, how, k)
    <3>1. Pool!SemaTypeOK'
      BY <1>0, <2>1, <2>2 DEF Pool!SemaTypeOK, Pool!SleepOnDecrement, Pool!Block, Pool!PC, Pool!GtZeroWaits, Pool!DecrementWaits
    <3>2. keepLock' \in [PoolThread -> BOOLEAN]
      BY <1>0, <2>2 DEF Pool!PoolTypeOK, Pool!Block
    <3>3. Pool!PoolTypeOK'
      BY <1>0, <2>2, <3>1, <3>2 DEF Pool!PoolTypeOK, Pool!Block
    <3>4. Pool!WokenAcquirers' = Pool!WokenAcquirers
      BY <1>0, <2>1, <2>2
      DEF Pool!SemaTypeOK, Pool!SleepOnDecrement, Pool!Block, Pool!WokenAcquirers, Pool!GtZeroWaits, Pool!DecrementWaits
    <3>5. \A u \in PoolThread : poolPc'[u] \in Pool!GtZeroWaits => poolPc[u] \in Pool!GtZeroWaits
      BY <1>0, <2>2 DEF Pool!SemaTypeOK, Pool!Block, Pool!GtZeroWaits, Pool!DecrementWaits
    <3> QED
      BY <2>2, <3>3, <3>4, <3>5, QuietKeepsPool DEF Pool!SleepOnDecrement, Pool!Block
  <2>3. CASE Pool!Return(t, "ok", k) /\ UNCHANGED <<poolCnt, poolGtZero, decrementCond, poolUnits>>
    BY <2>1, <2>3, ReturnKeepsPool DEF Pool!GtZeroWaits
  <2> QED
    BY <1>8, <2>2, <2>3 DEF Pool!WaitForAcquirers
<1>9. ASSUME NEW t \in PoolThread, NEW k \in BOOLEAN, Pool!Release(t, k) PROVE UnitsKept'
  <2>1. /\ poolPc[t] = "idle" /\ t \notin poolGtZero /\ t \notin decrementCond
        /\ Pool!Released /\ Pool!Return(t, "ok", k) /\ poolUnits[t] > 0 /\ poolUnits' = [poolUnits EXCEPT ![t] = @ - 1]
    BY <1>2, <1>9 DEF Pool!Release, Pool!Enter
  <2>2. /\ poolCnt' \in Nat /\ poolUnits' \in [PoolThread -> 0..1]
        /\ poolGtZero' \subseteq poolGtZero /\ decrementCond' \subseteq decrementCond
    BY <1>0, <2>1, SignalShrinks DEF Pool!Released, Pool!PoolTypeOK, Pool!SemaTypeOK
  <2>3. Pool!PoolTypeOK'
    BY <2>1, <2>2, ReturnTypes
  <2>4. \A u \in PoolThread : poolPc'[u] = poolPc[u]
    BY <1>0, <2>1 DEF Pool!Return, Pool!SemaTypeOK
  <2> QED
    BY <2>1, <2>3, <2>4, ReleaseKeepsPool
<1>10. ASSUME NEW t \in PoolThread, Pool!ReleaseWithoutLock(t) PROVE UnitsKept'
  <2>1. /\ Pool!Released /\ poolUnits[t] > 0 /\ poolUnits' = [poolUnits EXCEPT ![t] = @ - 1]
        /\ UNCHANGED <<poolMutex, poolPc, keepLock, result>>
    BY <1>10 DEF Pool!ReleaseWithoutLock
  <2>2. /\ poolCnt' \in Nat /\ poolUnits' \in [PoolThread -> 0..1]
        /\ poolGtZero' \subseteq poolGtZero /\ decrementCond' = decrementCond
    BY <1>0, <2>1, SignalShrinks DEF Pool!Released, Pool!PoolTypeOK, Pool!SemaTypeOK
  <2>3. Pool!PoolTypeOK'
    BY <1>0, <2>1, <2>2 DEF Pool!PoolTypeOK, Pool!SemaTypeOK
  <2> QED
    BY <2>1, <2>3, ReleaseKeepsPool
<1>11. ASSUME NEW t \in PoolThread,
              Pool!LockSemaOnly(t) \/ Pool!ReleaseSemaLock(t) \/ Pool!ReleaseAllAcquireLocks(t)
       PROVE  UnitsKept'
  <2>1. /\ UNCHANGED <<poolCnt, poolGtZero, poolPc, keepLock, poolUnits, result>>
        /\ decrementCond' \subseteq decrementCond /\ poolMutex' \in {poolMutex, t, NoThread}
    BY <1>11 DEF Pool!LockSemaOnly, Pool!ReleaseSemaLock, Pool!ReleaseAllAcquireLocks, Pool!ReleasedAllAcquireLocks,
                 Pool!Broadcast
  <2>2. Pool!PoolTypeOK'
    BY <1>0, <2>1 DEF Pool!PoolTypeOK, Pool!SemaTypeOK
  <2> QED
    BY <2>1, <2>2, QuietKeepsPool DEF Pool!WokenAcquirers
<1>12. ASSUME NEW t \in PoolThread, Pool!PoolCond(t) PROVE UnitsKept'
  <2>1. CASE Pool!SpuriousWakeup(t)
    <3>1. /\ UNCHANGED <<poolCnt, poolMutex, poolPc, keepLock, poolUnits, result>>
          /\ poolGtZero' \subseteq poolGtZero /\ decrementCond' \subseteq decrementCond
      BY <1>12, <2>1 DEF Pool!PoolCond, Pool!SpuriousWakeup
    <3>2. Pool!PoolTypeOK'
      BY <1>0, <3>1 DEF Pool!PoolTypeOK, Pool!SemaTypeOK
    <3> QED
      BY <3>1, <3>2, QuietKeepsPool DEF Pool!WokenAcquirers
  <2>2. CASE Pool!TimeOut(t)
    <3>1. Pool!SemaTypeOK'
      BY <1>0, <2>2 DEF Pool!TimeOut, Pool!SemaTypeOK, Pool!PC, Pool!GtZeroWaits, Pool!DecrementWaits, Pool!TimedOuts
    <3>2. Pool!PoolTypeOK'
      BY <1>0, <1>12, <3>1 DEF Pool!PoolTypeOK, Pool!PoolCond
    <3>3. Pool!WokenAcquirers' = Pool!WokenAcquirers
      BY <1>0, <2>2 DEF Pool!TimeOut, Pool!SemaTypeOK, Pool!GtZeroWaits, Pool!DecrementWaits, Pool!WokenAcquirers
    <3>4. \A u \in PoolThread : poolPc'[u] \in Pool!GtZeroWaits => poolPc[u] \in Pool!GtZeroWaits
      BY <1>0, <2>2 DEF Pool!TimeOut, Pool!SemaTypeOK, Pool!GtZeroWaits
    <3>5. poolCnt' = poolCnt /\ poolUnits' = poolUnits /\ poolGtZero' \subseteq poolGtZero
      BY <1>12, <2>2 DEF Pool!PoolCond, Pool!TimeOut
    <3> QED
      BY <3>2, <3>3, <3>4, <3>5, QuietKeepsPool
  <2> QED
    BY <1>12, <2>1, <2>2 DEF Pool!PoolCond
<1>13. ASSUME Pool!PoolNext PROVE UnitsKept'
  <2>1. PICK t \in PoolThread :
          \/ \E k \in BOOLEAN :
                \/ \E how \in Pool!GtZeroWaits : Pool!Acquire(t, how, k)
                \/ \E how \in {"decrement", IF k THEN "decrementAbstime" ELSE "decrementTimed"} :
                      Pool!WaitForAcquirers(t, how, k)
                \/ Pool!Release(t, k)
          \/ Pool!AcquireNoBlock(t) \/ Pool!ReleaseWithoutLock(t)
          \/ Pool!LockSemaOnly(t) \/ Pool!ReleaseSemaLock(t) \/ Pool!ReleaseAllAcquireLocks(t)
          \/ Pool!PoolResume(t)
          \/ Pool!PoolCond(t)
    BY <1>13 DEF Pool!PoolNext
  <2>2. ASSUME NEW k \in BOOLEAN,
               NEW how \in {"decrement", IF k THEN "decrementAbstime" ELSE "decrementTimed"}
        PROVE  how \in Pool!DecrementWaits
    BY DEF Pool!DecrementWaits
  <2> QED
    BY <2>1, <2>2, <1>3, <1>4, <1>5, <1>6, <1>7, <1>8, <1>9, <1>10, <1>11, <1>12 DEF Pool!PoolResume
<1> QED
  BY <1>1, <1>13

\* TW_SemaTwoWay, whatever mixture of its calls its threads make and wherever they time
\* out: the units they hold and the count add up to the size, a time-out takes nothing,
\* and nobody sleeps past a unit that is free.
THEOREM UnitsAlwaysKept == Spec => []PoolKept
<1>1. Init => UnitsKept
  BY PoolStarts DEF Init
<1>2. UnitsKept /\ [Next]_vars => UnitsKept'
  <2>1. [Next]_vars => Pool!PoolNext \/ poolVars' = poolVars
    BY DEF Next, Done, vars
  <2> QED
    BY <2>1, PoolStep
<1>3. UnitsKept => PoolKept
  <2>1. \A S : Pool!Cardinality(S) = Cardinality(S)
    BY DEF Pool!Cardinality, Cardinality
  <2> QED
    BY <2>1 DEF UnitsKept, UnitsStand, UnitsAddUp, NoneLost, PoolKept, Pool!PoolKept,
                Pool!UnitsConserved, Pool!NoLostRelease
<1> QED
  BY <1>1, <1>2, <1>3, PTL DEF Spec

-----------------------------------------------------------------------------
(***************************************************************************)
(* Theorems about TWDenseHash and TWSparseHash, for every number of        *)
(* threads, keys and objects.                                              *)
(*                                                                         *)
(* What a call found stays true until it acts on it, because it has the    *)
(* lock; that ties every object to one key or to one removal.  An iterator *)
(* has before it every key that it has not shown and that is still there.  *)
(***************************************************************************)

HashCall == [op : Dense!Adds \cup Dense!Removes \cup {"none", "delete"}, key : HKey \cup {0},
             dat : Data \cup {Dense!Made}, found : Object \cup {0}, v : Object \cup {0}]
HashIter == [at : HKey \cup {0, Dense!AtEnd}, due : SUBSET HKey, moved : BOOLEAN]

Calling(u) == doing[u].op \in Dense!Adds \cup Dense!Removes
Deleting(u) == doing[u].op = "delete"

HashTypeOK ==
    /\ values \in [HKey -> Object \cup {0}] /\ object \in [Object -> Data \cup {Dense!Made, Dense!Gone}]
    /\ doing \in [User -> HashCall] /\ iters \in [User -> HashIter]

\* A call that has looked its key up has the lock, and what it found is still there.
Looked ==
    \A u \in User : Calling(u) =>
        lock = u /\ doing[u].key \in HKey /\ doing[u].found = values[doing[u].key]

\* Every object is at one key or with one removal.
Placed ==
    /\ \A k \in HKey : values[k] # 0 => object[values[k]] # Dense!Gone
    /\ \A u \in User : Deleting(u) =>
          doing[u].v \in Object /\ object[doing[u].v] # Dense!Gone /\ \A k \in HKey : values[k] # doing[u].v
    /\ \A o \in Object : object[o] # Dense!Gone =>
          (\E k \in HKey : values[k] = o) \/ (\E u \in User : Deleting(u) /\ doing[u].v = o)
    /\ \A j, k \in HKey : values[j] # 0 /\ values[j] = values[k] => j = k
    /\ \A u, w \in User : Deleting(u) /\ Deleting(w) /\ doing[u].v = doing[w].v => u = w

\* The iterators that are out are counted, and what is due is behind them in the table.
Iterating ==
    /\ out = Cardinality({u \in User : iters[u].at # 0})
    /\ \A u \in User : ~iters[u].moved /\ (iters[u].at = 0 => iters[u].due = {})
    /\ \A u \in User : \A k \in iters[u].due : values[k] # 0 /\ k > iters[u].at

HashKept == HashTypeOK /\ Looked /\ Placed /\ Iterating

\* The instance counts as the library does.
LEMMA HashSameCardinality == \A S : Dense!Cardinality(S) = Cardinality(S)
BY DEF Dense!Cardinality, Cardinality

\* Min() of a set of numbers is in it, and nothing in it is less.
LEMMA LeastOf ==
  ASSUME NEW S \in SUBSET Nat, S # {}
  PROVE  Dense!Min(S) \in S /\ \A m \in S : Dense!Min(S) <= m
<1> DEFINE R == OpToRel(<, Nat)
<1>1. PICK n \in S : \A m \in S : ~ (<<m, n>> \in R)
  <2>1. IsWellFoundedOn(R, Nat)
    BY NatLessThanWellFounded
  <2>2. S \subseteq Nat
    OBVIOUS
  <2> HIDE DEF R
  <2> QED
    BY <2>1, <2>2, WFMin
<1>2. \A m \in S : n <= m
  <2> SUFFICES ASSUME NEW m \in S, m < n PROVE FALSE
    OBVIOUS
  <2>1. <<m, n>> \in R
    BY DEF OpToRel
  <2> HIDE DEF R
  <2> QED
    BY <1>1, <2>1
<1> QED
  BY <1>2 DEF Dense!Min

\* An object that is allocated was not in use.
LEMMA LeastUnused ==
  ASSUME Dense!Unused # {}
  PROVE  Dense!Min(Dense!Unused) \in Object /\ object[Dense!Min(Dense!Unused)] = Dense!Gone
<1>1. Dense!Unused \in SUBSET Nat
  BY HashAssumption DEF HashAssumption, Dense!Unused
<1> QED
  BY <1>1, LeastOf DEF Dense!Unused

\* A thread has no iterator when its iterator is nowhere.
LEMMA NoIterIs ==
  ASSUME HashTypeOK, Iterating, NEW u \in User
  PROVE  iters[u] = Dense!NoIter <=> iters[u].at = 0
BY DEF HashTypeOK, Iterating, HashIter, Dense!NoIter

\* A new table is empty.
LEMMA HashInit == Dense!Init => HashKept
<1> SUFFICES ASSUME Dense!Init PROVE HashKept
  OBVIOUS
<1>1. HashTypeOK /\ Looked /\ Placed
  BY HashAssumption DEF HashAssumption, Dense!Init, HashTypeOK, Looked, Placed, HashCall, HashIter, Dense!Resting, Dense!NoIter,
    Dense!None, Dense!Made, Dense!Gone, Calling, Deleting, Dense!Adds, Dense!Removes
<1>2. {u \in User : iters[u].at # 0} = {}
  BY DEF Dense!Init, Dense!NoIter
<1>3. Iterating
  BY <1>2, FS_EmptySet DEF Dense!Init, Dense!NoIter, Iterating
<1> QED
  BY <1>1, <1>3 DEF HashKept

\* A step that leaves the table alone keeps it.
LEMMA TableAlone ==
  ASSUME HashKept, UNCHANGED <<values, object, iters, out>>, doing' \in [User -> HashCall], Looked',
         \A u \in User : Deleting(u)' = Deleting(u) /\ (Deleting(u) => doing'[u].v = doing[u].v)
  PROVE  HashKept'
<1>1. HashTypeOK'
  BY DEF HashKept, HashTypeOK
<1>2. Placed'
  BY DEF HashKept, Placed, Deleting
<1>3. Iterating'
  BY DEF HashKept, Iterating
<1> QED
  BY <1>1, <1>2, <1>3 DEF HashKept

\* Enter, whatever the data: the lock is taken and the key looked up.
EnterWith(u, op, k, d) ==
    /\ doing[u] = Dense!Resting /\ lock = Dense!Nobody
    /\ lock' = u
    /\ doing' = [doing EXCEPT ![u] = [op |-> op, key |-> k, dat |-> d,
                                      found |-> values[k], v |-> Dense!None]]
    /\ UNCHANGED <<values, object, iters, out>>

\* Calls that have not looked at the table yet, and those that change nothing.
LEMMA EnterKeepsHash ==
  ASSUME HashKept, NEW u \in User, NEW op \in Dense!Adds \cup Dense!Removes, NEW k \in HKey,
         NEW d \in Data \cup {Dense!Made}, EnterWith(u, op, k, d)
  PROVE  HashKept'
<1> DEFINE r == [op |-> op, key |-> k, dat |-> d, found |-> values[k], v |-> Dense!None]
<1>1. r \in HashCall /\ r.op = op /\ r.key = k /\ r.found = values[k]
  BY DEF HashCall, HashKept, HashTypeOK, Dense!None
<1>2. doing' = [doing EXCEPT ![u] = r] /\ UNCHANGED <<values, object, iters, out>> /\ lock' = u
  BY DEF EnterWith
<1>3. op # "delete" /\ doing[u].op # "delete"
  BY DEF Dense!Adds, Dense!Removes, EnterWith, Dense!Resting
<1>4. \A w \in User : ~Calling(w)
  BY HashAssumption DEF HashAssumption, HashKept, Looked, EnterWith
<1> HIDE DEF r
<1>5. doing' \in [User -> HashCall] /\ doing'[u] = r /\ \A w \in User \ {u} : doing'[w] = doing[w]
  BY <1>1, <1>2 DEF HashKept, HashTypeOK
<1>6. Looked'
  BY <1>1, <1>2, <1>4, <1>5 DEF Looked, Calling
<1>7. \A w \in User : Deleting(w)' = Deleting(w) /\ (Deleting(w) => doing'[w].v = doing[w].v)
  BY <1>1, <1>3, <1>5 DEF Deleting
<1> QED
  BY <1>2, <1>5, <1>6, <1>7, TableAlone

\* The end of a call, of one that has the lock: nobody is in a call any more.
LEMMA Left ==
  ASSUME HashKept, NEW u \in User, Calling(u), Dense!Leave(u)
  PROVE  /\ doing' \in [User -> HashCall] /\ \A w \in User : ~Calling(w)'
         /\ \A w \in User : Deleting(w)' = Deleting(w) /\ (Deleting(w) => doing'[w].v = doing[w].v)
<1>1. Dense!Resting \in HashCall /\ Dense!Resting.op = "none"
  BY DEF Dense!Resting, HashCall, Dense!None
<1>2. doing' = [doing EXCEPT ![u] = Dense!Resting]
  BY DEF Dense!Leave
<1>3. \A w \in User \ {u} : ~Calling(w)
  BY DEF HashKept, Looked
<1>4. ~Deleting(u)
  BY DEF Calling, Deleting, Dense!Adds, Dense!Removes
<1>5. doing' \in [User -> HashCall] /\ doing'[u] = Dense!Resting /\ \A w \in User \ {u} : doing'[w] = doing[w]
  BY <1>1, <1>2 DEF HashKept, HashTypeOK
<1> QED
  BY <1>1, <1>3, <1>4, <1>5 DEF Calling, Deleting, Dense!Adds, Dense!Removes

\* A call with nothing to do.
LEMMA NothingKeepsHash ==
  ASSUME HashKept, NEW u \in User, Dense!NothingToDo(u)
  PROVE  HashKept'
<1>1. Calling(u) /\ Dense!Leave(u) /\ UNCHANGED <<values, object, iters, out>>
  BY DEF Dense!NothingToDo, Calling, Dense!Adds, Dense!Removes
<1>2. Looked'
  BY <1>1, Left DEF Looked
<1> QED
  BY <1>1, <1>2, Left, TableAlone

\* An unused object m becomes the data of k, and what k had is deleted.
LEMMA StoreKeepsHash ==
  ASSUME HashKept, NEW k \in HKey, NEW m \in Object, object[m] = Dense!Gone, NEW d \in Data \cup {Dense!Made},
         values' = [values EXCEPT ![k] = m],
         object' = [o \in Object |-> IF o = m THEN d ELSE IF o = values[k] THEN Dense!Gone ELSE object[o]],
         UNCHANGED <<iters, out>>,
         doing' \in [User -> HashCall], \A w \in User : ~Calling(w)',
         \A w \in User : Deleting(w)' = Deleting(w) /\ (Deleting(w) => doing'[w].v = doing[w].v)
  PROVE  HashKept'
<1>1. d # Dense!Gone /\ m # 0
  BY HashAssumption DEF HashAssumption, Dense!Made, Dense!Gone
<1>2. HashTypeOK'
  BY DEF HashKept, HashTypeOK
<1>3. Looked'
  BY DEF Looked
<1>4. values'[k] = m /\ \A j \in HKey \ {k} : values'[j] = values[j] /\ values[j] # m
  BY <1>1 DEF HashKept, HashTypeOK, Placed
<1>5. object'[m] = d /\ \A o \in Object \ {m} : object'[o] = IF o = values[k] THEN Dense!Gone ELSE object[o]
  OBVIOUS
<1>6. \A j \in HKey : values'[j] # 0 => object'[values'[j]] # Dense!Gone
  BY <1>1, <1>4, <1>5 DEF HashKept, HashTypeOK, Placed
<1>7. \A u \in User : Deleting(u)' => doing'[u].v \in Object /\ object'[doing'[u].v] # Dense!Gone
                                      /\ \A j \in HKey : values'[j] # doing'[u].v
  BY <1>1, <1>4, <1>5 DEF HashKept, Placed
<1>8. \A o \in Object : object'[o] # Dense!Gone =>
          (\E j \in HKey : values'[j] = o) \/ (\E u \in User : Deleting(u)' /\ doing'[u].v = o)
  BY <1>4, <1>5 DEF HashKept, Placed
<1>9. \A i, j \in HKey : values'[i] # 0 /\ values'[i] = values'[j] => i = j
  BY <1>1, <1>4 DEF HashKept, Placed
<1>10. \A u, w \in User : Deleting(u)' /\ Deleting(w)' /\ doing'[u].v = doing'[w].v => u = w
  BY DEF HashKept, Placed
<1>11. Placed'
  BY <1>6, <1>7, <1>8, <1>9, <1>10 DEF Placed
<1>12. Iterating'
  BY <1>1, <1>4 DEF HashKept, HashTypeOK, HashIter, Iterating
<1> QED
  BY <1>2, <1>3, <1>11, <1>12 DEF HashKept

\* The adds.
LEMMA AddsKeepHash ==
  ASSUME HashKept, NEW u \in User, Dense!AddNew(u) \/ Dense!AddOver(u)
  PROVE  HashKept'
<1> DEFINE m == Dense!Min(Dense!Unused)
           k == doing[u].key
           d == doing[u].dat
<1>1. /\ Calling(u) /\ Dense!Leave(u) /\ UNCHANGED <<iters, out>> /\ values' = [values EXCEPT ![k] = m]
      /\ Dense!Unused # {}
  BY DEF Dense!AddNew, Dense!AddOver, Calling, Dense!Adds
<1>2. k \in HKey /\ doing[u].found = values[k] /\ d \in Data \cup {Dense!Made}
  BY <1>1 DEF HashKept, HashTypeOK, HashCall, Looked
<1>3. m \in Object /\ object[m] = Dense!Gone
  BY <1>1, LeastUnused
<1>4. object' = [o \in Object |-> IF o = m THEN d ELSE IF o = values[k] THEN Dense!Gone ELSE object[o]]
  <2>1. CASE Dense!AddNew(u)
    <3>1. values[k] \notin Object
      BY <1>2, <2>1, HashAssumption DEF HashAssumption, Dense!AddNew, Dense!None
    <3>2. object' = [object EXCEPT ![m] = d] /\ object \in [Object -> Data \cup {Dense!Made, Dense!Gone}]
      BY <2>1 DEF Dense!AddNew, HashKept, HashTypeOK
    <3> HIDE DEF m, k, d
    <3> QED
      BY <3>1, <3>2
  <2>2. CASE Dense!AddOver(u)
    BY <1>2, <2>2 DEF Dense!AddOver, Dense!Replace
  <2> QED
    BY <2>1, <2>2
<1> HIDE DEF m, k, d
<1> QED
  BY <1>1, <1>2, <1>3, <1>4, Left, StoreKeepsHash

\* setData(), where nobody is in a call.
LEMMA SetDataKeepsHash ==
  ASSUME HashKept, NEW u \in User, NEW d \in Data, Dense!SetData(u, d)
  PROVE  HashKept'
<1> DEFINE m == Dense!Min(Dense!Unused)
           k == iters[u].at
<1>1. /\ UNCHANGED <<lock, doing, iters, out>> /\ values' = [values EXCEPT ![k] = m] /\ lock = Dense!Nobody
      /\ Dense!Unused # {} /\ iters[u] # Dense!NoIter /\ k # Dense!AtEnd
  BY DEF Dense!SetData
<1>2. k \in HKey
  BY <1>1, NoIterIs DEF HashKept, HashTypeOK, HashIter
<1>3. m \in Object /\ object[m] = Dense!Gone
  BY <1>1, LeastUnused
<1>4. object' = [o \in Object |-> IF o = m THEN d ELSE IF o = values[k] THEN Dense!Gone ELSE object[o]]
  BY DEF Dense!SetData, Dense!Replace
<1>5. \A w \in User : ~Calling(w)'
  BY <1>1, HashAssumption DEF HashAssumption, HashKept, Looked, Calling
<1>6. /\ doing' \in [User -> HashCall]
      /\ \A w \in User : Deleting(w)' = Deleting(w) /\ (Deleting(w) => doing'[w].v = doing[w].v)
  BY <1>1 DEF HashKept, HashTypeOK, Deleting
<1> HIDE DEF m, k
<1> QED
  BY <1>1, <1>2, <1>3, <1>4, <1>5, <1>6, StoreKeepsHash

\* When no iterator is out, rebuilding the table moves none; an erased key is due to none.
LEMMA ErasedIters ==
  ASSUME HashKept, NEW u \in User, Calling(u), Dense!Erase(u)
  PROVE  iters' = [w \in User |-> [iters[w] EXCEPT !.due = @ \ {doing[u].key}]]
<1> DEFINE it == [w \in User |-> [iters[w] EXCEPT !.due = @ \ {doing[u].key}]]
<1>1. iters' = it \/ (out = 0 /\ iters' = Dense!Rebuilt(it))
  BY DEF Dense!Erase, Dense!Without, Dense!Compact
<1>2. ASSUME out = 0 PROVE Dense!Rebuilt(it) = it
  <2>1. {w \in User : iters[w].at # 0} = {}
    <3>1. IsFiniteSet({w \in User : iters[w].at # 0})
      BY HashAssumption, FS_Subset DEF HashAssumption
    <3> QED
      BY <1>2, <3>1, FS_EmptySet DEF HashKept, Iterating
  <2>2. ASSUME NEW w \in User PROVE it[w] = Dense!NoIter
    <3>1. iters[w].at = 0
      BY <2>1
    <3>2. iters[w] \in HashIter /\ iters[w].due = {} /\ iters[w].moved = FALSE
      BY <3>1 DEF HashKept, Iterating, HashTypeOK, HashIter
    <3> QED
      BY <3>1, <3>2 DEF HashIter, Dense!NoIter
  <2> QED
    BY <2>2 DEF Dense!Rebuilt
<1> QED
  BY <1>1, <1>2

\* A removal takes the pair out, and the object goes from the key to the removal.
LEMMA EraseKeepsHash ==
  ASSUME HashKept, NEW u \in User, Dense!Erase(u)
  PROVE  HashKept'
<1> DEFINE k == doing[u].key
           r == [Dense!Resting EXCEPT !.op = "delete", !.v = doing[u].found]
<1>1. /\ Calling(u) /\ values' = [values EXCEPT ![k] = 0] /\ doing' = [doing EXCEPT ![u] = r]
      /\ UNCHANGED <<object, out>> /\ doing[u].found # 0
  BY DEF Dense!Erase, Calling, Dense!None
<1>2. k \in HKey /\ doing[u].found = values[k] /\ values[k] \in Object /\ doing[u].found \in Object
  BY <1>1 DEF HashKept, HashTypeOK, HashCall, Looked
<1>3. r \in HashCall /\ r.op = "delete" /\ r.v = values[k]
  BY <1>2 DEF HashCall, Dense!Resting, Dense!None
<1>4. iters' = [w \in User |-> [iters[w] EXCEPT !.due = @ \ {k}]]
  BY <1>1, ErasedIters
<1>5. ~Deleting(u) /\ \A w \in User \ {u} : ~Calling(w)
  BY <1>1 DEF HashKept, Looked, Calling, Deleting, Dense!Adds, Dense!Removes
<1> HIDE DEF k, r
<1>6. doing' \in [User -> HashCall] /\ doing'[u] = r /\ \A w \in User \ {u} : doing'[w] = doing[w]
  BY <1>1, <1>3 DEF HashKept, HashTypeOK
<1>7. values' \in [HKey -> Object \cup {0}] /\ values'[k] = 0 /\ \A j \in HKey \ {k} : values'[j] = values[j]
  BY <1>1, <1>2 DEF HashKept, HashTypeOK
<1>8. \A w \in User : /\ iters'[w] \in HashIter /\ iters'[w].at = iters[w].at
                      /\ iters'[w].moved = iters[w].moved /\ iters'[w].due = iters[w].due \ {k}
  BY <1>4 DEF HashKept, HashTypeOK, HashIter
<1>9. HashTypeOK'
  BY <1>1, <1>4, <1>6, <1>7, <1>8 DEF HashKept, HashTypeOK
<1>10. Looked'
  BY <1>3, <1>5, <1>6 DEF Looked, Calling, Dense!Adds, Dense!Removes
<1>11. Deleting(u)' /\ \A w \in User \ {u} : Deleting(w)' = Deleting(w) /\ doing'[w].v = doing[w].v
  BY <1>3, <1>6 DEF Deleting
<1>12. Placed'
  <2>1. \A j \in HKey : values'[j] # 0 => object'[values'[j]] # Dense!Gone
    BY <1>1, <1>7 DEF HashKept, Placed
  <2>2. \A w \in User : Deleting(w)' => doing'[w].v \in Object /\ object'[doing'[w].v] # Dense!Gone
                                        /\ \A j \in HKey : values'[j] # doing'[w].v
    <3>1. \A j \in HKey : values'[j] # values[k]
      BY <1>1, <1>2, <1>7 DEF HashKept, Placed
    <3>2. 0 \notin Object
      BY HashAssumption DEF HashAssumption
    <3> QED
      BY <1>1, <1>2, <1>3, <1>6, <1>7, <1>11, <3>1, <3>2 DEF HashKept, Placed
  <2>3. \A o \in Object : object'[o] # Dense!Gone =>
            (\E j \in HKey : values'[j] = o) \/ (\E w \in User : Deleting(w)' /\ doing'[w].v = o)
    BY <1>1, <1>3, <1>5, <1>6, <1>7, <1>11 DEF HashKept, Placed
  <2>4. \A i, j \in HKey : values'[i] # 0 /\ values'[i] = values'[j] => i = j
    BY <1>7 DEF HashKept, Placed
  <2>5. \A w, x \in User : Deleting(w)' /\ Deleting(x)' /\ doing'[w].v = doing'[x].v => w = x
    BY <1>2, <1>3, <1>6, <1>11 DEF HashKept, Placed
  <2> QED
    BY <2>1, <2>2, <2>3, <2>4, <2>5 DEF Placed
<1>13. Iterating'
  <2>1. {w \in User : iters'[w].at # 0} = {w \in User : iters[w].at # 0}
    BY <1>8
  <2>2. out' = Cardinality({w \in User : iters'[w].at # 0})
    BY <1>1, <2>1 DEF HashKept, Iterating
  <2>3. \A w \in User : ~iters'[w].moved /\ (iters'[w].at = 0 => iters'[w].due = {})
    BY <1>8 DEF HashKept, Iterating
  <2>4. \A w \in User : \A j \in iters'[w].due : values'[j] # 0 /\ j > iters'[w].at
    <3> SUFFICES ASSUME NEW w \in User, NEW j \in iters'[w].due PROVE values'[j] # 0 /\ j > iters'[w].at
      OBVIOUS
    <3>1. j \in iters[w].due /\ j # k /\ j \in HKey
      BY <1>8 DEF HashKept, HashTypeOK, HashIter
    <3>2. values[j] # 0 /\ j > iters[w].at
      BY <3>1 DEF HashKept, Iterating
    <3> QED
      BY <1>7, <1>8, <3>1, <3>2
  <2> QED
    BY <2>2, <2>3, <2>4 DEF Iterating
<1> QED
  BY <1>9, <1>10, <1>12, <1>13 DEF HashKept

\* The end of a removal, outside the lock: the object was nobody else's.
LEMMA DeleteKeepsHash ==
  ASSUME HashKept, NEW u \in User, Dense!Delete(u)
  PROVE  HashKept'
<1> DEFINE v == doing[u].v
<1>1. /\ Deleting(u) /\ object' = [object EXCEPT ![v] = Dense!Gone]
      /\ doing' = [doing EXCEPT ![u] = Dense!Resting] /\ UNCHANGED <<lock, values, iters, out>>
  BY DEF Dense!Delete, Deleting
<1>2. Dense!Resting \in HashCall /\ Dense!Resting.op = "none"
  BY DEF Dense!Resting, HashCall, Dense!None
<1>3. v \in Object /\ \A k \in HKey : values[k] # v
  BY <1>1 DEF HashKept, Placed
<1> HIDE DEF v
<1>4. doing' \in [User -> HashCall] /\ doing'[u] = Dense!Resting /\ \A w \in User \ {u} : doing'[w] = doing[w]
  BY <1>1, <1>2 DEF HashKept, HashTypeOK
<1>5. object'[v] = Dense!Gone /\ \A o \in Object \ {v} : object'[o] = object[o]
  BY <1>1, <1>3 DEF HashKept, HashTypeOK
<1>6. HashTypeOK'
  BY <1>1, <1>4 DEF HashKept, HashTypeOK
<1>7. Looked'
  BY <1>1, <1>2, <1>4 DEF HashKept, Looked, Calling, Dense!Adds, Dense!Removes
<1>8. ~Deleting(u)' /\ \A w \in User \ {u} : Deleting(w)' = Deleting(w) /\ doing'[w].v = doing[w].v
  BY <1>2, <1>4 DEF Deleting
<1>9. \A w \in User \ {u} : Deleting(w) => doing[w].v # v
  BY <1>1 DEF HashKept, Placed, v
<1>10. Placed'
  <2>1. \A j \in HKey : values'[j] # 0 => object'[values'[j]] # Dense!Gone
    BY <1>1, <1>3, <1>5 DEF HashKept, HashTypeOK, Placed
  <2>2. \A w \in User : Deleting(w)' => doing'[w].v \in Object /\ object'[doing'[w].v] # Dense!Gone
                                        /\ \A j \in HKey : values'[j] # doing'[w].v
    BY <1>1, <1>5, <1>8, <1>9 DEF HashKept, Placed
  <2>3. \A o \in Object : object'[o] # Dense!Gone =>
            (\E j \in HKey : values'[j] = o) \/ (\E w \in User : Deleting(w)' /\ doing'[w].v = o)
    BY <1>1, <1>5, <1>8 DEF HashKept, Placed, v
  <2>4. \A i, j \in HKey : values'[i] # 0 /\ values'[i] = values'[j] => i = j
    BY <1>1 DEF HashKept, Placed
  <2>5. \A w, x \in User : Deleting(w)' /\ Deleting(x)' /\ doing'[w].v = doing'[x].v => w = x
    BY <1>8 DEF HashKept, Placed
  <2> QED
    BY <2>1, <2>2, <2>3, <2>4, <2>5 DEF Placed
<1>11. Iterating'
  BY <1>1 DEF HashKept, Iterating
<1> QED
  BY <1>6, <1>7, <1>10, <1>11 DEF HashKept

\* removeAll(): every stored object goes; those of removals that are under way stay.
LEMMA RemoveAllKeepsHash ==
  ASSUME HashKept, NEW u \in User, Dense!RemoveAll(u)
  PROVE  HashKept'
<1>1. /\ values' = [k \in HKey |-> 0] /\ lock = Dense!Nobody /\ out = 0
      /\ object' = [o \in Object |-> IF \E k \in HKey : values[k] = o THEN Dense!Gone ELSE object[o]]
      /\ UNCHANGED <<lock, doing, iters, out>>
  BY DEF Dense!RemoveAll, Dense!None
<1>2. HashTypeOK'
  BY <1>1 DEF HashKept, HashTypeOK
<1>3. Looked'
  BY <1>1, HashAssumption DEF HashAssumption, HashKept, Looked, Calling
<1>4. Placed'
  <2>1. 0 \notin Object
    BY HashAssumption DEF HashAssumption
  <2> QED
    BY <1>1, <2>1 DEF HashKept, Placed, Deleting
<1>5. Iterating'
  <2>1. {w \in User : iters[w].at # 0} = {}
    <3>1. IsFiniteSet({w \in User : iters[w].at # 0})
      BY HashAssumption, FS_Subset DEF HashAssumption
    <3> QED
      BY <1>1, <3>1, FS_EmptySet DEF HashKept, Iterating
  <2> QED
    BY <1>1, <2>1 DEF HashKept, Iterating
<1> QED
  BY <1>2, <1>3, <1>4, <1>5 DEF HashKept

\* From(k) is the first stored key at or behind k, or the end.
LEMMA FromIs ==
  ASSUME HashTypeOK, NEW k \in Nat
  PROVE  /\ Dense!From(k) \in HKey \cup {Dense!AtEnd}
         /\ \A j \in HKey : values[j] # 0 /\ j >= k => Dense!From(k) <= j
<1> DEFINE S == {j \in Dense!Stored : j >= k}
<1>1. S \subseteq HKey /\ HKey \subseteq Nat
  BY HashAssumption DEF HashAssumption, Dense!Stored, Dense!AtEnd
<1>2. CASE S = {}
  BY <1>2 DEF Dense!From, Dense!Stored, Dense!None
<1>3. CASE S # {}
  <2>1. Dense!Min(S) \in S /\ \A j \in S : Dense!Min(S) <= j
    BY <1>1, <1>3, LeastOf
  <2>2. Dense!From(k) = Dense!Min(S)
    BY <1>3 DEF Dense!From
  <2> QED
    BY <1>1, <2>1, <2>2 DEF Dense!Stored, Dense!None
<1> QED
  BY <1>2, <1>3

\* The iterator of u becomes r.
LEMMA IterMoves ==
  ASSUME HashKept, NEW u \in User, NEW r \in HashIter, ~r.moved, r.at = 0 => r.due = {},
         \A k \in r.due : values[k] # 0 /\ k > r.at, UNCHANGED <<lock, values, object, doing>>,
         iters' = [iters EXCEPT ![u] = r],
         out' = IF r.at = 0 THEN (IF iters[u].at = 0 THEN out ELSE out - 1)
                            ELSE (IF iters[u].at = 0 THEN out + 1 ELSE out)
  PROVE  HashKept'
<1>1. iters' \in [User -> HashIter] /\ iters'[u] = r /\ \A w \in User \ {u} : iters'[w] = iters[w]
  BY DEF HashKept, HashTypeOK
<1>2. HashTypeOK' /\ Looked' /\ Placed'
  BY <1>1 DEF HashKept, HashTypeOK, Looked, Placed, Calling, Deleting
<1>3. out' = Cardinality({w \in User : iters'[w].at # 0})
  <2> DEFINE S == {w \in User : iters[w].at # 0}
             T == {w \in User : iters'[w].at # 0}
  <2>1. IsFiniteSet(S) /\ out = Cardinality(S)
    BY HashAssumption, FS_Subset DEF HashAssumption, HashKept, Iterating
  <2>2. T = IF r.at = 0 THEN S \ {u} ELSE S \cup {u}
    BY <1>1
  <2>3. u \in S <=> iters[u].at # 0
    OBVIOUS
  <2> HIDE DEF S, T
  <2>4. Cardinality(T) = IF r.at = 0 THEN (IF u \in S THEN Cardinality(S) - 1 ELSE Cardinality(S))
                         ELSE (IF u \in S THEN Cardinality(S) ELSE Cardinality(S) + 1)
    BY <2>1, <2>2, FS_AddElement, FS_RemoveElement
  <2>5. out' = Cardinality(T)
    BY <2>1, <2>3, <2>4
  <2> QED
    BY <2>5 DEF T
<1>4. Iterating'
  <2>1. \A w \in User : ~iters'[w].moved /\ (iters'[w].at = 0 => iters'[w].due = {})
    BY <1>1 DEF HashKept, Iterating
  <2>2. \A w \in User : \A k \in iters'[w].due : values'[k] # 0 /\ k > iters'[w].at
    BY <1>1 DEF HashKept, Iterating
  <2> QED
    BY <1>3, <2>1, <2>2 DEF Iterating
<1> QED
  BY <1>2, <1>4 DEF HashKept

\* The iterator's calls.
LEMMA ItersKeepHash ==
  ASSUME HashKept, NEW u \in User, Dense!GotoStart(u) \/ Dense!GetNext(u) \/ Dense!ReleaseIter(u)
  PROVE  HashKept'
<1>0. HKey \subseteq Nat \ {0} /\ \A k \in HKey : k < Dense!AtEnd
  BY HashAssumption DEF HashAssumption, Dense!AtEnd
<1>1. CASE Dense!GotoStart(u)
  <2> DEFINE f == Dense!From(1)
             r == [at |-> f, due |-> Dense!Stored \ {f}, moved |-> FALSE]
  <2>1. f \in HKey \cup {Dense!AtEnd} /\ \A j \in HKey : values[j] # 0 /\ j >= 1 => f <= j
    BY FromIs DEF HashKept
  <2>2. iters' = [iters EXCEPT ![u] = r] /\ out' = out + 1 /\ UNCHANGED <<lock, values, object, doing>>
    BY <1>1 DEF Dense!GotoStart
  <2>3. iters[u].at = 0
    BY <1>1 DEF Dense!GotoStart, Dense!NoIter
  <2> HIDE DEF f
  <2>4. r \in HashIter /\ ~r.moved /\ r.at # 0 /\ r.due = Dense!Stored \ {f} /\ r.at = f
    BY <1>0, <2>1 DEF HashIter, Dense!Stored, Dense!AtEnd
  <2> HIDE DEF r
  <2>5. \A k \in r.due : values[k] # 0 /\ k > r.at
    <3> SUFFICES ASSUME NEW k \in r.due PROVE values[k] # 0 /\ k > f
      BY <2>4
    <3>1. k \in HKey /\ values[k] # 0 /\ k # f
      BY <2>4 DEF Dense!Stored, Dense!None
    <3>2. k \in Nat /\ k >= 1 /\ f \in Nat
      BY <1>0, <2>1, <3>1 DEF Dense!AtEnd
    <3> QED
      BY <2>1, <3>1, <3>2
  <2> QED
    BY <2>2, <2>3, <2>4, <2>5, IterMoves
<1>2. CASE Dense!GetNext(u)
  <2> DEFINE f == Dense!From(iters[u].at + 1)
             r == [iters[u] EXCEPT !.at = f, !.due = @ \ {f}]
  <2>1. iters[u].at \in HKey
    BY <1>2, NoIterIs DEF Dense!GetNext, HashKept, HashTypeOK, HashIter
  <2>2. f \in HKey \cup {Dense!AtEnd} /\ \A j \in HKey : values[j] # 0 /\ j >= iters[u].at + 1 => f <= j
    <3>1. iters[u].at + 1 \in Nat
      BY <1>0, <2>1
    <3> QED
      BY <3>1, FromIs DEF HashKept
  <2>3. iters' = [iters EXCEPT ![u] = r] /\ UNCHANGED <<lock, values, object, doing, out>>
    BY <1>2 DEF Dense!GetNext, HashKept, HashTypeOK, HashIter
  <2> HIDE DEF f
  <2>4. iters[u] \in HashIter /\ ~iters[u].moved
    BY DEF HashKept, HashTypeOK, Iterating
  <2>5. r \in HashIter /\ ~r.moved /\ r.due = iters[u].due \ {f} /\ r.at = f
    BY <2>2, <2>4 DEF HashIter
  <2>6. f # 0
    BY <1>0, <2>2 DEF Dense!AtEnd
  <2> HIDE DEF r
  <2>7. \A k \in r.due : values[k] # 0 /\ k > r.at
    <3> SUFFICES ASSUME NEW k \in r.due PROVE values[k] # 0 /\ k > f
      BY <2>5
    <3>1. k \in iters[u].due /\ k # f /\ k \in HKey
      BY <2>4, <2>5 DEF HashIter
    <3>2. values[k] # 0 /\ k > iters[u].at
      BY <3>1 DEF HashKept, Iterating
    <3>3. k \in Nat /\ iters[u].at \in Nat /\ f \in Nat
      <4>1. \A j \in HKey : j \in Nat
        BY <1>0
      <4>2. Dense!AtEnd \in Nat
        BY DEF Dense!AtEnd
      <4> QED
        BY <2>1, <2>2, <3>1, <4>1, <4>2
    <3>4. f <= k
      <4>1. k >= iters[u].at + 1
        BY <3>2, <3>3
      <4> QED
        BY <2>2, <3>1, <3>2, <4>1
    <3> QED
      BY <3>1, <3>2, <3>3, <3>4
  <2> QED
    BY <1>0, <2>1, <2>3, <2>5, <2>6, <2>7, IterMoves
<1>3. CASE Dense!ReleaseIter(u)
  <2>1. Dense!NoIter \in HashIter /\ ~Dense!NoIter.moved /\ Dense!NoIter.at = 0 /\ Dense!NoIter.due = {}
    BY DEF Dense!NoIter, HashIter
  <2>2. iters[u].at # 0
    BY <1>3, NoIterIs DEF Dense!ReleaseIter, HashKept
  <2>3. out > 0
    <3> DEFINE S == {w \in User : iters[w].at # 0}
    <3>1. IsFiniteSet(S) /\ out = Cardinality(S) /\ S # {}
      BY <2>2, HashAssumption, FS_Subset DEF HashAssumption, HashKept, Iterating
    <3> HIDE DEF S
    <3> QED
      BY <3>1, FS_EmptySet, FS_CardinalityType
  <2>4. iters' = [iters EXCEPT ![u] = Dense!NoIter] /\ UNCHANGED <<lock, values, object, doing>> /\ out' = out - 1
    BY <1>3, <2>3 DEF Dense!ReleaseIter
  <2> QED
    BY <2>1, <2>2, <2>4, IterMoves
<1> QED
  BY <1>1, <1>2, <1>3

\* A step of either table: what they offer differs, and the data that an add stores.
HashStep(u) ==
    \/ \E op \in Dense!Adds \cup Dense!Removes, k \in HKey, d \in Data \cup {Dense!Made} : EnterWith(u, op, k, d)
    \/ Dense!Finish(u) \/ Dense!RemoveAll(u)
    \/ Dense!GotoStart(u) \/ Dense!GetNext(u) \/ Dense!ReleaseIter(u)
    \/ \E d \in Data : Dense!SetData(u, d)

\* What either table does is such a step.
LEMMA DenseIsHash == Dense!Next => \E u \in User : HashStep(u)
<1> SUFFICES ASSUME Dense!Next PROVE \E u \in User : HashStep(u)
  OBVIOUS
<1>1. ASSUME NEW u \in User, NEW op, NEW k \in HKey, NEW d \in Data \cup {Dense!Made}, Dense!Enter(u, op, k, d)
      PROVE  \E e \in Data \cup {Dense!Made} : EnterWith(u, op, k, e)
  <2>1. EnterWith(u, op, k, Dense!DataOf(op, d))
    BY <1>1 DEF Dense!Enter, EnterWith
  <2> QED
    BY <2>1 DEF Dense!DataOf
<1> QED
  BY <1>1 DEF Dense!Next, HashStep, Dense!Offered

\* ... of the sparse one as well.
LEMMA SparseIsHash == SparseHash!Next => \E u \in User : HashStep(u)
<1> SUFFICES ASSUME SparseHash!Next PROVE \E u \in User : HashStep(u)
  OBVIOUS
<1>1. ASSUME NEW u \in User, NEW op, NEW k \in HKey, NEW d \in Data \cup {Dense!Made}, SparseHash!Enter(u, op, k, d)
      PROVE  \E e \in Data \cup {Dense!Made} : EnterWith(u, op, k, e)
  <2>1. EnterWith(u, op, k, SparseHash!DataOf(op, d))
    BY <1>1 DEF SparseHash!Enter, EnterWith, SparseHash!Resting, Dense!Resting, SparseHash!Nobody, Dense!Nobody,
      SparseHash!None, Dense!None, SparseHash!Made, Dense!Made
  <2> QED
    BY <2>1 DEF SparseHash!DataOf, SparseHash!Made, Dense!Made
<1>2. SparseHash!Adds = Dense!Adds /\ SparseHash!Removes = Dense!Removes /\ SparseHash!Made = Dense!Made
  BY DEF SparseHash!Adds, Dense!Adds, SparseHash!Removes, Dense!Removes, SparseHash!Made, Dense!Made
<1>3. \A S : SparseHash!Min(S) = Dense!Min(S)
  BY DEF SparseHash!Min, Dense!Min
<1>4. ASSUME NEW u \in User, SparseHash!Finish(u) PROVE Dense!Finish(u)
  BY <1>4 DEF SparseHash!Finish, Dense!Finish, SparseHash!AddNew, Dense!AddNew, SparseHash!AddOver, Dense!AddOver, SparseHash!NothingToDo, Dense!NothingToDo, SparseHash!Erase, Dense!Erase, SparseHash!Delete, Dense!Delete, SparseHash!Adds, Dense!Adds, SparseHash!Removes, Dense!Removes, SparseHash!Unused, Dense!Unused, SparseHash!Min, Dense!Min, SparseHash!None, Dense!None, SparseHash!Gone, Dense!Gone, SparseHash!Leave, Dense!Leave, SparseHash!Nobody, Dense!Nobody, SparseHash!Resting, Dense!Resting, SparseHash!Made, Dense!Made, SparseHash!Replace, Dense!Replace, SparseHash!Compact, Dense!Compact, SparseHash!Rebuilt, Dense!Rebuilt, SparseHash!Without, Dense!Without, SparseHash!NoIter, Dense!NoIter
<1>5. ASSUME NEW u \in User, SparseHash!RemoveAll(u) PROVE Dense!RemoveAll(u)
  BY <1>5 DEF SparseHash!RemoveAll, Dense!RemoveAll, SparseHash!Resting, Dense!Resting, SparseHash!None, Dense!None, SparseHash!Made, Dense!Made, SparseHash!Nobody, Dense!Nobody, SparseHash!Gone, Dense!Gone
<1>6. ASSUME NEW u \in User, SparseHash!GotoStart(u) \/ SparseHash!GetNext(u) \/ SparseHash!ReleaseIter(u)
      PROVE  Dense!GotoStart(u) \/ Dense!GetNext(u) \/ Dense!ReleaseIter(u)
  BY <1>6 DEF SparseHash!GotoStart, Dense!GotoStart, SparseHash!GetNext, Dense!GetNext, SparseHash!ReleaseIter, Dense!ReleaseIter, SparseHash!Resting, Dense!Resting, SparseHash!None, Dense!None, SparseHash!Made, Dense!Made, SparseHash!Nobody, Dense!Nobody, SparseHash!NoIter, Dense!NoIter, SparseHash!Adds, Dense!Adds, SparseHash!From, Dense!From, SparseHash!Stored, Dense!Stored, SparseHash!AtEnd, Dense!AtEnd, SparseHash!Min, Dense!Min
<1>7. ASSUME NEW u \in User, NEW d \in Data PROVE ~SparseHash!SetData(u, d)
  BY DEF SparseHash!SetData
<1> QED
  BY <1>1, <1>2, <1>4, <1>5, <1>6, <1>7 DEF SparseHash!Next, HashStep, SparseHash!Offered

\* Every step of either table.
LEMMA HashStepKeeps == HashKept /\ (Dense!Next \/ SparseHash!Next \/ UNCHANGED hashVars) => HashKept'
<1> SUFFICES ASSUME HashKept, Dense!Next \/ SparseHash!Next \/ UNCHANGED hashVars PROVE HashKept'
  OBVIOUS
<1>1. CASE UNCHANGED hashVars
  BY <1>1 DEF hashVars, HashKept, HashTypeOK, Looked, Placed, Iterating, Calling, Deleting
<1>2. ASSUME NEW u \in User, HashStep(u) PROVE HashKept'
  <2>1. Dense!Finish(u) => HashKept'
    BY AddsKeepHash, NothingKeepsHash, EraseKeepsHash, DeleteKeepsHash DEF Dense!Finish
  <2> QED
    BY <1>2, <2>1, EnterKeepsHash, RemoveAllKeepsHash, NothingKeepsHash, ItersKeepHash, SetDataKeepsHash
    DEF HashStep
<1> QED
  BY <1>1, <1>2, DenseIsHash, SparseIsHash

\* The invariant says what the two properties do.
LEMMA HashImplies == HashKept => DataAccounted /\ IteratorsStand
<1> SUFFICES ASSUME HashKept PROVE DataAccounted /\ IteratorsStand
  OBVIOUS
<1>1. DataAccounted
  <2> DEFINE erased == {doing[u].v : u \in {w \in User : doing[w].op = "delete"}}
             stored == {values[k] : k \in Dense!Stored}
  <2>1. \A o : o \in erased <=> \E u \in User : Deleting(u) /\ doing[u].v = o
    BY DEF Deleting
  <2>2. \A o : o \in stored <=> o # 0 /\ \E k \in HKey : values[k] = o
    BY DEF Dense!Stored, Dense!None
  <2>3. 0 \notin Object /\ \A k \in HKey : values[k] \in Object \cup {0}
    BY HashAssumption DEF HashAssumption, HashKept, HashTypeOK
  <2> HIDE DEF erased, stored
  <2>4. {o \in Object : object[o] # Dense!Gone} = stored \cup erased
    <3>1. ASSUME NEW o \in Object, object[o] # Dense!Gone PROVE o \in stored \cup erased
      BY <2>1, <2>2, <2>3, <3>1 DEF HashKept, Placed
    <3>2. ASSUME NEW o \in stored PROVE o \in Object /\ object[o] # Dense!Gone
      BY <2>2, <2>3 DEF HashKept, Placed
    <3>3. ASSUME NEW o \in erased PROVE o \in Object /\ object[o] # Dense!Gone
      BY <2>1 DEF HashKept, Placed
    <3> QED
      BY <3>1, <3>2, <3>3
  <2>5. erased \cap stored = {}
    BY <2>1, <2>2 DEF HashKept, Placed
  <2>6. \A j, k \in Dense!Stored : values[j] = values[k] => j = k
    BY DEF Dense!Stored, Dense!None, HashKept, Placed
  <2> QED
    BY <2>4, <2>5, <2>6 DEF DataAccounted, Dense!DataAccounted, erased, stored
<1>2. IteratorsStand
  <2>1. {u \in User : iters[u] # Dense!NoIter} = {u \in User : iters[u].at # 0}
    BY NoIterIs DEF HashKept
  <2>2. ASSUME NEW u \in User, iters[u].at = Dense!AtEnd PROVE iters[u].due = {}
    <3> SUFFICES ASSUME NEW k \in iters[u].due PROVE FALSE
      OBVIOUS
    <3>1. k \in HKey /\ k > iters[u].at
      BY DEF HashKept, HashTypeOK, HashIter, Iterating
    <3> QED
      BY <2>2, <3>1, HashAssumption DEF HashAssumption, Dense!AtEnd
  <2>3. out = Cardinality({u \in User : iters[u].at # 0}) /\ \A u \in User : ~iters[u].moved
    BY DEF HashKept, Iterating
  <2> QED
    BY <2>1, <2>2, <2>3, HashSameCardinality DEF IteratorsStand, Dense!IteratorsStand
<1> QED
  BY <1>1, <1>2

\* TWDenseHash and TWSparseHash: an object that has not been deleted is the data of one
\* key, or of one removal that is about to delete it; nothing leaks and nothing is
\* deleted twice, however the calls of the threads mix, as long as none of them calls
\* find(), which releases the mutex of whoever holds it.
THEOREM DataAlwaysAccounted == Spec => []DataAccounted
<1>1. Init => HashKept
  BY HashInit DEF Init
<1>2. HashKept /\ [Next]_vars => HashKept'
  BY HashStepKeeps DEF Next, Done, vars
<1> QED
  BY <1>1, <1>2, HashImplies, PTL DEF Spec

\* ... and no removal moves the table under an iterator, which at the end has shown
\* every key that was there from its start.
THEOREM IteratorsAlwaysStand == Spec => []IteratorsStand
<1>1. Init => HashKept
  BY HashInit DEF Init
<1>2. HashKept /\ [Next]_vars => HashKept'
  BY HashStepKeeps DEF Next, Done, vars
<1> QED
  BY <1>1, <1>2, HashImplies, PTL DEF Spec

-----------------------------------------------------------------------------
(***************************************************************************)
(* Theorem about cloneFrom() and transferFrom(), for every number of       *)
(* threads and rings.                                                      *)
(*                                                                         *)
(* Where the elements are is said without the walk from slot to slot: the  *)
(* i-th of them is i - 1 slots behind nextOut, in the direction of the     *)
(* ring.  An empty ring is as a new one is, because no ring that may be    *)
(* reversed is transferred from.                                           *)
(***************************************************************************)

RingRec == [cnt : 0..RingSize, nextIn : -1..(RingSize - 1), nextOut : Pair!Slots,
            reversed : BOOLEAN, data : [Pair!Slots -> Elem \cup {Pair!Junk}]]

\* k slots up and down from slot a.
Up(a, k) == IF a + k >= RingSize THEN a + k - RingSize ELSE a + k
Down(a, k) == IF a - k < 0 THEN a - k + RingSize ELSE a - k

\* The slot of element i.
ElemAt(x, i) == IF x.reversed THEN Down(x.nextOut, i - 1) ELSE Up(x.nextOut, i - 1)

\* Ring x holds the elements of s.
Holds(x, s) ==
    /\ x \in RingRec /\ s \in Seq(Elem) /\ Len(s) = RingSize - x.cnt
    /\ x.cnt = RingSize => x.nextIn = -1 /\ x.nextOut = 0 /\ ~x.reversed
    /\ x.cnt < RingSize => x.nextIn = ElemAt(x, RingSize - x.cnt)
    /\ \A i \in 1..(RingSize - x.cnt) : x.data[ElemAt(x, i)] = s[i]

\* What the calls that are under way on two rings have made sure of.
Copying ==
    /\ \A u \in Peer : ringCall[u].op # "none" => ringCall[u].to \in Ring /\ ringCall[u].from \in Ring
    /\ \A u \in Peer : ringCall[u].op = "transfer" => ~ring[ringCall[u].from].reversed
    /\ \A u, w \in Peer : ~(ringCall[u].op = "transfer" /\ ringCall[w].op = "clone" /\ ringCall[u].from = ringCall[w].to)

RingsKept ==
    /\ ring \in [Ring -> RingRec] /\ holds \in [Ring -> Seq(Elem)]
    /\ ringCall \in [Peer -> {Pair!NoCall} \cup [op : {"clone", "transfer"}, to : Ring, from : Ring]]
    /\ \A r \in Ring : Holds(ring[r], holds[r])
    /\ Copying

\* Steps up and down add up.
LEMMA Strides ==
  ASSUME NEW a \in 0..(RingSize - 1), NEW k \in 0..(RingSize - 1), NEW l \in 0..(RingSize - 1)
  PROVE  /\ k + l < RingSize => Up(Up(a, l), k) = Up(a, k + l) /\ Down(Down(a, l), k) = Down(a, k + l)
         /\ k <= l => Down(Up(a, l), k) = Up(a, l - k) /\ Up(Down(a, l), k) = Down(a, l - k)
<1>1. RingSize \in Nat \ {0}
  BY PairAssumption DEF PairAssumption
<1>2. a \in Int /\ k \in Int /\ l \in Int /\ 0 <= a /\ a < RingSize /\ 0 <= k /\ 0 <= l /\ l < RingSize
  BY <1>1
<1> QED
  BY <1>1, <1>2 DEF Up, Down

\* Elements that differ are in different slots, and the next slot is the next element's.
LEMMA ElemAtIs ==
  ASSUME NEW x \in RingRec, NEW i \in 1..RingSize
  PROVE  /\ ElemAt(x, i) \in Pair!Slots /\ ElemAt(x, 1) = x.nextOut
         /\ \A j \in 1..RingSize : ElemAt(x, j) = ElemAt(x, i) => j = i
         /\ ElemAt(x, i + 1) = Pair!Following(x, ElemAt(x, i))
<1>1. RingSize \in Nat \ {0} /\ x.nextOut \in 0..(RingSize - 1) /\ x.reversed \in BOOLEAN
  BY PairAssumption DEF PairAssumption, RingRec, Pair!Slots
<1> QED
  BY <1>1 DEF ElemAt, Up, Down, Pair!Slots, Pair!Following

\* Contents() walks along those slots.
LEMMA ContentsFound ==
  ASSUME NEW x \in RingRec
  PROVE  Pair!Contents(x) = [i \in 1..(RingSize - x.cnt) |-> x.data[ElemAt(x, i)]]
<1> DEFINE n == RingSize - x.cnt
           IsWalkOf(f) == f = [i \in 1..n |-> IF i = 1 THEN x.nextOut ELSE Pair!Following(x, f[i - 1])]
           g == [i \in 1..n |-> ElemAt(x, i)]
           walked == CHOOSE f : IsWalkOf(f)
<1>0. n \in 0..RingSize /\ RingSize \in Nat /\ Pair!Remain(x) = n
  BY PairAssumption DEF PairAssumption, RingRec, Pair!Remain
<1>4. Pair!Contents(x) = [i \in 1..n |-> x.data[walked[i]]]
  BY <1>0 DEF Pair!Contents, walked
<1> HIDE DEF n
<1>1. IsWalkOf(g)
  <2>1. ASSUME NEW i \in 1..n
        PROVE  g[i] = IF i = 1 THEN x.nextOut ELSE Pair!Following(x, g[i - 1])
    <3>1. CASE i = 1
      BY <1>0, <3>1, ElemAtIs
    <3>2. CASE i # 1
      <4>1. i - 1 \in 1..n /\ i - 1 \in 1..RingSize /\ (i - 1) + 1 = i
        BY <1>0, <3>2
      <4>2. ElemAt(x, (i - 1) + 1) = Pair!Following(x, ElemAt(x, i - 1))
        BY <4>1, ElemAtIs
      <4> QED
        BY <3>2, <4>1, <4>2
    <3> QED
      BY <3>1, <3>2
  <2> HIDE DEF g
  <2>2. g = [i \in 1..n |-> g[i]]
    BY DEF g
  <2> QED
    BY <2>1, <2>2
<1>2. IsWalkOf(walked)
  <2> HIDE DEF IsWalkOf, g
  <2>1. \E f : IsWalkOf(f)
    BY <1>1
  <2> QED
    BY <2>1, Zenon
<1> HIDE DEF walked
<1>3. \A i \in 1..n : walked[i] = g[i]
  <2> DEFINE P == {c \in Nat : c + 1 <= n => walked[c + 1] = g[c + 1]}
  <2>1. 0 \in P
    <3>1. CASE 1 <= n
      <4>1. walked[1] = x.nextOut
        BY <1>0, <1>2, <3>1
      <4>2. g[1] = x.nextOut
        <5> HIDE DEF g
        <5> QED
          BY <1>0, <1>1, <3>1
      <4> QED
        BY <4>1, <4>2
    <3> QED
      BY <1>0, <3>1
  <2>2. ASSUME NEW c \in P PROVE c + 1 \in P
    <3>1. CASE (c + 1) + 1 <= n
      <4>1. /\ c \in Nat /\ (c + 1) + 1 \in 1..n /\ ((c + 1) + 1) - 1 = c + 1 /\ (c + 1) + 1 # 1
            /\ walked[c + 1] = g[c + 1]
        BY <1>0, <3>1
      <4>2. walked[(c + 1) + 1] = Pair!Following(x, walked[c + 1])
        BY <1>2, <4>1
      <4>3. g[(c + 1) + 1] = Pair!Following(x, g[c + 1])
        <5> HIDE DEF g
        <5> QED
          BY <1>1, <4>1
      <4> HIDE DEF g
      <4> QED
        BY <4>1, <4>2, <4>3
    <3> QED
      BY <1>0, <3>1
  <2>3. P \in SUBSET Nat
    OBVIOUS
  <2> HIDE DEF P
  <2>4. ASSUME NEW i \in 1..n PROVE i - 1 \in P /\ i - 1 \in Nat /\ (i - 1) + 1 = i
    BY <1>0, <2>1, <2>2, <2>3, NatSetInduction
  <2>5. ASSUME NEW i \in 1..n PROVE walked[i] = g[i]
    BY <1>0, <2>4 DEF P
  <2> QED
    BY <2>5
<1> QED
  BY <1>3, <1>4 DEF n

\* The invariant says what the property does.
LEMMA RingsImply == RingsKept => RingsKeepElements
<1> SUFFICES ASSUME RingsKept, NEW r \in Ring PROVE Pair!Contents(ring[r]) = holds[r]
  BY DEF RingsKeepElements, Pair!RingsKeepElements
<1> DEFINE x == ring[r]
           s == holds[r]
<1>1. Holds(x, s)
  BY DEF RingsKept
<1> HIDE DEF x, s
<1>2. Pair!Contents(x) = [i \in 1..(RingSize - x.cnt) |-> x.data[ElemAt(x, i)]]
  BY <1>1, ContentsFound DEF Holds
<1>3. s = [i \in 1..Len(s) |-> s[i]]
  BY <1>1 DEF Holds
<1>4. Pair!Contents(x) = s
  BY <1>1, <1>2, <1>3 DEF Holds
<1> QED
  BY <1>4 DEF x, s

\* A new ring.
LEMMA NewHolds == Holds(Pair!NewRing, <<>>) /\ Pair!NewRing \in RingRec
<1>1. RingSize \in Nat \ {0}
  BY PairAssumption DEF PairAssumption
<1>2. /\ Pair!NewRing \in RingRec /\ Pair!NewRing.cnt = RingSize /\ Pair!NewRing.nextIn = -1
      /\ Pair!NewRing.nextOut = 0 /\ Pair!NewRing.reversed = FALSE
  BY <1>1 DEF Pair!NewRing, RingRec, Pair!Slots
<1> QED
  BY <1>1, <1>2 DEF Holds

\* An add puts the element behind the last one.
LEMMA AddHolds ==
  ASSUME NEW x, NEW s, Holds(x, s), x.cnt > 0, NEW v \in Elem,
         NEW y, y = [x EXCEPT !.cnt = @ - 1, !.nextIn = Pair!Following(x, x.nextIn),
                              !.data[Pair!Following(x, x.nextIn)] = v]
  PROVE  Holds(y, Append(s, v))
<1> DEFINE n == RingSize - x.cnt
           p == Pair!Following(x, x.nextIn)
<1>1. /\ RingSize \in Nat \ {0} /\ n \in 0..(RingSize - 1) /\ x \in RingRec /\ x.cnt \in 1..RingSize
      /\ s \in Seq(Elem) /\ Len(s) = n
  BY PairAssumption DEF PairAssumption, Holds, RingRec
<1>2. p = ElemAt(x, n + 1)
  <2>1. CASE n = 0
    BY <1>1, <2>1 DEF Holds, Pair!Following, ElemAt, Up
  <2>2. CASE n # 0
    BY <1>1, <2>2, ElemAtIs DEF Holds
  <2> QED
    BY <2>1, <2>2
<1>3. p \in Pair!Slots
  BY <1>1, <1>2, ElemAtIs
<1> HIDE DEF p
<1>4. PICK c \in 0..RingSize, e \in [Pair!Slots -> Elem \cup {Pair!Junk}] :
        c = x.cnt - 1 /\ e = [x.data EXCEPT ![p] = v]
  <2>1. x.cnt - 1 \in 0..RingSize
    BY <1>1
  <2>2. [x.data EXCEPT ![p] = v] \in [Pair!Slots -> Elem \cup {Pair!Junk}]
    <3>1. x.data \in [Pair!Slots -> Elem \cup {Pair!Junk}]
      BY <1>1 DEF RingRec
    <3> QED
      BY <1>3, <3>1
  <2> QED
    BY <2>1, <2>2
<1>5. /\ y \in RingRec /\ y.cnt = x.cnt - 1 /\ y.nextIn = p /\ y.nextOut = x.nextOut
      /\ y.reversed = x.reversed /\ y.data = [x.data EXCEPT ![p] = v]
  <2>1. y = [x EXCEPT !.cnt = x.cnt - 1, !.nextIn = p, !.data = [x.data EXCEPT ![p] = v]]
    BY DEF p
  <2>2. y = [x EXCEPT !.cnt = c, !.nextIn = p, !.data = e]
    BY <1>4, <2>1
  <2>3. p \in -1..(RingSize - 1)
    BY <1>1, <1>3 DEF Pair!Slots
  <2> HIDE DEF n
  <2>4. y \in RingRec /\ y.cnt = c /\ y.nextIn = p /\ y.nextOut = x.nextOut /\ y.reversed = x.reversed /\ y.data = e
    BY <1>1, <2>2, <2>3 DEF RingRec
  <2> QED
    BY <1>4, <2>4
<1>6. \A i : ElemAt(y, i) = ElemAt(x, i)
  BY <1>5 DEF ElemAt
<1>7. Append(s, v) \in Seq(Elem) /\ Len(Append(s, v)) = n + 1 /\ RingSize - y.cnt = n + 1
  BY <1>1, <1>5
<1>8. ASSUME NEW i \in 1..(n + 1) PROVE y.data[ElemAt(y, i)] = Append(s, v)[i]
  <2>1. CASE i = n + 1
    BY <1>1, <1>2, <1>3, <1>5, <1>6, <2>1 DEF RingRec
  <2>2. CASE i # n + 1
    <3>1. i \in 1..n /\ i \in 1..RingSize /\ n + 1 \in 1..RingSize
      BY <1>1, <2>2
    <3>2. ElemAt(x, i) # p /\ ElemAt(x, i) \in Pair!Slots
      BY <1>1, <1>2, <2>2, <3>1, ElemAtIs
    <3>3. y.data[ElemAt(x, i)] = x.data[ElemAt(x, i)]
      BY <1>5, <3>2 DEF RingRec
    <3>4. x.data[ElemAt(x, i)] = s[i] /\ Append(s, v)[i] = s[i]
      BY <1>1, <3>1 DEF Holds
    <3> QED
      BY <1>6, <3>3, <3>4
  <2> QED
    BY <2>1, <2>2
<1> HIDE DEF n
<1> QED
  BY <1>1, <1>2, <1>5, <1>6, <1>7, <1>8 DEF Holds

\* A removal that leaves something.
LEMMA RemoveHolds ==
  ASSUME NEW x, NEW s, Holds(x, s), x.cnt + 1 < RingSize, NEW y \in RingRec,
         y.cnt = x.cnt + 1, y.nextIn = x.nextIn, y.nextOut = ElemAt(x, 2),
         y.reversed <=> x.reversed, y.data = x.data
  PROVE  Holds(y, Tail(s))
<1> DEFINE n == RingSize - x.cnt
<1>1. /\ RingSize \in Nat \ {0} /\ n \in 2..RingSize /\ x \in RingRec /\ x.cnt \in 0..(RingSize - 1)
      /\ s \in Seq(Elem) /\ Len(s) = n /\ s # <<>>
  BY PairAssumption DEF PairAssumption, Holds, RingRec
<1>2. Tail(s) \in Seq(Elem) /\ Len(Tail(s)) = n - 1 /\ \A i \in 1..(n - 1) : Tail(s)[i] = s[i + 1]
  BY <1>1
<1>3. RingSize - y.cnt = n - 1 /\ y.cnt \in Int
  BY <1>1
<1>4. ASSUME NEW i \in 1..(n - 1) PROVE ElemAt(y, i) = ElemAt(x, i + 1)
  <2>1. x.nextOut \in 0..(RingSize - 1)
    BY <1>1 DEF RingRec, Pair!Slots
  <2>2. i \in 1..(RingSize - 1)
    BY <1>1
  <2> HIDE DEF n
  <2>3. i - 1 \in 0..(RingSize - 1) /\ 1 \in 0..(RingSize - 1) /\ (i - 1) + 1 = i /\ 2 - 1 = 1 /\ (i + 1) - 1 = i
    BY <1>1, <2>2
  <2>4. /\ Up(Up(x.nextOut, 1), i - 1) = Up(x.nextOut, (i - 1) + 1)
        /\ Down(Down(x.nextOut, 1), i - 1) = Down(x.nextOut, (i - 1) + 1)
    <3>1. (i - 1) + 1 < RingSize
      BY <1>1, <2>2
    <3> QED
      BY <2>1, <2>3, <3>1, Strides
  <2> QED
    BY <2>3, <2>4 DEF ElemAt
<1>5. y.nextIn = ElemAt(y, n - 1)
  <2>1. n - 1 \in 1..(n - 1) /\ (n - 1) + 1 = n
    BY <1>1
  <2> QED
    BY <1>1, <1>4, <2>1 DEF Holds
<1>6. ASSUME NEW i \in 1..(n - 1) PROVE y.data[ElemAt(y, i)] = Tail(s)[i]
  <2>1. i + 1 \in 1..n
    BY <1>1
  <2> QED
    BY <1>2, <1>4, <2>1 DEF Holds
<1> HIDE DEF n
<1> QED
  BY <1>1, <1>2, <1>3, <1>5, <1>6 DEF Holds

\* A ring that is as a new one, whatever its slots hold.
LEMMA EmptyHolds ==
  ASSUME NEW y \in RingRec, y.cnt = RingSize, y.nextIn = -1, y.nextOut = 0, ~y.reversed
  PROVE  Holds(y, <<>>)
BY PairAssumption DEF PairAssumption, Holds

\* reverse(): the last element is the first.
LEMMA ReverseHolds ==
  ASSUME NEW x, NEW s, Holds(x, s), x.cnt < RingSize, NEW y \in RingRec,
         y.cnt = x.cnt, y.nextIn = x.nextOut, y.nextOut = x.nextIn,
         y.reversed <=> ~x.reversed, y.data = x.data
  PROVE  Holds(y, Pair!Reverse(s))
<1> DEFINE n == RingSize - x.cnt
<1>1. /\ RingSize \in Nat \ {0} /\ n \in 1..RingSize /\ x \in RingRec /\ x.cnt \in 0..(RingSize - 1)
      /\ s \in Seq(Elem) /\ Len(s) = n
  BY PairAssumption DEF PairAssumption, Holds, RingRec
<1>2. /\ Pair!Reverse(s) \in Seq(Elem) /\ Len(Pair!Reverse(s)) = n
      /\ \A i \in 1..n : Pair!Reverse(s)[i] = s[(n - i) + 1] /\ (n - i) + 1 \in 1..n
  <2>1. \A i \in 1..n : (n - i) + 1 \in 1..n
    BY <1>1
  <2>2. Pair!Reverse(s) = [i \in 1..n |-> s[(n - i) + 1]]
    BY <1>1 DEF Pair!Reverse
  <2> HIDE DEF n
  <2>3. n \in Nat /\ \A i \in 1..n : s[(n - i) + 1] \in Elem
    BY <1>1, <2>1
  <2>4. Pair!Reverse(s) \in [1..n -> Elem]
    BY <2>2, <2>3
  <2> QED
    BY <2>1, <2>2, <2>3, <2>4
<1>3. ASSUME NEW i \in 1..n PROVE ElemAt(y, i) = ElemAt(x, (n - i) + 1)
  <2>1. x.nextOut \in 0..(RingSize - 1) /\ y.nextOut = ElemAt(x, n)
    BY <1>1 DEF RingRec, Pair!Slots, Holds
  <2> HIDE DEF n
  <2>2. /\ i - 1 \in 0..(RingSize - 1) /\ n - 1 \in 0..(RingSize - 1) /\ i - 1 <= n - 1
        /\ (n - 1) - (i - 1) = ((n - i) + 1) - 1
    BY <1>1
  <2> QED
    BY <1>1, <2>1, <2>2, Strides DEF ElemAt
<1>4. y.nextIn = ElemAt(y, n)
  <2>1. n \in 1..n /\ (n - n) + 1 = 1 /\ 1 \in 1..RingSize
    BY <1>1
  <2>2. ElemAt(y, n) = ElemAt(x, (n - n) + 1)
    BY <1>3, <2>1
  <2>3. ElemAt(x, 1) = x.nextOut
    BY <1>1, <2>1, ElemAtIs
  <2> QED
    BY <2>1, <2>2, <2>3
<1>5. ASSUME NEW i \in 1..n PROVE y.data[ElemAt(y, i)] = Pair!Reverse(s)[i]
  BY <1>2, <1>3 DEF Holds
<1> HIDE DEF n
<1>6. RingSize - y.cnt = n /\ y.cnt # RingSize
  BY <1>1 DEF n
<1> QED
  BY <1>1, <1>2, <1>4, <1>5, <1>6 DEF Holds

\* One ring changes.
LEMMA OneRing ==
  ASSUME RingsKept, NEW r \in Ring, NEW y, NEW q, Holds(y, q),
         ring' = [ring EXCEPT ![r] = y], holds' = [holds EXCEPT ![r] = q], ringCall' = ringCall,
         (\E u \in Peer : ringCall[u].op = "transfer" /\ ringCall[u].from = r) => ~y.reversed
  PROVE  RingsKept'
<1>1. y \in RingRec /\ q \in Seq(Elem)
  BY DEF Holds
<1>2. /\ ring' \in [Ring -> RingRec] /\ holds' \in [Ring -> Seq(Elem)]
      /\ ring'[r] = y /\ holds'[r] = q
      /\ \A o \in Ring \ {r} : ring'[o] = ring[o] /\ holds'[o] = holds[o]
  BY <1>1 DEF RingsKept
<1>3. \A o \in Ring : Holds(ring'[o], holds'[o])
  BY <1>2 DEF RingsKept
<1>4. Copying'
  <2>1. ASSUME NEW u \in Peer, ringCall[u].op = "transfer" PROVE ~ring'[ringCall[u].from].reversed
    <3>1. ringCall[u].from \in Ring /\ ~ring[ringCall[u].from].reversed
      BY <2>1 DEF RingsKept, Copying
    <3>2. CASE ringCall[u].from = r
      BY <1>2, <2>1, <3>2
    <3>3. CASE ringCall[u].from # r
      BY <1>2, <3>1, <3>3
    <3> QED
      BY <3>2, <3>3
  <2> QED
    BY <2>1 DEF RingsKept, Copying
<1> QED
  BY <1>2, <1>3, <1>4 DEF RingsKept

\* The calls on one ring.
LEMMA CallsKeepRings ==
  ASSUME RingsKept, NEW u \in Peer, NEW r \in Ring,
         (\E v \in Elem : Pair!AddIfRoom(u, r, v)) \/ Pair!RemoveNext(u, r) \/ Pair!ReverseRing(u, r)
  PROVE  RingsKept'
<1>0. Holds(ring[r], holds[r]) /\ ring[r] \in RingRec /\ RingSize \in Nat \ {0} /\ ring[r].cnt \in 0..RingSize
  BY PairAssumption DEF PairAssumption, RingsKept, Holds, RingRec
<1>1. \A w \in Peer : ringCall[w].op = "transfer" /\ ringCall[w].from = r => ~ring[r].reversed
  BY DEF RingsKept, Copying
<1>2. ASSUME NEW v \in Elem, Pair!AddIfRoom(u, r, v) PROVE RingsKept'
  <2>1. PICK x, s, p, y : /\ x = ring[r] /\ s = holds[r] /\ p = Pair!Following(x, x.nextIn)
                          /\ y = [x EXCEPT !.cnt = @ - 1, !.nextIn = p, !.data[p] = v]
    OBVIOUS
  <2>2. /\ ring' = [ring EXCEPT ![r] = y] /\ holds' = [holds EXCEPT ![r] = Append(s, v)]
        /\ ringCall' = ringCall /\ x.cnt > 0
    BY <1>2, <2>1 DEF Pair!AddIfRoom, Pair!Becomes
  <2>3. Holds(y, Append(s, v))
    BY <1>0, <2>1, <2>2, AddHolds
  <2>4. y.reversed <=> x.reversed
    BY <1>0, <2>1 DEF RingRec
  <2> QED
    BY <1>1, <2>1, <2>2, <2>3, <2>4, OneRing
<1>3. CASE Pair!RemoveNext(u, r)
  <2>1. PICK x, s : x = ring[r] /\ s = holds[r]
    OBVIOUS
  <2>2. Holds(x, s) /\ x \in RingRec /\ x.cnt \in 0..RingSize
    BY <1>0, <2>1
  <2>3. CASE RingSize - x.cnt = 1
    <3>1. /\ ring' = [ring EXCEPT ![r] = [x EXCEPT !.cnt = @ + 1, !.nextIn = -1, !.nextOut = 0, !.reversed = FALSE]]
          /\ holds' = [holds EXCEPT ![r] = Tail(s)] /\ ringCall' = ringCall
      BY <1>3, <2>1, <2>3 DEF Pair!RemoveNext, Pair!Becomes, Pair!Remain
    <3>2. x.cnt + 1 \in 0..RingSize /\ x.cnt + 1 = RingSize /\ -1 \in -1..(RingSize - 1) /\ 0 \in Pair!Slots
      BY <1>0, <2>2, <2>3 DEF Pair!Slots
    <3>3. PICK c \in 0..RingSize, i \in -1..(RingSize - 1), o \in Pair!Slots, b \in BOOLEAN :
             c = x.cnt + 1 /\ i = -1 /\ o = 0 /\ b = FALSE
      BY <3>2
    <3>4. PICK y : y = [x EXCEPT !.cnt = c, !.nextIn = i, !.nextOut = o, !.reversed = b]
      OBVIOUS
    <3>5. y \in RingRec /\ y.cnt = c /\ y.nextIn = i /\ y.nextOut = o /\ (y.reversed <=> b)
      BY <2>2, <3>4 DEF RingRec
    <3>6. Holds(y, <<>>) /\ ~y.reversed
      BY <3>2, <3>3, <3>5, EmptyHolds
    <3>7. Tail(s) = <<>>
      <4>1. s \in Seq(Elem) /\ Len(s) = 1 /\ s # <<>>
        BY <2>2, <2>3, EmptySeq DEF Holds
      <4>2. Tail(s) \in Seq(Elem) /\ Len(Tail(s)) = 0
        BY <4>1
      <4> QED
        BY <4>2, EmptySeq
    <3>8. ring' = [ring EXCEPT ![r] = y]
      BY <3>1, <3>3, <3>4
    <3> QED
      BY <3>1, <3>6, <3>7, <3>8, OneRing
  <2>4. CASE RingSize - x.cnt # 1
    <3>1. /\ ring' = [ring EXCEPT ![r] = [x EXCEPT !.cnt = @ + 1, !.nextOut = Pair!Following(x, @)]]
          /\ holds' = [holds EXCEPT ![r] = Tail(s)] /\ ringCall' = ringCall /\ RingSize - x.cnt > 0
      BY <1>3, <2>1, <2>4 DEF Pair!RemoveNext, Pair!Becomes, Pair!Remain
    <3>2. x.cnt + 1 \in 0..RingSize /\ x.cnt + 1 < RingSize /\ 1 \in 1..RingSize /\ 2 \in 1..RingSize /\ 1 + 1 = 2
      BY <1>0, <2>2, <2>4, <3>1
    <3>3. ElemAt(x, 2) = Pair!Following(x, x.nextOut) /\ ElemAt(x, 2) \in Pair!Slots
      BY <2>2, <3>2, ElemAtIs
    <3>4. PICK c \in 0..RingSize, o \in Pair!Slots : c = x.cnt + 1 /\ o = ElemAt(x, 2)
      BY <3>2, <3>3
    <3>5. PICK y : y = [x EXCEPT !.cnt = c, !.nextOut = o]
      OBVIOUS
    <3>6. /\ y \in RingRec /\ y.cnt = c /\ y.nextIn = x.nextIn /\ y.nextOut = o
          /\ (y.reversed <=> x.reversed) /\ y.data = x.data
      BY <2>2, <3>5 DEF RingRec
    <3>7. Holds(y, Tail(s))
      BY <2>2, <3>2, <3>4, <3>6, RemoveHolds
    <3>8. ring' = [ring EXCEPT ![r] = y]
      BY <3>1, <3>3, <3>4, <3>5
    <3> QED
      BY <1>1, <2>1, <3>1, <3>6, <3>7, <3>8, OneRing
  <2> QED
    BY <2>3, <2>4
<1>4. CASE Pair!ReverseRing(u, r)
  <2>1. PICK x, s : x = ring[r] /\ s = holds[r]
    OBVIOUS
  <2>2. Holds(x, s) /\ x \in RingRec /\ x.cnt \in 0..RingSize
    BY <1>0, <2>1
  <2>3. /\ ring' = [ring EXCEPT ![r] = [x EXCEPT !.reversed = ~@, !.nextIn = x.nextOut, !.nextOut = x.nextIn]]
        /\ holds' = [holds EXCEPT ![r] = Pair!Reverse(s)] /\ ringCall' = ringCall /\ RingSize - x.cnt > 0
        /\ ~\E w \in Peer : ringCall[w].op = "transfer" /\ ringCall[w].from = r
    BY <1>4, <2>1 DEF Pair!ReverseRing, Pair!Becomes, Pair!Remain, Pair!Transfers
  <2>4. x.cnt < RingSize /\ RingSize - x.cnt \in 1..RingSize
    BY <1>0, <2>2, <2>3
  <2>5. x.nextIn \in Pair!Slots /\ x.nextOut \in -1..(RingSize - 1)
    <3>1. x.nextIn = ElemAt(x, RingSize - x.cnt)
      BY <2>2, <2>4 DEF Holds
    <3>2. ElemAt(x, RingSize - x.cnt) \in Pair!Slots
      BY <2>2, <2>4, ElemAtIs
    <3>3. x.nextOut \in Pair!Slots
      BY <2>2 DEF RingRec
    <3> QED
      BY <1>0, <3>1, <3>2, <3>3 DEF Pair!Slots
  <2>6. PICK i \in -1..(RingSize - 1), o \in Pair!Slots : i = x.nextOut /\ o = x.nextIn
    BY <2>5
  <2>7. PICK y : y = [x EXCEPT !.reversed = ~@, !.nextIn = i, !.nextOut = o]
    OBVIOUS
  <2>8. /\ y \in RingRec /\ y.cnt = x.cnt /\ y.nextIn = i /\ y.nextOut = o
        /\ (y.reversed <=> ~x.reversed) /\ y.data = x.data
    BY <2>2, <2>7 DEF RingRec
  <2>9. Holds(y, Pair!Reverse(s))
    BY <2>2, <2>4, <2>6, <2>8, ReverseHolds
  <2>10. ring' = [ring EXCEPT ![r] = y]
    BY <2>3, <2>6, <2>7
  <2> QED
    BY <2>3, <2>9, <2>10, OneRing
<1> QED
  BY <1>2, <1>3, <1>4

\* A new pair of rings.
LEMMA RingsInit == Pair!Init => RingsKept
<1> SUFFICES ASSUME Pair!Init PROVE RingsKept
  OBVIOUS
<1>1. \A r \in Ring : Holds(ring[r], holds[r])
  BY NewHolds DEF Pair!Init
<1>2. Copying
  BY DEF Pair!Init, Copying, Pair!NoCall
<1> QED
  BY <1>1, <1>2, NewHolds DEF Pair!Init, RingsKept

\* A copy locks the two rings.
LEMMA LocksKeepRings ==
  ASSUME RingsKept, NEW u \in Peer,
         \/ Pair!LockOther(u)
         \/ \E to, from \in Ring, op \in {"clone", "transfer"} : Pair!LockOwn(u, op, to, from)
  PROVE  RingsKept'
<1>1. CASE Pair!LockOther(u)
  BY <1>1 DEF Pair!LockOther, RingsKept, Copying
<1>2. ASSUME NEW to \in Ring, NEW from \in Ring, NEW op \in {"clone", "transfer"}, Pair!LockOwn(u, op, to, from)
      PROVE  RingsKept'
  <2>1. PICK c : c = [op |-> op, to |-> to, from |-> from]
    OBVIOUS
  <2>2. /\ c \in [op : {"clone", "transfer"}, to : Ring, from : Ring]
        /\ c.op = op /\ c.to = to /\ c.from = from
    BY <2>1
  <2>3. /\ ringCall' = [ringCall EXCEPT ![u] = c] /\ UNCHANGED <<ring, holds>>
        /\ op = "transfer" => ~ring[from].reversed /\ ~\E w \in Peer : ringCall[w].op = "clone" /\ ringCall[w].to = from
        /\ op = "clone" => ~\E w \in Peer : ringCall[w].op = "transfer" /\ ringCall[w].from = to
    BY <1>2, <2>1 DEF Pair!LockOwn, Pair!Clones, Pair!Transfers
  <2>4. /\ ringCall' \in [Peer -> {Pair!NoCall} \cup [op : {"clone", "transfer"}, to : Ring, from : Ring]]
        /\ ringCall'[u] = c /\ \A w \in Peer \ {u} : ringCall'[w] = ringCall[w]
    BY <2>2, <2>3 DEF RingsKept
  <2>5. Copying'
    BY <2>2, <2>3, <2>4 DEF RingsKept, Copying
  <2> QED
    BY <2>3, <2>4, <2>5 DEF RingsKept
<1> QED
  BY <1>1, <1>2

\* What is left of a ring that was not reversed, when it has been transferred from.
LEMMA EmptiedHolds ==
  ASSUME NEW x \in RingRec, ~x.reversed
  PROVE  Holds(Pair!Emptied(x), <<>>) /\ ~Pair!Emptied(x).reversed
<1>1. RingSize \in 0..RingSize /\ -1 \in -1..(RingSize - 1) /\ 0 \in Pair!Slots
  BY PairAssumption DEF PairAssumption, Pair!Slots
<1>2. PICK c \in 0..RingSize, i \in -1..(RingSize - 1), o \in Pair!Slots,
           e \in [Pair!Slots -> Elem \cup {Pair!Junk}] :
         c = RingSize /\ i = -1 /\ o = 0 /\ e = [s \in Pair!Slots |-> Pair!Junk]
  BY <1>1
<1>3. PICK y : y = [x EXCEPT !.cnt = c, !.nextIn = i, !.nextOut = o, !.data = e]
  OBVIOUS
<1>4. y \in RingRec /\ y.cnt = c /\ y.nextIn = i /\ y.nextOut = o /\ (y.reversed <=> x.reversed)
  BY <1>3 DEF RingRec
<1>5. Pair!Emptied(x) = y
  BY <1>2, <1>3 DEF Pair!Emptied
<1> QED
  BY <1>2, <1>4, <1>5, EmptyHolds

\* The copy itself, and the unlocks.
LEMMA CopiesKeepRings ==
  ASSUME RingsKept, NEW u \in Peer, Pair!CloneFrom(u) \/ Pair!TransferFrom(u)
  PROVE  RingsKept'
<1>1. PICK to, from : to = ringCall[u].to /\ from = ringCall[u].from
  OBVIOUS
<1>2. ringCall' = [ringCall EXCEPT ![u] = Pair!NoCall]
  BY DEF Pair!CloneFrom, Pair!TransferFrom, Pair!Unlock
<1>3. /\ ringCall' \in [Peer -> {Pair!NoCall} \cup [op : {"clone", "transfer"}, to : Ring, from : Ring]]
      /\ ringCall'[u].op = "none" /\ \A w \in Peer \ {u} : ringCall'[w] = ringCall[w]
  BY <1>2 DEF RingsKept, Pair!NoCall
<1>4. ringCall[u].op \in {"clone", "transfer"} /\ to \in Ring /\ from \in Ring
  BY <1>1 DEF Pair!CloneFrom, Pair!TransferFrom, Pair!HasBoth, RingsKept, Copying
<1>5. ASSUME NEW w \in Peer, ringCall'[w].op = "transfer"
      PROVE  w # u /\ ringCall[w].op = "transfer" /\ ringCall'[w].from = ringCall[w].from
             /\ ringCall[w].from \in Ring /\ ~ring[ringCall[w].from].reversed
  BY <1>3, <1>5 DEF RingsKept, Copying
<1>6. CASE Pair!CloneFrom(u)
  <2>1. /\ ring' = [ring EXCEPT ![to] = ring[from]] /\ holds' = [holds EXCEPT ![to] = holds[from]]
        /\ ringCall[u].op = "clone"
    BY <1>1, <1>6 DEF Pair!CloneFrom, Pair!HasBoth
  <2>2. /\ ring' \in [Ring -> RingRec] /\ holds' \in [Ring -> Seq(Elem)]
        /\ \A o \in Ring : ring'[o] = (IF o = to THEN ring[from] ELSE ring[o])
                           /\ holds'[o] = (IF o = to THEN holds[from] ELSE holds[o])
    BY <1>4, <2>1 DEF RingsKept
  <2>3. \A o \in Ring : Holds(ring'[o], holds'[o])
    BY <1>4, <2>2 DEF RingsKept
  <2>4. ASSUME NEW w \in Peer, ringCall'[w].op = "transfer" PROVE ~ring'[ringCall'[w].from].reversed
    <3>1. ringCall[w].from # to
      BY <1>1, <1>5, <2>1, <2>4 DEF RingsKept, Copying
    <3> QED
      BY <1>5, <2>2, <2>4, <3>1
  <2>5. Copying'
    BY <1>3, <2>4 DEF RingsKept, Copying
  <2> QED
    BY <1>3, <2>2, <2>3, <2>5 DEF RingsKept
<1>7. CASE Pair!TransferFrom(u)
  <2>1. PICK y : y = Pair!Emptied(ring[from])
    OBVIOUS
  <2>2. /\ ring' = [ring EXCEPT ![to] = ring[from], ![from] = y]
        /\ holds' = [holds EXCEPT ![to] = holds[from], ![from] = <<>>]
        /\ ringCall[u].op = "transfer"
    BY <1>1, <1>7, <2>1 DEF Pair!TransferFrom, Pair!HasBoth
  <2>3. ring[from] \in RingRec /\ ~ring[from].reversed
    BY <1>1, <1>4, <2>2 DEF RingsKept, Copying
  <2>4. Holds(y, <<>>) /\ ~y.reversed /\ y \in RingRec /\ <<>> \in Seq(Elem)
    BY <2>1, <2>3, EmptiedHolds DEF Holds
  <2>5. /\ ring' \in [Ring -> RingRec] /\ holds' \in [Ring -> Seq(Elem)]
        /\ \A o \in Ring : /\ ring'[o] = (IF o = from THEN y ELSE IF o = to THEN ring[from] ELSE ring[o])
                           /\ holds'[o] = (IF o = from THEN <<>> ELSE IF o = to THEN holds[from] ELSE holds[o])
    BY <1>4, <2>2, <2>4 DEF RingsKept
  <2>6. \A o \in Ring : Holds(ring'[o], holds'[o])
    BY <1>4, <2>4, <2>5 DEF RingsKept
  <2>7. ASSUME NEW w \in Peer, ringCall'[w].op = "transfer" PROVE ~ring'[ringCall'[w].from].reversed
    BY <1>5, <2>3, <2>4, <2>5, <2>7
  <2>8. Copying'
    BY <1>3, <2>7 DEF RingsKept, Copying
  <2> QED
    BY <1>3, <2>5, <2>6, <2>8 DEF RingsKept
<1> QED
  BY <1>6, <1>7

\* Every step on the rings.
LEMMA RingsStep == RingsKept /\ [Pair!Next]_pairVars => RingsKept'
<1> SUFFICES ASSUME RingsKept, [Pair!Next]_pairVars PROVE RingsKept'
  OBVIOUS
<1>1. CASE UNCHANGED pairVars
  BY <1>1 DEF pairVars, RingsKept, Copying
<1>2. CASE Pair!Next
  BY <1>2, CallsKeepRings, LocksKeepRings, CopiesKeepRings DEF Pair!Next
<1> QED
  BY <1>1, <1>2

\* tw_safeCircular: whatever calls come between the two locks of cloneFrom() and
\* transferFrom(), with any number of rings, every ring hands out what it should.
THEOREM RingsAlwaysKeepElements == Spec => []RingsKeepElements
<1>1. Init => RingsKept
  BY RingsInit DEF Init
<1>2. RingsKept /\ [Next]_vars => RingsKept'
  BY RingsStep DEF Next, Done, vars
<1> QED
  BY <1>1, <1>2, RingsImply, PTL DEF Spec
=============================================================================

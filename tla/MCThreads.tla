------------------------------ MODULE MCThreads ------------------------------
(***************************************************************************)
(* The components that threads share and that are small, for TLC: a        *)
(* behaviour picks one of them and its threads make any calls on it.  The  *)
(* others stay as they are constructed.  The bounded FIFO, which composes  *)
(* TWSema with a list, is the module that is extended.                     *)
(***************************************************************************)
EXTENDS BndSafeFIFO, Sequences

CONSTANTS MaxSlots,                             \* bound on the slots lost updates make up
          PoolThread, PoolSize,                 \* TW_SemaTwoWay
          Caller, TaskObj, Param, MaxWorkers,   \* the tasks
          User, HKey, Data, Object,             \* the locked tables
          Holder, Callback, MaxCallbacks,       \* autoPointer
          Peer, Ring, Elem, RingSize            \* two rings

VARIABLES use
VARIABLES poolCnt, poolMutex, poolGtZero, decrementCond, poolPc, keepLock, poolUnits, result
VARIABLES task, worker, managed, listMutex, at
VARIABLES lock, values, object, doing, iters, out
VARIABLES refCount, data, entries, alive, mutex, walk, refs, called
VARIABLES ring, ringOwner, ringCall, holds

poolVars == <<poolCnt, poolMutex, poolGtZero, decrementCond, poolPc, keepLock, poolUnits, result>>
taskVars == <<task, worker, managed, listMutex, at>>
hashVars == <<lock, values, object, doing, iters, out>>
autoVars == <<refCount, data, entries, alive, mutex, walk, refs, called>>
pairVars == <<ring, ringOwner, ringCall, holds>>

vars == <<bndVars, poolVars, taskVars, hashVars, autoVars, pairVars, use>>

Pool == INSTANCE SemaPool WITH Thread <- PoolThread, Size <- PoolSize,
                               cnt <- poolCnt, localMutex <- poolMutex, gtZeroCond <- poolGtZero,
                               pc <- poolPc, units <- poolUnits
Task == INSTANCE Tasks
Dense == INSTANCE DenseHash WITH Sparse <- FALSE
SparseHash == INSTANCE DenseHash WITH Sparse <- TRUE
AutoPtr == INSTANCE AutoPointer
Pair == INSTANCE CircularPair WITH User <- Peer, Size <- RingSize,
                                   owner <- ringOwner, call <- ringCall

ASSUME PoolAssumption == PoolSize \in Nat \ {0} /\ IsFiniteSet(PoolThread) /\ NoThread \notin PoolThread
ASSUME TaskAssumption ==
    Task!NoCaller \notin Caller /\ Task!Idle.task \notin TaskObj /\ Task!NoParam \notin Param
ASSUME HashAssumption ==
    /\ IsFiniteSet(User) /\ Dense!Nobody \notin User /\ Dense!Gone \notin Data
    /\ HKey \subseteq 1..(Dense!AtEnd - 1) /\ IsFiniteSet(Object) /\ Object \subseteq Nat \ {0}
ASSUME AutoAssumption == IsFiniteSet(Holder) /\ AutoPtr!Free \notin Holder
ASSUME PairAssumption == RingSize \in Nat \ {0}

Init ==
    /\ use \in {"bnd", "pool", "tasks", "dense", "sparse", "auto", "pair"}
    /\ BndInit /\ Pool!PoolInit /\ Task!Init /\ Dense!Init /\ AutoPtr!Init
    /\ Pair!Init

\* The adder of the bounded FIFO calls add() again while the slots are within the bound.
BndNext == \/ cnt + remain <= MaxSlots /\ AddAcquire(Adder)
           \/ \E t \in Thread : Proceed(t)

\* The program may be done with a component; the FIFO, the pool, the rings and the tables are
\* always there for another call, and a deadlock of their threads is an error.
Done == /\ use \in {"tasks", "auto"} \/ (use = "bnd" /\ cnt + remain > MaxSlots)
        /\ UNCHANGED vars

Next ==
    \/ Done
    \/ /\ use = "bnd" /\ BndNext
       /\ UNCHANGED <<poolVars, taskVars, hashVars, autoVars, pairVars, use>>
    \/ /\ use = "pool" /\ Pool!PoolNext
       /\ UNCHANGED <<bndVars, taskVars, hashVars, autoVars, pairVars, use>>
    \/ /\ use = "tasks" /\ Task!Next
       /\ UNCHANGED <<bndVars, poolVars, hashVars, autoVars, pairVars, use>>
    \/ /\ use = "dense" /\ Dense!Next
       /\ UNCHANGED <<bndVars, poolVars, taskVars, autoVars, pairVars, use>>
    \/ /\ use = "sparse" /\ SparseHash!Next
       /\ UNCHANGED <<bndVars, poolVars, taskVars, autoVars, pairVars, use>>
    \/ /\ use = "auto" /\ AutoPtr!Next
       /\ UNCHANGED <<bndVars, poolVars, taskVars, hashVars, pairVars, use>>
    \/ /\ use = "pair" /\ Pair!Next
       /\ UNCHANGED <<bndVars, poolVars, taskVars, hashVars, autoVars, use>>

Spec == Init /\ [][Next]_vars
FairSpec == Spec /\ BndFairness /\ Task!Fairness

-----------------------------------------------------------------------------
\* TW_SemaTwoWay: no unit is lost or made up by time-outs and wakeups, and while a
\* thread sleeps for a unit, every unit that is there is spoken for.
PoolKept == Pool!PoolKept

\* TaskManager: when joinAll() has returned, the tasks that were in the list are done.
JoinedMeansDone == Task!JoinedMeansDone

\* TaskManager: joinAll() returns.
JoinAllReturns == Task!JoinAllReturns

\* TWDenseHash, TWSparseHash: whatever calls that acquire the lock do at the same time, an
\* object that exists is the data of one key, or about to be deleted by the removal of it.
DataAccounted == Dense!DataAccounted

\* TWDenseHash, TWSparseHash: a removal does not rebuild the table under an iterator.
IteratorsStand == Dense!IteratorsStand

\* autoPointer: the data lives as long as anybody has a reference, and every callback
\* is called before it goes, in order and once.
CallbacksBeforeDelete == AutoPtr!CallbacksBeforeDelete

\* tw_safeCircular: a copy of one ring to another, with calls of other threads between
\* its two locks, leaves both rings handing out what they should.
RingsKeepElements == Pair!RingsKeepElements
=============================================================================

----------------------------- MODULE AutoPointer -----------------------------
(***************************************************************************)
(* autoPointer (include/TW/tw_autopointer.h): a counted pointer shared by  *)
(* threads, with callbacks that are called before the data is deleted.     *)
(*                                                                         *)
(* destroy() runs with dataMutex held, one callback after the other, and   *)
(* deletes each entry behind it; it leaves firstCallback where it was.     *)
(***************************************************************************)
EXTENDS Integers, SequencesExt

CONSTANTS Holder,      \* the threads
          Callback,    \* the functions that are registered
          MaxCallbacks \* bound on the entries of the list
Free == "free"         \* nobody holds dataMutex

VARIABLES refCount,
          data,        \* D: "null" or "live"
          entries,     \* the chain from firstCallback: the callbacks
          alive,       \* whether those entries are allocated
          mutex,       \* who holds dataMutex
          walk,        \* destroy(): the entries it has still to call
          refs,        \* per thread: the references it holds
          called       \* the callbacks called for this data, in order
autoVars == <<refCount, data, entries, alive, mutex, walk, refs, called>>

\* The number of references that are out.
Held == Cardinality(UNION {{h} \X (1..refs[h]) : h \in Holder})

\* autoPointer() without data.
Init ==
    /\ refCount = 0 /\ data = "null"
    /\ entries = <<>> /\ alive = TRUE
    /\ mutex = Free /\ walk = <<>>
    /\ refs = [h \in Holder |-> 0] /\ called = <<>>

\* reset(), and the constructor with data, which uses it: without the mutex.  The
\* program calls it when nobody has a reference, and, as firstCallback still points
\* at the entries destroy() has deleted, only if there were none.
Reset(h) ==
    /\ data = "null" /\ mutex = Free /\ (alive \/ entries = <<>>)
    /\ data' = "live" /\ refCount' = 1
    /\ entries' = <<>> /\ alive' = TRUE
    /\ refs' = [refs EXCEPT ![h] = 1]
    /\ called' = <<>>
    /\ UNCHANGED <<mutex, walk>>

\* dupP(), for a thread that a holder hands the pointer to.
DupP(g, h) ==
    /\ refs[g] > 0 /\ refs[h] = 0 /\ mutex = Free
    /\ refCount' = refCount + 1
    /\ refs' = [refs EXCEPT ![h] = @ + 1]
    /\ UNCHANGED <<data, entries, alive, mutex, walk, called>>

\* release(): is the data to be deleted?
Unneeded(n) == n < 1

Release(h) ==
    /\ refs[h] > 0 /\ mutex = Free
    /\ refCount' = refCount - 1
    /\ refs' = [refs EXCEPT ![h] = @ - 1]
    /\ IF Unneeded(refCount')
       THEN mutex' = h /\ walk' = entries
       ELSE UNCHANGED <<mutex, walk>>
    /\ UNCHANGED <<data, entries, alive, called>>

\* destroy(): one callback and the deletion of its entry.
CallBack(h) ==
    /\ mutex = h /\ walk # <<>>
    /\ called' = Append(called, Head(walk))
    /\ walk' = Tail(walk) /\ alive' = FALSE
    /\ UNCHANGED <<refCount, data, entries, mutex, refs>>

\* Mutant of DeleteData: the data goes before the callbacks.
DeleteDataFirst(h) ==
    /\ mutex = h
    /\ data' = "null" /\ mutex' = Free /\ walk' = <<>>
    /\ UNCHANGED <<refCount, entries, alive, refs, called>>

\* The end of destroy() and of release().
DeleteData(h) ==
    /\ mutex = h /\ walk = <<>>
    /\ data' = "null" /\ mutex' = Free
    /\ UNCHANGED <<refCount, entries, alive, walk, refs, called>>

\* registerCallback(): addCallback() walks to the end of the list.
RegisterCallback(h, cb) ==
    /\ refs[h] > 0 /\ mutex = Free /\ Len(entries) < MaxCallbacks
    /\ entries' = Append(entries, cb)
    /\ UNCHANGED <<refCount, data, alive, mutex, walk, refs, called>>

\* The destructor, by the last thread that has the object: destroy() when D is set.
Destructor(h) ==
    /\ mutex = Free /\ data = "live"
    /\ \A g \in Holder \ {h} : refs[g] = 0
    /\ mutex' = h /\ walk' = entries
    /\ refs' = [refs EXCEPT ![h] = 0] /\ refCount' = 0
    /\ UNCHANGED <<data, entries, alive, called>>

Next ==
    \E h \in Holder :
       \/ Reset(h) \/ Release(h) \/ CallBack(h) \/ DeleteData(h) \/ Destructor(h)
       \/ \E g \in Holder : DupP(g, h)
       \/ \E cb \in Callback : RegisterCallback(h, cb)

-----------------------------------------------------------------------------
\* While a thread has a reference the data is there, and the count is the number of
\* references that are out.
HeldDataLives == refCount = Held /\ (Held > 0 => data = "live" /\ mutex = Free)

\* "Before the data is deleted, each callback is called" (tw_autopointer.h:25): when
\* the data is gone, every callback has been called, in the order of registration and
\* once; none is called while a thread still has a reference, and until then the data
\* is there.
CallbacksBeforeDelete ==
    /\ HeldDataLives
    /\ data = "null" => called = entries
    /\ called # <<>> => Held = 0
    /\ IsPrefix(called, entries)
=============================================================================

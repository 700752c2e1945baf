------------------------------ MODULE DenseHash ------------------------------
(***************************************************************************)
(* TWDenseHash and TWSparseHash (include/TW/tw_densehash.h,                *)
(* tw_sparsehash.h): tables of pointers to data the class allocates, under *)
(* one lock, over a hash table that is not part of this code.              *)
(*                                                                         *)
(* A call acquires the lock, looks the key up, and acts on what it found   *)
(* before it releases the lock.  find() only releases it: it reads the     *)
(* table without the lock, and unlocks whoever holds it.  So the lookup    *)
(* and the rest of a call are two steps here.  Next has the calls that     *)
(* acquire what they release, FindNext has find() too.                     *)
(***************************************************************************)
EXTENDS Integers, FiniteSetsExt

CONSTANTS User,      \* the threads
          HKey,      \* the keys: 1..n, in the order the table keeps them
          Data,      \* the data callers add
          Object,    \* the DATA objects that can be allocated: 1..n
          Sparse     \* TRUE for TWSparseHash
Made == "made"       \* DATA()
Nobody == "nobody"
None == 0            \* no object: the key is not in the table
AtEnd == 99          \* values.end(), behind every key

VARIABLES lock,      \* who acquired _lock, or Nobody
          values,    \* per key: the object it points to, or None
          object,    \* per object: its data, or Gone
          doing,     \* per thread: the call it is in, its key, what the lookup found
          iters,     \* per thread: its HashIterator, or NoIter
          out        \* _iterators_out
hashVars == <<lock, values, object, doing, iters, out>>

Gone == "gone"
Resting == [op |-> "none", key |-> 0, dat |-> Made, found |-> None, v |-> None]
NoIter == [at |-> 0, due |-> {}, moved |-> FALSE]

Init ==
    /\ lock = Nobody
    /\ values = [k \in HKey |-> None]
    /\ object = [o \in Object |-> Gone]
    /\ doing = [u \in User |-> Resting]
    /\ iters = [u \in User |-> NoIter] /\ out = 0

Stored == {k \in HKey : values[k] # None}
Adds == {"addReplace", "addReplaceOld", "addReplaceNew", "addNoreplace", "addNoreplaceNew", "findOrNew"}
\* TWSparseHash::addReplace() with the old data makes the key of its data, so it is
\* of no use unless a KEY can be made of a DATA.
Offered == IF Sparse THEN Adds \ {"addReplaceOld"} ELSE Adds
Removes == {"remove", "removeFill"}
Unused == {o \in Object : object[o] = Gone}

-----------------------------------------------------------------------------
\* The data an operation stores.  TWDenseHash::addNoreplace() makes a DATA() and
\* does not look at its argument again; TWSparseHash::addNoreplace() copies it.
DataOf(op, d) ==
    IF op \in {"addReplace", "addReplaceOld"} \/ (op = "addNoreplace" /\ Sparse) THEN d ELSE Made

\* _lock.acquire() and values.find().
Enter(u, op, k, d) ==
    /\ doing[u] = Resting /\ lock = Nobody
    /\ lock' = u
    /\ doing' = [doing EXCEPT ![u] = [op |-> op, key |-> k, dat |-> DataOf(op, d),
                                      found |-> values[k], v |-> None]]
    /\ UNCHANGED <<values, object, iters, out>>

\* _lock.release() and the return.
Leave(u) == lock' = Nobody /\ doing' = [doing EXCEPT ![u] = Resting]

\* The table may be rebuilt, as the library does when it grows or is told to
\* resize: iterators that are out then point nowhere.
Rebuilt(it) == [w \in User |-> IF it[w] = NoIter THEN NoIter ELSE [it[w] EXCEPT !.moved = TRUE]]
Without(it, k) == [w \in User |-> [it[w] EXCEPT !.due = @ \ {k}]]

\* Mutant of Replace: the old data is not deleted.
ReplaceLeaks(old, new, d) == [object EXCEPT ![new] = d]

\* The old data is deleted and new data stored in its place.
Replace(old, new, d) == [o \in Object |-> IF o = new THEN d ELSE IF o = old THEN Gone ELSE object[o]]

\* An add of a key that was not found: data and key are allocated, and values[k] = v.
\* While an iterator is out a program adds no key: the table might be rebuilt.
AddNew(u) ==
    LET a == doing[u]
    IN  /\ a.op \in Adds /\ a.found = None /\ Unused # {} /\ out = 0
        /\ values' = [values EXCEPT ![a.key] = Min(Unused)]
        /\ object' = [object EXCEPT ![Min(Unused)] = a.dat]
        /\ Leave(u)
        /\ UNCHANGED <<iters, out>>

\* addReplace(), with or without the old data, and addReplaceNew() of a key that was
\* found.
AddOver(u) ==
    LET a == doing[u]
    IN  /\ a.op \in {"addReplace", "addReplaceOld", "addReplaceNew"} /\ a.found # None /\ Unused # {}
        /\ values' = [values EXCEPT ![a.key] = Min(Unused)]
        /\ object' = Replace(a.found, Min(Unused), a.dat)
        /\ Leave(u)
        /\ UNCHANGED <<iters, out>>

\* addNoreplace(), addNoreplaceNew() and findOrNew() of a key that was found, and a
\* removal of one that was not, release the lock and return.
NothingToDo(u) ==
    LET a == doing[u]
    IN  /\ \/ a.op \in {"addNoreplace", "addNoreplaceNew", "findOrNew"} /\ a.found # None
           \/ a.op \in Removes /\ a.found = None
        /\ Leave(u)
        /\ UNCHANGED <<values, object, iters, out>>

\* Mutant of Compact: the table is always compacted.
CompactAlways(it) == Rebuilt(it)

\* The end of remove() with fill: values.resize(0) when no iterator is out.
Compact(it) == IF out = 0 THEN Rebuilt(it) ELSE it

\* A removal of a key that was found: the pair is erased under the lock, the key and
\* the data are deleted after it.
Erase(u) ==
    LET a == doing[u]
    IN  /\ a.op \in Removes /\ a.found # None
        /\ values' = [values EXCEPT ![a.key] = None]
        /\ iters' = LET it == Without(iters, a.key) IN IF a.op = "removeFill" THEN Compact(it) ELSE it
        /\ lock' = Nobody
        /\ doing' = [doing EXCEPT ![u] = [Resting EXCEPT !.op = "delete", !.v = a.found]]
        /\ UNCHANGED <<object, out>>

Delete(u) ==
    /\ doing[u].op = "delete"
    /\ object' = [object EXCEPT ![doing[u].v] = Gone]
    /\ doing' = [doing EXCEPT ![u] = Resting]
    /\ UNCHANGED <<lock, values, iters, out>>

\* removeAll(), which the destructor calls: no iterator may be out.
RemoveAll(u) ==
    /\ doing[u] = Resting /\ lock = Nobody /\ out = 0
    /\ values' = [k \in HKey |-> None]
    /\ object' = [o \in Object |-> IF \E k \in HKey : values[k] = o THEN Gone ELSE object[o]]
    /\ UNCHANGED <<lock, doing, iters, out>>

\* find(), both of them: a lookup, whoever holds the lock, and an unlock, which lets
\* go of the lock of a call of another thread.
Find(u) ==
    /\ doing[u] = Resting
    /\ lock' = Nobody
    /\ UNCHANGED <<values, object, doing, iters, out>>

-----------------------------------------------------------------------------
\* The first key at or behind k.
From(k) == IF {j \in Stored : j >= k} = {} THEN AtEnd ELSE Min({j \in Stored : j >= k})

\* HashIterator() and gotoStart().
GotoStart(u) ==
    /\ doing[u] = Resting /\ lock = Nobody /\ iters[u] = NoIter
    /\ ~\E w \in User : doing[w].op \in Adds
    /\ out' = out + 1
    /\ iters' = [iters EXCEPT ![u] = [at |-> From(1), due |-> Stored \ {From(1)}, moved |-> FALSE]]
    /\ UNCHANGED <<lock, values, object, doing>>

\* getNext(), without the lock.
GetNext(u) ==
    /\ iters[u] # NoIter /\ iters[u].at # AtEnd
    /\ iters' = [iters EXCEPT ![u].at = From(@ + 1), ![u].due = @ \ {From(iters[u].at + 1)}]
    /\ UNCHANGED <<lock, values, object, doing, out>>

\* setData(): the pointer is replaced; the caller, who has the old one from data(),
\* deletes it.
SetData(u, d) ==
    LET k == iters[u].at
    IN  /\ iters[u] # NoIter /\ k # AtEnd /\ ~Sparse /\ Unused # {} /\ lock = Nobody
        /\ values[k] # None
        /\ object' = Replace(values[k], Min(Unused), d)
        /\ values' = [values EXCEPT ![k] = Min(Unused)]
        /\ UNCHANGED <<lock, doing, iters, out>>

\* release() and releaseIter().
ReleaseIter(u) ==
    /\ doing[u] = Resting /\ lock = Nobody /\ iters[u] # NoIter
    /\ out' = IF out > 0 THEN out - 1 ELSE out
    /\ iters' = [iters EXCEPT ![u] = NoIter]
    /\ UNCHANGED <<lock, values, object, doing>>

Finish(u) == AddNew(u) \/ AddOver(u) \/ NothingToDo(u) \/ Erase(u) \/ Delete(u)
Next ==
    \E u \in User :
       \/ \E op \in Offered, k \in HKey, d \in Data :
             (\A w \in User : iters[w] = NoIter) /\ Enter(u, op, k, d)
       \/ \E op \in Removes, k \in HKey : Enter(u, op, k, Made)
       \/ Finish(u) \/ RemoveAll(u)
       \/ GotoStart(u) \/ GetNext(u) \/ ReleaseIter(u)
       \/ \E d \in Data : SetData(u, d)

\* A program that uses find() too.
FindNext == Next \/ \E u \in User : Find(u)
FindSpec == Init /\ [][FindNext]_hashVars

-----------------------------------------------------------------------------
\* "manages the memory of the data it holds" (class comment, line 31): an object that is
\* allocated is the data of one key, or of a removal that is about to delete it, through
\* any interleaving of the calls that acquire the lock.  With find() among the calls two
\* threads change a key on the same lookup, and it fails.
DataAccounted ==
    LET erased == {doing[u].v : u \in {w \in User : doing[w].op = "delete"}}
    IN  /\ {o \in Object : object[o] # Gone} = {values[k] : k \in Stored} \cup erased
        /\ \A j, k \in Stored : values[j] = values[k] => j = k
        /\ erased \cap {values[k] : k \in Stored} = {}

\* A removal while iterators are out does not rebuild the table under them: an
\* iterator that has reached the end has shown every key that was there all along.
IteratorsStand ==
    /\ out = Cardinality({u \in User : iters[u] # NoIter})
    /\ \A u \in User : ~iters[u].moved /\ (iters[u].at = AtEnd => iters[u].due = {})
=============================================================================

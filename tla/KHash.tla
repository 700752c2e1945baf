-------------------------------- MODULE KHash --------------------------------
(***************************************************************************)
(* TW_KHash_32 (include/TW/tw_khash.h): a hash table with open addressing, *)
(* deleted marks and a rehash in place that moves elements by kicking out  *)
(* the ones in their way.  The calls that change the table and find() hold *)
(* _lock from their first to their last access, so those of all threads    *)
(* are a sequence of steps.  HashIterator and size() take no lock: one     *)
(* thread iterates, between the calls of the others.                       *)
(*                                                                         *)
(* map is the function from keys to data the table stands for.             *)
(***************************************************************************)
EXTENDS Integers, SequencesExt

CONSTANTS Key,
          Hash,       \* per key: the hash
          Step,       \* per key: the odd number ((h >> 3) ^ (h << 3)) | 1 of its hash
          Val,        \* the data; DATA() is Fresh
          Absent,     \* no key, no data
          MaxBuckets  \* inserts that would make the table larger are left out
Fresh == "fresh"

VARIABLES tab,        \* KHASHMAP: n_buckets, size, n_occupied and the three arrays
          objects,    \* the number of DATA objects allocated and not deleted
          map,
          it,         \* the iterator: _iter, or NoIter
          seen        \* the keys it has shown
khashVars == <<tab, objects, map, it, seen>>
NoIter == -1

Buckets(n) == 0..(n - 1)
NoTable == [n |-> 0, size |-> 0, occ |-> 0,
            flag |-> [i \in {} |-> "empty"], key |-> [i \in {} |-> Absent], val |-> [i \in {} |-> Absent]]
Init ==
    /\ tab = NoTable /\ objects = 0
    /\ map = [k \in Key |-> Absent]
    /\ it = NoIter /\ seen = {}

-----------------------------------------------------------------------------
\* upper_bound: 0.77 n + 0.5, rounded down; 0 before the first insert.
UpperBound(n) == IF n = 0 THEN 0 ELSE (77 * n + 50) \div 100

\* The j-th bucket that is tried for key k in a table of n.
Probe(n, k, j) == (Hash[k] + j * Step[k]) % n

\* The tries at which a search for k in t ends: an empty bucket, or k itself.
Ends(t, k) ==
    {j \in Buckets(t.n) : LET i == Probe(t.n, k, j)
                          IN  t.flag[i] = "empty" \/ (t.flag[i] = "set" /\ t.key[i] = k)}

\* Mutant of kh_get: a deleted bucket ends the search.
kh_getStopsAtDeleted(t, k) ==
    LET ends == Ends(t, k) \cup {j \in Buckets(t.n) : t.flag[Probe(t.n, k, j)] = "del"}
    IN  IF ends = {} THEN t.n
        ELSE LET i == Probe(t.n, k, Min(ends))
             IN  IF t.flag[i] = "set" THEN i ELSE t.n

\* kh_get_A(): the bucket of k, or n_buckets.
kh_get(t, k) ==
    LET ends == Ends(t, k)
    IN  IF ends = {} THEN t.n
        ELSE LET i == Probe(t.n, k, Min(ends))
             IN  IF t.flag[i] = "set" THEN i ELSE t.n

\* A rehash under way: the flags of the old table and of the new one, both arrays,
\* the old buckets that have been looked at, and the element that is being moved, when
\* there is one.  The first bucket that is tried for an element and is empty by the
\* new flags:
FirstFree(new, n, k) == Probe(n, k, Min({i \in Buckets(n) : new[Probe(n, k, i)] = "empty"}))

\* One turn of the inner loop.  The element goes to the first free bucket; one that
\* still lives there by the old flags is kicked out and is moved next.
Kick(r, n) ==
    LET i == FirstFree(r.new, n, r.k)
        kicked == i \in DOMAIN r.old /\ r.old[i] = "set"
    IN  [old |-> IF kicked THEN [r.old EXCEPT ![i] = "del"] ELSE r.old, new |-> [r.new EXCEPT ![i] = "set"],
         key |-> [r.key EXCEPT ![i] = r.k], val |-> [r.val EXCEPT ![i] = r.v],
         j |-> r.j, k |-> r.key[i], v |-> r.val[i], moving |-> kicked]

\* One turn of the loop over the old buckets: an element is taken out of bucket j.
Lift(r) ==
    IF r.old[r.j] = "set"
    THEN [old |-> [r.old EXCEPT ![r.j] = "del"], new |-> r.new, key |-> r.key, val |-> r.val,
          j |-> r.j + 1, k |-> r.key[r.j], v |-> r.val[r.j], moving |-> TRUE]
    ELSE [r EXCEPT !.j = @ + 1]

\* realloc() of the arrays to n buckets, if that is more.
Extend(f, t, n) == [i \in Buckets(IF n > t.n THEN n ELSE t.n) |-> IF i < t.n THEN f[i] ELSE Absent]
Started(t, n) ==
    [old |-> t.flag, new |-> [i \in Buckets(n) |-> "empty"],
     key |-> Extend(t.key, t, n), val |-> Extend(t.val, t, n), 
     j |-> 0, k |-> Absent, v |-> Absent, moving |-> FALSE]
Kept(f, flags, n) == [i \in Buckets(n) |-> IF flags[i] = "set" THEN f[i] ELSE Absent]

\* The table after the loop: the new flags, and the arrays cut to n buckets.
Rehashed(t, n, r) ==
    [n |-> n, size |-> t.size, occ |-> t.size, flag |-> [i \in Buckets(n) |-> r.new[i]],
     key |-> Kept(r.key, r.new, n), val |-> Kept(r.val, r.new, n)]

\* Both loops: each of the t.n buckets is looked at, and each element is put in its
\* place, once.
Turn(t, r, n) == IF r.moving THEN Kick(r, n) ELSE IF r.j < t.n THEN Lift(r) ELSE r
Rehash(t, n) ==
    LET after[m \in 0..2 * t.n] == IF m = 0 THEN Started(t, n) ELSE Turn(t, after[m - 1], n)
    IN  after[2 * t.n]

\* kh_resize_A() to n buckets, a power of two.  It does nothing when they are too few
\* for the elements.
kh_resize(t, n) == IF t.size >= UpperBound(n) THEN t ELSE Rehashed(t, n, Rehash(t, n))

\* The size kh_put_A() resizes to: the same when most of the occupied buckets are
\* deleted ones, else the next one, 4 at least.
NewSize(t) == IF t.n > 2 * t.size THEN t.n ELSE IF t.n = 0 THEN 4 ELSE 2 * t.n

\* Mutant of Room: one bucket more may be occupied than there are.
RoomLate(t) == IF t.occ >= t.n THEN kh_resize(t, NewSize(t)) ELSE t

\* kh_put_A() resizes a table that has reached its upper bound.
Room(t) == IF t.occ >= UpperBound(t.n) THEN kh_resize(t, NewSize(t)) ELSE t

\* The bucket for k when the search for it ends after `last' tries: the last deleted
\* one that was passed, when it ends at an empty one.
PutAt(t, k, last) ==
    LET dels == {j \in 0..last : t.flag[Probe(t.n, k, j)] = "del"}
    IN  IF t.flag[Probe(t.n, k, last)] = "empty" /\ dels # {} THEN Probe(t.n, k, Max(dels))
        ELSE Probe(t.n, k, last)

\* Bucket x is set, and counted; one that was deleted is occupied already.
SetBucket(t, k, x) ==
    IF t.flag[x] = "set" THEN t
    ELSE [t EXCEPT !.key[x] = k, !.flag[x] = "set", !.size = @ + 1,
                   !.occ = IF t.flag[x] = "empty" THEN @ + 1 ELSE @]

\* kh_put_A() and the store of v in the bucket it returns.
PutIn(t, k, v, x) == [SetBucket(t, k, x) EXCEPT !.val[x] = v]
kh_put(t, k, v) == PutIn(t, k, v, PutAt(t, k, Min(Ends(t, k))))

\* kh_del_A(): the bucket is marked, the count of occupied buckets stays.  What a
\* bucket that is not set holds is never read, and is Absent in this model.
kh_del(t, x) ==
    IF x # t.n /\ t.flag[x] = "set"
    THEN [t EXCEPT !.flag[x] = "del", !.size = @ - 1, !.key[x] = Absent, !.val[x] = Absent] ELSE t

\* kh_clear_A(): all buckets are empty again.
kh_clear(t) == [n |-> t.n, size |-> 0, occ |-> 0, flag |-> [i \in Buckets(t.n) |-> "empty"],
                key |-> [i \in Buckets(t.n) |-> Absent], val |-> [i \in Buckets(t.n) |-> Absent]]

-----------------------------------------------------------------------------
Has(k) == kh_get(tab, k) # tab.n
Fits(k) == tab.occ < UpperBound(tab.n) \/ NewSize(tab) <= MaxBuckets

\* A key the table does not have gets a bucket and new data.  While an iterator is
\* out a program does not insert: a resize would move what it has not shown.
Insert(k, v) ==
    /\ ~Has(k) /\ Fits(k) /\ it = NoIter
    /\ tab' = kh_put(Room(tab), k, v)
    /\ objects' = objects + 1
    /\ map' = [map EXCEPT ![k] = v]
    /\ UNCHANGED <<it, seen>>

\* The data of a key the table has is deleted and other data put in its place.
Overwrite(k, v) ==
    /\ Has(k)
    /\ tab' = [tab EXCEPT !.val[kh_get(tab, k)] = v]
    /\ map' = [map EXCEPT ![k] = v]
    /\ UNCHANGED <<objects, it, seen>>

Same == UNCHANGED khashVars

\* addReplace(), with and without the old data; addReplaceNew(); addNoreplace();
\* addNoreplaceNew(); findOrNew().
AddReplace(k, v) == Insert(k, v) \/ Overwrite(k, v)
AddReplaceNew(k) == Insert(k, Fresh) \/ Overwrite(k, Fresh)
AddNoreplace(k, v) == Insert(k, v) \/ (Has(k) /\ Same)
AddNoreplaceNew(k) == Insert(k, Fresh) \/ (Has(k) /\ Same)
FindOrNew(k) == Insert(k, Fresh) \/ (Has(k) /\ Same)

\* remove(), with and without the data.
RemoveKey(k) ==
    /\ tab' = kh_del(tab, kh_get(tab, k))
    /\ objects' = IF Has(k) THEN objects - 1 ELSE objects
    /\ map' = [map EXCEPT ![k] = Absent]
    /\ UNCHANGED <<it, seen>>

\* removeAll(): the data and the keys of all buckets that are set are deleted.
RemoveAll ==
    /\ it = NoIter
    /\ tab' = kh_clear(tab)
    /\ objects' = objects - Cardinality({i \in Buckets(tab.n) : tab.flag[i] = "set"})
    /\ map' = [k \in Key |-> Absent]
    /\ UNCHANGED <<it, seen>>

-----------------------------------------------------------------------------
\* The next bucket at or after i that is set, or n_buckets.
SetFrom(i) == Min({tab.n} \cup {j \in i..(tab.n - 1) : tab.flag[j] = "set"})
Show(i) == it' = i /\ seen' = IF i = tab.n THEN seen ELSE seen \cup {tab.key[i]}

GotoStart ==
    /\ it = NoIter
    /\ Show(SetFrom(0))
    /\ UNCHANGED <<tab, objects, map>>

GetNext ==
    /\ it # NoIter /\ it # tab.n
    /\ Show(SetFrom(it + 1))
    /\ UNCHANGED <<tab, objects, map>>

\* setData(): the pointer in the bucket is replaced; the caller has the old one.  The
\* bucket may be one that was emptied since the iterator came to it.
SetData(v) ==
    /\ it # NoIter /\ it # tab.n
    /\ tab' = [tab EXCEPT !.val[it] = v]
    /\ map' = IF tab.flag[it] = "set" THEN [map EXCEPT ![tab.key[it]] = v] ELSE map
    /\ UNCHANGED <<objects, it, seen>>

ReleaseIter == it # NoIter /\ it' = NoIter /\ seen' = {} /\ UNCHANGED <<tab, objects, map>>

Next ==
    \/ \E k \in Key : AddReplaceNew(k) \/ AddNoreplaceNew(k) \/ FindOrNew(k) \/ RemoveKey(k)
    \/ \E k \in Key, v \in Val : AddReplace(k, v) \/ AddNoreplace(k, v)
    \/ \E v \in Val : SetData(v)
    \/ RemoveAll \/ GotoStart \/ GetNext \/ ReleaseIter

-----------------------------------------------------------------------------
\* find() agrees with the function the calls make: after any mixture of inserts,
\* removals and rehashes a key is found exactly when it is there, with its data.
FindsWhatIsThere ==
    \A k \in Key :
        LET i == kh_get(tab, k)
        IN  map[k] = IF i = tab.n THEN Absent ELSE tab.val[i]

\* The searches of kh_get_A and kh_put_A end, because a bucket is always empty, and
\* the two counts are what the flags say.
Marked(f) == Cardinality({i \in Buckets(tab.n) : tab.flag[i] = f})
CountsAgree ==
    /\ tab.size = Marked("set")
    /\ tab.occ = Marked("set") + Marked("del")
    /\ tab.n > 0 => Marked("empty") > 0
    /\ tab.size = Cardinality({k \in Key : map[k] # Absent})

\* "When the Hash is deleted, it will delete data" (class comment): the data objects
\* that are allocated are the ones in the table.
DataInTable == objects = tab.size

\* An iterator over a table that is only removed from or overwritten meanwhile shows
\* every key that is still there before it reports its end.
IterShowsAll == it = tab.n /\ tab.n > 0 => {k \in Key : map[k] # Absent} \subseteq seen

\* Through any mixture of inserts, removals and rehashes find() and the iterator show
\* what the calls have put there, and no data object is lost or left behind.
TableHolds == FindsWhatIsThere /\ DataInTable /\ IterShowsAll
=============================================================================

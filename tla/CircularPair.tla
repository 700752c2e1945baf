---------------------------- MODULE CircularPair ----------------------------
(***************************************************************************)
(* cloneFrom() and transferFrom() of tw_safeCircular                       *)
(* (include/TW/tw_circular.h): calls on two rings, which lock their own    *)
(* semaphore first and then the other ring's.                              *)
(*                                                                         *)
(* The other calls on a ring, which SafeCircular models in full, are here  *)
(* the ones that return at once, each under the mutex of its ring.  The    *)
(* copy of enabled, which no add reads, is left out.  Beside each ring the *)
(* model keeps holds, the elements it should hand out.                     *)
(***************************************************************************)
EXTENDS Integers, SequencesExt

CONSTANTS User,      \* the threads
          Ring,      \* the rings: 1..n
          Elem,      \* the elements
          Size       \* the size they are all constructed with

VARIABLES ring,      \* per ring: cnt, nextIn, nextOut, _reverse, the slots
          owner,     \* per ring: who holds the mutex of its semaphore
          call,      \* per thread: the call it is in
          holds
pairVars == <<ring, owner, call, holds>>

Nobody == "nobody"
Junk == "junk"       \* what a slot holds that was not written, or was moved from
NoCall == [op |-> "none", to |-> 0, from |-> 0]
Slots == 0..(Size - 1)
NewRing == [cnt |-> Size, nextIn |-> -1, nextOut |-> 0, reversed |-> FALSE,
            data |-> [s \in Slots |-> Junk]]

Init ==
    /\ ring = [r \in Ring |-> NewRing]
    /\ owner = [r \in Ring |-> Nobody]
    /\ call = [u \in User |-> NoCall]
    /\ holds = [r \in Ring |-> <<>>]

-----------------------------------------------------------------------------
Remain(x) == Size - x.cnt
Following(x, s) == IF x.reversed THEN IF s - 1 < 0 THEN Size - 1 ELSE s - 1
                                 ELSE IF s + 1 >= Size THEN 0 ELSE s + 1
Contents(x) ==
    LET at[i \in 1..Remain(x)] == IF i = 1 THEN x.nextOut ELSE Following(x, at[i - 1])
    IN  [i \in 1..Remain(x) |-> x.data[at[i]]]

Transfers(u, r) == call[u].op = "transfer" /\ call[u].from = r
Clones(u, r) == call[u].op = "clone" /\ call[u].to = r
Idle(u, r) == call[u] = NoCall /\ owner[r] = Nobody
Becomes(r, x, s) ==
    /\ ring' = [ring EXCEPT ![r] = x]
    /\ holds' = [holds EXCEPT ![r] = s]
    /\ UNCHANGED <<owner, call>>

\* addIfRoom(), with room.
AddIfRoom(u, r, v) ==
    LET x == ring[r]
        s == Following(x, x.nextIn)
    IN  /\ Idle(u, r) /\ x.cnt > 0
        /\ Becomes(r, [x EXCEPT !.cnt = @ - 1, !.nextIn = s, !.data[s] = v], Append(holds[r], v))

\* remove(), from a ring that is not empty: the last element resets the ring.
RemoveNext(u, r) ==
    LET x == ring[r]
        moved == [x EXCEPT !.cnt = @ + 1, !.nextOut = Following(x, @)]
        reset == [x EXCEPT !.cnt = @ + 1, !.nextIn = -1, !.nextOut = 0, !.reversed = FALSE]
    IN  /\ Idle(u, r) /\ Remain(x) > 0
        /\ Becomes(r, IF Remain(x) = 1 THEN reset ELSE moved, Tail(holds[r]))

\* reverse(), which needs an element and, since it takes no lock, a ring to itself.
ReverseRing(u, r) ==
    LET x == ring[r]
    IN  /\ Idle(u, r) /\ Remain(x) > 0 /\ ~\E w \in User : Transfers(w, r)
        /\ Becomes(r, [x EXCEPT !.reversed = ~@, !.nextIn = x.nextOut, !.nextOut = x.nextIn],
                   Reverse(holds[r]))

-----------------------------------------------------------------------------
\* Both calls: lock the own ring, lock the other one.  A program that has two threads
\* do this with the same rings must agree on an order (here: into the lower number);
\* a ring is not copied to itself, which would lock its mutex twice.  transferFrom()
\* leaves _reverse of the other ring as it is, and a ring that is empty and runs
\* downwards hands out slots nobody wrote: a program does not transfer from a ring
\* that it has reversed, nor reverse one it is about to transfer from, or clone a ring
\* that may be reversed to it.
LockOwn(u, op, to, from) ==
    /\ to < from /\ Idle(u, to)
    /\ op = "transfer" => ~ring[from].reversed /\ ~\E w \in User : Clones(w, from)
    /\ op = "clone" => ~\E w \in User : Transfers(w, to)
    /\ owner' = [owner EXCEPT ![to] = u]
    /\ call' = [call EXCEPT ![u] = [op |-> op, to |-> to, from |-> from]]
    /\ UNCHANGED <<ring, holds>>

LockOther(u) ==
    LET from == call[u].from
    IN  /\ call[u] # NoCall /\ owner[from] = Nobody
        /\ owner' = [owner EXCEPT ![from] = u]
        /\ UNCHANGED <<ring, call, holds>>

HasBoth(u, op) == call[u].op = op /\ owner[call[u].from] = u

\* The end of both calls: the two unlocks.
Unlock(u) ==
    /\ owner' = [owner EXCEPT ![call[u].to] = Nobody, ![call[u].from] = Nobody]
    /\ call' = [call EXCEPT ![u] = NoCall]

\* cloneFrom() between rings of objects: count, indices, direction and every slot.
CloneFrom(u) ==
    LET to == call[u].to
        from == call[u].from
    IN  /\ HasBoth(u, "clone")
        /\ ring' = [ring EXCEPT ![to] = ring[from]]
        /\ holds' = [holds EXCEPT ![to] = holds[from]]
        /\ Unlock(u)

\* Mutant of Emptied: the count of the other ring is reset, its indices are not.
EmptiedKeepsIndices(x) == [x EXCEPT !.cnt = Size, !.data = [s \in Slots |-> Junk]]

\* What transferFrom() leaves of the other ring: resetNoLock() and the indices of an
\* empty ring, the slots moved from.  _reverse stays as it is.
Emptied(x) == [x EXCEPT !.cnt = Size, !.nextIn = -1, !.nextOut = 0,
                        !.data = [s \in Slots |-> Junk]]

\* transferFrom() between rings of objects.
TransferFrom(u) ==
    LET to == call[u].to
        from == call[u].from
    IN  /\ HasBoth(u, "transfer")
        /\ ring' = [ring EXCEPT ![to] = ring[from], ![from] = Emptied(ring[from])]
        /\ holds' = [holds EXCEPT ![to] = holds[from], ![from] = <<>>]
        /\ Unlock(u)

Next == \E u \in User :
    \/ \E r \in Ring : (\E v \in Elem : AddIfRoom(u, r, v)) \/ RemoveNext(u, r) \/ ReverseRing(u, r)
    \/ \E to, from \in Ring, op \in {"clone", "transfer"} : LockOwn(u, op, to, from)
    \/ LockOther(u) \/ CloneFrom(u) \/ TransferFrom(u)

-----------------------------------------------------------------------------
\* Whatever adds, removals and reversals come between the two locks of a copy, each
\* ring hands out what it should: a clone what the other ring held when both were
\* locked, a ring that was transferred from nothing until something is added.
RingsKeepElements == \A r \in Ring : Contents(ring[r]) = holds[r]
=============================================================================

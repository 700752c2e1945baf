------------------------------ MODULE PlainFIFO ------------------------------
(***************************************************************************)
(* tw_FIFO (include/TW/tw_fifo.h): the queue for one thread, a singly      *)
(* linked chain that is added to at in and removed from at out.  Two       *)
(* queues share a heap of links, so that one can be copied from the other  *)
(* or take its links over.                                                 *)
(***************************************************************************)
EXTENDS Integers, SequencesExt, Chains

CONSTANTS Link,      \* the links malloc() can hand out: 1..n
          Null,      \* the null pointer
          Elem       \* the elements; addEmpty() adds Default
Default == "default"
Queues == {1, 2}

VARIABLES link,      \* per link: its d and next, and whether it is allocated
          fifo,      \* per queue: in, out, remain, enabled
          cursor,    \* the iterator: its look, and the queue it is on, 0 for none
          queued,    \* per queue: the elements it should hold
          ahead      \* the elements the iterator has still to show
fifoVars == <<link, fifo, cursor, queued, ahead>>

NoLink == [d |-> Default, next |-> Null, live |-> FALSE]
NewQueue == [in |-> Null, out |-> Null, remain |-> 0, enabled |-> TRUE]
NoCursor == [look |-> Null, on |-> 0]

Init ==
    /\ link = [n \in Link |-> NoLink]
    /\ fifo = [q \in Queues |-> NewQueue]
    /\ cursor = NoCursor
    /\ queued = [q \in Queues |-> <<>>] /\ ahead = <<>>

\* The links from n on.
Chain(n) == Follow(n, [x \in Link |-> link[x].next], Null, Cardinality(Link))
Content(q) == LET c == Chain(fifo[q].out) IN [k \in DOMAIN c |-> link[c[k]].d]

Free == {n \in Link : ~link[n].live}
Malloc == IF Free = {} THEN {} ELSE {Min(Free)}
Freed(S) == [n \in Link |-> IF n \in S THEN NoLink ELSE link[n]]
\* An iterator holds a bare pointer: its queue frees no link while one is out.
Unwatched(q) == cursor.on # q
SetQueued(q, s) == queued' = [queued EXCEPT ![q] = s]

-----------------------------------------------------------------------------
\* add() and addEmpty().
Add(q, v) ==
    /\ fifo[q].enabled
    /\ \E n \in Malloc :
          /\ link' = [x \in Link |->
                IF x = n THEN [d |-> v, next |-> Null, live |-> TRUE]
                ELSE IF x = fifo[q].in THEN [link[x] EXCEPT !.next = n] ELSE link[x]]
          /\ fifo' = [fifo EXCEPT ![q].in = n, ![q].out = IF @ = Null THEN n ELSE @, ![q].remain = @ + 1]
    /\ SetQueued(q, Append(queued[q], v))
    /\ ahead' = IF cursor.on = q /\ ahead # <<>> THEN Append(ahead, v) ELSE ahead
    /\ UNCHANGED cursor

AddToHead(q, v) ==
    /\ fifo[q].enabled
    /\ \E n \in Malloc :
          /\ link' = [link EXCEPT ![n] = [d |-> v, next |-> fifo[q].out, live |-> TRUE]]
          /\ fifo' = [fifo EXCEPT ![q].out = n, ![q].in = IF @ = Null THEN n ELSE @, ![q].remain = @ + 1]
    /\ SetQueued(q, <<v>> \o queued[q])
    /\ UNCHANGED <<cursor, ahead>>

AddDisabled(q) == ~fifo[q].enabled /\ UNCHANGED fifoVars

\* remove(): in is reset when the last link goes.
RemoveOut(q) ==
    LET n == fifo[q].out
    IN  /\ Unwatched(q) /\ n # Null
        /\ fifo' = [fifo EXCEPT ![q].in = IF @ = n THEN Null ELSE @,
                                ![q].out = link[n].next, ![q].remain = @ - 1]
        /\ link' = Freed({n})
        /\ SetQueued(q, Tail(queued[q]))
        /\ UNCHANGED <<cursor, ahead>>

\* Mutant of TransferFrom: the other queue keeps its links.
TransferFromShares(q, o) ==
    LET moved == Chain(fifo[o].out)
    IN  /\ q # o /\ Unwatched(o) /\ fifo[q].enabled
        /\ fifo[q].in # Null \/ fifo[o].out # Null
        /\ link' = IF moved # <<>> /\ fifo[q].in # Null
                   THEN [link EXCEPT ![fifo[q].in].next = fifo[o].out] ELSE link
        /\ fifo' = [fifo EXCEPT ![q].in = IF moved = <<>> THEN @ ELSE Last(moved),
                                ![q].out = IF @ = Null THEN fifo[o].out ELSE @,
                                ![q].remain = @ + Len(moved)]
        /\ queued' = [queued EXCEPT ![q] = @ \o queued[o]]
        /\ ahead' = IF cursor.on = q /\ ahead # <<>> THEN ahead \o queued[o] ELSE ahead
        /\ UNCHANGED cursor

\* transferFrom(): the links of the other queue are hung on, and in walks to the
\* last of them.  With both queues empty the walk starts at a null pointer.
TransferFrom(q, o) ==
    LET moved == Chain(fifo[o].out)
    IN  /\ q # o /\ Unwatched(o) /\ fifo[q].enabled
        /\ fifo[q].in # Null \/ fifo[o].out # Null
        /\ link' = IF moved # <<>> /\ fifo[q].in # Null
                   THEN [link EXCEPT ![fifo[q].in].next = fifo[o].out] ELSE link
        /\ fifo' = [fifo EXCEPT
              ![q] = [in |-> IF moved = <<>> THEN @.in ELSE Last(moved),
                      out |-> IF @.out = Null THEN fifo[o].out ELSE @.out,
                      remain |-> @.remain + Len(moved), enabled |-> @.enabled],
              ![o] = [in |-> Null, out |-> Null, remain |-> 0, enabled |-> @.enabled]]
        /\ queued' = [queued EXCEPT ![q] = @ \o queued[o], ![o] = <<>>]
        /\ ahead' = IF cursor.on = q /\ ahead # <<>> THEN ahead \o queued[o] ELSE ahead
        /\ UNCHANGED cursor

\* clearAll(), and the destructor of a queue that is constructed anew.
Cleared(q) == ToSet(Chain(fifo[q].out))
ClearAll(q) ==
    /\ Unwatched(q)
    /\ link' = Freed(Cleared(q))
    /\ fifo' = [fifo EXCEPT ![q].in = Null, ![q].out = Null, ![q].remain = 0]
    /\ SetQueued(q, <<>>)
    /\ UNCHANGED <<cursor, ahead>>

Destroy(q) ==
    /\ Unwatched(q)
    /\ link' = Freed(Cleared(q))
    /\ fifo' = [fifo EXCEPT ![q] = NewQueue]
    /\ SetQueued(q, <<>>)
    /\ UNCHANGED <<cursor, ahead>>

\* The copy constructor takes the links of the other queue over.
Construct(q, o) == fifo[q] = NewQueue /\ fifo[o].out # Null /\ TransferFrom(q, o)

\* operator=: clearAll(), then one new link after the other.  From an empty queue in
\* is set to an uninitialised pointer, so the program does not assign one.
Assign(q, o) ==
    LET from == Chain(fifo[o].out)
        spare == Free \cup Cleared(q)
        new == SubSeq(SetToSeq(spare), 1, Len(from))
        In(n) == CHOOSE k \in DOMAIN new : new[k] = n
    IN  /\ q # o /\ Unwatched(q) /\ from # <<>> /\ Len(from) <= Cardinality(spare)
        /\ link' = [n \in Link |->
              IF n \in ToSet(new)
              THEN [d |-> link[from[In(n)]].d, live |-> TRUE,
                    next |-> IF In(n) < Len(new) THEN new[In(n) + 1] ELSE Null]
              ELSE Freed(Cleared(q))[n]]
        /\ fifo' = [fifo EXCEPT ![q] = [in |-> Last(new), out |-> new[1], remain |-> Len(new),
                                        enabled |-> fifo[o].enabled]]
        /\ SetQueued(q, queued[o])
        /\ UNCHANGED <<cursor, ahead>>

Enable(q) == fifo' = [fifo EXCEPT ![q].enabled = TRUE] /\ UNCHANGED <<link, cursor, queued, ahead>>
Disable(q) == fifo' = [fifo EXCEPT ![q].enabled = FALSE] /\ UNCHANGED <<link, cursor, queued, ahead>>

-----------------------------------------------------------------------------
StartIter(q) ==
    /\ cursor' = [look |-> fifo[q].out, on |-> q] /\ ahead' = queued[q]
    /\ UNCHANGED <<link, fifo, queued>>

GetNext ==
    /\ cursor.look # Null
    /\ cursor' = [cursor EXCEPT !.look = link[@].next]
    /\ ahead' = Tail(ahead)
    /\ UNCHANGED <<link, fifo, queued>>

ReleaseIter ==
    /\ cursor # NoCursor
    /\ cursor' = NoCursor /\ ahead' = <<>>
    /\ UNCHANGED <<link, fifo, queued>>

Next ==
    \/ \E q \in Queues :
         \/ \E v \in Elem \cup {Default} : Add(q, v) \/ AddToHead(q, v)
         \/ AddDisabled(q) \/ RemoveOut(q) \/ ClearAll(q) \/ Destroy(q)
         \/ Enable(q) \/ Disable(q) \/ StartIter(q)
         \/ \E o \in Queues : TransferFrom(q, o) \/ Construct(q, o) \/ Assign(q, o)
    \/ GetNext \/ ReleaseIter

-----------------------------------------------------------------------------
\* A queue gives its elements in the order they were added, transferred links and
\* elements put at the head included; in is the last link, and remain the count.
QueueInOrder ==
    \A q \in Queues :
        LET c == Chain(fifo[q].out)
        IN  /\ Content(q) = queued[q] /\ fifo[q].remain = Len(queued[q])
            /\ fifo[q].in = IF c = <<>> THEN Null ELSE Last(c)

\* Each link that is allocated is in one queue, and no queue holds a freed one.
LinksInOneQueue ==
    LET In(q) == ToSet(Chain(fifo[q].out))
    IN  In(1) \cap In(2) = {} /\ In(1) \cup In(2) = Link \ Free

\* The iterator shows every element from where it stands to the end, the ones added
\* behind it included.
IterShowsRest ==
    LET c == Chain(cursor.look) IN [k \in DOMAIN c |-> link[c[k]].d] = ahead

\* Through any adds at both ends, removals, transfers and copies between two queues
\* each queue gives its elements in order, no link is shared or lost, and an iterator
\* shows the elements that are left.
QueuesHold == QueueInOrder /\ LinksInOneQueue /\ IterShowsRest
=============================================================================

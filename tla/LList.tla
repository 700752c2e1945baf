-------------------------------- MODULE LList --------------------------------
(***************************************************************************)
(* LList (include/TW/tw_list.h): a doubly linked list with an iterator     *)
(* that can remove what it stands on.  Two lists share a heap of links, so *)
(* that one can be copied from the other or take its links over.           *)
(*                                                                         *)
(* seq is what the calls would make of two sequences.                      *)
(***************************************************************************)
EXTENDS Integers, SequencesExt, Chains

CONSTANTS Node,   \* the links malloc() can hand out: 1..n
          Nil,    \* the null pointer
          Item    \* the elements; addEmptyTail() adds Blank
Blank == "blank"
Lists == {1, 2}

VARIABLES d, next, prev,   \* the fields of each link
          live,            \* the links that are allocated
          unlinked,        \* the links removeLink() took out: it does not free them
          head, tail, remain, enabled,   \* per list
          look, owner,     \* the iterator: a link, and a list or 0
          seq,             \* per list: the sequence it stands for
          pos              \* the place of the iterator in the sequence, 0 at the end

linkVars == <<d, next, prev, live, unlinked>>
endVars == <<head, tail, remain, enabled>>
iterVars == <<look, owner, pos>>
listVars == <<linkVars, endVars, iterVars, seq>>

Init ==
    /\ d = [n \in Node |-> Blank] /\ next = [n \in Node |-> Nil] /\ prev = [n \in Node |-> Nil]
    /\ live = {} /\ unlinked = {}
    /\ head = [l \in Lists |-> Nil] /\ tail = [l \in Lists |-> Nil]
    /\ remain = [l \in Lists |-> 0] /\ enabled = [l \in Lists |-> TRUE]
    /\ look = Nil /\ owner = 0 /\ pos = 0
    /\ seq = [l \in Lists |-> <<>>]

\* The links reached from n by following f, Nil excluded, in order.
Walk(f, n) == Follow(n, f, Nil, Cardinality(Node))

\* malloc() hands out the first link that is free.
NewNode == IF live = Node THEN {} ELSE {Min(Node \ live)}

\* Calls that free links are for a list no iterator is on.  A freed link is wiped
\* here, to keep the states few.
NoIterOn(l) == owner # l
Fill(f, S, v) == [x \in DOMAIN f |-> IF x \in S THEN v ELSE f[x]]

-----------------------------------------------------------------------------
\* addToTail() and addEmptyTail().
AddToTail(l, v) ==
    /\ enabled[l]
    /\ \E n \in NewNode :
          /\ live' = live \cup {n}
          /\ d' = [d EXCEPT ![n] = v]
          /\ next' = [x \in Node |-> IF x = n THEN Nil ELSE IF x = tail[l] THEN n ELSE next[x]]
          /\ prev' = [prev EXCEPT ![n] = tail[l]]
          /\ tail' = [tail EXCEPT ![l] = n]
          /\ head' = [head EXCEPT ![l] = IF @ = Nil THEN n ELSE @]
    /\ remain' = [remain EXCEPT ![l] = @ + 1]
    /\ seq' = [seq EXCEPT ![l] = Append(@, v)]
    /\ UNCHANGED <<enabled, unlinked, iterVars>>

AddToHead(l, v) ==
    /\ enabled[l]
    /\ \E n \in NewNode :
          /\ live' = live \cup {n}
          /\ d' = [d EXCEPT ![n] = v]
          /\ next' = [next EXCEPT ![n] = head[l]]
          /\ prev' = [x \in Node |-> IF x = n THEN Nil ELSE IF x = head[l] THEN n ELSE prev[x]]
          /\ head' = [head EXCEPT ![l] = n]
          /\ tail' = [tail EXCEPT ![l] = IF @ = Nil THEN n ELSE @]
    /\ remain' = [remain EXCEPT ![l] = @ + 1]
    /\ seq' = [seq EXCEPT ![l] = <<v>> \o @]
    /\ pos' = IF owner = l /\ pos > 0 THEN pos + 1 ELSE pos
    /\ UNCHANGED <<enabled, unlinked, look, owner>>

AddDisabled(l) == ~enabled[l] /\ UNCHANGED listVars

RemoveHead(l) ==
    LET n == head[l]
    IN  /\ NoIterOn(l) /\ n # Nil
        /\ tail' = [tail EXCEPT ![l] = IF n = @ THEN Nil ELSE @]
        /\ head' = [head EXCEPT ![l] = next[n]]
        /\ prev' = Fill(prev, {n, next[n]}, Nil)
        /\ next' = Fill(next, {n}, Nil) /\ d' = Fill(d, {n}, Blank)
        /\ live' = live \ {n}
        /\ remain' = [remain EXCEPT ![l] = @ - 1]
        /\ seq' = [seq EXCEPT ![l] = Tail(@)]
        /\ UNCHANGED <<unlinked, enabled, iterVars>>

RemoveTail(l) ==
    LET n == tail[l]
    IN  /\ NoIterOn(l) /\ n # Nil
        /\ head' = [head EXCEPT ![l] = IF n = @ THEN Nil ELSE @]
        /\ tail' = [tail EXCEPT ![l] = prev[n]]
        /\ next' = Fill(next, {n, prev[n]}, Nil)
        /\ prev' = Fill(prev, {n}, Nil) /\ d' = Fill(d, {n}, Blank)
        /\ live' = live \ {n}
        /\ remain' = [remain EXCEPT ![l] = @ - 1]
        /\ seq' = [seq EXCEPT ![l] = Front(@)]
        /\ UNCHANGED <<unlinked, enabled, iterVars>>

\* transferFrom(): all links of the other list are hung on the tail.  With both
\* lists empty the code follows a null tail.
TransferFrom(l, o) ==
    LET moved == Walk(next, head[o])
    IN  /\ o # l /\ NoIterOn(o) /\ enabled[l]
        /\ head[l] # Nil \/ head[o] # Nil
        /\ next' = Fill(next, IF head[o] # Nil THEN {tail[l]} ELSE {}, head[o])
        /\ prev' = Fill(prev, IF tail[l] # Nil THEN {head[o]} ELSE {}, tail[l])
        /\ tail' = [tail EXCEPT ![l] = IF moved = <<>> THEN @ ELSE Last(moved), ![o] = Nil]
        /\ head' = [head EXCEPT ![l] = IF @ = Nil THEN head[o] ELSE @, ![o] = Nil]
        /\ remain' = [remain EXCEPT ![l] = @ + Len(moved), ![o] = 0]
        /\ seq' = [seq EXCEPT ![l] = @ \o seq[o], ![o] = <<>>]
        /\ UNCHANGED <<d, live, unlinked, enabled, iterVars>>

\* clearAll() frees the links reached from head.
Cleared(l) == ToSet(Walk(next, head[l]))
ClearAll(l) ==
    /\ NoIterOn(l)
    /\ live' = live \ Cleared(l)
    /\ next' = Fill(next, Cleared(l), Nil) /\ prev' = Fill(prev, Cleared(l), Nil)
    /\ d' = Fill(d, Cleared(l), Blank)
    /\ head' = [head EXCEPT ![l] = Nil] /\ tail' = [tail EXCEPT ![l] = Nil]
    /\ remain' = [remain EXCEPT ![l] = 0]
    /\ seq' = [seq EXCEPT ![l] = <<>>]
    /\ UNCHANGED <<unlinked, enabled, iterVars>>

\* operator=, and the copy constructor, which uses it: clearAll(), then one new link
\* after the other.  Copying an empty list leaves tail undefined, so the program
\* does not.
Assign(l, o) ==
    /\ o # l /\ NoIterOn(l) /\ head[o] # Nil
    /\ LET from == Walk(next, head[o])
           free == (Node \ live) \cup Cleared(l)
       IN  /\ Len(from) <= Cardinality(free)
           /\ LET new == SubSeq(SetToSeq(free), 1, Len(from))
                  In(n) == CHOOSE k \in DOMAIN new : new[k] = n
                  At(k) == IF k \in DOMAIN new THEN new[k] ELSE Nil
              IN  /\ d' = [n \in Node |-> IF n \in ToSet(new) THEN d[from[In(n)]] ELSE d[n]]
                  /\ next' = [n \in Node |-> IF n \in ToSet(new) THEN At(In(n) + 1) ELSE next[n]]
                  /\ prev' = [n \in Node |-> IF n \in ToSet(new) THEN At(In(n) - 1) ELSE prev[n]]
                  /\ live' = (live \ Cleared(l)) \cup ToSet(new)
                  /\ head' = [head EXCEPT ![l] = new[1]]
                  /\ tail' = [tail EXCEPT ![l] = Last(new)]
                  /\ remain' = [remain EXCEPT ![l] = Len(new)]
    /\ enabled' = [enabled EXCEPT ![l] = enabled[o]]
    /\ seq' = [seq EXCEPT ![l] = seq[o]]
    /\ UNCHANGED <<unlinked, iterVars>>

Enable(l) == enabled' = [enabled EXCEPT ![l] = TRUE] /\ UNCHANGED <<linkVars, head, tail, remain, iterVars, seq>>
Disable(l) == enabled' = [enabled EXCEPT ![l] = FALSE] /\ UNCHANGED <<linkVars, head, tail, remain, iterVars, seq>>

-----------------------------------------------------------------------------
StartIterHead(l) ==
    /\ look' = head[l] /\ owner' = l /\ pos' = IF seq[l] = <<>> THEN 0 ELSE 1
    /\ UNCHANGED <<linkVars, endVars, seq>>
StartIterTail(l) ==
    /\ look' = tail[l] /\ owner' = l /\ pos' = Len(seq[l])
    /\ UNCHANGED <<linkVars, endVars, seq>>
ReleaseIter ==
    /\ look' = Nil /\ owner' = 0 /\ pos' = 0
    /\ UNCHANGED <<linkVars, endVars, seq>>

\* getNext() and getPrev().
GetNext ==
    /\ look # Nil
    /\ look' = next[look] /\ pos' = IF pos < Len(seq[owner]) THEN pos + 1 ELSE 0
    /\ UNCHANGED <<linkVars, endVars, owner, seq>>
GetPrev ==
    /\ look # Nil
    /\ look' = prev[look] /\ pos' = pos - 1
    /\ UNCHANGED <<linkVars, endVars, owner, seq>>

\* setCurrent() and setCurrentVal().
SetCurrent(v) ==
    /\ look # Nil
    /\ d' = [d EXCEPT ![look] = v]
    /\ seq' = [seq EXCEPT ![owner][pos] = v]
    /\ UNCHANGED <<next, prev, live, unlinked, endVars, iterVars>>

\* removeLink(): the link is taken out of the chain, and not freed.
RemoveLink(l, n) ==
    /\ prev' = Fill(prev, {next[n]}, prev[n])
    /\ next' = Fill(next, {prev[n]}, next[n])
    /\ head' = [head EXCEPT ![l] = IF @ = n THEN next[n] ELSE @]
    /\ tail' = [tail EXCEPT ![l] = IF @ = n THEN prev[n] ELSE @]
    /\ remain' = [remain EXCEPT ![l] = @ - 1]
    /\ unlinked' = unlinked \cup {n}
    /\ UNCHANGED <<d, live, enabled>>

RemoveNext ==
    /\ look # Nil
    /\ RemoveLink(owner, look)
    /\ look' = next[look]
    /\ pos' = IF pos < Len(seq[owner]) THEN pos ELSE 0
    /\ seq' = [seq EXCEPT ![owner] = RemoveAt(@, pos)]
    /\ UNCHANGED owner

\* Mutant of RemovePrev: the iterator goes the other way.
RemovePrevForward ==
    /\ look # Nil
    /\ RemoveLink(owner, look)
    /\ look' = next[look]
    /\ pos' = pos - 1
    /\ seq' = [seq EXCEPT ![owner] = RemoveAt(@, pos)]
    /\ UNCHANGED owner

RemovePrev ==
    /\ look # Nil
    /\ RemoveLink(owner, look)
    /\ look' = prev[look]
    /\ pos' = pos - 1
    /\ seq' = [seq EXCEPT ![owner] = RemoveAt(@, pos)]
    /\ UNCHANGED owner

OnList(l) ==
    \/ \E v \in Item : AddToTail(l, v) \/ AddToHead(l, v)
    \/ AddToTail(l, Blank) \/ AddDisabled(l) \/ RemoveHead(l) \/ RemoveTail(l)
    \/ ClearAll(l) \/ Enable(l) \/ Disable(l)
    \/ \E o \in Lists : TransferFrom(l, o) \/ Assign(l, o)
    \/ StartIterHead(l) \/ StartIterTail(l)

Next ==
    \/ \E l \in Lists : OnList(l)
    \/ ReleaseIter \/ GetNext \/ GetPrev \/ RemoveNext \/ RemovePrev
    \/ \E v \in Item : SetCurrent(v)

-----------------------------------------------------------------------------
\* Both chains of pointers run through the elements of the sequence, from head to
\* tail and from tail to head, and remain counts them.
ListIsSequence ==
    \A l \in Lists :
        LET up == Walk(next, head[l])
        IN  /\ [k \in DOMAIN up |-> d[up[k]]] = seq[l]
            /\ Walk(prev, tail[l]) = Reverse(up)
            /\ remain[l] = Len(seq[l])

\* The iterator stays at its place in the sequence, whatever it removes and whatever
\* is added at the ends meanwhile.
IterKeepsPlace ==
    owner # 0 => look = IF pos = 0 THEN Nil ELSE Walk(next, head[owner])[pos]

\* No list holds a freed link or a link of the other list; the links that are
\* allocated and in no list are the ones the iterator removed.
LinksAccounted ==
    LET In(l) == ToSet(Walk(next, head[l]))
    IN  /\ In(1) \cap In(2) = {}
        /\ live = In(1) \cup In(2) \cup unlinked
        /\ unlinked \cap (In(1) \cup In(2)) = {}

\* Through any calls on two lists and an iterator each list is the sequence its calls
\* make, seen from both ends, the iterator keeps its place, no link is in two lists or
\* freed in one, and no link leaks but those removeLink() takes out and does not free.
ListsHold == ListIsSequence /\ IterKeepsPlace /\ LinksAccounted
=============================================================================

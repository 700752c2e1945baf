---------------------------- MODULE MCContainers ----------------------------
(***************************************************************************)
(* The containers that one thread uses at a time, or that hold one lock    *)
(* throughout each call, for TLC: a behaviour picks one of Uses and makes  *)
(* any calls on it.  The others stay as they are constructed.              *)
(***************************************************************************)
EXTENDS Integers, Sequences, FiniteSets

CONSTANTS Uses,                                             \* the containers of a run
          Blk, Handle, Sizes, Wide, MaxBuilt, MaxCalls,      \* BufBlk
          Node, Nil, Item,                                   \* tw_List
          Key, HashOf, StepOf, Val, Absent, MaxBuckets,      \* TW_KHash_32
          Name, Word, Chars,                                 \* TW_StringStringMap
          Link, Null, Elem,                                  \* tw_FIFO
          Cell, Datum,                                       \* tw_Stack
          Array, Value, MaxSize,                             \* DynArray
          KeyName, KeyDatum, KeyChars                        \* TW_StringMapGeneric

VARIABLES use
VARIABLES mem, chain, text, iter, handed, said, calls
VARIABLES d, next, prev, live, unlinked, head, tail, remain, enabled, look, owner, seq, pos
VARIABLES tab, objects, map, it, seen
VARIABLES box, content, mine, stray, stored
VARIABLES link, fifo, cursor, queued, ahead
VARIABLES cell, top, cnt, stacked
VARIABLES store, size, vals
VARIABLES entries, keyContent, keyMap

bufVars == <<mem, chain, text, iter, handed, said, calls>>
listVars == <<d, next, prev, live, unlinked, head, tail, remain, enabled, look, owner, seq, pos>>
khashVars == <<tab, objects, map, it, seen>>
stringVars == <<box, content, mine, stray, stored>>
fifoVars == <<link, fifo, cursor, queued, ahead>>
stackVars == <<cell, top, cnt, stacked>>
arrayVars == <<store, size, vals>>
keyVars == <<entries, keyContent, keyMap>>
vars == <<bufVars, listVars, khashVars, stringVars, fifoVars, stackVars, arrayVars, keyVars, use>>

Buf == INSTANCE BufBlk
List == INSTANCE LList
Hash == INSTANCE KHash WITH Hash <- HashOf, Step <- StepOf
Strings == INSTANCE StringMap WITH said <- stored
Fifo == INSTANCE PlainFIFO
Pile == INSTANCE Stack
Vec == INSTANCE DynArray
Keys == INSTANCE StringKeys WITH Name <- KeyName, Datum <- KeyDatum, Chars <- KeyChars,
                                 content <- keyContent, map <- keyMap

ASSUME BufAssumption ==
    /\ Blk \subseteq Nat \ {0} /\ IsFiniteSet(Blk) /\ MaxBuilt \in Nat /\ 1..MaxBuilt \subseteq Blk
    /\ 1 \in Handle /\ IsFiniteSet(Handle)
ASSUME NodeAssumption == Node \subseteq Nat /\ IsFiniteSet(Node) /\ Nil \notin Node
ASSUME ArrayAssumption == MaxSize \in Nat
ASSUME HashAssumption ==
    /\ HashOf \in [Key -> Nat] /\ StepOf \in [Key -> {s \in Nat : s % 2 = 1}]
    /\ Absent \notin Val \cup {"fresh"}
ASSUME StringsAssumption == Chars \subseteq Nat \ {0} /\ "freed" \notin Word
ASSUME StackAssumption == Cell \subseteq Nat \ {0} /\ IsFiniteSet(Cell)
ASSUME FifoAssumption == Link \subseteq Nat /\ IsFiniteSet(Link) /\ Null \notin Link
ASSUME KeysAssumption == 1 \in KeyChars /\ "freed" \notin KeyName /\ "null" \notin KeyDatum

\* In a table of 4 buckets the first three keys want the same bucket, in one of 8 the
\* second another; the fourth wants the first bucket.  The third goes to a bucket in
\* front, so that a rehash meets it first and has to kick out what is in its way.  The
\* steps are what the double hashing makes of these hashes.
SomeHashes == [k \in {"a", "b", "c", "d"} |->
                 CASE k = "a" -> 2 [] k = "b" -> 6 [] k = "c" -> 18 [] OTHER -> 0]
TheirSteps == [k \in {"a", "b", "c", "d"} |->
                 CASE k = "a" -> 17 [] k = "b" -> 49 [] k = "c" -> 147 [] OTHER -> 1]

Init ==
    /\ use \in Uses
    /\ Buf!Init /\ (use # "buf" => chain[1] = <<Buf!View(1)>>)
    /\ List!Init /\ Hash!Init /\ Strings!Init /\ Fifo!Init /\ Pile!Init /\ Vec!Init
    /\ Keys!Init /\ (use # "keys" => keyContent[1] = CHOOSE k \in KeyName : TRUE)

\* A program ends: after MaxCalls calls on a chain, or with the heap of the strings
\* used up.
Done == use \in {"buf", "strings"} /\ UNCHANGED vars

Next ==
    \/ Done
    \/ /\ use = "buf" /\ Buf!Next
       /\ UNCHANGED <<listVars, khashVars, stringVars, fifoVars, stackVars, arrayVars, keyVars, use>>
    \/ /\ use = "list" /\ List!Next
       /\ UNCHANGED <<bufVars, khashVars, stringVars, fifoVars, stackVars, arrayVars, keyVars, use>>
    \/ /\ use = "hash" /\ Hash!Next
       /\ UNCHANGED <<bufVars, listVars, stringVars, fifoVars, stackVars, arrayVars, keyVars, use>>
    \/ /\ use = "strings" /\ Strings!Next
       /\ UNCHANGED <<bufVars, listVars, khashVars, fifoVars, stackVars, arrayVars, keyVars, use>>
    \/ /\ use = "fifo" /\ Fifo!Next
       /\ UNCHANGED <<bufVars, listVars, khashVars, stringVars, stackVars, arrayVars, keyVars, use>>
    \/ /\ use = "stack" /\ Pile!Next
       /\ UNCHANGED <<bufVars, listVars, khashVars, stringVars, fifoVars, arrayVars, keyVars, use>>
    \/ /\ use = "array" /\ Vec!Next
       /\ UNCHANGED <<bufVars, listVars, khashVars, stringVars, fifoVars, stackVars, keyVars, use>>
    \/ /\ use = "keys" /\ Keys!Next
       /\ UNCHANGED <<bufVars, listVars, khashVars, stringVars, fifoVars, stackVars, arrayVars, use>>

Spec == Init /\ [][Next]_vars

-----------------------------------------------------------------------------
\* BufBlk: a chain reads as the bytes written into it, whatever was shared,
\* duplicated, released or copied since.
ReadsAsText == Buf!ReadsAsText

\* MemBlk: the count of a block is the number of views on it, and a block is free
\* exactly when there is none.
RefCountsViews == Buf!RefCountsViews

\* BufBlkIter and getContigBlock(): chunks without a gap, previews of the next one,
\* and contiguous blocks only when the bytes are there.
ReadersServed == Buf!ReadersServed

\* tw_List: lists, iterator and links are what the calls make of them.
ListsHold == List!ListsHold

\* TW_KHash_32: find() and the iterator agree with the calls after any rehash in
\* place, and the data objects that exist are those in the table.
TableHolds == Hash!TableHolds

\* TW_KHash_32: the counts are what the flags say, so that every search ends.
CountsAgree == Hash!CountsAgree

\* TW_StringStringMap: a key reads as the word stored under it, no string has two
\* owners, and none but the strays of find() is lost.
StringsKept == Strings!StringsKept

\* TW_StringMapGeneric: a name finds what was put there last, whatever the caller
\* writes into the string it passed.
NamesFound == Keys!NamesFound

\* tw_FIFO: each queue holds what was added and not removed, in order, in links of its
\* own, and its iterator shows them.
QueuesHold == Fifo!QueuesHold

\* tw_Stack: it holds what was pushed and not popped, and no link leaks.
StackHolds == Pile!StackHolds

\* DynArray: the elements are where the calls put them after every resize.
ArrayHolds == Vec!ArrayHolds
=============================================================================

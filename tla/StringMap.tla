------------------------------ MODULE StringMap ------------------------------
(***************************************************************************)
(* TW_StringStringMap (include/TW/tw_stringmap.h, tw_stringmap.cpp) and    *)
(* CStrCont, the box it keeps its strings in: who frees which string.      *)
(*                                                                         *)
(* A box is strong, and frees its string when it is destroyed, or weak.    *)
(* The table under the map is KHash; here it is a function from keys to    *)
(* boxes.                                                                  *)
(***************************************************************************)
EXTENDS Integers, FiniteSetsExt

CONSTANTS Name,      \* the keys
          Word,      \* the contents of strings
          Chars      \* the strings malloc() can hand out: 1..n

VARIABLES box,       \* per key: the box of its value, or NoBox
          content,   \* per string: a word, or Freed
          mine,      \* the strings the caller was told to free
          stray,     \* the strings find() made nobody's
          said       \* per key: the word the caller put there last, or NoWord
stringVars == <<box, content, mine, stray, said>>

Freed == "freed"
NoWord == "none"
NULL == 0
NoBox == [s |-> NULL, weak |-> TRUE, there |-> FALSE]
Strong(c) == [s |-> c, weak |-> FALSE, there |-> TRUE]

Init ==
    /\ box = [k \in Name |-> NoBox]
    /\ content = [c \in Chars |-> Freed]
    /\ mine = {} /\ stray = {}
    /\ said = [k \in Name |-> NoWord]

\* malloc() hands out the first string that is free.
Unused(m) == {c \in Chars : m[c] = Freed}
NewChars(m) == IF Unused(m) = {} THEN {} ELSE {Min(Unused(m))}
WordOf(m, c) == IF c = NULL THEN NoWord ELSE m[c]

-----------------------------------------------------------------------------
\* ~CStrCont() on a box, as it changes the strings.
Destroyed(m, b) == IF b.s # NULL /\ ~b.weak THEN [m EXCEPT ![b.s] = Freed] ELSE m

\* Mutant of Assigned: the string is shared in either case.
AssignedShares(m, b, new) == [s |-> b.s, content |-> m]

\* CStrCont::operator= into a box of the caller's: a strong box is copied, string and
\* all, a weak one is shared.
Assigned(m, b, new) ==
    IF b.weak THEN [s |-> b.s, content |-> m]
    ELSE IF b.s = NULL THEN [s |-> NULL, content |-> m]
    ELSE [s |-> new, content |-> [m EXCEPT ![new] = m[b.s]]]

\* The caller's box is made weak, so the string is now the caller's to free.
HandOver(c) ==
    /\ mine' = (mine \cup {c}) \ {NULL}
    /\ stray' = stray \ {c}

\* Destroying the old box of k and storing a copy of the word w, which the copy
\* constructor of CStrCont makes.
StoreCopy(k, w, m) ==
    LET m2 == Destroyed(m, box[k])
    IN  \E c \in NewChars(m2) :
           /\ content' = [m2 EXCEPT ![c] = w]
           /\ box' = [box EXCEPT ![k] = Strong(c)]

AddReplace(k, w) ==
    /\ StoreCopy(k, w, content)
    /\ said' = [said EXCEPT ![k] = w]
    /\ UNCHANGED <<mine, stray>>

\* addReplace() with olddat: the old box is assigned to the caller's before it goes.
AddReplaceOld(k, w) ==
    /\ \E new \in NewChars(content) :
          LET old == Assigned(content, box[k], new)
          IN  StoreCopy(k, w, old.content) /\ HandOver(old.s)
    /\ said' = [said EXCEPT ![k] = w]

\* The caller stores a string through the pointer to a NULL it was given.
Fill(k, w, m) ==
    \E c \in NewChars(m) :
       /\ content' = [m EXCEPT ![c] = w]
       /\ box' = [box EXCEPT ![k] = Strong(c)]
       /\ said' = [said EXCEPT ![k] = w]
       /\ UNCHANGED <<mine, stray>>

\* addReplaceNew(), addNoreplaceNew() and findOrNew(), and the caller's store.
AddReplaceNew(k, w) == Fill(k, w, Destroyed(content, box[k]))
AddNoreplaceNew(k, w) == ~box[k].there /\ Fill(k, w, content)
FindOrNew(k, w) == ~box[k].there /\ Fill(k, w, content)

Drop(k, m) ==
    /\ content' = Destroyed(m, box[k])
    /\ box' = [box EXCEPT ![k] = NoBox]
    /\ said' = [said EXCEPT ![k] = NoWord]

RemoveKey(k) == Drop(k, content) /\ UNCHANGED <<mine, stray>>

\* remove() with fill.
RemoveFill(k) ==
    \E new \in NewChars(content) :
       LET old == Assigned(content, box[k], new)
       IN  box[k].there /\ Drop(k, old.content) /\ HandOver(old.s)

\* find() with fill: the caller's string is a copy, or the map's own when find()
\* without fill has been there before.
FindFill(k) ==
    \E new \in NewChars(content) :
       LET f == Assigned(content, box[k], new)
       IN  /\ box[k].there
           /\ content' = f.content /\ HandOver(f.s)
           /\ UNCHANGED <<box, said>>

\* find() without fill: the box in the table is made weak.  Of a key that is not
\* there it follows a null pointer.
FindPointer(k) ==
    /\ box[k].there
    /\ box' = [box EXCEPT ![k].weak = TRUE]
    /\ stray' = stray \cup {box[k].s}
    /\ UNCHANGED <<content, mine, said>>

RemoveAll ==
    /\ content' = [c \in Chars |-> IF \E k \in Name : box[k].s = c /\ ~box[k].weak THEN Freed ELSE content[c]]
    /\ box' = [k \in Name |-> NoBox]
    /\ said' = [k \in Name |-> NoWord]
    /\ UNCHANGED <<mine, stray>>

\* The caller does what it was told.
CallerFrees(c) ==
    /\ c \in mine
    /\ content' = [content EXCEPT ![c] = Freed]
    /\ mine' = mine \ {c}
    /\ UNCHANGED <<box, stray, said>>

Calls(k) ==
    \/ \E w \in Word : AddReplace(k, w) \/ AddReplaceOld(k, w) \/ AddReplaceNew(k, w)
                       \/ AddNoreplaceNew(k, w) \/ FindOrNew(k, w)
    \/ RemoveKey(k) \/ RemoveFill(k) \/ FindPointer(k)
Frees == RemoveAll \/ \E c \in Chars : CallerFrees(c)

\* The program has the pointer of find() to the value of k.
Borrowed(k) == box[k].there /\ box[k].weak

\* A program that does not ask find() for a copy of what it has the pointer to: it
\* would be given the map's own string, be told to free it, and free it under a key
\* that is still there.
Next == (\E k \in Name : Calls(k) \/ (~Borrowed(k) /\ FindFill(k))) \/ Frees

-----------------------------------------------------------------------------
\* "It's the responsibility of the caller to free this data" (find and addReplace,
\* tw_stringmap.cpp:85 and 139): the data is the caller's, so when the caller has freed
\* it, a key that is there still reads as the word that was stored under it.
StoredWordKept ==
    \A k \in Name : (box[k].there => said[k] = WordOf(content, box[k].s))

\* A string that is allocated belongs to the caller or to one strong box, never to two.
\* The strays are the strings whose box find() has made weak: they have no owner, and
\* leak when their key is removed or stored anew, unless they are handed over then.
OneOwner ==
    LET strong == {k \in Name : box[k].there /\ ~box[k].weak}
    IN  /\ {c \in Chars : content[c] # Freed} = mine \cup stray \cup {box[k].s : k \in strong}
        /\ mine \cap stray = {}
        /\ \A j, k \in strong : box[j].s \notin mine \cup stray /\ (j # k => box[j].s # box[k].s)

\* While the program does not ask find() for a copy of what it has the pointer to,
\* whatever it stores, replaces, removes and frees: a key reads as the word that was
\* stored under it, no string has two owners, and none is lost but the strays.
StringsKept == StoredWordKept /\ OneOwner
=============================================================================

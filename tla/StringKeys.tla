----------------------------- MODULE StringKeys -----------------------------
(***************************************************************************)
(* TW_StringMapGeneric (include/TW/tw_stringmap.h): a map from C strings   *)
(* to data.  Each call wraps the caller's string in a weak CStrCont and    *)
(* hands that to the hash table, which compares keys with strcmp() and     *)
(* copies the box when it keeps it.                                        *)
(*                                                                         *)
(* The caller has one buffer, which it writes another name into whenever   *)
(* it likes.  KHash models the table; here it is a set of entries.         *)
(***************************************************************************)
EXTENDS Integers, FiniteSetsExt

CONSTANTS Name,      \* the strings that are used as keys
          Datum,     \* the data
          Chars      \* the strings: 1..n, the first one the caller's buffer

VARIABLES entries,   \* the table: per entry the string s of its key and its data d
          content,   \* per string: the name it reads, or Freed
          map        \* per name: what the caller put there last, or NULL
keyVars == <<entries, content, map>>

Freed == "freed"
NULL == "null"
Fresh == "fresh"     \* DATA()
Buffer == 1

Init ==
    /\ entries = {}
    /\ content \in [Chars -> Name \cup {Freed}]
    /\ \A c \in Chars : content[c] = Freed <=> c # Buffer
    /\ map = [k \in Name |-> NULL]

\* The caller writes another name into its buffer.
Rewrite(k) ==
    /\ content' = [content EXCEPT ![Buffer] = k]
    /\ UNCHANGED <<entries, map>>

\* malloc(): strings nobody has a pointer to.  remove() and a rehash leave the
\* strings of keys behind that nobody frees; they count as free here, since nobody
\* can read them either.
Spare == Chars \ ({Buffer} \cup {e.s : e \in entries})

\* strcmp() of the key of an entry with the name k.
SameKey(k) == {e \in entries : content[e.s] = k}
TheName == content[Buffer]

\* find(), with and without fill.
find(k) == IF SameKey(k) = {} THEN NULL ELSE (CHOOSE e \in SameKey(k) : TRUE).d

-----------------------------------------------------------------------------
\* Mutant of KeyCopy: a weak box is shared, not copied.
KeyCopyShares(new) == Buffer

\* The copy constructor of CStrCont, which is strong whatever it copies: new is a
\* string of its own.
KeyCopy(new) == new

\* kh_put_A() of a key that is not there.  It may rehash first, which copies the
\* boxes of all keys to new strings.
Moved(f) == {[s |-> f[e.s], d |-> e.d] : e \in entries}
Insert(d) ==
    \E f \in [{e.s : e \in entries} -> Chars] : \E c \in Spare :
       /\ \/ \A s \in DOMAIN f : f[s] = s
          \/ \A s, t \in DOMAIN f : f[s] \in Spare \ {c} /\ (f[s] = f[t] => s = t)
       /\ entries' = Moved(f) \cup {[s |-> KeyCopy(c), d |-> d]}
       /\ content' = [x \in Chars |->
                        IF x = c THEN TheName
                        ELSE IF \E s \in DOMAIN f : f[s] = x THEN content[CHOOSE s \in DOMAIN f : f[s] = x]
                        ELSE content[x]]
       /\ map' = [map EXCEPT ![TheName] = d]

\* The data of the key is deleted and other data put in its place.
Overwrite(d) ==
    /\ SameKey(TheName) # {}
    /\ entries' = (entries \ SameKey(TheName)) \cup {[e EXCEPT !.d = d] : e \in SameKey(TheName)}
    /\ map' = [map EXCEPT ![TheName] = d]
    /\ UNCHANGED content

NewKey == SameKey(TheName) = {}

AddReplace(d) == (NewKey /\ Insert(d)) \/ Overwrite(d)
\* With olddat, which is filled by the table's own addReplace().
AddReplaceOld(d) == (NewKey /\ Insert(d)) \/ Overwrite(d)
AddReplaceNew == (NewKey /\ Insert(Fresh)) \/ Overwrite(Fresh)
AddNoreplaceNew == NewKey /\ Insert(Fresh)
FindOrNew == NewKey /\ Insert(Fresh)

\* kh_del_A(): the entry goes, its key is not destroyed.
Erase == entries' = entries \ SameKey(TheName)

RemoveKey == Erase /\ map' = [map EXCEPT ![TheName] = NULL] /\ UNCHANGED content
RemoveFill == SameKey(TheName) # {} /\ RemoveKey

\* removeAll() runs the destructors of the keys: strong boxes free their strings.
RemoveAll ==
    /\ content' = [c \in Chars |-> IF \E e \in entries : e.s = c THEN Freed ELSE content[c]]
    /\ entries' = {}
    /\ map' = [k \in Name |-> NULL]

Next ==
    \/ \E k \in Name : Rewrite(k)
    \/ \E d \in Datum : AddReplace(d) \/ AddReplaceOld(d)
    \/ AddReplaceNew \/ AddNoreplaceNew \/ FindOrNew \/ RemoveKey \/ RemoveFill \/ RemoveAll

-----------------------------------------------------------------------------
\* Whatever the caller writes into its buffer between calls, and however often the
\* table moves its keys, each name finds what was put there last, in one entry, and
\* no entry has a key that was freed.
NamesFound ==
    /\ \A k \in Name : find(k) = map[k] /\ Cardinality(SameKey(k)) <= 1
    /\ \A e \in entries : content[e.s] # Freed
=============================================================================

-------------------------------- MODULE Stack --------------------------------
(***************************************************************************)
(* Stack (include/TW/tw_stack.h): a chain of links from head, and cnt.     *)
(***************************************************************************)
EXTENDS Integers, SequencesExt, Chains

CONSTANTS Cell,      \* the links new can hand out: 1..n
          Datum
NoCell == 0
Freed == [data |-> "none", next |-> NoCell, live |-> FALSE]

VARIABLES cell,      \* per link: its data and next, and whether it is allocated
          top,       \* head
          cnt,
          stacked    \* the elements the stack should hold, the last one on top
stackVars == <<cell, top, cnt, stacked>>

Init ==
    /\ cell = [c \in Cell |-> Freed]
    /\ top = NoCell /\ cnt = 0
    /\ stacked = <<>>

FromTop == Follow(top, [c \in Cell |-> cell[c].next], NoCell, Cardinality(Cell))
Unused == {c \in Cell : ~cell[c].live}

Push(v) ==
    /\ Unused # {}
    /\ cell' = [cell EXCEPT ![Min(Unused)] = [data |-> v, next |-> top, live |-> TRUE]]
    /\ top' = Min(Unused) /\ cnt' = cnt + 1
    /\ stacked' = Append(stacked, v)

\* Mutant of Pop: the link is not freed.
PopLeaks ==
    /\ top # NoCell
    /\ cnt' = cnt - 1
    /\ top' = cell[top].next
    /\ stacked' = Front(stacked)
    /\ UNCHANGED cell

Pop ==
    /\ top # NoCell
    /\ cnt' = cnt - 1
    /\ top' = cell[top].next
    /\ cell' = [cell EXCEPT ![top] = Freed]
    /\ stacked' = Front(stacked)

\* cleanup(), which the destructor calls, and a new stack.
Cleanup ==
    /\ cell' = [c \in Cell |-> IF c \in ToSet(FromTop) THEN Freed ELSE cell[c]]
    /\ top' = NoCell /\ cnt' = 0
    /\ stacked' = <<>>

Next == (\E v \in Datum : Push(v)) \/ Pop \/ Cleanup

-----------------------------------------------------------------------------
\* The links from the top down hold what was pushed and not popped, the last first;
\* cnt is their number, and every other link has been freed.
StackHolds ==
    /\ [k \in DOMAIN FromTop |-> cell[FromTop[k]].data] = Reverse(stacked)
    /\ cnt = Len(stacked)
    /\ ToSet(FromTop) = Cell \ Unused
=============================================================================

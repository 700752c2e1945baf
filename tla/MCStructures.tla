---------------------------- MODULE MCStructures ----------------------------
(***************************************************************************)
(* The containers of MCContainers and the B-tree, for TLC.  The tree is    *)
(* apart from the others because its operations are recursive.             *)
(***************************************************************************)
EXTENDS MCContainers

CONSTANTS T, TreeKey, MaxKeys, MaxCopies                     \* the B-tree

VARIABLES root, n_keys, copies, asked
treeVars == <<root, n_keys, copies, asked>>

Tree == INSTANCE KTree

AllInit == Init /\ Tree!Init

AllNext ==
    \/ Next /\ UNCHANGED treeVars
    \/ use = "tree" /\ Tree!Next /\ UNCHANGED vars

AllSpec == AllInit /\ [][AllNext]_<<vars, treeVars>>

\* The B-tree of tw_ktree.h: it holds the keys that were put and not deleted, in order,
\* in nodes that are neither too full nor too empty and have all leaves at one depth.
TreeHolds == Tree!TreeHolds
=============================================================================

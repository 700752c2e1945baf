------------------------------- MODULE Chains -------------------------------
(***************************************************************************)
(* Linked chains: what a loop `for (x = o; x; x = x->next)' visits.        *)
(***************************************************************************)
EXTENDS Integers, FiniteSets

\* The links from o on, until the null pointer or, in a cycle, N steps further.
Follow(o, next, null, N) ==
    LET at[k \in 0..N] == IF k = 0 THEN o ELSE IF at[k - 1] = null THEN null ELSE next[at[k - 1]]
    IN  [k \in 1..Cardinality({j \in 0..N : at[j] # null}) |-> at[k - 1]]
=============================================================================

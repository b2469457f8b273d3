------------------------------ MODULE StreamMaps ------------------------------
(***************************************************************************)
(* What Decision, Answers, Passes and RevertPoints share: streams in the   *)
(* order of their indices, and a dict updated from another.                *)
(***************************************************************************)
EXTENDS Naturals, FiniteSets

\* How many of S come no later than i.
Rank(S, i) == Cardinality({j \in S : j <= i})

\* The members of S, the lowest first.
Ordered(S) == [n \in 1 .. Cardinality(S) |-> CHOOSE i \in S : Rank(S, i) = n]

\* old.update(new)
Updated(old, new) ==
    [key \in DOMAIN old \cup DOMAIN new |->
        IF key \in DOMAIN new THEN new[key] ELSE old[key]]
=============================================================================

------------------------------ MODULE GlzBudget -----------------------------
(***************************************************************************)
(* What the GLZ dictionary promises, without sequence numbers, counters or *)
(* an eviction loop: it remembers the latest images, as many of them as    *)
(* fit the budget, and always the very latest.                             *)
(***************************************************************************)
EXTENDS Integers, FiniteSetsExt

CONSTANTS Ids, Sizes, Budget

VARIABLES
    sizes,      \* the images remembered: from their identifiers to their sizes
    before      \* pairs <<a, b>> of them: a was remembered before b

SizeOf(all, S) == MapThenSumSet(LAMBDA i : all[i], S)

\* Of the images in ids, i and those remembered after it.
Since(i, ids, order) == {j \in ids : j = i \/ <<i, j>> \in order}

Init == sizes = [i \in {} |-> 0] /\ before = {}

\* An older image stays if it and all that came after it fit.
Remember(id, bytes) ==
    LET others == DOMAIN sizes \ {id}
        ids    == others \cup {id}
        all    == [i \in ids |-> IF i = id THEN bytes ELSE sizes[i]]
        order  == (before \cap (others \X others)) \cup (others \X {id})
        kept   == {i \in ids : i = id \/ SizeOf(all, Since(i, ids, order)) <= Budget}
    IN  /\ sizes' = [i \in kept |-> all[i]]
        /\ before' = order \cap (kept \X kept)

Forget == sizes' = [i \in {} |-> 0] /\ before' = {}

Next ==
    \/ \E id \in Ids, bytes \in Sizes : Remember(id, bytes)
    \/ Forget

Spec == Init /\ [][Next]_<<sizes, before>>
=============================================================================

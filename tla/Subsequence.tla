---------------------------- MODULE Subsequence ----------------------------
\* What is left of a JavaScript Map when entries are deleted from it: the others, in
\* their order.  SelectSeq over the set of those that stay.
EXTENDS Naturals, Sequences, Functions

Keeping(s, Stay) ==
    LET kept[i \in 0..Len(s)] ==
            IF i = 0 THEN <<>> ELSE IF s[i] \in Stay THEN Append(kept[i - 1], s[i]) ELSE kept[i - 1]
    IN  kept[Len(s)]
=============================================================================

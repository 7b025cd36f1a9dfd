------------------------------ MODULE Filters ------------------------------
EXTENDS Naturals, Sequences

\* seq.filter(x => S.has(x)): the elements of seq that are in S, in order.
OnlyIn(seq, S) ==
    LET kept[n \in 0..Len(seq)] ==
            IF n = 0 THEN <<>>
            ELSE IF seq[n] \in S THEN Append(kept[n - 1], seq[n]) ELSE kept[n - 1]
    IN  kept[Len(seq)]
=============================================================================

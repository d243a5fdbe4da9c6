-------------------------------- MODULE Lists --------------------------------
(***************************************************************************)
(* What SELECT, ORDER BY and sums make of lists, as functions over places. *)
(***************************************************************************)
EXTENDS Naturals, Sequences, FiniteSets

\* The elements of a sequence that are in a set, in their order.
Keep(seq, set) ==
    LET kept[i \in 0..Len(seq)] == IF i = 0 THEN <<>>
                                   ELSE IF seq[i] \in set THEN Append(kept[i - 1], seq[i])
                                   ELSE kept[i - 1]
    IN kept[Len(seq)]

\* One sequence after the other.
Joined(parts) ==
    LET joined[i \in 0..Len(parts)] == IF i = 0 THEN <<>> ELSE joined[i - 1] \o parts[i]
    IN joined[Len(parts)]

\* The elements of a finite set, each once.
Listed(set) ==
    LET listed[i \in 0..Cardinality(set)] ==
            IF i = 0 THEN <<>>
            ELSE LET before == listed[i - 1] IN
                 Append(before, CHOOSE x \in set \ {before[j] : j \in 1..(i - 1)} : TRUE)
    IN listed[Cardinality(set)]

\* The sum of a sequence of numbers.
Total(values) ==
    LET total[i \in 0..Len(values)] == IF i = 0 THEN 0 ELSE total[i - 1] + values[i]
    IN total[Len(values)]

\* The elements of a finite set, each behind those that the pairs in `before` put before it.
Ordered(set, before) ==
    [i \in 1..Cardinality(set) |->
        CHOOSE x \in set : Cardinality({y \in set : <<y, x>> \in before}) = i - 1]
=============================================================================

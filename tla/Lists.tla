-------------------------------- MODULE Lists --------------------------------
(* What the Python programs of the labs do to lists with comprehensions and with    *)
(* sorted, as functions along the list, so that the proofs can follow them.          *)
EXTENDS Integers, Sequences, FiniteSets

\* [x for x in list if x in S]: the members that are in S, in their order.
Sifted(list, S) ==
    LET Upto[n \in 0..Len(list)] ==
            IF n = 0 THEN <<>>
            ELSE IF list[n] \in S THEN Append(Upto[n - 1], list[n]) ELSE Upto[n - 1]
    IN  Upto[Len(list)]

\* sorted(list), and list[argsort(list)]: less has the pairs of places of which the
\* first goes before the second.
Arranged(list, less) ==
    [k \in DOMAIN list |->
        list[CHOOSE i \in DOMAIN list :
                Cardinality({j \in DOMAIN list : <<j, i>> \in less}) = k - 1]]

\* sorted(values)[k], places counted from zero: the number that at most k of the others
\* are below, and that more than k are not above.
Ordered(values, k) ==
    CHOOSE v \in {values[i] : i \in DOMAIN values} :
        /\ Cardinality({i \in DOMAIN values : values[i] < v}) <= k
        /\ k < Cardinality({i \in DOMAIN values : values[i] <= v})
=============================================================================

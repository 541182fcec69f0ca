--------------------------- MODULE MCCollections ---------------------------
EXTENDS Collections
\* Two documents that share a value, one the index refuses and one the rollup
\* refuses.
MCInputs ==
    {[f |-> {1},    h |-> 1, g |-> 1],
     [f |-> {1, 2}, h |-> 2, g |-> 3],
     [f |-> {Odd},  h |-> 1, g |-> 1],
     [f |-> {1},    h |-> 1, g |-> Odd]}

\* A page is only looked at in the step that answers it, and nothing depends on
\* it afterwards: states that differ in the last page alone are explored once.
WithoutPage == <<work, disk, dirty, steps, half>>

\* The values are small enough for exact sums.
ASSUME ExactSums == SumsFit

=============================================================================

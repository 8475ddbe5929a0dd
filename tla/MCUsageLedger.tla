--------------------------- MODULE MCUsageLedger ---------------------------
(* Two calls authorized on the event loop and one in a thread; the budget *)
(* admits two of them.                                                    *)
EXTENDS UsageLedger, TLC

CONSTANTS plain1, plain2, early1

MCCalls == {plain1, plain2, early1}
MCEarly == {early1}
MCEstimate == (plain1 :> 1) @@ (plain2 :> 2) @@ (early1 :> 1)
MCActual == (plain1 :> 2) @@ (plain2 :> 1) @@ (early1 :> 3)

LimitsSymmetry == Permutations(Limits)

\* Bound: four of the seven sessions ever start.
FourStart == Cardinality({s \in Sessions : pc[s] # "idle"}) <= 4
=============================================================================

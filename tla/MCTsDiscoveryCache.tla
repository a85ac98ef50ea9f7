------------------------- MODULE MCTsDiscoveryCache -------------------------
(* TsDiscoveryCache with two or three callers and a clock of a few ticks.  *)
EXTENDS TsDiscoveryCache, TLC

CONSTANTS c1, c2, c3

TwoCallers == {c1, c2}
ThreeCallers == {c1, c2, c3}
Symmetry == Permutations(TwoCallers)
SymmetryOfThree == Permutations(ThreeCallers)

\* The wall clock is right or two ticks behind: it is set back, and ahead again.
RightOrBehind == {-2, 0}

=============================================================================

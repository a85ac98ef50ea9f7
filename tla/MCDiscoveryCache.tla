-------------------------- MODULE MCDiscoveryCache --------------------------
(* DiscoveryCache with threads t1 and t2 and a clock of a few ticks.       *)
EXTENDS DiscoveryCache, TLC

CONSTANTS t1, t2

TwoThreads == {t1, t2}
OneThread == {t1}
Symmetry == Permutations(TwoThreads)

\* The wall clock is right or two ticks behind: it is set back, and ahead again.
RightOrBehind == {-2, 0}

=============================================================================

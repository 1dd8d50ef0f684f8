---------------------------- MODULE MCSettlement ----------------------------
(* Settlement on small lists of fixtures: two of the unit's runs, which    *)
(* are alike, and one by hand; and, for liveness, the unit's alone.        *)
EXTENDS Settlement, TLC

CONSTANTS timer, again, hand

UnitRuns == {timer, again}
Alike    == Permutations(UnitRuns)
=============================================================================

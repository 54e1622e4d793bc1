------------------------- MODULE MCPositionLifecycle -------------------------
EXTENDS PositionLifecycle, TLC

CONSTANTS s1, s2, a1

MCAssetOf == [s \in Signals |-> a1]
\* bound: one failing call besides a crash, or two failing Redis calls
TwoFaults == dbFails + redisFails <= 1 \/ crashes + dbFails = 0
\* bounds of the liveness run, which only faults and Captain Command leave, and
\* none of them is fair: one fault, and the first TAKEN is of s1 (the signals are
\* alike, and symmetry cannot be used for liveness)
OneFault == crashes + dbFails + redisFails <= 1
FirstIsS1 == log = <<>> \/ log[1] = s1
Symmetry  == Permutations(Signals)
=============================================================================

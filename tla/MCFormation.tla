---------------------------- MODULE MCFormation -----------------------------
(* Instances of Formation for TLC: two Roles of one pod each, or one Role  *)
(* of two.                                                                 *)
EXTENDS Formation, TLC

One == [r \in Roles |-> 1]
Two == [r \in Roles |-> 2]
BrainSymmetry == Permutations(Brains)
RestartStates == {"Booting", "Started", "Configured"}
PodStates == RestartStates \cup {"NotRunning"}
=============================================================================

--------------------------- MODULE LeaderRegister ---------------------------
(***************************************************************************)
(* What the operator promises about the leader of one Cluster, with no     *)
(* workers, no caches and no retries: a register that is written once      *)
(* before the cluster is bootstrapped, and may be rewritten only after.    *)
(* The promise is the comment of GetLeaderInstance (election.go, lines     *)
(* 32 to 41): before the bootstrap the leader may hold topology data no    *)
(* other instance has, so replacing it could produce a split brain.        *)
(***************************************************************************)

CONSTANTS
  Pods,     \* the instances that may be elected
  NoPod     \* the empty leader name

VARIABLES
  leader,        \* Cluster.Status.Leader
  bootstrapped   \* Cluster.Status.Bootstrapped

vars == <<leader, bootstrapped>>

TypeOK ==
  /\ leader \in Pods \cup {NoPod}
  /\ bootstrapped \in BOOLEAN

Init ==
  /\ leader = NoPod
  /\ bootstrapped = FALSE

Elect(p) ==
  /\ leader = NoPod
  /\ leader' = p
  /\ UNCHANGED bootstrapped

Bootstrap ==
  /\ leader # NoPod
  /\ bootstrapped' = TRUE
  /\ UNCHANGED leader

Reelect(p) ==
  /\ bootstrapped
  /\ leader' = p
  /\ UNCHANGED bootstrapped

Next ==
  \/ \E p \in Pods : Elect(p) \/ Reelect(p)
  \/ Bootstrap

Spec == Init /\ [][Next]_vars
=============================================================================

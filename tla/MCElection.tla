----------------------------- MODULE MCElection -----------------------------
(* Instances of Election for TLC. *)
EXTENDS Election

\* Two replicasets of one pod each, of one role.
TwoReplicasets == [r \in Roles |-> 2]
OneReplica == [r \in Roles |-> 1]

PodStates == {"Absent", "NotRunning", "Unreachable", "Started", "Configured",
              "OperationError"}
=============================================================================

------------------------------ MODULE MCRolePods ------------------------------
(* An instance of RolePods for TLC. *)
EXTENDS RolePods

\* One template, one set of labels and a strategy that needs no default: what
\* those do to StatefulSets is checked in their own module.
Role(replicasets, replicas) ==
  [replicasets |-> replicasets, replicas |-> replicas, template |-> "t",
   labels |-> "l", settings |-> "OnDelete"]

OneHash == [t \in Templates |-> "h"]

\* From one replicaset of two pods to two of one, and back: the second pod of
\* the first replicaset is surplus.
Reshaped == {Role(1, 2), Role(2, 1)}
===============================================================================

--------------------------- MODULE MCStatefulSets ----------------------------
EXTENDS StatefulSets

Role(replicasets, replicas, template, labels, settings) ==
  [replicasets |-> replicasets, replicas |-> replicas, template |-> template,
   labels |-> labels, settings |-> settings]

OneHashEach == [t \in Templates |-> t]

\* A Role is scaled, up in one direction and down in the other, and gets a new
\* template, new labels and another strategy.
Scaled == {Role(1, 2, "t1", "l1", "unset"), Role(2, 1, "t2", "l2", "OnDelete")}

\* Users scale and delete the first StatefulSet, relabel the second and take
\* away the labels it is found by.
SomeEdits == {<<0, "replicas">>, <<0, "delete">>, <<1, "labels">>, <<1, "selector">>}
=============================================================================

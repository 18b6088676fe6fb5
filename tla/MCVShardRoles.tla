--------------------------- MODULE MCVShardRoles ----------------------------
(* An application with a storage and a router that share a dependency. *)
EXTENDS VShardRoles

AppRoles == {"storage", "router", "core"}
AppHierarchy == [r \in AppRoles |-> IF r = "core" THEN {} ELSE {"core"}]
SomeRoles == {{}, {"storage"}, {"router", "core"}, {"storage", "router"}}
=============================================================================

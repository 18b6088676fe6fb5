--------------------------- MODULE MCConfigApply ----------------------------
(* A document of strings, one with a number, a section to remove and one of *)
(* the system's that it names by mistake, one that is no YAML.               *)
EXTENDS ConfigApply, TLC

Document(data) == [valid |-> TRUE, data |-> data]
Malformed == [valid |-> FALSE, data |-> "a" :> Null]

SomeDocuments == [c \in Configs |->
  {Document("a" :> "x" @@ "b" :> "x"),
   Document("a" :> "n" @@ "b" :> Null @@ "topology" :> "x"), Malformed}]
=============================================================================

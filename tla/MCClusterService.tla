--------------------------- MODULE MCClusterService ---------------------------
(* An instance of ClusterService for TLC. *)
EXTENDS ClusterService

Service(owner, headless, p) ==
  [owner |-> owner, wired |-> owner \in UIDs, headless |-> headless, port |-> p, target |-> p]

\* None; one that users made, with and without an address; one of another
\* controller; and the operator's, edited.
SomeServices ==
  {Nothing} \cup {Service(Nobody, h, 1) : h \in BOOLEAN}
    \cup {Service(o, TRUE, 1) : o \in {Stranger} \cup UIDs}
===============================================================================

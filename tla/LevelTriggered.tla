---------------------------- MODULE LevelTriggered -----------------------------
(***************************************************************************)
(* What each controller promises, whatever it reconciles.  It goes to      *)
(* sleep only when the world is as its object asks: a step that fails or   *)
(* has to wait, and a status update that is refused, ask for another       *)
(* reconcile (SteppedReconciler.Run).  And nothing changes in its sleep:   *)
(* whoever changes the goal or the world, the controller is in the queue   *)
(* or an event that brings it there is on its way.                         *)
(***************************************************************************)

VARIABLES
  goal,       \* what the objects ask for
  world,      \* what the controller keeps in line with it
  fulfilled,  \* whether it is
  awake       \* reconciling, queued, or about to be woken up by an event

vars == <<goal, world, fulfilled, awake>>

\* The operator enqueues every object when it starts; there may be none.
Init == awake \/ fulfilled

\* Anything may happen that leaves the controller awake, or wakes it up.
Act == awake'

\* A run that completes and is not asked for again.  Its last call may be the one
\* that fulfils the goal.
Rest ==
  /\ awake /\ ~awake'
  /\ fulfilled'
  /\ UNCHANGED goal

Next == Act \/ Rest

Spec == Init /\ [][Next]_vars
================================================================================

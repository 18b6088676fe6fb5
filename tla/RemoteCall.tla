------------------------------ MODULE RemoteCall ------------------------------
(***************************************************************************)
(* What a caller may rely on when it has Lua executed in an instance: a    *)
(* call is executed at most once, a result means that it was executed,     *)
(* and an error means nothing: the Lua may have been executed or not.      *)
(***************************************************************************)
EXTENDS Naturals

VARIABLES
  state,      \* of the present call
  executed    \* how often its Lua has been executed

Init == state = "none" /\ executed = 0

Call ==
  /\ state = "none"
  /\ state' = "pending"
  /\ UNCHANGED executed

Execute ==
  /\ state = "pending"
  /\ executed = 0
  /\ executed' = 1
  /\ UNCHANGED state

Return ==
  /\ state = "pending"
  /\ executed = 1
  /\ state' = "ok"
  /\ UNCHANGED executed

Fail ==
  /\ state = "pending"
  /\ state' = "error"
  /\ UNCHANGED executed

\* The caller takes the outcome, or ends while it waits.
Forget ==
  /\ state # "none"
  /\ state' = "none"
  /\ executed' = 0

Next == Call \/ Execute \/ Return \/ Fail \/ Forget

Spec == Init /\ [][Next]_<<state, executed>>
===============================================================================

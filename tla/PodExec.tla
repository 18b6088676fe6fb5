-------------------------------- MODULE PodExec --------------------------------
(***************************************************************************)
(* The transport of all calls to the instances: PodExec.Exec opens an exec *)
(* stream to the pod, pipes Lua through tarantoolctl and reads what it     *)
(* prints until the stream ends.  The stream has no deadline of its own:   *)
(* defaultTimeout and MaxRetries are set on a request of which only the    *)
(* URL is used, and the context is the reconcile's.  One worker makes the  *)
(* calls, one at a time; the module that makes them composes Exec, Taken   *)
(* and Dropped with its own steps.                                         *)
(***************************************************************************)
EXTENDS Naturals

VARIABLES
  stage,    \* of the present call
  runs,     \* how often its Lua has been executed
  stdout    \* what the stream has delivered

execVars == <<stage, runs, stdout>>

\* "failed": the pcall in the pod returned ok=false.  "nothing" is also output
\* that is not the YAML which tarantoolctl prints.
Outputs == {"nothing", "failed", "result"}

ExecTypeOK ==
  /\ stage \in {"none", "dialing", "streaming", "hung", "closed", "ok", "error"}
  /\ runs \in 0..1
  /\ stdout \in Outputs

ExecInit ==
  /\ stage = "none"
  /\ runs = 0
  /\ stdout = "nothing"

\* There is output if and only if the Lua has been executed.
ExecOnce ==
  /\ runs = IF stdout = "nothing" THEN 0 ELSE 1
  /\ stage = "none" => stdout = "nothing"

GoTo(from, to) ==
  /\ stage = from
  /\ stage' = to
  /\ UNCHANGED <<runs, stdout>>

\* Exec: the command is created.
Exec == GoTo("none", "dialing")

\* execShellCommand: the executor reaches the kubelet, or it does not.
Dial == GoTo("dialing", "streaming")
DialFails == GoTo("dialing", "error")

\* The command CreateCommand made: tarantoolctl hands the Lua to the instance,
\* which executes it under pcall and prints the outcome.
Execute ==
  /\ stage = "streaming"
  /\ stdout = "nothing"
  /\ runs' = runs + 1
  /\ stdout' \in {"failed", "result"}
  /\ UNCHANGED stage

\* The stream ends as it should: after the answer, or because tarantoolctl
\* found no instance to connect to.
StreamEnds == GoTo("streaming", "closed")

StreamBreaksRetried ==   \* mutant: a broken stream is opened again
  /\ stage = "streaming"
  /\ stage' = "dialing"
  /\ stdout' = "nothing"
  /\ UNCHANGED runs

\* The stream breaks, before the answer or after it, or the command exits with
\* an error.
StreamBreaks == GoTo("streaming", "error")

\* The instance does not answer: nothing ends the call but the end of the
\* process in the pod.
Hang == stdout = "nothing" /\ GoTo("streaming", "hung")
PodRestarts == GoTo("hung", "error")

UnmarshalUnchecked ==   \* mutant: output that cannot be parsed is no error
  GoTo("closed", IF stdout = "failed" THEN "error" ELSE "ok")

\* TarantoolCTL.Unmarshal: only a result that could be parsed is one.
Unmarshal == GoTo("closed", IF stdout = "result" THEN "ok" ELSE "error")

Forgotten ==
  /\ stage' = "none"
  /\ runs' = 0
  /\ stdout' = "nothing"

\* The caller takes the outcome, or its process ends.
Taken == stage \in {"ok", "error"} /\ Forgotten
Dropped == Forgotten

Transport == Dial \/ Execute \/ StreamEnds \/ Unmarshal
TransportFault == DialFails \/ StreamBreaks \/ Hang

-------------------------------------------------------------------------------
\* Every call of the operator is a remote call: whatever the streams do it is
\* executed at most once, and a result is that of an execution.
Remote == INSTANCE RemoteCall WITH
  state <- IF stage \in {"none", "ok", "error"} THEN stage ELSE "pending",
  executed <- runs

ImplementsRemoteCall == Remote!Spec
================================================================================

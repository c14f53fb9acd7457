----------------------------- MODULE XpuCollectives -----------------------------
(***************************************************************************)
(* The collectives of tensor parallelism on XPU (vllm_gloo_kernels.py and  *)
(* the communicator patched by lab_tp2_pw_v11.sh).  Each rank decides by   *)
(* itself, from an environment variable, whether a call goes to XCCL, to   *)
(* gloo on the CPU, or nowhere; a call returns when every rank has come to *)
(* the same back end.                                                      *)
(***************************************************************************)
EXTENDS Integers

CONSTANT Rank

VARIABLES
  redirect, \* VLLM_XPU_PROFILE_CPU_GLOO = "1" in the environment of the rank
  waiting   \* the back end in which the rank waits for the others

collectiveVars == <<redirect, waiting>>

\* all_reduce_ and all_reduce are the functional kernels, in place and out of
\* place; communicator is XpuCommunicator.all_reduce.
Collectives == {"all_reduce_", "all_reduce", "all_gather", "all_gather_out", "communicator"}
Backends    == {"none", "xccl", "gloo", "barrier"}

CollectivesInit ==
  /\ redirect = [r \in Rank |-> FALSE] /\ waiting = [r \in Rank |-> "none"]

\* Under redirection only the in-place reduction and the communicator
\* communicate; the others return what they were given, or zeros.
Backend(r, op) ==
  IF ~redirect[r] THEN "xccl"
  ELSE IF op \in {"all_reduce_", "communicator"} THEN "gloo" ELSE "none"

\* XCCL may run out of resources on a prefill-sized tensor.  Only the
\* communicator catches that and falls back; _safe_wait lets nothing pass but
\* the complaint about a wait inside a command graph.
AfterFailureIgnored(op) == IF op = "communicator" THEN "gloo" ELSE "ignore"   \* mutant
AfterFailure(op)        == IF op = "communicator" THEN "gloo" ELSE "raise"

\* Inside a capture XCCL records the call; what gloo needs, a copy to the CPU,
\* cannot be captured; a call that goes nowhere leaves no trace in the graph.
CaptureOutcome(r, op) ==
  CASE Backend(r, op) = "xccl" -> "record"
    [] Backend(r, op) = "gloo" -> "raise"
    [] OTHER                   -> "ignore"

\* Everyone who waits in the back end goes on together.
MeetAt(backend) ==
  /\ \A r \in Rank : waiting[r] = backend
  /\ waiting' = [r \in Rank |-> "none"]
=============================================================================

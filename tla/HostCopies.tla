------------------------------ MODULE HostCopies ------------------------------
(***************************************************************************)
(* Copies between pinned host tensors and the device.  The CPU runs ahead: *)
(* it enqueues work on four in-order streams, records events, and waits    *)
(* only where the code synchronises.  What matters is which step's data a  *)
(* tensor holds when somebody reads it, so a tensor's content is the       *)
(* number of the step that wrote it (0: never written).                    *)
(*                                                                         *)
(* Tensors allocated per step (sampled tokens, counts, drafts, the private *)
(* clone of the routed experts, the host side of an output) are functions  *)
(* of the step; tensors that are reused are single values.                 *)
(***************************************************************************)
EXTENDS Naturals, Sequences

CONSTANTS
  MaxSteps,   \* bound: steps launched
  Configs     \* of [async |-> use_async_scheduling, drafter |-> none, gpu or cpu:
              \*     none, on the padded batch of sampled ids, on their CPU copy]

ASSUME CopiesAssumption ==
  /\ MaxSteps \in Nat \ {0}
  /\ Configs \subseteq [async : BOOLEAN, drafter : {"none", "gpu", "cpu"}]
  /\ \A c \in Configs : c.async => c.drafter # "cpu"

VARIABLES
  cfg,         \* the configuration of this start
  pc,          \* the worker's thread: idle, launched, sampled, drafted, toList
  step,        \* the step the worker is in, or has ended
  plan,        \* of the step: it verifies drafts, its input fits in the drafter
  queue, done, \* per stream: operations not executed yet, number executed
  event,       \* position of each event on its stream when last recorded
  host,        \* reused pinned tensors
  out,         \* per step: the output as the engine will read it
  dev,         \* device tensors
  draftIds,    \* _draft_token_ids: the step and whether it is the zero tensor
  draftReqs,   \* _draft_token_req_ids: the step whose request ids it copies
  prevSampled, \* prev_sampled_token_ids: the step it is of
  overlapped   \* history: zeros were written over a copy in flight

vars == <<cfg, pc, step, plan, queue, done, event, host, out, dev,
          draftIds, draftReqs, prevSampled, overlapped>>

Streams == {"default", "draftCopy", "countCopy", "outputCopy"}
Steps   == 1 .. MaxSteps
NoDrafts == [step |-> 0, zero |-> FALSE]
NoOutput == [tokens |-> 0, experts |-> 0]

\* One output event per step, the others are recorded anew by every step.
EventStream == [e \in {"inputs", "drafts", "counts", "transfer"} |->
                  CASE e = "drafts" -> "draftCopy" [] e = "counts" -> "countCopy"
                    [] OTHER -> "default"]

Init ==
  /\ cfg \in Configs
  /\ pc = "idle" /\ step = 0 /\ plan = [drafts |-> FALSE, fits |-> TRUE]
  /\ queue = [s \in Streams |-> <<>>] /\ done = [s \in Streams |-> 0]
  /\ event = [e \in DOMAIN EventStream |-> 0]
  /\ host = [inputs |-> 0, drafts |-> NoDrafts, counts |-> 0, experts |-> 0]
  /\ out = [t \in Steps |-> NoOutput]
  /\ dev = [inputs |-> 0, experts |-> 0, sampled |-> [t \in Steps |-> 0],
            drafts |-> [t \in Steps |-> 0], clone |-> [t \in Steps |-> 0]]
  /\ draftIds = NoDrafts /\ draftReqs = 0 /\ prevSampled = 0 /\ overlapped = FALSE

-----------------------------------------------------------------------------
(* Streams and events (external).                                          *)

Op(kind, t)       == [kind |-> kind, step |-> t, after |-> 0]
AtOnce(op, q)     == op   \* mutant: a copy stream that does not wait_stream
\* wait_stream(default): not before what is on the default stream of q by now.
WaitDefault(op, q) == [op EXCEPT !.after = done["default"] + Len(q["default"])]

Enqueue(q, s, ops)  == [q EXCEPT ![s] = @ \o ops]
EnqueueCopy(q, s, op) == Enqueue(q, s, <<WaitDefault(op, q)>>)
RecordedEarly(q, e) == done[EventStream[e]] + Len(q[EventStream[e]]) - 1   \* mutant: ahead of the copy
Recorded(q, e)      == done[EventStream[e]] + Len(q[EventStream[e]])
Reached(e)          == done[EventStream[e]] >= event[e]

SharedExperts(t) == dev.experts   \* mutant: no private clone
ExpertsOf(t)     == dev.clone[t]

\* What the operation op does when its stream gets to it.
Effect(op) ==
  LET t == op.step IN
  CASE op.kind = "inputs"  -> /\ dev' = [dev EXCEPT !.inputs = host.inputs]
                              /\ UNCHANGED <<host, out>>
    [] op.kind = "forward" -> /\ dev' = [dev EXCEPT !.experts = dev.inputs,
                                                    !.sampled[t] = dev.inputs]
                              /\ UNCHANGED <<host, out>>
    [] op.kind = "propose" -> /\ dev' = [dev EXCEPT !.drafts[t] = dev.sampled[t]]
                              /\ UNCHANGED <<host, out>>
    [] op.kind = "clone"   -> /\ dev' = [dev EXCEPT !.clone[t] = dev.experts]
                              /\ UNCHANGED <<host, out>>
    [] op.kind = "drafts"  -> /\ host' = [host EXCEPT !.drafts =
                                            [step |-> dev.drafts[t], zero |-> FALSE]]
                              /\ UNCHANGED <<dev, out>>
    [] op.kind = "counts"  -> /\ host' = [host EXCEPT !.counts = dev.sampled[t]]
                              /\ UNCHANGED <<dev, out>>
    [] op.kind = "experts" -> /\ host' = [host EXCEPT !.experts = dev.experts]
                              /\ UNCHANGED <<dev, out>>
    [] op.kind = "tokens"  -> /\ out' = [out EXCEPT ![t].tokens = dev.sampled[t]]
                              /\ UNCHANGED <<dev, host>>
    [] op.kind = "output"  -> /\ out' = [out EXCEPT ![t] =
                                           [tokens |-> dev.sampled[t], experts |-> ExpertsOf(t)]]
                              /\ UNCHANGED <<dev, host>>

Device(s) ==
  /\ queue[s] # <<>> /\ Head(queue[s]).after <= done["default"]
  /\ Effect(Head(queue[s]))
  /\ queue' = [queue EXCEPT ![s] = Tail(@)] /\ done' = [done EXCEPT ![s] = @ + 1]
  /\ UNCHANGED <<cfg, pc, step, plan, event, draftIds, draftReqs, prevSampled, overlapped>>

-----------------------------------------------------------------------------
(* execute_model: inputs are prepared in the reused host tensors, inside   *)
(* synchronize_input_prep, and the forward pass is launched.               *)

PrepUnguarded == TRUE   \* mutant: the prior step's copies are not waited for
MayPrepare    == cfg.async => Reached("inputs")

\* Without async scheduling the engine takes the drafts after every step.
ReadyDrafts == draftReqs # 0 /\ Reached("drafts")
Taken       == cfg.async \/ draftReqs = 0 \/ ReadyDrafts

ExecuteModel ==
  /\ pc = "idle" /\ step < MaxSteps /\ MayPrepare /\ Taken
  /\ step' = step + 1
  /\ host' = [host EXCEPT !.inputs = step + 1]
  /\ LET q == Enqueue(queue, "default", <<Op("inputs", step + 1)>>)
     IN  /\ event' = [event EXCEPT !.inputs = Recorded(q, "inputs")]
         /\ queue' = Enqueue(q, "default", <<Op("forward", step + 1)>>)
  /\ plan' \in [drafts : {FALSE, draftIds.step # 0}, fits : BOOLEAN]
  /\ pc' = "launched"
  /\ UNCHANGED <<cfg, done, out, dev, draftIds, draftReqs, prevSampled, overlapped>>

\* _sample.  With draft tokens in the step it waits for the ids of the last
\* step, if they were copied; sample_tokens then clears what the step left.
Sample ==
  /\ pc = "launched"
  /\ (cfg.async /\ plan.drafts /\ draftReqs # 0) => ReadyDrafts
  /\ draftIds' = NoDrafts /\ draftReqs' = 0 /\ prevSampled' = 0
  /\ pc' = "sampled"
  /\ UNCHANGED <<cfg, step, plan, queue, done, event, host, out, dev, overlapped>>

-----------------------------------------------------------------------------
(* The drafter, and the copies of its counts and ids to the CPU.           *)

\* _copy_valid_sampled_token_count: only async scheduling has the event.
WithCounts(q) == IF cfg.async THEN EnqueueCopy(q, "countCopy", Op("counts", step)) ELSE q

CopyWanted == IF cfg.async THEN BOOLEAN ELSE {TRUE}

\* _copy_draft_token_ids_to_cpu: without a structured output or a penalty in
\* the batch async scheduling copies nothing; zeros are written by the CPU.
Propose ==
  \E copied \in CopyWanted :
    LET q0 == Enqueue(IF cfg.drafter = "gpu" THEN WithCounts(queue) ELSE queue,
                      "default", <<Op("propose", step)>>)
        q  == IF copied THEN EnqueueCopy(q0, "draftCopy", Op("drafts", step)) ELSE q0
    IN  /\ queue' = q
        /\ draftIds' = [step |-> step, zero |-> FALSE]
        /\ draftReqs' = IF copied THEN step ELSE 0
        /\ event' = [event EXCEPT !.counts = Recorded(q, "counts"),
                                  !.drafts = IF copied THEN Recorded(q, "drafts") ELSE @]
        /\ prevSampled' = IF cfg.async THEN step ELSE prevSampled
        /\ overlapped' = (overlapped /\ ~copied)
        /\ UNCHANGED host

Zeros ==
  \E copied \in CopyWanted :
    LET q == WithCounts(queue)
    IN  /\ queue' = q
        /\ draftIds' = [step |-> step, zero |-> TRUE]
        /\ draftReqs' = IF copied THEN step ELSE 0
        /\ host' = IF copied THEN [host EXCEPT !.drafts = draftIds'] ELSE host
        /\ overlapped' = IF copied THEN queue["draftCopy"] # <<>> ELSE overlapped
        /\ event' = [event EXCEPT !.counts = Recorded(q, "counts"),
                                  !.drafts = IF copied THEN Recorded(q, "drafts") ELSE @]
        /\ prevSampled' = IF cfg.async THEN step ELSE prevSampled

Draft ==
  /\ pc = "sampled" /\ pc' = "drafted"
  /\ IF cfg.drafter # "none" /\ ~plan.fits THEN Zeros
     ELSE IF cfg.drafter = "gpu" THEN Propose
     ELSE UNCHANGED <<queue, draftIds, draftReqs, host, overlapped, event, prevSampled>>
  /\ UNCHANGED <<cfg, step, plan, done, out, dev>>

-----------------------------------------------------------------------------
(* _bookkeeping_sync and the output.                                       *)

\* Async: the output copy stream copies a private clone of what the next
\* forward pass overwrites.
AsyncOutput ==
  /\ pc = "drafted" /\ cfg.async
  /\ queue' = EnqueueCopy(Enqueue(queue, "default", <<Op("clone", step)>>),
                          "outputCopy", Op("output", step))
  /\ prevSampled' = IF prevSampled = 0 THEN step ELSE prevSampled
  /\ pc' = "idle"
  /\ UNCHANGED <<cfg, step, plan, done, event, host, out, dev, draftIds, draftReqs, overlapped>>

\* Sync: the experts are copied into a pinned tensor ahead of _to_list ...
SyncCopy ==
  /\ pc = "drafted" /\ ~cfg.async
  /\ queue' = Enqueue(queue, "default", <<Op("experts", step), Op("tokens", step)>>)
  /\ event' = [event EXCEPT !.transfer = Recorded(queue', "transfer")]
  /\ pc' = "toList"
  /\ UNCHANGED <<cfg, step, plan, done, host, out, dev, draftIds, draftReqs, prevSampled, overlapped>>

\* ... whose wait covers it; a drafter on CPU tokens runs after that.
ToList ==
  /\ pc = "toList" /\ Reached("transfer")
  /\ out' = [out EXCEPT ![step].experts = host.experts]
  /\ IF cfg.drafter = "cpu" /\ plan.fits THEN Propose
     ELSE UNCHANGED <<queue, draftIds, draftReqs, host, overlapped, event, prevSampled>>
  /\ pc' = "idle"
  /\ UNCHANGED <<cfg, step, plan, done, dev>>

Done == pc = "idle" /\ step = MaxSteps /\ (\A s \in Streams : queue[s] = <<>>) /\ UNCHANGED vars

Next ==
  \/ ExecuteModel \/ Sample \/ Draft \/ AsyncOutput \/ SyncCopy \/ ToList \/ Done
  \/ \E s \in Streams : Device(s)

Spec == Init /\ [][Next]_vars

-----------------------------------------------------------------------------
(* Properties                                                              *)

ReadyCounts == prevSampled # 0 /\ cfg.drafter # "none" /\ Reached("counts")

\* Types: queues hold operations of steps already launched.
TypeOK ==
  /\ cfg \in Configs /\ step \in 0 .. MaxSteps
  /\ pc \in {"idle", "launched", "sampled", "drafted", "toList"}
  /\ \A s \in Streams : \A i \in DOMAIN queue[s] : queue[s][i].step \in 1 .. step
  /\ event \in [DOMAIN EventStream -> Nat] /\ done \in [Streams -> Nat]
  /\ draftReqs \in 0 .. step /\ prevSampled \in 0 .. step /\ overlapped \in BOOLEAN

\* A forward pass runs on the inputs prepared for it, though the next step
\* writes the same host tensors while the copy may be in flight
\* (synchronize_input_prep).
InputsIntact == \A t \in Steps : dev.sampled[t] \in {0, t}

\* Whoever may read draft ids (take_draft_token_ids, or _sample for the
\* penalties) reads those of the step whose request ids go with them, or the
\* zeros of that step.  Async scheduling can write the zeros over a copy still
\* in flight (overlapped), which then brings old drafts back.
DraftsExact == ReadyDrafts =>
  /\ draftReqs = draftIds.step
  /\ host.drafts = draftIds \/ (cfg.async /\ overlapped)

\* The counts read on the CPU for the last sampled ids are of the same step
\* (_get_valid_sampled_token_count), drafted or zeroed.
CountsExact == ReadyCounts => host.counts = prevSampled

\* An output has the tokens and the routed experts of its own step, however
\* late its copy runs (AsyncGPUModelRunnerOutput, get_routed_experts; _to_list).
OutputsExact == \A t \in Steps : out[t].tokens # 0 /\ (t < step \/ pc = "idle") =>
  out[t] = [tokens |-> t, experts |-> t]
=============================================================================

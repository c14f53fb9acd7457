----------------------------- MODULE HybridDecode -----------------------------
(***************************************************************************)
(* The asynchronous runner with a hybrid model: every launched step also   *)
(* runs the gated-delta-net layers (vllm_src/gdn_attn.py builds their      *)
(* metadata, vllm_src/qwen_gdn_linear_attn.py and the XPU kernel behind    *)
(* vllm_src/_xpu_ops.py run them).  Such a layer keeps no KV but a         *)
(* recurrent state, so reading the state of the wrong number of tokens     *)
(* silently corrupts the request.  Each request has NumSpec + 1 state      *)
(* slots: a step over draft tokens leaves the state after each of its      *)
(* tokens in the slot of that token, and the next step picks the slot of   *)
(* the last accepted one.                                                  *)
(***************************************************************************)
EXTENDS AsyncSpecDecode

CONSTANT SteadyDrafts   \* does the scheduler keep drafting for a decoding request?

ASSUME SteadyAssumption == SteadyDrafts \in BOOLEAN

VARIABLES
  slots,    \* [Req -> [slot -> number of tokens folded into that state]]
  stateRead \* number of tokens folded into the state the launched step read

hybridVars == <<vars, slots, stateRead>>

Slots   == 0 .. NumSpec
Corrupt == -1

HybridInit ==
  /\ Init
  /\ slots = [r \in Req |-> [j \in Slots |-> 0]] /\ stateRead = [r \in Req |-> 0]

-----------------------------------------------------------------------------
\* num_accepted_tokens: 1 unless the row had drafts in its last step.
NumAcceptedNone(r) == 1   \* mutant: the first slot, whatever was accepted
NumAccepted(r) == IF Participates(r) THEN validCount[PrevIndex(r)] ELSE 1

\* build() takes the speculative path only when some row has a draft.
UsesSpecPath == \E r \in Scheduled : so[r].d > 0

\* Rows whose num_decode_draft_tokens is not -1: the scheduler sent drafts,
\* possibly rolled back to none, and nothing but them and one verified token.
SpecRow(r, rolledBack) ==
  UsesSpecPath /\ so[r].n = so[r].d + 1 /\ (so[r].d > 0 \/ r \in rolledBack)

\* A prefill kernel starts from zero when nothing is computed yet; a one-token
\* row of a batch without drafts is a decode and always loads its slot.
IsPrefillRow(r, rolledBack) == ~SpecRow(r, rolledBack) /\ (UsesSpecPath \/ so[r].n > 1)

\* New and resumed requests get blocks the runner zeroes first.
Slot(r, j) == IF so[r].kind \in {"new", "resumed"} THEN 0 ELSE slots[r][j]

ReadState(r, rolledBack) ==
  IF IsPrefillRow(r, rolledBack) /\ StartPosition(r) = 0 THEN 0
  ELSE IF SpecRow(r, rolledBack) THEN Slot(r, NumAccepted(r) - 1)
  ELSE Slot(r, 0)

\* The state after k more tokens, if what was read was the state before them.
Folded(r, read, k) == IF read = StartPosition(r) THEN read + k ELSE Corrupt

WrittenSlots(r, rolledBack) ==
  LET read == ReadState(r, rolledBack)
  IN  [j \in Slots |->
        IF SpecRow(r, rolledBack)
        THEN IF j <= so[r].d THEN Folded(r, read, j + 1) ELSE Slot(r, j)
        ELSE IF j = 0 THEN Folded(r, read, so[r].n) ELSE Slot(r, j)]

\* Guided decoding may roll the drafts of a decoding request back to none.
MayRollBack(r) == so[r].kind = "cached" /\ so[r].n = 1 /\ so[r].d = 0
                    /\ prevReqIdToIndex[r] # NoRow

GdnForward ==
  \E rolledBack \in SUBSET {r \in Scheduled : MayRollBack(r)} :
    /\ stateRead' = [r \in Req |-> IF r \in Scheduled THEN ReadState(r, rolledBack) ELSE stateRead[r]]
    /\ slots' = [r \in Req |-> IF r \in Scheduled THEN WrittenSlots(r, rolledBack) ELSE slots[r]]

\* The scheduler gives a decoding request all its drafts in every step until
\* it finishes or is preempted.
Steady ==
  \A r \in Req : sched[r].decoded =>
    \/ so'[r].d = NumSpec
    \/ sched'[r].status # "running" \/ ~CanSchedule(r)

HybridNext ==
  \/ Schedule /\ (SteadyDrafts => Steady) /\ UNCHANGED <<slots, stateRead>>
  \/ ExecuteModel /\ GdnForward
  \/ /\ UpdateFromOutput \/ SampleTokens \/ Done \/ \E r \in Req : Abort(r) \/ Resubmit(r)
     /\ UNCHANGED <<slots, stateRead>>

HybridSpec == HybridInit /\ [][HybridNext]_hybridVars

-----------------------------------------------------------------------------
\* Every launched step starts from the recurrent state of exactly the tokens
\* before its first position: the slot choice follows the number of accepted
\* tokens (GDNAttentionMetadataBuilder.build, num_accepted_tokens).
StateExact == \A r \in Req : ex[r].in => stateRead[r] = ex[r].pos
=============================================================================

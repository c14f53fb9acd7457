------------------------------ MODULE StepLayout ------------------------------
(***************************************************************************)
(* How a step lays its requests out in flat tensors                        *)
(* (vllm_src/gpu_model_runner.py, _prepare_inputs and the helpers it       *)
(* calls): cumulative sums, positions, the rows of the logits that verify  *)
(* drafts, and multi-axis positions.  A tensor over the tokens of a step   *)
(* is a function on 0 .. n - 1, one over its requests a sequence.          *)
(*                                                                         *)
(* A row is a request's share of a step:                                   *)
(*   req, prompt           which request, and the length of its prompt     *)
(*   n                     scheduled tokens                                *)
(*   drafts                how many of them are drafts; -1: the scheduler  *)
(*                         lists no drafts for the request (an empty list  *)
(*                         is 0: drafts rolled back by guided decoding)    *)
(*   computed, optimistic  tokens computed before the step, on the GPU and *)
(*                         as the CPU believes (all earlier drafts         *)
(*                         accepted)                                       *)
(*   accepted              tokens its last step accepted                   *)
(***************************************************************************)
EXTENDS Integers, Sequences

Scheduled(rows) == [i \in 1 .. Len(rows) |-> rows[i].n]
Listed(row)     == row.drafts >= 0
DraftsOf(row)   == IF Listed(row) THEN row.drafts ELSE 0
Sampled(rows)   == [i \in 1 .. Len(rows) |-> DraftsOf(rows[i]) + 1]

UseSpecDecode(rows) == \E i \in 1 .. Len(rows) : Listed(rows[i])

-----------------------------------------------------------------------------
(* Cumulative sums: row i owns the flat indices from cu[i - 1] to cu[i] - 1. *)
CuSum(counts) ==
  LET cu[i \in 0 .. Len(counts)] == IF i = 0 THEN 0 ELSE cu[i - 1] + counts[i]
  IN  cu

RowAt(cu, t) == CHOOSE i \in DOMAIN cu \ {0} : cu[i - 1] <= t /\ t < cu[i]

\* np.repeat(starts, counts) plus the arange of every row.
RepeatArange(starts, counts) ==
  LET cu == CuSum(counts)
  IN  [t \in 0 .. cu[Len(counts)] - 1 |->
         LET i == RowAt(cu, t) IN starts[i] + (t - cu[i - 1])]

\* query_start_loc: never decreasing, so rows of padding are empty.
StartLoc(rows, size) ==
  LET cu == CuSum(Scheduled(rows))
  IN  [i \in 0 .. size |-> IF i <= Len(rows) THEN cu[i] ELSE cu[Len(rows)]]

SeqLens(rows, size) ==
  [i \in 1 .. size |-> IF i <= Len(rows) THEN rows[i].computed + rows[i].n ELSE 0]

OptimisticSeqLens(rows, size) ==
  [i \in 1 .. size |-> IF i <= Len(rows) THEN rows[i].optimistic + rows[i].n ELSE 0]

Positions(rows) == RepeatArange([i \in 1 .. Len(rows) |-> rows[i].computed], Scheduled(rows))

-----------------------------------------------------------------------------
(* Speculative decoding: which tokens' logits are computed, and which of   *)
(* them verify which draft.                                                *)

\* A row decodes over drafts when nothing but them and one token is scheduled.
DecodeDrafts(rows, size) ==
  [i \in 1 .. size |->
     IF i <= Len(rows) /\ Listed(rows[i]) /\ rows[i].n = rows[i].drafts + 1
     THEN rows[i].drafts ELSE -1]

LogitsFirst(rows) ==   \* mutant: the row's first tokens instead of its last
  RepeatArange([i \in 1 .. Len(rows) |-> CuSum(Scheduled(rows))[i - 1]], Sampled(rows))
LogitsIndices(rows) ==
  RepeatArange([i \in 1 .. Len(rows) |-> CuSum(Scheduled(rows))[i] - Sampled(rows)[i]],
               Sampled(rows))

TargetLogits(rows) ==
  RepeatArange([i \in 1 .. Len(rows) |-> CuSum(Sampled(rows))[i] - Sampled(rows)[i]],
               [i \in 1 .. Len(rows) |-> DraftsOf(rows[i])])

BonusLogits(rows) == [i \in 1 .. Len(rows) |-> CuSum(Sampled(rows))[i] - 1]

\* draft_token_ids = input_ids[logits_indices][target_logits_indices + 1]
DraftTokens(rows) ==
  [k \in DOMAIN TargetLogits(rows) |-> LogitsIndices(rows)[TargetLogits(rows)[k] + 1]]

-----------------------------------------------------------------------------
(* Multi-axis positions (one axis here): tabulated for the prompt, a shift *)
(* by the request's delta after it.  They are laid out on the CPU from its *)
(* optimistic count; the drift then moves every token of the row.          *)
PromptRope(p)  == 3 * p
RopeDelta      == 50
RopeOf(row, p) == IF p < row.prompt THEN PromptRope(p) ELSE p + RopeDelta

PromptPart(row) ==
  IF row.optimistic + row.n > row.prompt
  THEN IF row.prompt > row.optimistic THEN row.prompt - row.optimistic ELSE 0
  ELSE row.n

DriftNone(row) == 0   \* mutant: positions stay where the CPU believed them
Drift(row)     == row.computed - row.optimistic

CpuRope(row, j) ==
  IF j < PromptPart(row)
  THEN PromptRope(row.optimistic + j)
  ELSE row.optimistic + PromptPart(row) + (j - PromptPart(row)) + RopeDelta

RopePositions(rows) ==
  LET cu == CuSum(Scheduled(rows))
  IN  [t \in DOMAIN Positions(rows) |->
         LET i == RowAt(cu, t) IN CpuRope(rows[i], t - cu[i - 1]) + Drift(rows[i])]

-----------------------------------------------------------------------------
\* kv_sharing_fast_prefill_logits_indices: the last index pads the buffer.
FastPrefillShort(buffer, logits) ==   \* mutant: the tail keeps an earlier step's
  [k \in DOMAIN buffer |-> IF k \in DOMAIN logits THEN logits[k] ELSE buffer[k]]
FastPrefillIndices(buffer, logits) ==
  LET last == CHOOSE k \in DOMAIN logits : k + 1 \notin DOMAIN logits
  IN  [k \in DOMAIN buffer |-> IF k \in DOMAIN logits THEN logits[k] ELSE logits[last]]
=============================================================================

---------------------------- MODULE AsyncSpecDecode ----------------------------
(***************************************************************************)
(* The GPU model runner under asynchronous scheduling with speculative     *)
(* decoding (vllm_src/gpu_model_runner.py).                                *)
(*                                                                         *)
(* The scheduler sends the SchedulerOutput of step t+1 before it has seen  *)
(* the tokens of step t, so the token counts it sends assume that every    *)
(* draft of step t was accepted.  The runner keeps three copies of "how    *)
(* many tokens of this request are computed" (the request's, the batch     *)
(* row's on the CPU, the row's on the GPU) and corrects each at a          *)
(* different time from the number of tokens step t really produced, which  *)
(* is recorded by batch row of step t, while rows move between steps.      *)
(*                                                                         *)
(* The scheduler is not in the repository: its actions are the weakest     *)
(* behaviour the runner's code relies on.  At most two steps are in        *)
(* flight.  The three hand-over buffers (so, ex, res) hold one step each;  *)
(* the two processes share nothing else, so a deeper queue adds no         *)
(* behaviour of either side.                                               *)
(***************************************************************************)
EXTENDS Integers, FiniteSets, Sequences

CONSTANTS
  Req,            \* request ids
  NumSpec,        \* num_spec_tokens: drafts proposed per request and step
  MaxNumReqs,     \* rows of the persistent batch
  MaxChunk,       \* bound: prompt tokens the scheduler gives a request at once
  PromptLen,      \* bound: [Req -> Nat], the length of each prompt
  MaxTokens,      \* bound: [Req -> Nat], a request is finished at this many tokens
  MaxGen,         \* bound: how often a finished id is submitted again
  EarlyOutput,    \* may the scheduler see step t before it schedules t+1?
  IdleSteps,      \* may a step schedule no token at all?
  ForgetRemoved   \* does remove_request drop the id from prev_req_id_to_index?

ASSUME SpecAssumption ==
  /\ NumSpec \in Nat \ {0} /\ MaxNumReqs \in Nat \ {0} /\ MaxChunk \in Nat \ {0}
  /\ PromptLen \in [Req -> Nat \ {0}] /\ MaxTokens \in [Req -> Nat] /\ MaxGen \in Nat
  /\ EarlyOutput \in BOOLEAN /\ IdleSteps \in BOOLEAN /\ ForgetRemoved \in BOOLEAN

VARIABLES
  sched,        \* external scheduler: what it believes of each request
  finishedIds,  \* finished ids the runner has not been told of
  soReady, so, soFinished,   \* the SchedulerOutput handed to the runner
  st,           \* self.requests and the request's row of self.input_batch
  prevReqIdToIndex,          \* rows of the last sampled step, by request
  prevSampled,  \* prev_sampled_token_ids, by row of the last sampled step
  validCount,   \* valid_sampled_token_count (GPU and its CPU copy), same rows
  sampledOnce,  \* both are set
  gpuComputed,  \* self.num_computed_tokens, by row, never moved by condense
  exReady, ex,  \* ExecuteModelState: the launched forward pass
  resReady, res,             \* the AsyncModelRunnerOutput
  kv,           \* ghost: leading positions that hold the request's own KV
  len,          \* ghost: tokens of the request that exist on the GPU
  text          \* ghost: token indices delivered to the scheduler, in order

schedVars  == <<sched, finishedIds, text>>
soVars     == <<soReady, so, soFinished>>
batchVars  == <<st, prevReqIdToIndex, prevSampled, validCount, sampledOnce>>
exVars     == <<exReady, ex, gpuComputed>>
resVars    == <<resReady, res>>
ghostVars  == <<kv, len>>
vars == <<schedVars, soVars, batchVars, exVars, resVars, ghostVars>>

NoRow == -1
Rows  == 0 .. (MaxNumReqs - 1)
Min2(a, b) == IF a <= b THEN a ELSE b

\* A sampled or prompt token, named by its owner and its index; Junk is what
\* a placeholder (-1) or a forward pass over wrong inputs gives.
Token(r, i) == [own |-> {r}, gen |-> sched[r].gen, idx |-> i]
Junk        == [own |-> {}, gen |-> 0, idx |-> 0]

NotScheduled == [kind |-> "out", n |-> 0, d |-> 0, computed |-> 0, nout |-> 0, known |-> 0]
Absent       == [cached |-> FALSE, row |-> NoRow, computed |-> 0, draftLen |-> 0,
                 out |-> 0, cpu |-> 0, noSpec |-> 0, real |-> 0]
NotLaunched  == [in |-> FALSE, row |-> NoRow, pos |-> 0, n |-> 0, d |-> 0,
                 tok |-> Junk, discard |-> FALSE]
NoResult     == [in |-> FALSE, first |-> 0, cnt |-> 0, d |-> 0, ok |-> TRUE]

Init ==
  /\ sched = [r \in Req |-> [status |-> "waiting", computed |-> 0, tokens |-> PromptLen[r],
                             holes |-> 0, gen |-> 0, decoded |-> FALSE]]
  /\ finishedIds = {}
  /\ text = [r \in Req |-> <<>>]
  /\ soReady = FALSE /\ so = [r \in Req |-> NotScheduled] /\ soFinished = {}
  /\ st = [r \in Req |-> Absent]
  /\ prevReqIdToIndex = [r \in Req |-> NoRow]
  /\ prevSampled = [i \in Rows |-> Junk] /\ validCount = [i \in Rows |-> 0]
  /\ sampledOnce = FALSE
  /\ gpuComputed = [i \in Rows |-> 0]
  /\ exReady = FALSE /\ ex = [r \in Req |-> NotLaunched]
  /\ resReady = FALSE /\ res = [r \in Req |-> NoResult]
  /\ kv = [r \in Req |-> 0] /\ len = [r \in Req |-> PromptLen[r]]

-----------------------------------------------------------------------------
(* The scheduler (external).  tokens + holes is the optimistic number of   *)
(* tokens: holes (num_output_placeholders) counts every token the steps in *)
(* flight may produce.  decoded: the last scheduled step reached the end   *)
(* of the request, so the runner holds drafts for it.                      *)

Live(r) == sched[r].status \in {"waiting", "running", "preempted"}

\* Outputs are pending only across two consecutive steps: a request left out
\* of a step is not scheduled again before they have arrived.
CanSchedule(r) ==
  /\ Live(r)
  /\ sched[r].holes > 0 => sched[r].decoded
  /\ sched[r].tokens + (IF sched[r].holes > 0 THEN 1 ELSE 0) < MaxTokens[r]

Uncomputed(r) == sched[r].tokens + sched[r].holes - sched[r].computed

\* A chunk of the prompt, or all that is left plus the request's drafts.
Amounts(r) ==
  {[n |-> n, d |-> 0] : n \in 1 .. Min2(MaxChunk, Uncomputed(r))}
    \cup {[n |-> 1 + d, d |-> d] :
            d \in IF sched[r].decoded /\ Uncomputed(r) = 1 THEN 0 .. NumSpec ELSE {}}

Kind(r) == CASE sched[r].status = "waiting"   -> "new"
             [] sched[r].status = "preempted" -> "resumed"
             [] OTHER                         -> "cached"

Entry(r, amount) ==
  [kind |-> Kind(r), n |-> amount.n, d |-> amount.d, computed |-> sched[r].computed,
   nout |-> sched[r].tokens + sched[r].holes - PromptLen[r], known |-> sched[r].tokens]

AfterSchedule(r, amount) ==
  LET atEnd == amount.n = Uncomputed(r) + amount.d
  IN  [sched[r] EXCEPT !.status = "running",
                       !.computed = @ + amount.n,
                       !.holes = IF atEnd THEN @ + 1 + amount.d ELSE @,
                       !.decoded = atEnd]

Schedule ==
  /\ ~soReady /\ ~(exReady /\ resReady)
  /\ \E S \in SUBSET {r \in Req : CanSchedule(r)} :
       /\ S # {} \/ IdleSteps
       /\ Cardinality(S) <= MaxNumReqs
       /\ \E preempted \in SUBSET {r \in Req \ S : sched[r].status = "running"} :
          \E amount \in [S -> UNION {Amounts(r) : r \in S}] :
            /\ \A r \in S : amount[r] \in Amounts(r)
            /\ so' = [r \in Req |-> IF r \in S THEN Entry(r, amount[r]) ELSE NotScheduled]
            /\ sched' = [r \in Req |->
                 CASE r \in S         -> AfterSchedule(r, amount[r])
                   [] r \in preempted -> [sched[r] EXCEPT !.status = "preempted",
                                                          !.computed = 0,
                                                          !.decoded = FALSE]
                   [] OTHER           -> [sched[r] EXCEPT !.decoded = FALSE]]
  /\ soReady' = TRUE /\ soFinished' = finishedIds /\ finishedIds' = {}
  /\ UNCHANGED <<text, batchVars, exVars, resVars, ghostVars>>

InFlight(r) == \/ soReady /\ so[r].kind # "out"
               \/ exReady /\ ex[r].in
               \/ resReady /\ res[r].in

\* update_from_output: append the tokens, take back the rejected drafts.
UpdateFromOutput ==
  /\ resReady
  /\ EarlyOutput \/ soReady \/ exReady \/ ~\E r \in Req : CanSchedule(r)
  /\ \E stop \in SUBSET Req : \E keep \in [Req -> 0 .. NumSpec + 1] :
       LET Takes(r) == res[r].in /\ res[r].cnt > 0 /\ Live(r)
           Ends(r)  == Takes(r) /\ (r \in stop \/ keep[r] < res[r].cnt
                                      \/ sched[r].tokens + keep[r] >= MaxTokens[r])
           Rejected(r) == res[r].d + 1 - res[r].cnt
       IN  /\ \A r \in Req :
                IF Takes(r) THEN keep[r] \in 1 .. Min2(res[r].cnt, MaxTokens[r] - sched[r].tokens)
                            ELSE keep[r] = 0 /\ r \notin stop
           /\ sched' = [r \in Req |->
                IF ~Takes(r) THEN sched[r]
                ELSE [sched[r] EXCEPT
                        !.status   = IF Ends(r) THEN "finished" ELSE @,
                        !.tokens   = @ + keep[r],
                        !.holes    = @ - (res[r].d + 1),
                        !.computed = IF @ > 0 THEN @ - Rejected(r) ELSE 0]]
           /\ text' = [r \in Req |->
                text[r] \o [j \in 1 .. keep[r] |-> IF res[r].ok THEN res[r].first + j - 1 ELSE NoRow]]
           /\ finishedIds' = finishedIds \cup {r \in Req : Ends(r)}
  /\ resReady' = FALSE /\ res' = [r \in Req |-> NoResult]
  /\ UNCHANGED <<soVars, batchVars, exVars, ghostVars>>

Abort(r) ==
  /\ Live(r)
  /\ sched' = [sched EXCEPT ![r].status = "finished"]
  /\ finishedIds' = finishedIds \cup {r}
  /\ UNCHANGED <<text, soVars, batchVars, exVars, resVars, ghostVars>>

\* The same id is submitted again, possibly before the runner has been told
\* that the first request of that id is finished.
Resubmit(r) ==
  /\ sched[r].status = "finished" /\ sched[r].gen < MaxGen /\ ~InFlight(r)
  /\ sched' = [sched EXCEPT ![r] = [status |-> "waiting", computed |-> 0,
                 tokens |-> PromptLen[r], holes |-> 0, gen |-> @.gen + 1, decoded |-> FALSE]]
  /\ text' = [text EXCEPT ![r] = <<>>]
  /\ UNCHANGED <<finishedIds, soVars, batchVars, exVars, resVars, ghostVars>>

-----------------------------------------------------------------------------
(* _update_states: the cached requests and the persistent batch.           *)

Scheduled == {r \in Req : so[r].kind # "out"}

\* req_index is not None: the request keeps a row (unscheduled, finished and
\* resumed requests are removed before the loop over the cached ones).
StaysInBatch(r) == st[r].row # NoRow /\ r \notin soFinished /\ so[r].kind = "cached"

\* prev_req_id_to_index after the removals (remove_request is external).
PrevIndexOfAnyLife(r) == prevReqIdToIndex[r]   \* mutant: removed ids stay
PrevIndex(r) ==
  IF ForgetRemoved /\ st[r].row # NoRow /\ ~StaysInBatch(r) THEN NoRow ELSE prevReqIdToIndex[r]

\* The scheduler's count includes the drafts of the request's last step.
IsOptimistic(r) == StaysInBatch(r) /\ st[r].draftLen > 0

\* prev_num_draft_tokens: zero, then written at the previous row.
PrevNumDrafts(i) ==
  IF \E r \in Req : IsOptimistic(r) /\ PrevIndex(r) = i
  THEN st[CHOOSE r \in Req : IsOptimistic(r) /\ PrevIndex(r) = i].draftLen
  ELSE 0

NewState(r, row) ==
  [cached |-> TRUE, row |-> row, computed |-> so[r].computed, draftLen |-> so[r].d,
   out |-> 0, cpu |-> so[r].computed, noSpec |-> PromptLen[r], real |-> PromptLen[r]]

\* Outputs beyond the scheduler's count are placeholders of rejected drafts.
Untrimmed(r, extended) == extended   \* mutant: rejected placeholders are kept
Trimmed(r, extended)   == Min2(so[r].nout, extended)

\* A cached request: extend the outputs by the optimistic placeholders, trim
\* them to what the scheduler counts, then update its row or add it again with
\* the token ids the scheduler sent.
CachedState(r, row) ==
  LET extended == st[r].out + (IF IsOptimistic(r) THEN st[r].draftLen ELSE 0)
      trimmed  == Trimmed(r, extended)
      restored == IF so[r].nout > 0 THEN so[r].nout ELSE trimmed
  IN  IF StaysInBatch(r)
      THEN [st[r] EXCEPT !.row = row, !.computed = so[r].computed, !.cpu = so[r].computed,
                         !.draftLen = so[r].d, !.out = trimmed,
                         !.noSpec = IF so[r].nout < extended THEN PromptLen[r] + so[r].nout ELSE @]
      ELSE [st[r] EXCEPT !.row = row, !.computed = so[r].computed, !.cpu = so[r].computed,
                         !.draftLen = so[r].d, !.out = restored,
                         !.noSpec = PromptLen[r] + restored, !.real = so[r].known]

UpdatedState(r, row) ==
  CASE so[r].kind = "new"               -> NewState(r, row)
    [] so[r].kind \in {"cached", "resumed"} -> CachedState(r, row)
    [] so[r].kind = "out" /\ r \in soFinished -> Absent
    [] OTHER                            -> [st[r] EXCEPT !.row = NoRow]

\* correct_spec_decode_token_counts, run after the forward pass is launched.
CorrectionWithBonus(r) ==   \* mutant: the bonus token counted as a draft
  IF IsOptimistic(r) /\ PrevIndex(r) # NoRow /\ sampledOnce
  THEN st[r].draftLen - validCount[PrevIndex(r)] ELSE 0
Correction(r) ==
  IF IsOptimistic(r) /\ PrevIndex(r) # NoRow /\ sampledOnce
  THEN st[r].draftLen - (validCount[PrevIndex(r)] - 1)
  ELSE 0

CorrectedRequestOnly(r, s) == [s EXCEPT !.computed = @ - Correction(r)]   \* mutant
Corrected(r, s) == [s EXCEPT !.computed = @ - Correction(r), !.cpu = @ - Correction(r)]

-----------------------------------------------------------------------------
(* _prepare_inputs and _prepare_input_ids: what the forward pass reads.    *)

\* update_num_computed_tokens_for_batch_change: rows that had drafts add what
\* their last step produced to the count the GPU kept at their previous row.
Participates(r) ==
  sampledOnce /\ PrevIndex(r) # NoRow /\ PrevNumDrafts(PrevIndex(r)) > 0

StartFromScheduler(r) == so[r].computed   \* mutant: trust the optimistic count
StartAllAccepted(r) ==                    \* mutant: every draft counts as accepted
  IF Participates(r) THEN gpuComputed[PrevIndex(r)] + 1 + PrevNumDrafts(PrevIndex(r))
  ELSE so[r].computed
StartPosition(r) ==
  IF Participates(r)
  THEN gpuComputed[PrevIndex(r)] + validCount[PrevIndex(r)]
  ELSE so[r].computed

\* The id at the last non-draft position: the token sampled at the previous
\* row when there is one, otherwise what token_ids_cpu holds there.
LastInputFromCpu(r, s) ==   \* mutant: the previous step's sample is not scattered
  LET i == so[r].computed + so[r].n - so[r].d - 1
  IN  IF i < s.real THEN Token(r, i) ELSE Junk
LastInputToken(r, s) ==
  LET i == so[r].computed + so[r].n - so[r].d - 1
  IN  IF sampledOnce /\ PrevIndex(r) # NoRow THEN prevSampled[PrevIndex(r)]
      ELSE IF i < s.real THEN Token(r, i) ELSE Junk

\* discard_request_mask: the step does not reach the last token.
Discards(r, s) == so[r].computed + so[r].n < PromptLen[r] + s.out

Launch(r, s) ==
  [in |-> TRUE, row |-> s.row, pos |-> StartPosition(r), n |-> so[r].n, d |-> so[r].d,
   tok |-> LastInputToken(r, s),
   discard |-> Discards(r, s)]

\* Rows after condense() and the backend's reordering: any dense placement.
PlacementsFromOne(S) ==   \* mutant: rows counted from one
  {p \in [S -> 1 .. MaxNumReqs] : \A r, q \in S : p[r] = p[q] => r = q}
Placements(S) ==
  {p \in [S -> Rows] : /\ \A r, q \in S : p[r] = p[q] => r = q
                       /\ {p[r] : r \in S} = 0 .. (Cardinality(S) - 1)}

ExecuteModel ==
  /\ soReady /\ ~exReady
  /\ \E p \in Placements(Scheduled) :
       LET updated == [r \in Req |->
                         UpdatedState(r, IF r \in Scheduled THEN p[r] ELSE NoRow)]
       IN  /\ st' = [r \in Req |-> Corrected(r, updated[r])]
           /\ ex' = [r \in Req |-> IF r \in Scheduled THEN Launch(r, updated[r]) ELSE NotLaunched]
           /\ gpuComputed' = [i \in Rows |->
                IF \E r \in Scheduled : p[r] = i
                THEN StartPosition(CHOOSE r \in Scheduled : p[r] = i) ELSE gpuComputed[i]]
  /\ prevReqIdToIndex' = [r \in Req |-> PrevIndex(r)]
  /\ exReady' = (Scheduled # {})
  /\ kv' = [r \in Req |-> IF so[r].kind \in {"new", "resumed"} THEN so[r].computed ELSE kv[r]]
  /\ len' = [r \in Req |-> IF so[r].kind = "new" THEN PromptLen[r] ELSE len[r]]
  /\ soReady' = FALSE /\ so' = [r \in Req |-> NotScheduled] /\ soFinished' = {}
  /\ UNCHANGED <<schedVars, prevSampled, validCount, sampledOnce, resVars>>

-----------------------------------------------------------------------------
(* sample_tokens: sample, record the counts by row, bookkeeping.           *)

\* The forward pass read the request's own context: it starts where the KV
\* ends and its last verified input is the request's own token.
RightInputs(r) ==
  /\ ex[r].pos = kv[r]
  /\ ex[r].tok = Token(r, ex[r].pos + ex[r].n - ex[r].d - 1)

Samples(r) == ex[r].in /\ ~ex[r].discard

SampleTokens ==
  /\ exReady /\ ~resReady
  /\ \E accepted \in [Req -> 0 .. NumSpec] :
       LET Last(r) == ex[r].pos + ex[r].n - ex[r].d + accepted[r]
           At(i)   == CHOOSE r \in Req : Samples(r) /\ ex[r].row = i
           Used(i) == \E r \in Req : Samples(r) /\ ex[r].row = i
       IN  /\ \A r \in Req : accepted[r] <= (IF Samples(r) THEN ex[r].d ELSE 0)
           /\ validCount' = [i \in Rows |-> IF Used(i) THEN accepted[At(i)] + 1 ELSE 0]
           /\ prevSampled' = [i \in Rows |->
                IF Used(i) /\ RightInputs(At(i)) THEN Token(At(i), Last(At(i))) ELSE Junk]
           /\ res' = [r \in Req |->
                IF Samples(r)
                THEN [in |-> TRUE, first |-> Last(r) - accepted[r], cnt |-> accepted[r] + 1,
                      d |-> ex[r].d, ok |-> RightInputs(r)]
                ELSE [NoResult EXCEPT !.in = ex[r].in]]
           /\ kv' = [r \in Req |-> IF Samples(r) THEN Last(r)
                                   ELSE IF ex[r].in THEN ex[r].pos + ex[r].n ELSE kv[r]]
           /\ len' = [r \in Req |-> IF Samples(r) THEN Last(r) + 1 ELSE len[r]]
  /\ prevReqIdToIndex' = [r \in Req |-> IF Samples(r) THEN ex[r].row ELSE NoRow]
  /\ sampledOnce' = TRUE
  /\ st' = [r \in Req |-> IF Samples(r) THEN [st[r] EXCEPT !.out = @ + 1, !.noSpec = @ + 1]
                                        ELSE st[r]]
  /\ exReady' = FALSE /\ ex' = [r \in Req |-> NotLaunched]
  /\ resReady' = TRUE
  /\ UNCHANGED <<schedVars, soVars, gpuComputed>>

Done ==
  /\ \A r \in Req : sched[r].status = "finished"
  /\ ~soReady /\ ~exReady /\ ~resReady
  /\ UNCHANGED vars

Next ==
  \/ Schedule \/ UpdateFromOutput \/ ExecuteModel \/ SampleTokens \/ Done
  \/ \E r \in Req : Abort(r) \/ Resubmit(r)

Spec == Init /\ [][Next]_vars

-----------------------------------------------------------------------------
(* Properties                                                              *)

Tokens     == [own : SUBSET Req, gen : Nat, idx : Int]
SchedEntry == [status : {"waiting", "running", "preempted", "finished"},
               computed : Int, tokens : Nat, holes : Int, gen : Nat, decoded : BOOLEAN]
SoEntry    == [kind : {"out", "new", "cached", "resumed"}, n : Nat, d : Nat,
               computed : Int, nout : Int, known : Nat]
StEntry    == [cached : BOOLEAN, row : Rows \cup {NoRow}, computed : Int, draftLen : Nat,
               out : Int, cpu : Int, noSpec : Int, real : Nat]
ExEntry    == [in : BOOLEAN, row : Rows \cup {NoRow}, pos : Int, n : Nat, d : Nat,
               tok : Tokens, discard : BOOLEAN]
ResEntry   == [in : BOOLEAN, first : Int, cnt : Nat, d : Nat, ok : BOOLEAN]

\* Types of the hand-over buffers, the runner's caches and the ghosts.
TypeOK ==
  /\ sched \in [Req -> SchedEntry]
  /\ finishedIds \subseteq Req /\ soFinished \subseteq Req
  /\ soReady \in BOOLEAN /\ exReady \in BOOLEAN /\ resReady \in BOOLEAN /\ sampledOnce \in BOOLEAN
  /\ so \in [Req -> SoEntry]
  /\ st \in [Req -> StEntry]
  /\ prevReqIdToIndex \in [Req -> Rows \cup {NoRow}]
  /\ prevSampled \in [Rows -> Tokens] /\ validCount \in [Rows -> Nat]
  /\ gpuComputed \in [Rows -> Int]
  /\ ex \in [Req -> ExEntry]
  /\ res \in [Req -> ResEntry]
  /\ kv \in [Req -> Int] /\ len \in [Req -> Int]
  /\ text \in [Req -> Seq(Int)]

\* Every launched row starts exactly where the request's own KV ends: no
\* position is skipped and none is computed twice, whatever was accepted in
\* the step before and whichever row the request had in it
\* (update_num_computed_tokens_for_batch_change in _prepare_inputs).
PositionsExact == \A r \in Req : ex[r].in => ex[r].pos = kv[r]

\* Every launched row is fed the request's own last verified token, never the
\* token another request left in that row, a token of an earlier request of
\* the same id, or a -1 placeholder (_prepare_input_ids).
FeedsOwnToken ==
  \A r \in Req : ex[r].in =>
    ex[r].tok = Token(r, ex[r].pos + ex[r].n - ex[r].d - 1)

\* Sampled tokens are kept for exactly the rows whose input reaches the last
\* token of the request (discard_request_mask, computed from optimistic
\* lengths on both sides).
DiscardExact ==
  \A r \in Req : ex[r].in => (ex[r].discard <=> ex[r].pos + ex[r].n - ex[r].d < len[r])

\* Once a step is launched and the deferred correction has run, the CPU copies
\* of num_computed_tokens agree with the position the GPU used
\* (correct_spec_decode_token_counts).
CpuCountsExact ==
  \A r \in Req : ex[r].in => st[r].computed = ex[r].pos /\ st[r].cpu = ex[r].pos

\* What a user of the engine is promised: the tokens of a request arrive in
\* order, without gap, repetition or token of another request.
Stream == INSTANCE DecodeStream WITH MaxStep <- NumSpec + 1
StreamSpec == Stream!Spec
=============================================================================

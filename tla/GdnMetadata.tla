------------------------------ MODULE GdnMetadata ------------------------------
(***************************************************************************)
(* The metadata of the gated-delta-net layers (vllm_src/gdn_attn.py) and   *)
(* what the layer's kernels make of it (qwen_gdn_linear_attn.py,           *)
(* _xpu_ops.py): which tokens form a sequence, and which recurrent state   *)
(* the sequence starts from.  The kernels are not in the repository; a     *)
(* kernel is the set of sequences it runs.                                 *)
(*                                                                         *)
(* The common metadata m of a step: reqs and tokens (padded counts), loc   *)
(* (query_start_loc), seqLens, state (the request whose blocks a row's     *)
(* block table holds), listed (were the arguments of speculative decoding  *)
(* passed?), drafts (num_decode_draft_tokens) and accepted.                *)
(***************************************************************************)
EXTENDS StepLayout, FiniteSets

Null  == 0     \* NULL_BLOCK_ID: no request's
Stale == 99    \* what an earlier step left in a buffer, or nobody wrote

-----------------------------------------------------------------------------
(* build().                                                                *)
QueryLenOf(m, i) == m.loc[i] - m.loc[i - 1]

\* A tensor over the rows, indexed by a mask: the k-th row kept is the one that
\* the mask's running count reaches k at.
RowsWhere(m, S) ==
  LET cu == CuSum([i \in 1 .. m.reqs |-> IF i \in S THEN 1 ELSE 0])
  IN  [k \in 1 .. cu[m.reqs] |-> RowAt(cu, k - 1)]

SpecMask(m) ==
  LET decoding == {i \in 1 .. m.reqs : m.drafts[i] >= 0}
  IN  IF m.listed /\ \E i \in decoding : m.drafts[i] > 0 THEN decoding ELSE {}

\* split_decodes_and_prefills (external): the rows before the first long one.
LeadingDecodes(m) ==
  CHOOSE k \in 0 .. m.reqs :
    /\ \A i \in 1 .. k : QueryLenOf(m, i) <= 1
    /\ k < m.reqs => QueryLenOf(m, k + 1) > 1

LocOf(m, rows) == CuSum([k \in 1 .. Len(rows) |-> QueryLenOf(m, rows[k])])

\* The tokens of the rows in order: what a stable argsort of the mask leaves.
TokensOf(m, rows) ==
  RepeatArange([k \in 1 .. Len(rows) |-> m.loc[rows[k] - 1]],
               [k \in 1 .. Len(rows) |-> QueryLenOf(m, rows[k])])

Chosen(f, rows) == [k \in 1 .. Len(rows) |-> f[rows[k]]]
HasContext(m, rows) == [k \in 1 .. Len(rows) |-> m.seqLens[rows[k]] - QueryLenOf(m, rows[k]) > 0]

NoTokens == [t \in {} |-> 0]
NoMetadata ==
  [prefills |-> 0, decodes |-> 0, specs |-> 0,
   specSlots |-> <<>>, specLoc |-> [i \in {0} |-> 0], specTokens |-> NoTokens, specAccepted |-> <<>>,
   slots |-> <<>>, loc |-> [i \in {0} |-> 0], tokens |-> NoTokens, initial |-> <<>>]

\* No row decodes over drafts: decodes first, then prefills.
PlainMetadata(m) ==
  LET all == RowsWhere(m, 1 .. m.reqs)
  IN  [NoMetadata EXCEPT
         !.decodes = LeadingDecodes(m), !.prefills = m.reqs - LeadingDecodes(m),
         !.slots = m.state, !.loc = m.loc, !.tokens = TokensOf(m, all), !.initial = HasContext(m, all)]

\* Some row does.  One-token rows beside it count as prefills, empty ones not
\* at all; without others the batch is as it is, padding at its back.
CountEmpty(m, rows) == Len(rows)   \* mutant: empty rows count as prefills
CountPrefills(m, rows) == Cardinality({k \in 1 .. Len(rows) : QueryLenOf(m, rows[k]) > 0})

SpecMetadata(m) ==
  LET spec     == RowsWhere(m, SpecMask(m))
      others   == RowsWhere(m, (1 .. m.reqs) \ SpecMask(m))
      prefills == CountPrefills(m, others)
      pure     == prefills = 0
  IN  [prefills |-> prefills, decodes |-> 0, specs |-> Len(spec),
       specSlots    |-> Chosen(m.state, spec),
       specLoc      |-> IF pure THEN [i \in 0 .. Len(spec) |-> m.loc[i]] ELSE LocOf(m, spec),
       specTokens   |-> IF pure THEN [t \in 0 .. m.loc[m.reqs] - 1 |-> t] ELSE TokensOf(m, spec),
       specAccepted |-> Chosen(m.accepted, spec),
       slots   |-> IF pure THEN <<>> ELSE Chosen(m.state, others),
       loc     |-> IF pure THEN [i \in {0} |-> 0] ELSE LocOf(m, others),
       tokens  |-> IF pure THEN NoTokens ELSE TokensOf(m, others),
       initial |-> HasContext(m, others)]

BuildGdn(m) == IF SpecMask(m) = {} THEN PlainMetadata(m) ELSE SpecMetadata(m)

\* The prefill part of a batch whose decodes are peeled off: rebased.
SplitsDecodes(md) == md.specs = 0 /\ md.prefills > 0 /\ md.decodes > 0

PrefillPart(md) ==
  LET d == md.decodes
  IN  IF SplitsDecodes(md)
      THEN [slots   |-> [i \in 1 .. md.prefills |-> md.slots[i + d]],
            loc     |-> [i \in 0 .. md.prefills |-> md.loc[i + d] - md.loc[d]],
            initial |-> [i \in 1 .. md.prefills |-> md.initial[i + d]]]
      ELSE [slots |-> md.slots, loc |-> md.loc, initial |-> md.initial]

-----------------------------------------------------------------------------
(* The persistent buffers a full graph reads.  maxBs is                    *)
(* decode_cudagraph_max_bs; every entry up to the padded batch is written. *)
StaleBuffers(maxBs) ==
  [specSlots    |-> [i \in 1 .. maxBs |-> Stale], specLoc |-> [i \in 0 .. maxBs |-> Stale],
   specAccepted |-> [i \in 1 .. maxBs |-> Stale],
   slots        |-> [i \in 1 .. maxBs |-> Stale], loc     |-> [i \in 0 .. maxBs |-> Stale]]

\* Copy the first k entries, fill up to the batch, leave the rest.
Fill(buffer, from, k, size, pad) ==
  [i \in DOMAIN buffer |-> IF i <= k THEN from[i] ELSE IF i <= size THEN pad ELSE buffer[i]]

Persist(buffers, md, m, maxBs) ==
  LET k == md.specs
      d == md.decodes
  IN  IF /\ md.prefills = 0 /\ md.decodes = 0
         /\ k <= maxBs /\ m.loc[m.reqs] <= maxBs
      THEN [buffers EXCEPT
              !.specSlots    = Fill(@, md.specSlots, k, m.reqs, Null),
              !.specLoc      = Fill(@, md.specLoc, k, m.reqs, md.specLoc[k]),
              !.specAccepted = Fill(@, md.specAccepted, k, m.reqs, 1)]
      ELSE IF md.prefills = 0 /\ md.specs = 0 /\ d <= maxBs
      THEN [buffers EXCEPT
              !.slots = Fill(@, md.slots, d, m.reqs, Null),
              !.loc   = Fill(@, md.loc, d, m.reqs, md.loc[d])]
      ELSE buffers

\* What a graph captured for size requests of len tokens reads when replayed:
\* the buffers, cut to the captured shape, whatever the batch is.
CapturedMetadata(buffers, size, len) ==
  IF len > 1
  THEN [NoMetadata EXCEPT
          !.specs = size, !.specTokens = [t \in 0 .. size * len - 1 |-> t],
          !.specSlots = [i \in 1 .. size |-> buffers.specSlots[i]],
          !.specLoc   = [i \in 0 .. size |-> buffers.specLoc[i]],
          !.specAccepted = [i \in 1 .. size |-> buffers.specAccepted[i]]]
  ELSE [NoMetadata EXCEPT
          !.decodes = size, !.tokens = [t \in 0 .. size - 1 |-> t],
          !.slots = [i \in 1 .. size |-> buffers.slots[i]], !.loc = [i \in 0 .. size |-> buffers.loc[i]]]

-----------------------------------------------------------------------------
(* The kernels.  A sequence: its tokens, and the state it starts from,     *)
(* which is zero, or the state after the offset-th token of the request's  *)
(* last step.  A request's blocks are zeroed before its first step.        *)
Zero == [req |-> Null, offset |-> 0]
From(req, offset, fresh) == IF req \in fresh THEN Zero ELSE [req |-> req, offset |-> offset]

\* Sequences i, with tokens[loc[i - 1] .. loc[i] - 1], from loads[i]; null rows are skipped.
RunSequences(slots, loc, tokens, loads) ==
  LET token(t) == IF t \in DOMAIN tokens THEN tokens[t] ELSE Stale
  IN  {[tokens |-> [j \in 1 .. loc[i] - loc[i - 1] |-> token(loc[i - 1] + j - 1)], load |-> loads[i]] :
         i \in {i \in DOMAIN loads : slots[i] # Null /\ loc[i] > loc[i - 1]}}

SpecSequences(md, fresh) ==
  RunSequences(md.specSlots, md.specLoc, md.specTokens,
               [i \in 1 .. md.specs |-> From(md.specSlots[i], md.specAccepted[i] - 1, fresh)])

\* One token and one state index per row, no offsets.
PackedSequences(md, fresh) ==
  {[tokens |-> <<i - 1>>, load |-> From(md.slots[i], 0, fresh)] :
     i \in {i \in 1 .. md.decodes : md.slots[i] # Null}}

\* The fused kernels of a batch of drafts only take its tokens as they are.
FusedSequences(md, fresh) == SpecSequences([md EXCEPT !.specTokens = [t \in DOMAIN @ |-> t]], fresh)

\* causal_conv1d_fn masks by has_initial_state; causal_conv1d_update is packed.
ConvSequences(md, fresh) ==
  SpecSequences(md, fresh) \cup
  IF md.prefills > 0
  THEN RunSequences(md.slots, md.loc, md.tokens,
                    [i \in DOMAIN md.slots |-> IF md.initial[i] THEN From(md.slots[i], 0, fresh) ELSE Zero])
  ELSE PackedSequences(md, fresh)

\* The recurrence: decodes peeled off, the rest in the chunk kernel.
RecurrentSequences(md, fresh) ==
  LET p     == PrefillPart(md)
      first == IF SplitsDecodes(md) THEN md.loc[md.decodes] ELSE 0
      shift == [t \in 0 .. Cardinality(DOMAIN md.tokens) - first - 1 |-> md.tokens[t + first]]
  IN  SpecSequences(md, fresh)
      \cup RunSequences(md.slots, md.loc, md.tokens,
                           [i \in 1 .. md.decodes |-> From(md.slots[i], 0, fresh)])
      \cup IF md.prefills = 0 THEN {}
           ELSE RunSequences(p.slots, p.loc, shift,
                             [i \in DOMAIN p.slots |-> IF p.initial[i] THEN From(p.slots[i], 0, fresh) ELSE Zero])

\* The XPU kernel takes the whole metadata; has_initial_state comes with prefills.
XpuSequences(md, fresh) ==
  SpecSequences(md, fresh) \cup
  RunSequences(md.slots, md.loc, md.tokens,
               [i \in 1 .. IF md.prefills + md.decodes > 0 THEN Len(md.slots) ELSE 0 |->
                  IF md.prefills > 0 /\ ~md.initial[i] THEN Zero ELSE From(md.slots[i], 0, fresh)])

\* What the kernels that may serve the metadata run, configurations together.
RunsOf(md, fresh) ==
  {ConvSequences(md, fresh), RecurrentSequences(md, fresh), XpuSequences(md, fresh)}
  \cup (IF md.prefills = 0 /\ md.decodes > 0 /\ md.specs = 0 THEN {PackedSequences(md, fresh)} ELSE {})
  \cup (IF md.prefills = 0 /\ md.decodes = 0 /\ md.specs > 0 THEN {FusedSequences(md, fresh)} ELSE {})
=============================================================================

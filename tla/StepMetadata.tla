----------------------------- MODULE StepMetadata -----------------------------
(***************************************************************************)
(* The steps of GPUModelRunner.execute_model as the metadata sees them:    *)
(* every step lays out another batch, is dispatched to a graph, pads, and  *)
(* builds the metadata of the attention groups and of the gated-delta-net  *)
(* group over buffers that still hold what earlier steps left there.  A    *)
(* full graph reads those buffers, at the sizes it was captured with; any  *)
(* other pass reads what the builders return.                              *)
(*                                                                         *)
(* What an earlier step left in a buffer is Stale, whatever it was: none   *)
(* of it may be read.                                                      *)
(***************************************************************************)
EXTENDS MicroBatches

CONSTANTS
  Configs,       \* [spec: num_speculative_tokens, dcp: context parallel ranks]
  RowKinds,      \* the rows a batch is made of
  MaxRows,       \* rows of a batch
  MaxCommon,     \* blocks of a prefix common to all requests
  ShortPrefills, \* may prefills make a batch look like a uniform decode?
  MaxNumTokens,  \* max_num_batched_tokens: size of the buffers over tokens
  CaptureSizes, MaxCapture, MaxNumSeqs

\* The sizes ascend to the maximum, whole multiples of every query length, and
\* padding never leaves the buffers (asserted by _dummy_run).
ASSUME StepAssumption ==
  /\ MaxRows \in Nat \ {0} /\ MaxCommon \in Nat /\ ShortPrefills \in BOOLEAN
  /\ MaxNumSeqs \in Nat /\ MaxRows <= MaxNumSeqs
  /\ \A c \in Configs : c.spec \in Nat /\ c.dcp \in Nat \ {0}
  /\ CaptureSizes \in Seq(Nat \ {0}) /\ CaptureSizes # <<>>
  /\ \A i, j \in 1 .. Len(CaptureSizes) : i < j => CaptureSizes[i] < CaptureSizes[j]
  /\ \A i \in 1 .. Len(CaptureSizes), c \in Configs : CaptureSizes[i] % (1 + c.spec) = 0
  /\ MaxCapture = CaptureSizes[Len(CaptureSizes)]
  /\ MaxNumTokens \in Nat /\ MaxCapture <= MaxNumTokens

\* What the scheduler makes of a request: at least one token besides the drafts,
\* and a CPU that only overestimates, once drafts can have been rejected.
ASSUME RowAssumption == \A row \in RowKinds :
  /\ row \in [req : Nat, n : Nat \ {0}, drafts : Nat \cup {-1}, computed : Nat,
               optimistic : Nat, prompt : Nat \ {0}, accepted : Nat \ {0}]
  /\ DraftsOf(row) < row.n
  /\ row.computed <= row.optimistic
  /\ row.computed # row.optimistic => row.prompt <= row.computed

Keys(queryLen) == INSTANCE CudagraphKeys
  WITH QueryLen <- queryLen, MaxLoras <- 0, SpecializeGraphs <- FALSE, SpecializeCount <- FALSE

VARIABLES
  config,   \* chosen at start-up
  captured, \* sizes of the full decode graphs captured so far
  rows,     \* the batch of the last step; empty before the first
  shared,   \* tokens of the prefix its requests share
  prefix,   \* the part of it that cascade attention treats apart
  key,      \* the graph the step was dispatched to
  blockRow, \* block table on the device: whose blocks a row holds
  slots,    \* slot mapping: the token whose slot it is, or Pad
  buffers,  \* persistent buffers of the gated-delta-net builder
  logits    \* kv_sharing_fast_prefill_logits_indices

vars == <<config, captured, rows, shared, prefix, key, blockRow, slots, buffers, logits>>

Mode     == "FULL_AND_PIECEWISE"
QueryLen == 1 + config.spec
Pad      == -1
MaxBs    == Keys(QueryLen)!Smaller(MaxNumSeqs * QueryLen, MaxCapture)
Tokens   == 0 .. MaxNumTokens - 1
Seqs     == 1 .. MaxNumSeqs
Req      == 1 .. MaxRows
Groups   == {1, 2}                \* two attention groups with one specification

-----------------------------------------------------------------------------
(* Batches.  Those the scheduler makes: a row whose last step accepted      *)
(* drafts decodes over listed drafts again, in a batch that has some (run  *)
(* hybrid_rollback shows what happens otherwise), and a request that       *)
(* shares a prefix has drifted only past it.                               *)
BatchSizes == 1 .. MaxRows
AllBatches ==
  UNION {{[i \in 1 .. n |-> [kinds[i] EXCEPT !.req = i]] : kinds \in [1 .. n -> RowKinds]} : n \in BatchSizes}

Decoding(b) == {i \in 1 .. Len(b) : DecodeDrafts(b, Len(b))[i] >= 0}
SpecPath(b) == \E i \in Decoding(b) : b[i].drafts > 0

\* _init_reorder_batch_threshold: rows that short come first.
ReorderThreshold(c) == IF c.dcp > 1 THEN 1 ELSE 1 + c.spec

Longs(b) == {b[i].n : i \in 1 .. Len(b)}
Count(b) == StartLoc(b, Len(b))[Len(b)]

\* _is_uniform_decode looks at lengths only.
IsUniform(b, queryLen) == Longs(b) = {queryLen}

Admissible(c, b, blocks) ==
  /\ Count(b) <= MaxNumTokens
  /\ \A i \in 1 .. Len(b) : b[i].drafts <= c.spec /\ b[i].accepted <= 1 + c.spec
                              /\ (c.spec = 0 => b[i].drafts = -1)
                              /\ (Drift(b[i]) # 0 => blocks * BlockSize <= b[i].prompt)
  /\ \A i, j \in 1 .. Len(b) : i < j /\ b[j].n <= ReorderThreshold(c) => b[i].n <= ReorderThreshold(c)
  /\ \A i \in 1 .. Len(b) : b[i].accepted # 1 => SpecPath(b) /\ i \in Decoding(b)
  /\ ShortPrefills \/ c.spec = 0 \/ ~IsUniform(b, 1 + c.spec) \/ Decoding(b) = 1 .. Len(b)

Inputs == [c \in Configs |-> {in \in AllBatches \X (0 .. MaxCommon) : Admissible(c, in[1], in[2])}]

-----------------------------------------------------------------------------
(* Dispatch, padding and the common metadata.                              *)
DecodeSizes == {bs \div QueryLen : bs \in Keys(QueryLen)!DecodeSizes}

CapturedKeys == [queryLen \in {1 + c.spec : c \in Configs} |-> Keys(queryLen)!KeysOf(Mode)]

DispatchTo(n, uniform, allowed) ==
  Keys(QueryLen)!Dispatch(Mode, TRUE, CapturedKeys[QueryLen], n, uniform, 0, allowed)

Allowed(withFull) == IF withFull THEN {"NONE", "PIECEWISE", "FULL"} ELSE {"NONE", "PIECEWISE"}

\* A full graph pads the requests too; other passes only the tokens.
PaddedReqs(b, k) == IF k.mode = "FULL" THEN k.desc.reqs ELSE Len(b)

Aged(f) == [i \in DOMAIN f |-> Stale]

\* The block table: the batch's rows, null rows up to the padded batch.
CommitCut(table, b, size) ==   \* mutant: the table shrinks to the batch
  [i \in 1 .. size |-> IF i <= Len(b) THEN b[i].req ELSE Null]
CommitBlocks(table, b, size) ==
  [i \in DOMAIN table |->
     IF i <= Len(b) THEN b[i].req ELSE IF i <= size THEN Null ELSE Aged(table)[i]]

\* _get_slot_mappings: attention writes the KV cache apart from its forward, so
\* the padded tokens of every pass need a slot, the one that means none.
SlotsUnpadded(map, n, padded) ==   \* mutant: the tail is not filled
  [t \in DOMAIN map |-> IF t < n THEN t ELSE Aged(map)[t]]
SlotMapping(map, n, padded) ==
  [t \in DOMAIN map |-> IF t < n THEN t ELSE IF t < padded THEN Pad ELSE Aged(map)[t]]

\* CommonAttentionMetadata, with what the gated-delta-net builder gets besides.
Metadata(b, size, table) ==
  [reqs |-> size, loc |-> StartLoc(b, size),
   seqLens |-> SeqLens(b, size), upper |-> OptimisticSeqLens(b, size),
   state |-> [i \in 1 .. size |-> table[i]],
   blocks |-> [g \in Groups |-> [i \in 1 .. size |-> Blocks(g, table[i])]],
   listed |-> UseSpecDecode(b), drafts |-> DecodeDrafts(b, size),
   accepted |-> [i \in 1 .. size |-> IF i <= Len(b) THEN b[i].accepted ELSE 1]]

-----------------------------------------------------------------------------
NoKey == Keys(1)!Key("NONE", Keys(1)!Unpadded(0))

Init ==
  /\ config \in Configs /\ captured = {}
  /\ rows = <<>> /\ shared = 0 /\ prefix = 0 /\ key = NoKey
  /\ blockRow = [i \in Seqs |-> Null] /\ slots = [t \in Tokens |-> Stale]
  /\ buffers = StaleBuffers(MaxBs) /\ logits = [t \in Tokens |-> Stale]

\* build_for_cudagraph_capture: every row decodes over a full set of drafts.
DummyMetadata(size) ==
  [reqs |-> size, loc |-> [i \in 0 .. size |-> i * QueryLen],
   state |-> [i \in 1 .. size |-> blockRow[i]], listed |-> config.spec > 0,
   seqLens |-> [i \in 1 .. size |-> QueryLen],
   drafts |-> [i \in 1 .. size |-> QueryLen - 1], accepted |-> [i \in 1 .. size |-> QueryLen]]

\* Graphs are captured from the largest to the smallest.
Capture ==
  \E size \in DecodeSizes \ captured :
    /\ \A other \in DecodeSizes \ captured : other <= size
    /\ captured' = captured \cup {size}
    /\ buffers' = Persist(StaleBuffers(MaxBs), BuildGdn(DummyMetadata(size)), DummyMetadata(size), MaxBs)
    /\ UNCHANGED <<config, rows, shared, prefix, key, blockRow, slots, logits>>

ExecuteModel ==
  /\ captured = DecodeSizes
  /\ \E in \in Inputs[config] :
     \E p \in {CascadePrefix(in[1], in[2], config.dcp, faster) : faster \in BOOLEAN} :
       LET b    == in[1]
           k    == DispatchTo(Count(b), IsUniform(b, QueryLen), Allowed(p = 0))
           size == PaddedReqs(b, k)
           m    == Metadata(b, size, CommitBlocks(blockRow, b, size))
       IN  /\ rows' = b /\ shared' = in[2] * BlockSize /\ prefix' = p /\ key' = k
           /\ blockRow' = CommitBlocks(blockRow, b, size)
           /\ slots' = SlotMapping(slots, Count(b), k.desc.tokens)
           /\ buffers' = Persist(StaleBuffers(MaxBs), BuildGdn(m), m, MaxBs)
           /\ logits' = FastPrefillIndices(Aged(logits), LogitsIndices(b))
  /\ UNCHANGED <<config, captured>>

Next == Capture \/ ExecuteModel
Spec == Init /\ [][Next]_vars

-----------------------------------------------------------------------------
TypeOK ==
  /\ config \in Configs /\ captured \subseteq DecodeSizes
  /\ Len(rows) <= MaxRows /\ shared \in 0 .. MaxCommon * BlockSize /\ prefix \in 0 .. shared
  /\ key.mode \in {"NONE", "PIECEWISE", "FULL"}
  /\ blockRow \in [Seqs -> Req \cup {Null, Stale}]
  /\ slots \in [Tokens -> Tokens \cup {Pad, Stale}]
  /\ DOMAIN buffers.specSlots = 1 .. MaxBs /\ DOMAIN buffers.slots = 1 .. MaxBs
  /\ logits \in [Tokens -> Tokens \cup {Stale}]

Served == rows # <<>>
Meta   == Metadata(rows, PaddedReqs(rows, key), blockRow)
Rows   == 1 .. Len(rows)
Cu     == CuSum(Scheduled(rows))

\* The metadata the layers of the last pass read.
GdnRead ==
  IF key.mode = "FULL" THEN CapturedMetadata(buffers, key.desc.reqs, QueryLen) ELSE BuildGdn(Meta)

FlashRead(group) ==
  LET first == BuildFlash(Meta, 1, prefix, config.dcp)
  IN  IF group = 1 THEN first ELSE UpdateBlockTable(first, group, Meta)

\* Each row is one sequence: its tokens in order, from the state after the last
\* token its previous step accepted.
OneSequencePerRow ==
  LET fresh == {rows[i].req : i \in {i \in Rows : rows[i].computed = 0}}
  IN  {[tokens |-> [j \in 1 .. rows[i].n |-> Cu[i - 1] + j - 1],
        load |-> From(rows[i].req, rows[i].accepted - 1, fresh)] : i \in Rows}

\* However a batch mixes drafts, decodes, prefills and padding, and whatever the
\* buffers held before, every kernel of the recurrent layers runs exactly one
\* sequence per request, from that request's state (GDNAttentionMetadataBuilder
\* .build and _forward_core: masks, index lists, rebased offsets, fills).
RecurrentExact ==
  Served =>
    LET fresh == {rows[i].req : i \in {i \in Rows : rows[i].computed = 0}}
    IN  RunsOf(GdnRead, fresh) = {OneSequencePerRow}

\* Full graphs serve every batch whose queries are equally long, as the
\* gated-delta-net builder declares (AttentionCGSupport.UNIFORM_BATCH).
UniformBatchSupported == key.mode = "FULL" => RecurrentExact

\* A query attends to its request's tokens up to itself, each one once, in every
\* group: the kernels of cascade attention and of context parallelism share the
\* keys out without loss, overlap or a look ahead (FlashAttentionImpl.forward).
AttendsOwnPast ==
  Served => \A g \in Groups, i \in Rows : \A j \in 0 .. rows[i].n - 1 :
    LET keys == KeysOfKernels(FlashRead(g), rows, i, j, shared)
    IN  /\ keys[1] \cap keys[2] = {}
        /\ keys[1] \cup keys[2] =
             {KeyAt(Blocks(g, rows[i].req), p, shared) : p \in 0 .. rows[i].computed + j}

\* The logits that verify a draft are those of the token right before it in its
\* request, the draft is the one scheduled there, and the bonus token follows the
\* request's last token (_calc_spec_decode_metadata).
VerifiesOwnDrafts ==
  Served =>
    LET drafts == [i \in Rows |-> DraftsOf(rows[i])]
        cuD    == CuSum(drafts)
    IN  /\ \A k \in 0 .. cuD[Len(rows)] - 1 :
             LET i == RowAt(cuD, k)
                 t == Cu[i] - drafts[i] + (k - cuD[i - 1])
             IN  DraftTokens(rows)[k] = t /\ LogitsIndices(rows)[TargetLogits(rows)[k]] = t - 1
        /\ \A i \in Rows : LogitsIndices(rows)[BonusLogits(rows)[i]] = Cu[i] - 1

\* Multi-axis positions are those of the tokens computed, though the CPU laid
\* them out believing that every earlier draft was accepted (_calc_mrope_positions
\* and the drift of _prepare_inputs).
RopeExact ==
  Served => \A t \in DOMAIN Positions(rows) :
    RopePositions(rows)[t] = RopeOf(rows[RowAt(Cu, t)], Positions(rows)[t])

\* Keys and values are written for the step's tokens, each to its slot, and for
\* no padded token, whose entry may still name a block of an earlier step's
\* request (_get_slot_mappings, do_kv_cache_update).
WritesOwnSlots ==
  Served => \A t \in 0 .. key.desc.tokens - 1 :
    slots[t] = IF t < Count(rows) THEN t ELSE Pad

\* The layers that share another's KV cache pick tokens of this batch, all those
\* that logits are wanted for (_prepare_kv_sharing_fast_prefill).
FastPrefillInBatch ==
  Served =>
    LET wanted == LogitsIndices(rows)
        padded == DispatchTo(Len(rows) + CuSum([i \in Rows |-> DraftsOf(rows[i])])[Len(rows)],
                             FALSE, Allowed(FALSE)).desc.tokens
    IN  {logits[k] : k \in 0 .. padded - 1} = {wanted[k] : k \in DOMAIN wanted}

\* A batch that may be split in two has no row, longer than a decode, whose past
\* another row of the batch writes: in whichever half the two are, the keys are
\* there when they are read (_allow_microbatching).
SplitKeepsWriters ==
  Served => \A hit \in Hits(rows) :
    \/ rows[hit.reader].n <= ReorderThreshold(config)
    \/ ~AllowMicrobatching(rows, hit, ReorderThreshold(config))
    \/ \A w \in Rows \ {hit.reader} : ReadCells(rows, hit, hit.reader) \cap WriteCells(rows, hit, w) = {}
=============================================================================

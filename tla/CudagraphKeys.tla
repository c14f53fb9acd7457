----------------------------- MODULE CudagraphKeys -----------------------------
(***************************************************************************)
(* Which graph a batch runs in (vllm_src/cudagraph_dispatcher.py): the     *)
(* table that pads a batch size to a captured size, the descriptors that   *)
(* name graphs, the keys a mode registers and the choice of dispatch().    *)
(* The modes themselves (CUDAGraphMode) are not in the repository.         *)
(***************************************************************************)
EXTENDS Integers, Sequences, FiniteSets

CONSTANTS
  CaptureSizes,     \* cudagraph_capture_sizes, a sequence
  MaxCapture,       \* max_cudagraph_capture_size
  QueryLen,         \* uniform_decode_query_len: 1 + num_spec_tokens
  MaxNumSeqs,       \* max_num_seqs
  MaxLoras,         \* max_loras; 0: LoRA is not configured
  SpecializeGraphs, \* cudagraph_specialize_lora
  SpecializeCount   \* specialize_active_lora

\* What the compilation config guarantees (external): the sizes ascend to the
\* maximum and are whole multiples of the uniform query length.
ASSUME KeysAssumption ==
  /\ CaptureSizes \in Seq(Nat \ {0}) /\ CaptureSizes # <<>>
  /\ \A i, j \in 1 .. Len(CaptureSizes) : i < j => CaptureSizes[i] < CaptureSizes[j]
  /\ MaxCapture = CaptureSizes[Len(CaptureSizes)]
  /\ QueryLen \in Nat \ {0} /\ MaxNumSeqs \in Nat \ {0} /\ MaxLoras \in Nat
  /\ SpecializeGraphs \in BOOLEAN /\ SpecializeCount \in BOOLEAN

ASSUME DivisibleAssumption ==
  \A i \in 1 .. Len(CaptureSizes) : CaptureSizes[i] % QueryLen = 0

-----------------------------------------------------------------------------
(* CUDAGraphMode: FULL_DECODE_ONLY and FULL_AND_PIECEWISE treat uniform    *)
(* decode batches apart from mixed ones.                                   *)
RuntimeModes == {"NONE", "PIECEWISE", "FULL"}
Modes        == RuntimeModes \cup {"FULL_DECODE_ONLY", "FULL_AND_PIECEWISE"}

SeparateRoutine(m) == m \in {"FULL_DECODE_ONLY", "FULL_AND_PIECEWISE"}
HasFull(m)         == m = "FULL" \/ SeparateRoutine(m)
MixedMode(m)       == CASE m = "FULL_DECODE_ONLY"   -> "NONE"
                        [] m = "FULL_AND_PIECEWISE" -> "PIECEWISE"
                        [] OTHER                    -> m

-----------------------------------------------------------------------------
(* The padding table, written range by range: zip(sizes + [max + 1],       *)
(* [0] + sizes).                                                           *)
Ranges == 1 .. Len(CaptureSizes) + 1
RangeStart(i) == IF i = 1 THEN 0 ELSE CaptureSizes[i - 1]
RangeEnd(i)   == IF i = Len(CaptureSizes) + 1 THEN MaxCapture + 1 ELSE CaptureSizes[i]

Padded(n) ==
  LET i == CHOOSE i \in Ranges : RangeStart(i) <= n /\ n < RangeEnd(i)
  IN  IF n = RangeStart(i) THEN RangeStart(i) ELSE RangeEnd(i)

\* What the table is for: the smallest captured size that holds the batch.
IsLeastCapture(n, size) ==
  /\ \E i \in 1 .. Len(CaptureSizes) : size = CaptureSizes[i]
  /\ size >= n
  /\ \A i \in 1 .. Len(CaptureSizes) : CaptureSizes[i] >= n => size <= CaptureSizes[i]

-----------------------------------------------------------------------------
(* Descriptors.  reqs = 0 stands for num_reqs = None.                      *)
Desc(tokens, reqs, uniform, loras) ==
  [tokens |-> tokens, reqs |-> reqs, uniform |-> uniform, loras |-> loras]

Unpadded(n) == Desc(n, 0, FALSE, 0)
Smaller(a, b) == IF a <= b THEN a ELSE b

PaddedDesc(mode, n, uniform, loras) ==
  LET size == Padded(n)
  IN  IF uniform /\ HasFull(mode)
      THEN Desc(size, Smaller(size \div QueryLen, MaxNumSeqs), TRUE, loras)
      ELSE Desc(size, Smaller(size, MaxNumSeqs), FALSE, loras)

\* The assertion of _create_padded_batch_descriptor.
Divisible(mode, n, uniform) == uniform /\ HasFull(mode) => Padded(n) % QueryLen = 0

RelaxedKeepsReqs(desc) == Desc(desc.tokens, desc.reqs, FALSE, desc.loras)   \* mutant
Relaxed(desc) == Desc(desc.tokens, 0, FALSE, desc.loras)

\* get_captured_lora_counts (external): powers of two, and the maximum.
CapturedLoraCounts ==
  IF SpecializeCount
  THEN {k \in 1 .. MaxLoras + 1 : k = MaxLoras + 1 \/ \E e \in 0 .. MaxLoras : k = 2 ^ e}
  ELSE {MaxLoras + 1}

LoraCases ==
  IF MaxLoras = 0 THEN {0}
  ELSE IF SpecializeGraphs THEN {0} \cup CapturedLoraCounts
  ELSE {MaxLoras + 1}

-----------------------------------------------------------------------------
(* initialize_cudagraph_keys: what a mode adds to the keys.                *)
Key(runtimeMode, desc) == [mode |-> runtimeMode, desc |-> desc]
Sizes == {CaptureSizes[i] : i \in 1 .. Len(CaptureSizes)}

MixedKey(mode, bs, k) ==
  Key(MixedMode(mode), IF MixedMode(mode) = "PIECEWISE" THEN Relaxed(PaddedDesc(mode, bs, FALSE, k))
                                                        ELSE PaddedDesc(mode, bs, FALSE, k))
MixedKeys(mode) ==
  IF MixedMode(mode) = "NONE" THEN {} ELSE {MixedKey(mode, bs, k) : bs \in Sizes, k \in LoraCases}

DecodeSizes == {bs \in Sizes : bs <= QueryLen * MaxNumSeqs /\ bs >= QueryLen}
DecodeKey(mode, bs, k) == Key("FULL", PaddedDesc(mode, bs, TRUE, k))
DecodeKeys(mode) ==
  IF SeparateRoutine(mode) THEN {DecodeKey(mode, bs, k) : bs \in DecodeSizes, k \in LoraCases} ELSE {}

KeysOf(mode) == MixedKeys(mode) \cup DecodeKeys(mode)

-----------------------------------------------------------------------------
(* dispatch().                                                             *)

\* The smallest captured count that holds the active adapters.
LorasBelow(loras) ==          \* mutant: the largest captured count below
  IF loras = 0 THEN 0
  ELSE CHOOSE k \in LoraCases \ {0} : k <= loras /\ \A j \in LoraCases \ {0} : j <= loras => j <= k
EffectiveLoras(loras) ==
  IF loras = 0 THEN 0
  ELSE IF ~SpecializeCount THEN MaxLoras + 1
  ELSE IF \E k \in LoraCases : k >= loras
  THEN CHOOSE k \in LoraCases \ {0} : k >= loras /\ \A j \in LoraCases \ {0} : j >= loras => k <= j
  ELSE loras

\* Without keys, above the largest graph, or when only eager is allowed.
RunsEager(mode, initialized, n, allowed) ==
  ~initialized \/ mode = "NONE" \/ n > MaxCapture \/ allowed \subseteq {"NONE"}

NormalizedUniform(mode, uniform) == uniform /\ SeparateRoutine(mode)

Dispatch(mode, initialized, keys, n, uniform, loras, allowed) ==
  LET desc == PaddedDesc(mode, n, NormalizedUniform(mode, uniform), EffectiveLoras(loras))
  IN  IF RunsEager(mode, initialized, n, allowed) THEN Key("NONE", Unpadded(n))
      ELSE IF "FULL" \in allowed /\ Key("FULL", desc) \in keys THEN Key("FULL", desc)
      ELSE IF "PIECEWISE" \in allowed /\ Key("PIECEWISE", Relaxed(desc)) \in keys
      THEN Key("PIECEWISE", Relaxed(desc))
      ELSE Key("NONE", Unpadded(n))
=============================================================================

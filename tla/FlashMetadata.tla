----------------------------- MODULE FlashMetadata -----------------------------
(***************************************************************************)
(* Which keys a query attends to (vllm_src/flash_attn.py and the choice of *)
(* a common prefix in gpu_model_runner.py): one causal kernel, the two     *)
(* kernels of cascade attention, or the context and query kernels of       *)
(* decode context parallelism.  The kernels are not in the repository.     *)
(*                                                                         *)
(* A row's block table is the group and the request whose blocks it holds; *)
(* a key adds a position, and the blocks of a prefix that all requests     *)
(* share hold keys of request Shared.                                      *)
(***************************************************************************)
EXTENDS GdnMetadata

CONSTANTS
  BlockSize,        \* tokens in a block of the KV cache
  MinCascadePrefix, \* a shorter common prefix is not worth a kernel (256)
  MinCascadeReqs,   \* nor are fewer requests (8)
  Interleave        \* cp_kv_cache_interleave_size

ASSUME FlashAssumption ==
  /\ BlockSize \in Nat \ {0} /\ Interleave \in Nat \ {0}
  /\ MinCascadePrefix \in Nat \ {0} /\ MinCascadeReqs \in Nat \ {0}

Shared == -1
Blocks(group, req) == [group |-> group, req |-> req]
KeyAt(blocks, pos, shared) ==
  [group |-> blocks.group, req |-> IF pos < shared THEN Shared ELSE blocks.req, pos |-> pos]

-----------------------------------------------------------------------------
(* The common prefix.  The first kernel does no masking, so no query may   *)
(* be inside it: it is cut to the fewest computed tokens, then to blocks.  *)
LeastComputed(rows) ==
  CHOOSE c \in {rows[i].optimistic : i \in 1 .. Len(rows)} :
    \A i \in 1 .. Len(rows) : c <= rows[i].optimistic

CascadeUncut(rows, blocks) == blocks * BlockSize   \* mutant: not cut to the computed tokens
CascadeLen(rows, blocks) ==
  LET common == blocks * BlockSize
      least  == IF common <= LeastComputed(rows) THEN common ELSE LeastComputed(rows)
  IN  (least \div BlockSize) * BlockSize

\* use_cascade_attention: for one-token batches a model of the two kernels'
\* times decides (faster); grouped queries, no ALiBi and no window assumed.
UseCascade(rows, prefix, dcp, faster) ==
  /\ prefix >= MinCascadePrefix /\ Len(rows) >= MinCascadeReqs /\ dcp = 1
  /\ (\A i \in 1 .. Len(rows) : rows[i].n = 1) => faster

CascadePrefix(rows, blocks, dcp, faster) ==
  IF UseCascade(rows, CascadeLen(rows, blocks), dcp, faster) THEN CascadeLen(rows, blocks) ELSE 0

-----------------------------------------------------------------------------
(* build(): lengths on every rank of the context parallel group.           *)
\* get_dcp_local_seq_lens (external): token p lives on one rank.
RankOf(p, dcp) == (p \div Interleave) % dcp
LocalLen(len, dcp, rank) == Cardinality({p \in 0 .. len - 1 : RankOf(p, dcp) = rank})
\* The l-th token of a request that lives on a rank.
GlobalPos(l, dcp, rank) ==
  (l \div Interleave) * dcp * Interleave + rank * Interleave + (l % Interleave)

Longest(lens) == CHOOSE l \in {lens[i] : i \in DOMAIN lens} \cup {0} : \A i \in DOMAIN lens : lens[i] <= l

\* No request has context, as far as the CPU can tell: it never underestimates.
SkipContext(m) == \A i \in 1 .. m.reqs : m.upper[i] - QueryLenOf(m, i) = 0

MaxContext(m, dcp) ==
  LET parts == dcp * Interleave
  IN  ((Longest(m.upper) + parts - 1) \div parts) * Interleave

BuildFlash(m, group, prefix, dcp) ==
  [group |-> group, loc |-> m.loc, seqLens |-> m.seqLens, blocks |-> m.blocks[group],
   prefix |-> prefix, dcp |-> dcp,
   context |-> [rank \in 0 .. dcp - 1 |->
                  [i \in 1 .. m.reqs |-> LocalLen(m.seqLens[i] - QueryLenOf(m, i), dcp, rank)]],
   maxContext |-> IF SkipContext(m) THEN 0 ELSE MaxContext(m, dcp)]

\* Groups with the same specification share a build but for the block table.
UpdateBlockTable(fm, group, m) == [fm EXCEPT !.group = group, !.blocks = m.blocks[group]]

-----------------------------------------------------------------------------
(* forward(): the keys that the kernels show to the j-th query of row i.   *)

\* A causal kernel over lens[i] keys of the row: the queries are its last.
Causal(fm, lens, i, j) == 0 .. lens[i] - (fm.loc[i] - fm.loc[i - 1]) + j

PlainKeys(fm, i, j, shared) ==
  {KeyAt(fm.blocks[i], k, shared) : k \in Causal(fm, fm.seqLens, i, j)}

\* The prefix through the first row's blocks, for all queries; the rest through
\* each row's blocks after the prefix.
PrefixKeys(fm, shared) == {KeyAt(fm.blocks[1], k, shared) : k \in 0 .. fm.prefix - 1}
SuffixKeys(fm, i, j, shared) ==
  LET lens == [r \in DOMAIN fm.seqLens |-> fm.seqLens[r] - fm.prefix]
  IN  {KeyAt(fm.blocks[i], fm.prefix + k, shared) : k \in Causal(fm, lens, i, j)}

\* Context parallelism: every rank's part of the context, unmasked, and the
\* step's own keys, causally; these come from the layer, not from the cache.
ContextKeys(fm, i, shared) ==
  IF fm.maxContext = 0 THEN {}
  ELSE UNION {{KeyAt(fm.blocks[i], GlobalPos(l, fm.dcp, rank), shared) :
                 l \in {l \in 0 .. fm.maxContext - 1 : l < fm.context[rank][i]}} : rank \in 0 .. fm.dcp - 1}

QueryKeys(fm, rows, i, j, shared) ==
  {KeyAt(Blocks(fm.group, rows[i].req), rows[i].computed + k, shared) : k \in 0 .. j}

\* Each query's keys, by the kernel that shows them.
KeysOfKernels(fm, rows, i, j, shared) ==
  IF fm.prefix > 0 THEN <<PrefixKeys(fm, shared), SuffixKeys(fm, i, j, shared)>>
  ELSE IF fm.dcp > 1 THEN <<ContextKeys(fm, i, shared), QueryKeys(fm, rows, i, j, shared)>>
  ELSE <<PlainKeys(fm, i, j, shared), {}>>
=============================================================================

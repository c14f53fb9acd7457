----------------------------- MODULE MicroBatches -----------------------------
(***************************************************************************)
(* Which batches may be split in two (vllm_src/gpu_model_runner.py,        *)
(* _allow_microbatching).  A request can be admitted on a hit against      *)
(* blocks that another request of the same batch computes only now: a hit  *)
(* says that the reader's first blocks are the writer's.  Run whole, a     *)
(* step writes all keys before it reads any; split, it does not.           *)
(***************************************************************************)
EXTENDS FlashMetadata

BlockAt(hit, i, b) == <<IF i = hit.reader /\ b < hit.blocks THEN hit.writer ELSE i, b>>

Readers(rows, threshold) ==
  {i \in 1 .. Len(rows) : rows[i].n > threshold /\ rows[i].optimistic > 0}

WrittenBlocks(rows, hit) ==
  LET start(i) == rows[i].optimistic \div BlockSize
      stop(i)  == (rows[i].optimistic + rows[i].n + BlockSize - 1) \div BlockSize
  IN  UNION {{BlockAt(hit, i, b) : b \in start(i) .. stop(i) - 1} : i \in 1 .. Len(rows)}

\* Whole blocks only: a partly filled one is the reader's own.
WholeShort(rows, hit, r) ==   \* mutant: the last whole block is left out
  {BlockAt(hit, r, b) : b \in 0 .. (rows[r].optimistic \div BlockSize) - 2}
WholeBlocks(rows, hit, r) ==
  {BlockAt(hit, r, b) : b \in 0 .. (rows[r].optimistic \div BlockSize) - 1}

AllowMicrobatching(rows, hit, threshold) ==
  Len(rows) < 2
  \/ \A r \in Readers(rows, threshold) : WholeBlocks(rows, hit, r) \cap WrittenBlocks(rows, hit) = {}

-----------------------------------------------------------------------------
(* The keys a row reads and writes, by block and place in the block.       *)
Cells(hit, i, positions) == {<<BlockAt(hit, i, p \div BlockSize), p % BlockSize>> : p \in positions}

ReadCells(rows, hit, i)  == Cells(hit, i, 0 .. rows[i].computed - 1)
WriteCells(rows, hit, i) == Cells(hit, i, rows[i].computed .. rows[i].computed + rows[i].n - 1)

\* A hit is on full blocks: full after the writer's step at the latest, and of a
\* prompt whose positions are certain.
Hits(rows) ==
  {h \in [reader : 1 .. Len(rows), writer : 1 .. Len(rows), blocks : 1 .. 2] :
     LET w == rows[h.writer]
         filled == IF w.prompt <= w.computed + w.n THEN w.prompt ELSE w.computed + w.n
     IN  h.reader # h.writer /\ h.blocks * BlockSize <= rows[h.reader].computed
           /\ h.blocks * BlockSize <= filled}
=============================================================================

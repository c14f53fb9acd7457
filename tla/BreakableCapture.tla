---------------------------- MODULE BreakableCapture ----------------------------
(***************************************************************************)
(* Captures with eager breaks (vllm_src/breakable_cudagraph.py).  One      *)
(* capture drives the whole forward pass; an operator marked               *)
(* eager_break_during_capture ends the current graph segment, runs         *)
(* outside of any graph and opens the next segment.  What is kept is the   *)
(* list of things to replay: the steps below, each a position of the       *)
(* program and whether it lies in a graph.  Segment boundaries have no     *)
(* effect of their own, so a graph segment is the steps it holds.          *)
(***************************************************************************)
EXTENDS Integers, Sequences

\* BreakableCUDAGraphCapture: capturing and graph are the open segment.
NoCapture == [active |-> FALSE, capturing |-> FALSE, graph |-> <<>>, steps |-> <<>>]

StepOf(i, inGraph) == [op |-> i, graph |-> inGraph]

BeginSegment(c) == [c EXCEPT !.capturing = TRUE, !.graph = <<>>]

EndSegment(c) ==
  IF c.capturing
  THEN [c EXCEPT !.capturing = FALSE, !.graph = <<>>, !.steps = @ \o c.graph]
  ELSE c

\* __enter__ and __exit__.
Enter    == BeginSegment([NoCapture EXCEPT !.active = TRUE])
Leave(c) == [EndSegment(c) EXCEPT !.active = FALSE]

\* A kernel launched inside a segment is recorded, not run.
Record(c, i) == [c EXCEPT !.graph = Append(@, StepOf(i, TRUE))]

\* Does a break operator leave the graph?  In a FULL capture, or when a break
\* is already running, it is called like any other function.
BreaksNever(c, mode)   == FALSE                                       \* mutant
BreaksOut(c, mode)     == c.active /\ c.capturing /\ mode # "FULL"

\* add_eager: before and after the function runs.
BeforeEager(c)   == EndSegment(c)
AfterEager(c, i) == BeginSegment([c EXCEPT !.steps = Append(@, StepOf(i, FALSE))])
=============================================================================

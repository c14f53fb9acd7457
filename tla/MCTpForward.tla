------------------------------ MODULE MCTpForward ------------------------------
(* Instances of TpForward for TLC.                                         *)
EXTENDS TpForward, TLC

\* Breaks at the start, between collectives of every kind and at the end.
Layers == <<"break", "kernel", "all_reduce_", "all_reduce", "break", "all_gather", "communicator">>

\* A graph with breaks and a full one.
TwoGraphs == ("mixed" :> "PIECEWISE") @@ ("decode" :> "FULL")
=============================================================================

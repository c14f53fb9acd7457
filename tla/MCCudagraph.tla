------------------------------ MODULE MCCudagraph ------------------------------
(* Instances of CudagraphLifecycle for TLC.                                *)
EXTENDS CudagraphLifecycle

\* Multiples of two with a gap; the largest exceeds what the requests decode.
SizesWithGap == <<2, 4, 10>>
=============================================================================

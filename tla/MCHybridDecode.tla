---------------------------- MODULE MCHybridDecode ----------------------------
(* Instances of HybridDecode for TLC.                                      *)
EXTENDS HybridDecode, TLC

CONSTANTS a, b

\* a prefills in two chunks, b decodes at once.
Prompts == (a :> 2) @@ (b :> 1)

OnePrompt == (a :> 1)

FourTokens == (a :> 4) @@ (b :> 4)

SixTokens == (a :> 6)
=============================================================================

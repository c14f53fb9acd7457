--------------------------- MODULE MCAsyncSpecDecode ---------------------------
(* Instances of AsyncSpecDecode for TLC.                                   *)
EXTENDS AsyncSpecDecode, TLC

CONSTANTS a, b

\* a prefills in two chunks of one token and decodes; b decodes at once.
Prompts == (a :> 2) @@ (b :> 1)

\* a decodes at once; b spends its life in chunks and produces one token.
LongPrompt == (a :> 1) @@ (b :> 3)

\* a stops early; b goes on through several speculative steps.
ShortAndLong(short, long) == (a :> short) @@ (b :> long)
StrictTokens == ShortAndLong(4, 6)
EarlyTokens  == ShortAndLong(4, 4)
=============================================================================

---------------------------- MODULE MCStepMetadata ----------------------------
(* Batches of up to three rows, without and with one draft token, and with *)
(* two context parallel ranks.                                             *)
EXTENDS StepMetadata

MCConfigs == {[spec |-> 0, dcp |-> 1], [spec |-> 1, dcp |-> 1], [spec |-> 1, dcp |-> 2]}
MCSpecOnly == {[spec |-> 1, dcp |-> 1]}
MCSizes == <<2, 4, 8>>

Row(n, drafts, computed, optimistic, prompt, accepted) ==
  [req |-> 0, n |-> n, drafts |-> drafts, computed |-> computed,
   optimistic |-> optimistic, prompt |-> prompt, accepted |-> accepted]

MCRowKinds ==
  {Row(1, -1, 3, 3, 3, 1),   \* decode
   Row(2, 1, 4, 5, 3, 1),    \* decode over a draft after a rejection
   Row(2, 1, 5, 5, 3, 2),    \* decode over a draft after an acceptance
   Row(1, 0, 5, 5, 3, 2),    \* drafts rolled back
   Row(2, -1, 0, 0, 3, 1),   \* first chunk, as long as a decode
   Row(3, -1, 0, 0, 3, 1),   \* a whole prompt
   Row(1, -1, 1, 1, 3, 1),   \* one-token chunk
   Row(3, 1, 2, 2, 4, 1),    \* the end of a prompt and a draft: resumed
   Row(3, -1, 2, 2, 5, 1)}   \* the rest of a prompt after a prefix hit
=============================================================================

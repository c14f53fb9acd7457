------------------------------ MODULE DecodeStream ------------------------------
(***************************************************************************)
(* What a decoding engine promises of each request: its tokens, named by   *)
(* their index, are delivered in order, each once, at most MaxStep at a    *)
(* time.  An id may be used again for a new request, which starts over.    *)
(***************************************************************************)
EXTENDS Integers, Sequences

CONSTANTS Req, PromptLen, MaxStep

VARIABLE text   \* [Req -> sequence of delivered token indices]

Init == text = [r \in Req |-> <<>>]

\* The next k tokens of the request, the first one after the prompt and what
\* was delivered before.
NextTokens(r, k) == [j \in 1 .. k |-> PromptLen[r] + Len(text[r]) + j - 1]

\* One engine step delivers to any set of requests at once.
Deliver ==
  \E k \in [Req -> 0 .. MaxStep] :
    text' = [r \in Req |-> text[r] \o NextTokens(r, k[r])]

StartOver(r) == text' = [text EXCEPT ![r] = <<>>]

Next == Deliver \/ \E r \in Req : StartOver(r)

Spec == Init /\ [][Next]_text
=============================================================================

--------------------------- MODULE HostCopies_proofs ---------------------------
(***************************************************************************)
(* Theorems about HostCopies, for any number of steps and any set of       *)
(* configurations.                                                         *)
(*                                                                         *)
(* Operations are named by their absolute position on their stream, which  *)
(* no later step changes.  What a tensor holds when an operation reads it  *)
(* is either there already or written by an operation at a known earlier   *)
(* position; the invariant says which, for everything still waiting.       *)
(***************************************************************************)
EXTENDS HostCopies, Integers, SequenceTheorems, TLAPS

Waits(s) == (done[s] + 1) .. (done[s] + Len(queue[s]))
At(s, p) == queue[s][p - done[s]]
End(s)   == done[s] + Len(queue[s])
LastOp(s) == At(s, End(s))

DefaultKinds == {"inputs", "forward", "propose", "clone", "experts", "tokens"}
Kinds        == DefaultKinds \cup {"drafts", "counts", "output"}
OpType       == [kind : Kinds, step : Nat, after : Nat]
DraftType    == [step : Nat, zero : BOOLEAN]
OutType      == [tokens : Nat, experts : Nat]
HostType     == [inputs : Nat, drafts : DraftType, counts : Nat, experts : Nat]
DevType      == [inputs : Nat, experts : Nat, sampled : [Steps -> Nat],
                 drafts : [Steps -> Nat], clone : [Steps -> Nat]]

TypeInv ==
  /\ cfg \in Configs /\ step \in 0 .. MaxSteps
  /\ pc \in {"idle", "launched", "sampled", "drafted", "toList"}
  /\ plan \in [drafts : BOOLEAN, fits : BOOLEAN]
  /\ queue \in [Streams -> Seq(OpType)] /\ done \in [Streams -> Nat]
  /\ event \in [DOMAIN EventStream -> Nat]
  /\ host \in HostType /\ out \in [Steps -> OutType] /\ dev \in DevType
  /\ draftIds \in DraftType /\ draftReqs \in 0 .. step /\ prevSampled \in 0 .. step
  /\ overlapped \in BOOLEAN
  /\ pc # "idle" => step # 0
  /\ \A s \in Streams : \A p \in Waits(s) : At(s, p).step \in 1 .. step

\* An operation of this kind and step is waiting on the default stream, at
\* position p or before.
Before(kind, t, p) ==
  \E i \in Waits("default") : /\ i <= p
                              /\ At("default", i).kind = kind /\ At("default", i).step = t

\* What is written once the default stream has reached p.
SampledBy(t, p) == dev.sampled[t] = t \/ Before("forward", t, p)
DraftedBy(t, p) == dev.drafts[t] = t \/ Before("propose", t, p)
ClonedBy(t, p)  == dev.clone[t] = t \/ Before("clone", t, p)

\* The last forward pass the default stream runs up to p is of step t.
ExpertsBy(t, p) ==
  \/ /\ dev.experts = t
     /\ \A i \in Waits("default") : i <= p => At("default", i).kind # "forward"
  \/ \E i \in Waits("default") :
       /\ i <= p /\ At("default", i).kind = "forward" /\ At("default", i).step = t
       /\ \A j \in Waits("default") : i < j /\ j <= p => At("default", j).kind # "forward"

\* The operation at position p of the default stream finds what it reads.
DefaultOp(p) ==
  LET op == At("default", p)
  IN  /\ op.kind \in DefaultKinds
      /\ op.kind = "inputs" =>
           /\ op.step = host.inputs /\ p <= event["inputs"]
           /\ p + 1 \in Waits("default")
           /\ At("default", p + 1).kind = "forward" /\ At("default", p + 1).step = op.step
      /\ op.kind = "forward" =>
           IF p - 1 \in Waits("default")
           THEN At("default", p - 1).kind = "inputs" /\ At("default", p - 1).step = op.step
           ELSE dev.inputs = op.step
      /\ op.kind \in {"propose", "tokens"} => SampledBy(op.step, p)
      /\ op.kind \in {"clone", "experts"} => ExpertsBy(op.step, p)
      /\ op.kind = "clone" => cfg.async
      /\ op.kind \in {"experts", "tokens"} => ~cfg.async /\ pc = "toList" /\ op.step = step
      /\ ~cfg.async /\ pc = "idle" => op.kind = "propose"
      /\ pc = "toList" => p <= event["transfer"]

\* So do the operations of the three copy streams.
CopyOps ==
  /\ \A p \in Waits("draftCopy") :
       At("draftCopy", p).kind = "drafts" /\ DraftedBy(At("draftCopy", p).step, At("draftCopy", p).after)
  /\ \A p \in Waits("countCopy") :
       At("countCopy", p).kind = "counts" /\ SampledBy(At("countCopy", p).step, At("countCopy", p).after)
  /\ \A p \in Waits("outputCopy") :
       /\ At("outputCopy", p).kind = "output" /\ cfg.async
       /\ SampledBy(At("outputCopy", p).step, At("outputCopy", p).after)
       /\ ClonedBy(At("outputCopy", p).step, At("outputCopy", p).after)

\* The step the worker is in has been launched, and nothing after it.
InStep ==
  /\ pc # "idle" => SampledBy(step, End("default")) /\ ExpertsBy(step, End("default"))
  /\ pc = "toList" => /\ ~cfg.async
                      /\ host.experts = step \/ Before("experts", step, End("default"))
                      /\ out[step].tokens = step \/ Before("tokens", step, End("default"))

\* Draft ids that go with request ids are the last thing their stream brings.
DraftsInv ==
  /\ draftReqs # 0 =>
       /\ draftReqs = draftIds.step /\ event["drafts"] = End("draftCopy")
       /\ \/ overlapped
          \/ Waits("draftCopy") = {} /\ host.drafts = draftIds
          \/ /\ Waits("draftCopy") # {} /\ ~draftIds.zero
             /\ LastOp("draftCopy").step = draftIds.step
  /\ ~cfg.async => /\ ~overlapped
                   /\ Waits("draftCopy") # {} => draftReqs # 0
                   /\ pc \in {"launched", "sampled"} => Waits("draftCopy") = {}

\* So are the counts of the last sampled ids.
CountsInv ==
  /\ prevSampled # 0 /\ cfg.drafter # "none" =>
       /\ event["counts"] = End("countCopy")
       /\ IF Waits("countCopy") = {} THEN host.counts = prevSampled
          ELSE LastOp("countCopy").step = prevSampled
  /\ ~cfg.async => prevSampled = 0
  /\ cfg.async /\ cfg.drafter # "none" /\ pc = "drafted" => prevSampled # 0
  /\ cfg.async => pc # "toList"

OutputsInv ==
  \A t \in Steps :
    IF cfg.async THEN out[t] \in {NoOutput, [tokens |-> t, experts |-> t]}
    ELSE /\ t > step => out[t] = NoOutput
         /\ t < step \/ (t = step /\ pc = "idle") => out[t] = [tokens |-> t, experts |-> t]

Inv ==
  /\ TypeInv
  /\ \A p \in Waits("default") : DefaultOp(p)
  /\ CopyOps /\ InStep /\ DraftsInv /\ CountsInv /\ OutputsInv /\ InputsIntact

-----------------------------------------------------------------------------
(* Streams: what a step leaves, adds and takes.                            *)

Stays(s) == /\ End(s)' = End(s) /\ Waits(s)' = Waits(s) /\ LastOp(s)' = LastOp(s)
            /\ \A p \in Waits(s) : At(s, p)' = At(s, p)
Adds(s, op) == /\ End(s)' = End(s) + 1 /\ Waits(s)' = Waits(s) \cup {End(s) + 1}
               /\ \A p \in Waits(s) : At(s, p)' = At(s, p)
               /\ LastOp(s)' = op /\ \A p : p = End(s) + 1 => At(s, p)' = op
AddsTwo(s, a, b) == /\ End(s)' = End(s) + 2 /\ Waits(s)' = Waits(s) \cup {End(s) + 1, End(s) + 2}
                    /\ \A p \in Waits(s) : At(s, p)' = At(s, p)
                    /\ \A p : p = End(s) + 1 => At(s, p)' = a
                    /\ \A p : p = End(s) + 2 => At(s, p)' = b
                    /\ LastOp(s)' = b
Takes(s) == /\ End(s)' = End(s) /\ done[s] + 1 \in Waits(s)
            /\ Waits(s)' = Waits(s) \ {done[s] + 1}
            /\ \A p \in Waits(s)' : At(s, p)' = At(s, p)
            /\ At(s, done[s] + 1) = Head(queue[s])
            /\ Waits(s)' # {} => LastOp(s)' = LastOp(s)
            /\ Waits(s)' = {} => LastOp(s) = Head(queue[s])

LEMMA WaitsType ==
  ASSUME TypeInv, NEW s \in Streams
  PROVE  /\ done[s] \in Nat /\ End(s) \in Nat /\ Len(queue[s]) \in Nat
         /\ \A p \in Waits(s) : At(s, p) \in OpType /\ p \in Nat /\ done[s] < p /\ p <= End(s)
         /\ Waits(s) # {} => End(s) \in Waits(s)
<1>1. queue[s] \in Seq(OpType) /\ done[s] \in Nat
  BY DEF TypeInv
<1>2. Len(queue[s]) \in Nat
  BY <1>1
<1>3. ASSUME NEW p \in Waits(s) PROVE At(s, p) \in OpType
  <2>1. p - done[s] \in 1 .. Len(queue[s])
    BY <1>1, <1>2 DEF Waits
  <2> QED BY <1>1, <2>1 DEF At
<1> QED BY <1>1, <1>2, <1>3 DEF Waits, End

LEMMA StreamStays ==
  ASSUME NEW s \in Streams, queue'[s] = queue[s], done'[s] = done[s]
  PROVE  Stays(s)
BY DEF Stays, LastOp, End, Waits, At

LEMMA LongerInterval ==
  ASSUME NEW a \in Nat, NEW b \in Nat, a <= b
  PROVE  /\ (a + 1) .. (b + 1) = ((a + 1) .. b) \cup {b + 1}
         /\ (a + 1) .. (b + 2) = ((a + 1) .. b) \cup {b + 1, b + 2}
OBVIOUS

LEMMA AppendOne ==
  ASSUME NEW S, NEW q \in Seq(S), NEW a \in S
  PROVE  (q \o <<a>>)[Len(q) + 1] = a
OBVIOUS

LEMMA AppendTwo ==
  ASSUME NEW S, NEW q \in Seq(S), NEW a \in S, NEW b \in S
  PROVE  (q \o <<a, b>>)[Len(q) + 1] = a /\ (q \o <<a, b>>)[Len(q) + 2] = b
OBVIOUS

LEMMA AppendTwice ==
  ASSUME NEW S, NEW q \in Seq(S), NEW a \in S, NEW b \in S
  PROVE  (q \o <<a>>) \o <<b>> = q \o <<a, b>>
<1> DEFINE left  == (q \o <<a>>) \o <<b>>
           right == q \o <<a, b>>
<1>1. /\ q \o <<a>> \in Seq(S) /\ left \in Seq(S) /\ right \in Seq(S)
      /\ Len(q \o <<a>>) = Len(q) + 1 /\ Len(left) = Len(q) + 2 /\ Len(right) = Len(q) + 2
      /\ Len(q) \in Nat
  OBVIOUS
<1>2. ASSUME NEW i \in 1 .. Len(left) PROVE left[i] = right[i]
  <2>1. CASE i \in 1 .. Len(q)
    BY <2>1
  <2>2. CASE i = Len(q) + 1
    BY <2>2
  <2>3. CASE i = Len(q) + 2
    BY <2>3
  <2> QED BY <1>1, <2>1, <2>2, <2>3
<1> HIDE DEF left, right
<1>3. left = right
  BY <1>1, <1>2, SeqEqual
<1> QED BY <1>3 DEF left, right

LEMMA StreamAdds ==
  ASSUME TypeInv, NEW s \in Streams, NEW op \in OpType, queue'[s] = queue[s] \o <<op>>, done' = done
  PROVE  Adds(s, op)
<1>1. queue[s] \in Seq(OpType) /\ done[s] \in Nat /\ Len(queue[s]) \in Nat
  BY DEF TypeInv
<1>2. Len(queue'[s]) = Len(queue[s]) + 1
  BY <1>1
<1>3. ASSUME NEW p \in Waits(s) PROVE At(s, p)' = At(s, p)
  <2>1. p - done[s] \in 1 .. Len(queue[s])
    BY <1>1 DEF Waits
  <2> QED BY <1>1, <2>1 DEF At
<1>4. LastOp(s)' = op /\ \A p : p = End(s) + 1 => At(s, p)' = op
  <2>1. End(s)' - done'[s] = Len(queue[s]) + 1 /\ End(s) + 1 - done'[s] = Len(queue[s]) + 1
    BY <1>1, <1>2 DEF End
  <2>2. queue'[s][Len(queue[s]) + 1] = op
    BY <1>1, AppendOne
  <2>3. LastOp(s)' = op
    BY <2>1, <2>2 DEF LastOp, At
  <2>4. ASSUME NEW p, p = End(s) + 1 PROVE At(s, p)' = op
    <3>1. p - done'[s] = Len(queue[s]) + 1
      BY <1>1, <2>4 DEF End
    <3> QED BY <2>2, <3>1 DEF At
  <2> QED BY <2>3, <2>4
<1>5. End(s)' = End(s) + 1 /\ Waits(s)' = Waits(s) \cup {End(s) + 1}
  <2>1. End(s)' = End(s) + 1 /\ done[s] <= End(s) /\ End(s) \in Nat
    <3> DEFINE n == Len(queue[s])
    <3>1. n \in Nat /\ End(s) = done[s] + n /\ End(s)' = done[s] + (n + 1)
      BY <1>1, <1>2 DEF End
    <3> HIDE DEF n
    <3> QED BY <1>1, <3>1
  <2>2. Waits(s) = (done[s] + 1) .. End(s) /\ Waits(s)' = (done[s] + 1) .. (End(s) + 1)
    BY <1>1, <1>2, <2>1 DEF Waits, End
  <2> QED BY <1>1, <2>1, <2>2, LongerInterval
<1> QED BY <1>3, <1>4, <1>5 DEF Adds

LEMMA StreamAddsTwo ==
  ASSUME TypeInv, NEW s \in Streams, NEW a \in OpType, NEW b \in OpType,
         queue'[s] = queue[s] \o <<a, b>>, done' = done
  PROVE  AddsTwo(s, a, b)
<1>1. queue[s] \in Seq(OpType) /\ done[s] \in Nat /\ Len(queue[s]) \in Nat
  BY DEF TypeInv
<1>2. Len(queue'[s]) = Len(queue[s]) + 2
  BY <1>1
<1>3. ASSUME NEW p \in Waits(s) PROVE At(s, p)' = At(s, p)
  <2>1. p - done[s] \in 1 .. Len(queue[s])
    BY <1>1 DEF Waits
  <2> QED BY <1>1, <2>1 DEF At
<1>4. /\ \A p : p = End(s) + 1 => At(s, p)' = a
      /\ \A p : p = End(s) + 2 => At(s, p)' = b
      /\ LastOp(s)' = b
  <2>1. /\ End(s) + 1 - done'[s] = Len(queue[s]) + 1 /\ End(s)' - done'[s] = Len(queue[s]) + 2
        /\ End(s) + 2 - done'[s] = Len(queue[s]) + 2
    BY <1>1, <1>2 DEF End
  <2>2. queue'[s][Len(queue[s]) + 1] = a /\ queue'[s][Len(queue[s]) + 2] = b
    BY <1>1, AppendTwo
  <2>3. LastOp(s)' = b
    BY <2>1, <2>2 DEF LastOp, At
  <2>4. ASSUME NEW p, p = End(s) + 1 PROVE At(s, p)' = a
    <3>1. p - done'[s] = Len(queue[s]) + 1
      BY <1>1, <2>4 DEF End
    <3> QED BY <2>2, <3>1 DEF At
  <2>5. ASSUME NEW p, p = End(s) + 2 PROVE At(s, p)' = b
    <3>1. p - done'[s] = Len(queue[s]) + 2
      BY <1>1, <2>5 DEF End
    <3> QED BY <2>2, <3>1 DEF At
  <2> QED BY <2>3, <2>4, <2>5
<1>5. End(s)' = End(s) + 2 /\ Waits(s)' = Waits(s) \cup {End(s) + 1, End(s) + 2}
  <2>1. End(s)' = End(s) + 2 /\ done[s] <= End(s) /\ End(s) \in Nat
    BY <1>1, <1>2 DEF End
  <2>2. Waits(s) = (done[s] + 1) .. End(s) /\ Waits(s)' = (done[s] + 1) .. (End(s) + 2)
    BY <1>1, <1>2, <2>1 DEF Waits, End
  <2> QED BY <1>1, <2>1, <2>2, LongerInterval
<1> QED BY <1>3, <1>4, <1>5 DEF AddsTwo

LEMMA StreamTakes ==
  ASSUME TypeInv, NEW s \in Streams, queue[s] # <<>>,
         queue'[s] = Tail(queue[s]), done'[s] = done[s] + 1
  PROVE  Takes(s)
<1>1. queue[s] \in Seq(OpType) /\ done[s] \in Nat /\ Len(queue[s]) \in Nat \ {0}
  BY DEF TypeInv
<1>2. Len(queue'[s]) = Len(queue[s]) - 1
  BY <1>1
<1>3. End(s)' = End(s) /\ done[s] + 1 \in Waits(s) /\ Waits(s)' = Waits(s) \ {done[s] + 1}
  BY SMTT(40), <1>1, <1>2 DEF End, Waits
<1>4. At(s, done[s] + 1) = Head(queue[s])
  BY <1>1 DEF At
<1>5. ASSUME NEW p \in Waits(s)' PROVE At(s, p)' = At(s, p)
  <2>1. p - done'[s] \in 1 .. Len(Tail(queue[s])) /\ p - done[s] = (p - done'[s]) + 1
    BY <1>1, <1>2 DEF Waits
  <2>2. Tail(queue[s])[p - done'[s]] = queue[s][(p - done'[s]) + 1]
    BY <1>1, <2>1
  <2> QED BY <2>1, <2>2 DEF At
<1>6. Waits(s)' # {} => LastOp(s)' = LastOp(s)
  <2>1. ASSUME NEW p, p = End(s), Waits(s)' # {} PROVE At(s, p)' = At(s, p)
    <3>1. p \in Waits(s)'
      BY <1>1, <1>3, <2>1 DEF Waits, End
    <3> QED BY <1>5, <3>1
  <2> QED BY <1>3, <2>1 DEF LastOp, At
<1>7. Waits(s)' = {} => LastOp(s) = Head(queue[s])
  <2>1. Waits(s)' = {} => End(s) = done[s] + 1
    BY <1>1, <1>3 DEF Waits, End
  <2> QED BY <1>4, <2>1 DEF LastOp
<1> QED BY <1>3, <1>4, <1>5, <1>6, <1>7 DEF Takes

\* Nothing that waits on the default stream is lost or overtaken.
Keeps == /\ Waits("default") \subseteq Waits("default")'
         /\ \A p \in Waits("default") : At("default", p)' = At("default", p)
         /\ \A p \in Waits("default")' \ Waits("default") : p > End("default")

LEMMA DefaultKeeps ==
  ASSUME TypeInv,
         \/ Stays("default")
         \/ \E a \in OpType : Adds("default", a)
         \/ \E a, b \in OpType : AddsTwo("default", a, b)
  PROVE  Keeps
<1>1. "default" \in Streams
  BY DEF Streams
<1> QED BY <1>1, WaitsType DEF Keeps, Stays, Adds, AddsTwo

\* What will be written still is, when the device has not moved.
LEMMA StillBy ==
  ASSUME TypeInv, Keeps, dev' = dev, NEW t, NEW p \in Nat
  PROVE  /\ SampledBy(t, p) => SampledBy(t, p)'
         /\ DraftedBy(t, p) => DraftedBy(t, p)'
         /\ ClonedBy(t, p) => ClonedBy(t, p)'
         /\ p <= End("default") /\ ExpertsBy(t, p) => ExpertsBy(t, p)'
<1>1. \A kind : Before(kind, t, p) => Before(kind, t, p)'
  BY DEF Keeps, Before
<1>2. ASSUME p <= End("default"), ExpertsBy(t, p) PROVE ExpertsBy(t, p)'
  <2>1. \A i \in Waits("default")' : i <= p => i \in Waits("default")
    <3>1. End("default") \in Nat
      BY WaitsType DEF Streams
    <3>2. Waits("default")' \subseteq Int
      BY DEF Waits
    <3> QED BY <1>2, <3>1, <3>2 DEF Keeps
  <2> QED BY <1>2, <2>1 DEF ExpertsBy, Keeps
<1> QED BY <1>1, <1>2 DEF SampledBy, DraftedBy, ClonedBy

-----------------------------------------------------------------------------
(* What the worker enqueues.                                               *)

CopyOp(kind, t, a) == [kind |-> kind, step |-> t, after |-> a]

LEMMA OpTypes ==
  ASSUME NEW kind \in Kinds, NEW t \in Nat, NEW a \in Nat
  PROVE  /\ Op(kind, t) \in OpType /\ Op(kind, t).kind = kind /\ Op(kind, t).step = t
         /\ CopyOp(kind, t, a) \in OpType /\ CopyOp(kind, t, a).kind = kind
         /\ CopyOp(kind, t, a).step = t /\ CopyOp(kind, t, a).after = a
BY DEF Op, CopyOp, OpType

LEMMA WaitDefaultIs ==
  ASSUME NEW kind, NEW t, NEW q
  PROVE  WaitDefault(Op(kind, t), q) = CopyOp(kind, t, done["default"] + Len(q["default"]))
BY DEF WaitDefault, Op, CopyOp

Enqueues(q, s, op, next) ==
  /\ next \in [Streams -> Seq(OpType)] /\ next[s] = q[s] \o <<op>>
  /\ \A u \in Streams : u # s => next[u] = q[u]

LEMMA EnqueueIs ==
  ASSUME NEW q \in [Streams -> Seq(OpType)], NEW s \in Streams, NEW op \in OpType
  PROVE  Enqueues(q, s, op, Enqueue(q, s, <<op>>))
<1>1. <<op>> \in Seq(OpType)
  OBVIOUS
<1> QED BY <1>1 DEF Enqueue, Enqueues

LEMMA ExecuteQueues ==
  ASSUME TypeInv, ExecuteModel
  PROVE  /\ AddsTwo("default", Op("inputs", step + 1), Op("forward", step + 1))
         /\ \A s \in Streams : s # "default" => Stays(s)
         /\ queue' \in [Streams -> Seq(OpType)]
         /\ event' = [event EXCEPT !["inputs"] = End("default") + 1]
<1> DEFINE a == Op("inputs", step + 1)
           b == Op("forward", step + 1)
           q == Enqueue(queue, "default", <<a>>)
<1>1. a \in OpType /\ b \in OpType
  BY OpTypes DEF TypeInv, Kinds, DefaultKinds
<1>2. queue' = Enqueue(q, "default", <<b>>) /\ done' = done
      /\ event' = [event EXCEPT !["inputs"] = Recorded(q, "inputs")]
  BY DEF ExecuteModel
<1> HIDE DEF a, b
<1>3. /\ "default" \in Streams
      /\ queue \in [Streams -> Seq(OpType)]
  BY DEF Streams, TypeInv
<1>4. /\ q \in [Streams -> Seq(OpType)] /\ q["default"] = queue["default"] \o <<a>>
      /\ \A s \in Streams : s # "default" => q[s] = queue[s]
  BY <1>1, <1>3, EnqueueIs DEF Enqueues
<1> HIDE DEF q
<1>5. /\ queue' \in [Streams -> Seq(OpType)] /\ queue'["default"] = q["default"] \o <<b>>
      /\ \A s \in Streams : s # "default" => queue'[s] = q[s]
  BY <1>1, <1>2, <1>3, <1>4, EnqueueIs DEF Enqueues
<1>6. queue["default"] \in Seq(OpType) /\ done["default"] \in Nat
  BY <1>3 DEF TypeInv
<1>7. queue'["default"] = queue["default"] \o <<a, b>>
  <2>1. (queue["default"] \o <<a>>) \o <<b>> = queue["default"] \o <<a, b>>
    BY <1>1, <1>6, AppendTwice
  <2> QED BY <1>4, <1>5, <2>1
<1>8. Recorded(q, "inputs") = End("default") + 1
  <2>1. EventStream["inputs"] = "default"
    BY DEF EventStream
  <2>2. Len(q["default"]) = Len(queue["default"]) + 1
    BY <1>1, <1>4, <1>6
  <2>3. Len(queue["default"]) \in Nat
    BY <1>6
  <2> QED BY <1>6, <2>1, <2>2, <2>3 DEF Recorded, End
<1>9. AddsTwo("default", a, b)
  BY <1>1, <1>2, <1>3, <1>7, StreamAddsTwo
<1> QED BY <1>2, <1>4, <1>5, <1>8, <1>9, StreamStays DEF a, b

\* The counts go first, then the drafter, then its ids.
LEMMA ProposeQueues ==
  ASSUME TypeInv, Propose, done' = done
  PROVE  /\ Adds("default", Op("propose", step))
         /\ IF cfg.drafter = "gpu" /\ cfg.async
            THEN Adds("countCopy", CopyOp("counts", step, End("default"))) ELSE Stays("countCopy")
         /\ Stays("outputCopy")
         /\ queue' \in [Streams -> Seq(OpType)]
         /\ event' \in [DOMAIN EventStream -> Nat]
         /\ event'["inputs"] = event["inputs"] /\ event'["transfer"] = event["transfer"]
         /\ event'["counts"] = End("countCopy")'
         /\ draftIds' = [step |-> step, zero |-> FALSE]
         /\ \/ /\ Adds("draftCopy", CopyOp("drafts", step, End("default") + 1))
               /\ draftReqs' = step /\ overlapped' = FALSE /\ event'["drafts"] = End("draftCopy")'
            \/ /\ cfg.async /\ Stays("draftCopy")
               /\ draftReqs' = 0 /\ overlapped' = overlapped
<1> DEFINE o  == Op("propose", step)
           qc == IF cfg.drafter = "gpu" THEN WithCounts(queue) ELSE queue
           q0 == Enqueue(qc, "default", <<o>>)
           qd == EnqueueCopy(q0, "draftCopy", Op("drafts", step))
           c  == CopyOp("counts", step, End("default"))
           d  == CopyOp("drafts", step, End("default") + 1)
<1>1. PICK copied \in CopyWanted :
        /\ queue' = IF copied THEN qd ELSE q0
        /\ draftIds' = [step |-> step, zero |-> FALSE]
        /\ draftReqs' = IF copied THEN step ELSE 0
        /\ event' = [event EXCEPT !["counts"] = Recorded(queue', "counts"),
                                  !["drafts"] = IF copied THEN Recorded(queue', "drafts") ELSE @]
        /\ overlapped' = (overlapped /\ ~copied)
  BY Zenon DEF Propose
<1>2. /\ queue \in [Streams -> Seq(OpType)] /\ step \in Nat /\ overlapped \in BOOLEAN
      /\ event \in [DOMAIN EventStream -> Nat]
      /\ "default" \in Streams /\ "draftCopy" \in Streams /\ "countCopy" \in Streams
      /\ "outputCopy" \in Streams
      /\ done["default"] \in Nat /\ queue["default"] \in Seq(OpType)
  BY DEF TypeInv, Streams
<1>3. End("default") \in Nat /\ End("default") = done["default"] + Len(queue["default"])
      /\ Len(queue["default"]) \in Nat
  BY <1>2 DEF End
<1>4. o \in OpType /\ c \in OpType /\ d \in OpType
  <2>1. {"propose", "counts", "drafts"} \subseteq Kinds /\ End("default") + 1 \in Nat
    BY <1>3 DEF Kinds, DefaultKinds
  <2> QED BY <1>2, <1>3, <2>1, OpTypes
<1>5. /\ qc \in [Streams -> Seq(OpType)]
      /\ qc["countCopy"] = IF cfg.drafter = "gpu" /\ cfg.async THEN queue["countCopy"] \o <<c>>
                           ELSE queue["countCopy"]
      /\ \A s \in Streams : s # "countCopy" => qc[s] = queue[s]
  <2>1. CASE cfg.drafter = "gpu" /\ cfg.async
    <3>1. qc = Enqueue(queue, "countCopy", <<c>>)
      BY <2>1, <1>3, WaitDefaultIs DEF WithCounts, EnqueueCopy
    <3> HIDE DEF qc, c
    <3>2. Enqueues(queue, "countCopy", c, qc)
      BY <1>2, <1>4, <3>1, EnqueueIs
    <3> QED BY <2>1, <3>2 DEF Enqueues
  <2>2. CASE ~(cfg.drafter = "gpu" /\ cfg.async)
    <3>1. qc = queue
      BY <2>2 DEF WithCounts
    <3> QED BY <1>2, <2>2, <3>1
  <2> QED BY <2>1, <2>2
<1> HIDE DEF qc, c, o
<1>6. /\ q0 \in [Streams -> Seq(OpType)]
      /\ q0["default"] = queue["default"] \o <<o>>
      /\ \A s \in Streams : s # "default" => q0[s] = qc[s]
  <2>1. Enqueues(qc, "default", o, q0)
    BY <1>2, <1>4, <1>5, EnqueueIs
  <2> QED BY <1>2, <1>5, <2>1 DEF Enqueues
<1>7. done["default"] + Len(q0["default"]) = End("default") + 1
  BY SMTT(30), <1>2, <1>3, <1>4, <1>6
<1> HIDE DEF q0
<1>8. /\ qd \in [Streams -> Seq(OpType)]
      /\ qd["draftCopy"] = q0["draftCopy"] \o <<d>>
      /\ \A s \in Streams : s # "draftCopy" => qd[s] = q0[s]
  <2>1. qd = Enqueue(q0, "draftCopy", <<d>>)
    BY <1>7, WaitDefaultIs DEF EnqueueCopy
  <2> HIDE DEF d, qd
  <2>2. Enqueues(q0, "draftCopy", d, qd)
    BY <1>2, <1>4, <1>6, <2>1, EnqueueIs
  <2> QED BY <2>2 DEF Enqueues
<1> HIDE DEF qd, d
<1>9. /\ queue' \in [Streams -> Seq(OpType)]
      /\ queue'["default"] = queue["default"] \o <<o>>
      /\ queue'["outputCopy"] = queue["outputCopy"]
      /\ queue'["countCopy"] = qc["countCopy"]
      /\ queue'["draftCopy"] = IF copied THEN queue["draftCopy"] \o <<d>> ELSE queue["draftCopy"]
  <2>1. CASE copied
    BY <1>1, <1>2, <1>5, <1>6, <1>8, <2>1
  <2>2. CASE ~copied
    BY <1>1, <1>2, <1>5, <1>6, <2>2
  <2> QED BY <2>1, <2>2
<1>10. /\ Recorded(queue', "counts") = End("countCopy")' /\ Recorded(queue', "drafts") = End("draftCopy")'
       /\ End("countCopy")' \in Nat /\ End("draftCopy")' \in Nat
  <2>1. EventStream["counts"] = "countCopy" /\ EventStream["drafts"] = "draftCopy"
    BY DEF EventStream
  <2>2. \A s \in Streams : queue'[s] \in Seq(OpType) /\ done'[s] \in Nat
    BY <1>9 DEF TypeInv
  <2>3. \A s \in Streams : Len(queue'[s]) \in Nat
    BY <2>2
  <2> QED BY <1>2, <2>1, <2>2, <2>3 DEF Recorded, End
<1>11. /\ event' \in [DOMAIN EventStream -> Nat]
       /\ event'["inputs"] = event["inputs"] /\ event'["transfer"] = event["transfer"]
       /\ event'["counts"] = End("countCopy")'
       /\ copied => event'["drafts"] = End("draftCopy")'
  <2>1. DOMAIN EventStream = {"inputs", "drafts", "counts", "transfer"}
    BY DEF EventStream
  <2> QED BY <1>1, <1>2, <1>10, <2>1
<1>12. Adds("default", o) /\ Stays("outputCopy")
  BY <1>2, <1>4, <1>9, StreamAdds, StreamStays
<1>13. IF cfg.drafter = "gpu" /\ cfg.async THEN Adds("countCopy", c) ELSE Stays("countCopy")
  BY <1>2, <1>4, <1>5, <1>9, StreamAdds, StreamStays
<1>14. IF copied THEN Adds("draftCopy", d) ELSE Stays("draftCopy")
  BY <1>2, <1>4, <1>9, StreamAdds, StreamStays
<1>15. ~copied => cfg.async
  BY DEF CopyWanted
<1>16. overlapped' = IF copied THEN FALSE ELSE overlapped
  BY <1>1, <1>2
<1> QED BY <1>1, <1>9, <1>11, <1>12, <1>13, <1>14, <1>15, <1>16 DEF c, d, o

LEMMA EmptyQueue ==
  ASSUME TypeInv, NEW s \in Streams
  PROVE  queue[s] = <<>> <=> Waits(s) = {}
<1>1. queue[s] \in Seq(OpType) /\ done[s] \in Nat /\ Len(queue[s]) \in Nat
  BY DEF TypeInv
<1>2. queue[s] = <<>> <=> Len(queue[s]) = 0
  BY <1>1, EmptySeq
<1>3. Len(queue[s]) # 0 => done[s] + 1 \in Waits(s)
  BY <1>1 DEF Waits
<1>4. Len(queue[s]) = 0 => Waits(s) = {}
  BY <1>1 DEF Waits
<1> QED BY <1>2, <1>3, <1>4

LEMMA ZerosQueues ==
  ASSUME TypeInv, Zeros, done' = done
  PROVE  /\ IF cfg.async THEN Adds("countCopy", CopyOp("counts", step, End("default")))
            ELSE Stays("countCopy")
         /\ Stays("default") /\ Stays("outputCopy") /\ Stays("draftCopy")
         /\ queue' \in [Streams -> Seq(OpType)]
         /\ event' \in [DOMAIN EventStream -> Nat]
         /\ event'["inputs"] = event["inputs"] /\ event'["transfer"] = event["transfer"]
         /\ event'["counts"] = End("countCopy")'
         /\ draftIds' = [step |-> step, zero |-> TRUE]
         /\ \/ /\ draftReqs' = step /\ event'["drafts"] = End("draftCopy")'
               /\ host' = [host EXCEPT !.drafts = [step |-> step, zero |-> TRUE]]
               /\ overlapped' = (Waits("draftCopy") # {})
            \/ cfg.async /\ draftReqs' = 0 /\ host' = host /\ overlapped' = overlapped
<1> DEFINE q == WithCounts(queue)
           c == CopyOp("counts", step, End("default"))
<1>1. PICK copied \in CopyWanted :
        /\ queue' = q
        /\ draftIds' = [step |-> step, zero |-> TRUE]
        /\ draftReqs' = IF copied THEN step ELSE 0
        /\ host' = IF copied THEN [host EXCEPT !.drafts = draftIds'] ELSE host
        /\ overlapped' = IF copied THEN queue["draftCopy"] # <<>> ELSE overlapped
        /\ event' = [event EXCEPT !["counts"] = Recorded(queue', "counts"),
                                  !["drafts"] = IF copied THEN Recorded(queue', "drafts") ELSE @]
  BY Zenon DEF Zeros
<1>2. /\ queue \in [Streams -> Seq(OpType)] /\ step \in Nat /\ overlapped \in BOOLEAN
      /\ event \in [DOMAIN EventStream -> Nat]
      /\ "default" \in Streams /\ "draftCopy" \in Streams /\ "countCopy" \in Streams
      /\ "outputCopy" \in Streams
      /\ done["default"] \in Nat /\ queue["default"] \in Seq(OpType)
  BY DEF TypeInv, Streams
<1>3. End("default") \in Nat /\ End("default") = done["default"] + Len(queue["default"])
      /\ Len(queue["default"]) \in Nat
  BY <1>2 DEF End
<1>4. c \in OpType
  <2>1. "counts" \in Kinds
    BY DEF Kinds
  <2> QED BY <1>2, <1>3, <2>1, OpTypes
<1>5. /\ q \in [Streams -> Seq(OpType)]
      /\ q["countCopy"] = IF cfg.async THEN queue["countCopy"] \o <<c>> ELSE queue["countCopy"]
      /\ \A s \in Streams : s # "countCopy" => q[s] = queue[s]
  <2>1. CASE cfg.async
    <3>1. q = Enqueue(queue, "countCopy", <<c>>)
      BY <2>1, <1>3, WaitDefaultIs DEF WithCounts, EnqueueCopy
    <3> HIDE DEF q, c
    <3>2. Enqueues(queue, "countCopy", c, q)
      BY <1>2, <1>4, <3>1, EnqueueIs
    <3> QED BY <2>1, <3>2 DEF Enqueues
  <2>2. CASE ~cfg.async
    <3>1. q = queue
      BY <2>2 DEF WithCounts
    <3> QED BY <1>2, <2>2, <3>1
  <2> QED BY <2>1, <2>2
<1> HIDE DEF q, c
<1>6. /\ Recorded(queue', "counts") = End("countCopy")' /\ Recorded(queue', "drafts") = End("draftCopy")'
      /\ End("countCopy")' \in Nat /\ End("draftCopy")' \in Nat
  <2>1. EventStream["counts"] = "countCopy" /\ EventStream["drafts"] = "draftCopy"
    BY DEF EventStream
  <2>2. \A s \in Streams : queue'[s] \in Seq(OpType) /\ done'[s] \in Nat
    BY <1>1, <1>5 DEF TypeInv
  <2>3. \A s \in Streams : Len(queue'[s]) \in Nat
    BY <2>2
  <2> QED BY <1>2, <2>1, <2>2, <2>3 DEF Recorded, End
<1>7. /\ event' \in [DOMAIN EventStream -> Nat]
      /\ event'["inputs"] = event["inputs"] /\ event'["transfer"] = event["transfer"]
      /\ event'["counts"] = End("countCopy")'
      /\ copied => event'["drafts"] = End("draftCopy")'
  <2>1. DOMAIN EventStream = {"inputs", "drafts", "counts", "transfer"}
    BY DEF EventStream
  <2> QED BY <1>1, <1>2, <1>6, <2>1
<1>8. IF cfg.async THEN Adds("countCopy", c) ELSE Stays("countCopy")
  BY <1>1, <1>2, <1>4, <1>5, StreamAdds, StreamStays
<1>9. Stays("default") /\ Stays("outputCopy") /\ Stays("draftCopy")
  BY <1>1, <1>2, <1>5, StreamStays
<1>10. ~copied => cfg.async
  BY DEF CopyWanted
<1>11. overlapped' = IF copied THEN Waits("draftCopy") # {} ELSE overlapped
  BY <1>1, <1>2, EmptyQueue, Zenon
<1>12. host' = IF copied THEN [host EXCEPT !.drafts = [step |-> step, zero |-> TRUE]] ELSE host
  BY <1>1
<1> QED BY <1>1, <1>5, <1>7, <1>8, <1>9, <1>10, <1>11, <1>12 DEF c

LEMMA OutputQueues ==
  ASSUME TypeInv, AsyncOutput
  PROVE  /\ Adds("default", Op("clone", step))
         /\ Adds("outputCopy", CopyOp("output", step, End("default") + 1))
         /\ Stays("draftCopy") /\ Stays("countCopy")
         /\ queue' \in [Streams -> Seq(OpType)]
<1> DEFINE o == Op("clone", step)
           q == Enqueue(queue, "default", <<o>>)
           c == CopyOp("output", step, End("default") + 1)
<1>1. queue' = EnqueueCopy(q, "outputCopy", Op("output", step)) /\ done' = done
  BY DEF AsyncOutput
<1>2. /\ queue \in [Streams -> Seq(OpType)] /\ step \in Nat
      /\ "default" \in Streams /\ "draftCopy" \in Streams /\ "countCopy" \in Streams
      /\ "outputCopy" \in Streams
      /\ done["default"] \in Nat /\ queue["default"] \in Seq(OpType)
  BY DEF TypeInv, Streams
<1>3. End("default") \in Nat /\ End("default") = done["default"] + Len(queue["default"])
      /\ Len(queue["default"]) \in Nat
  BY <1>2 DEF End
<1>4. o \in OpType /\ c \in OpType
  <2>1. {"clone", "output"} \subseteq Kinds /\ End("default") + 1 \in Nat
    BY <1>3 DEF Kinds, DefaultKinds
  <2> QED BY <1>2, <2>1, OpTypes
<1> HIDE DEF o
<1>5. Enqueues(queue, "default", o, q)
  BY <1>2, <1>4, EnqueueIs
<1>6. done["default"] + Len(q["default"]) = End("default") + 1
  <2>1. q["default"] = queue["default"] \o <<o>>
    BY <1>5 DEF Enqueues
  <2>2. Len(q["default"]) = Len(queue["default"]) + 1
    BY <1>2, <1>4, <2>1
  <2> QED BY <1>2, <1>3, <2>2
<1> HIDE DEF q
<1>7. queue' = Enqueue(q, "outputCopy", <<c>>)
  BY <1>1, <1>6, WaitDefaultIs DEF EnqueueCopy
<1> HIDE DEF c
<1>8. q \in [Streams -> Seq(OpType)]
  BY <1>5 DEF Enqueues
<1>9. Enqueues(q, "outputCopy", c, queue')
  BY <1>2, <1>4, <1>7, <1>8, EnqueueIs
<1>10. /\ queue' \in [Streams -> Seq(OpType)]
       /\ queue'["default"] = queue["default"] \o <<o>>
       /\ queue'["outputCopy"] = queue["outputCopy"] \o <<c>>
       /\ queue'["countCopy"] = queue["countCopy"] /\ queue'["draftCopy"] = queue["draftCopy"]
  BY <1>2, <1>5, <1>9 DEF Enqueues
<1> QED BY <1>1, <1>2, <1>4, <1>10, StreamAdds, StreamStays DEF o, c

LEMMA SyncQueues ==
  ASSUME TypeInv, SyncCopy
  PROVE  /\ AddsTwo("default", Op("experts", step), Op("tokens", step))
         /\ \A s \in Streams : s # "default" => Stays(s)
         /\ queue' \in [Streams -> Seq(OpType)]
         /\ event' = [event EXCEPT !["transfer"] = End("default")']
<1> DEFINE a == Op("experts", step)
           b == Op("tokens", step)
<1>1. /\ queue' = Enqueue(queue, "default", <<a, b>>) /\ done' = done
      /\ event' = [event EXCEPT !["transfer"] = Recorded(queue', "transfer")]
  BY DEF SyncCopy
<1>2. /\ queue \in [Streams -> Seq(OpType)] /\ step \in Nat /\ "default" \in Streams
  BY DEF TypeInv, Streams
<1>3. a \in OpType /\ b \in OpType
  <2>1. {"experts", "tokens"} \subseteq Kinds
    BY DEF Kinds, DefaultKinds
  <2> QED BY <1>2, <2>1, OpTypes
<1> HIDE DEF a, b
<1>4. /\ queue' \in [Streams -> Seq(OpType)]
      /\ queue'["default"] = queue["default"] \o <<a, b>>
      /\ \A s \in Streams : s # "default" => queue'[s] = queue[s]
  <2>1. <<a, b>> \in Seq(OpType)
    BY <1>3
  <2> QED BY <1>1, <1>2, <2>1 DEF Enqueue
<1>5. AddsTwo("default", a, b)
  BY <1>1, <1>2, <1>3, <1>4, StreamAddsTwo
<1>6. Recorded(queue', "transfer") = End("default")'
  <2>1. EventStream["transfer"] = "default"
    BY DEF EventStream
  <2> QED BY <1>1, <2>1 DEF Recorded, End
<1> QED BY <1>1, <1>4, <1>5, <1>6, StreamStays DEF a, b

-----------------------------------------------------------------------------
(* What survives a step of the worker.                                     *)

LEMMA BoundKept ==
  ASSUME TypeInv, NEW s \in Streams, step' \in {step, step + 1},
         \/ Stays(s)
         \/ \E op \in OpType : Adds(s, op) /\ op.step \in 1 .. step'
         \/ \E a, b \in OpType : AddsTwo(s, a, b) /\ a.step \in 1 .. step' /\ b.step \in 1 .. step'
  PROVE  \A p \in Waits(s)' : At(s, p)'.step \in 1 .. step'
<1>1. ASSUME NEW p \in Waits(s) PROVE At(s, p).step \in 1 .. step' /\ p <= End(s) /\ End(s) \in Nat
  BY WaitsType DEF TypeInv
<1>2. CASE Stays(s)
  BY <1>1, <1>2 DEF Stays
<1>3. ASSUME NEW op \in OpType, Adds(s, op), op.step \in 1 .. step'
      PROVE  \A p \in Waits(s)' : At(s, p)'.step \in 1 .. step'
  <2> QED BY <1>1, <1>3 DEF Adds
<1>4. ASSUME NEW a \in OpType, NEW b \in OpType, AddsTwo(s, a, b),
             a.step \in 1 .. step', b.step \in 1 .. step'
      PROVE  \A p \in Waits(s)' : At(s, p)'.step \in 1 .. step'
  <2> QED BY <1>1, <1>4 DEF AddsTwo
<1> QED BY <1>2, <1>3, <1>4

LEMMA DefaultOpKept ==
  ASSUME TypeInv, Keeps, dev' = dev, cfg' = cfg, NEW p \in Waits("default"), DefaultOp(p),
         At("default", p).kind = "inputs" =>
           host'.inputs = host.inputs /\ event'["inputs"] = event["inputs"],
         At("default", p).kind \in {"experts", "tokens"} => pc' = "toList" /\ step' = step,
         ~cfg.async /\ pc' = "idle" => At("default", p).kind = "propose",
         pc' = "toList" => p <= event'["transfer"]
  PROVE  DefaultOp(p)'
<1>1. /\ p \in Nat /\ p <= End("default") /\ End("default") \in Nat
      /\ At("default", p)' = At("default", p)
  BY WaitsType DEF Streams, Keeps
<1>2. /\ \A t : SampledBy(t, p) => SampledBy(t, p)'
      /\ \A t : ExpertsBy(t, p) => ExpertsBy(t, p)'
  BY <1>1, StillBy
<1>3. p - 1 \in Waits("default") <=> p - 1 \in Waits("default")'
  BY <1>1 DEF Keeps
<1>4. At("default", p).kind = "inputs" =>
        /\ p + 1 \in Waits("default")' /\ At("default", p + 1)' = At("default", p + 1)
  BY DEF DefaultOp, Keeps
<1>5. p - 1 \in Waits("default") => At("default", p - 1)' = At("default", p - 1)
  BY DEF Keeps
<1> DEFINE op == At("default", p)
<1>6. /\ op.kind = "inputs" =>
           /\ op.step = host'.inputs /\ p <= event'["inputs"]
           /\ p + 1 \in Waits("default")'
           /\ At("default", p + 1)'.kind = "forward" /\ At("default", p + 1)'.step = op.step
      /\ op.kind = "forward" =>
           IF p - 1 \in Waits("default")'
           THEN At("default", p - 1)'.kind = "inputs" /\ At("default", p - 1)'.step = op.step
           ELSE dev'.inputs = op.step
  BY <1>3, <1>4, <1>5 DEF DefaultOp
<1>7. /\ op.kind \in DefaultKinds
      /\ op.kind \in {"propose", "tokens"} => SampledBy(op.step, p)'
      /\ op.kind \in {"clone", "experts"} => ExpertsBy(op.step, p)'
      /\ op.kind = "clone" => cfg'.async
      /\ op.kind \in {"experts", "tokens"} => ~cfg'.async /\ pc' = "toList" /\ op.step = step'
      /\ ~cfg'.async /\ pc' = "idle" => op.kind = "propose"
      /\ pc' = "toList" => p <= event'["transfer"]
  <2>1. /\ op.kind \in {"propose", "tokens"} => SampledBy(op.step, p)
        /\ op.kind \in {"clone", "experts"} => ExpertsBy(op.step, p)
    BY DEF DefaultOp
  <2>2. /\ SampledBy(op.step, p) => \A t : t = op.step => SampledBy(t, p)'
        /\ ExpertsBy(op.step, p) => \A t : t = op.step => ExpertsBy(t, p)'
    BY <1>2
  <2>3. /\ \A t : t = op.step => (SampledBy(t, p)' => SampledBy(op.step, p)')
        /\ \A t : t = op.step => (ExpertsBy(t, p)' => ExpertsBy(op.step, p)')
    BY <1>1 DEF SampledBy, ExpertsBy, Before
  <2> QED BY <2>1, <2>2, <2>3 DEF DefaultOp
<1> QED BY <1>1, <1>6, <1>7 DEF DefaultOp

\* One operation of a copy stream.
DraftCopyOp(op)  == op.kind = "drafts" /\ DraftedBy(op.step, op.after)
CountCopyOp(op)  == op.kind = "counts" /\ SampledBy(op.step, op.after)
OutputCopyOp(op) == /\ op.kind = "output" /\ cfg.async
                    /\ SampledBy(op.step, op.after) /\ ClonedBy(op.step, op.after)

LEMMA CopyOpsAre ==
  CopyOps <=> /\ \A p \in Waits("draftCopy") : \A op : op = At("draftCopy", p) => DraftCopyOp(op)
              /\ \A p \in Waits("countCopy") : \A op : op = At("countCopy", p) => CountCopyOp(op)
              /\ \A p \in Waits("outputCopy") : \A op : op = At("outputCopy", p) => OutputCopyOp(op)
BY DEF CopyOps, DraftCopyOp, CountCopyOp, OutputCopyOp

LEMMA CopyOpsAreNext ==
  ASSUME \A p \in Waits("draftCopy")' : \A op : op = At("draftCopy", p)' => DraftCopyOp(op)',
         \A p \in Waits("countCopy")' : \A op : op = At("countCopy", p)' => CountCopyOp(op)',
         \A p \in Waits("outputCopy")' : \A op : op = At("outputCopy", p)' => OutputCopyOp(op)'
  PROVE  CopyOps'
<1>1. ASSUME NEW p \in Waits("draftCopy")'
      PROVE  (At("draftCopy", p).kind = "drafts"
              /\ DraftedBy(At("draftCopy", p).step, At("draftCopy", p).after))'
  <2>1. \A op : op = At("draftCopy", p)' => op.kind = "drafts" /\ DraftedBy(op.step, op.after)'
    BY DEF DraftCopyOp
  <2> QED BY <2>1 DEF DraftedBy, Before
<1>2. ASSUME NEW p \in Waits("countCopy")'
      PROVE  (At("countCopy", p).kind = "counts"
              /\ SampledBy(At("countCopy", p).step, At("countCopy", p).after))'
  <2>1. \A op : op = At("countCopy", p)' => op.kind = "counts" /\ SampledBy(op.step, op.after)'
    BY DEF CountCopyOp
  <2> QED BY <2>1 DEF SampledBy, Before
<1>3. ASSUME NEW p \in Waits("outputCopy")'
      PROVE  (/\ At("outputCopy", p).kind = "output" /\ cfg.async
              /\ SampledBy(At("outputCopy", p).step, At("outputCopy", p).after)
              /\ ClonedBy(At("outputCopy", p).step, At("outputCopy", p).after))'
  <2>1. \A op : op = At("outputCopy", p)' =>
          /\ op.kind = "output" /\ cfg'.async
          /\ SampledBy(op.step, op.after)' /\ ClonedBy(op.step, op.after)'
    BY DEF OutputCopyOp
  <2> QED BY <2>1 DEF SampledBy, ClonedBy, Before
<1> QED BY <1>1, <1>2, <1>3 DEF CopyOps

LEMMA CopyOpsKept ==
  ASSUME TypeInv, CopyOps, Keeps, dev' = dev, cfg' = cfg,
         \/ Stays("draftCopy")
         \/ \E op \in OpType : Adds("draftCopy", op) /\ DraftCopyOp(op)',
         \/ Stays("countCopy")
         \/ \E op \in OpType : Adds("countCopy", op) /\ CountCopyOp(op)',
         \/ Stays("outputCopy")
         \/ \E op \in OpType : Adds("outputCopy", op) /\ OutputCopyOp(op)'
  PROVE  CopyOps'
<1>1. ASSUME NEW op \in OpType
      PROVE  /\ DraftCopyOp(op) => DraftCopyOp(op)'
             /\ CountCopyOp(op) => CountCopyOp(op)'
             /\ OutputCopyOp(op) => OutputCopyOp(op)'
  <2>1. op.after \in Nat
    BY DEF OpType
  <2> QED BY <2>1, StillBy DEF DraftCopyOp, CountCopyOp, OutputCopyOp
<1>2. \A s \in Streams : \A p \in Waits(s) : At(s, p) \in OpType
  BY WaitsType
<1>3. {"draftCopy", "countCopy", "outputCopy"} \subseteq Streams
  BY DEF Streams
<1>4. ASSUME NEW p \in Waits("draftCopy")', NEW op, op = At("draftCopy", p)' PROVE DraftCopyOp(op)'
  BY <1>1, <1>2, <1>3, <1>4, CopyOpsAre DEF Stays, Adds
<1>5. ASSUME NEW p \in Waits("countCopy")', NEW op, op = At("countCopy", p)' PROVE CountCopyOp(op)'
  BY <1>1, <1>2, <1>3, <1>5, CopyOpsAre DEF Stays, Adds
<1>6. ASSUME NEW p \in Waits("outputCopy")', NEW op, op = At("outputCopy", p)' PROVE OutputCopyOp(op)'
  BY <1>1, <1>2, <1>3, <1>6, CopyOpsAre DEF Stays, Adds
<1> QED BY <1>4, <1>5, <1>6, CopyOpsAreNext

LEMMA HostInputs ==
  ASSUME NEW h \in HostType, NEW v \in Nat
  PROVE  LET g == [h EXCEPT !.inputs = v]
         IN  /\ g \in HostType /\ g.inputs = v
             /\ g.drafts = h.drafts /\ g.counts = h.counts /\ g.experts = h.experts
BY DEF HostType

LEMMA HostDrafts ==
  ASSUME NEW h \in HostType, NEW v \in DraftType
  PROVE  LET g == [h EXCEPT !.drafts = v]
         IN  /\ g \in HostType /\ g.drafts = v
             /\ g.inputs = h.inputs /\ g.counts = h.counts /\ g.experts = h.experts
BY DEF HostType

LEMMA HostCounts ==
  ASSUME NEW h \in HostType, NEW v \in Nat
  PROVE  LET g == [h EXCEPT !.counts = v]
         IN  /\ g \in HostType /\ g.counts = v
             /\ g.inputs = h.inputs /\ g.drafts = h.drafts /\ g.experts = h.experts
BY DEF HostType

LEMMA HostExperts ==
  ASSUME NEW h \in HostType, NEW v \in Nat
  PROVE  LET g == [h EXCEPT !.experts = v]
         IN  /\ g \in HostType /\ g.experts = v
             /\ g.inputs = h.inputs /\ g.drafts = h.drafts /\ g.counts = h.counts
BY DEF HostType

LEMMA EventKeys == DOMAIN EventStream = {"inputs", "drafts", "counts", "transfer"}
BY DEF EventStream

\* DefaultOp of the operation that is at p in the next state.
LEMMA DefaultOpNext ==
  ASSUME NEW p, NEW op, At("default", p)' = op,
         op.kind \in DefaultKinds,
         op.kind = "inputs" =>
           /\ op.step = host'.inputs /\ p <= event'["inputs"]
           /\ p + 1 \in Waits("default")'
           /\ At("default", p + 1)'.kind = "forward" /\ At("default", p + 1)'.step = op.step,
         op.kind = "forward" =>
           IF p - 1 \in Waits("default")'
           THEN At("default", p - 1)'.kind = "inputs" /\ At("default", p - 1)'.step = op.step
           ELSE dev'.inputs = op.step,
         op.kind \in {"propose", "tokens"} => SampledBy(op.step, p)',
         op.kind \in {"clone", "experts"} => ExpertsBy(op.step, p)',
         op.kind = "clone" => cfg'.async,
         op.kind \in {"experts", "tokens"} => ~cfg'.async /\ pc' = "toList" /\ op.step = step',
         ~cfg'.async /\ pc' = "idle" => op.kind = "propose",
         pc' = "toList" => p <= event'["transfer"]
  PROVE  DefaultOp(p)'
<1>1. /\ SampledBy(op.step, p)' => SampledBy(At("default", p).step, p)'
      /\ ExpertsBy(op.step, p)' => ExpertsBy(At("default", p).step, p)'
  BY DEF SampledBy, ExpertsBy, Before
<1> QED BY <1>1 DEF DefaultOp

LEMMA ByNext ==
  ASSUME NEW t, NEW p, step' = t, End("default")' = p, SampledBy(t, p)', ExpertsBy(t, p)'
  PROVE  SampledBy(step, End("default"))' /\ ExpertsBy(step, End("default"))'
BY DEF SampledBy, ExpertsBy, Before

LEMMA InvExecute == Inv /\ ExecuteModel => Inv'
<1> SUFFICES ASSUME Inv, ExecuteModel PROVE Inv'
  OBVIOUS
<1> DEFINE e == End("default")
           a == Op("inputs", step + 1)
           b == Op("forward", step + 1)
<1>1. TypeInv /\ (\A p \in Waits("default") : DefaultOp(p))
  BY DEF Inv
<1>2. /\ AddsTwo("default", a, b) /\ \A s \in Streams : s # "default" => Stays(s)
      /\ queue' \in [Streams -> Seq(OpType)]
      /\ event' = [event EXCEPT !["inputs"] = e + 1]
  BY <1>1, ExecuteQueues
<1>3. /\ pc = "idle" /\ step < MaxSteps /\ step' = step + 1 /\ pc' = "launched"
      /\ host' = [host EXCEPT !.inputs = step + 1]
      /\ plan' \in [drafts : {FALSE, draftIds.step # 0}, fits : BOOLEAN]
      /\ UNCHANGED <<cfg, done, out, dev, draftIds, draftReqs, prevSampled, overlapped>>
  BY DEF ExecuteModel
<1>4. /\ step \in 0 .. MaxSteps /\ MaxSteps \in Nat /\ e \in Nat /\ done["default"] \in Nat
      /\ "default" \in Streams /\ "draftCopy" \in Streams /\ "countCopy" \in Streams
      /\ "outputCopy" \in Streams
  BY <1>1, WaitsType, CopiesAssumption DEF TypeInv, Streams
<1>5. /\ a \in OpType /\ a.kind = "inputs" /\ a.step = step + 1
      /\ b \in OpType /\ b.kind = "forward" /\ b.step = step + 1
  BY <1>4, OpTypes DEF Kinds, DefaultKinds
<1> HIDE DEF a, b
<1>6. /\ host'.inputs = step + 1 /\ host'.drafts = host.drafts /\ host'.counts = host.counts
      /\ host'.experts = host.experts /\ host' \in HostType
  <2>1. PICK n \in Nat : n = step + 1
    BY <1>4
  <2>2. host \in HostType /\ host' = [host EXCEPT !.inputs = n]
    BY <1>1, <1>3, <2>1 DEF TypeInv
  <2>3. host'.inputs = n /\ host' \in HostType /\ host'.drafts = host.drafts
        /\ host'.counts = host.counts /\ host'.experts = host.experts
    BY <2>2, HostInputs
  <2> QED BY <2>1, <2>3
<1>7. /\ event' \in [DOMAIN EventStream -> Nat] /\ event'["inputs"] = e + 1
      /\ event'["drafts"] = event["drafts"] /\ event'["counts"] = event["counts"]
  BY SMTT(30), <1>1, <1>2, <1>4, EventKeys DEF TypeInv
<1>8. TypeInv'
  <2>1. \A s \in Streams : \A p \in Waits(s)' : At(s, p)'.step \in 1 .. step'
    <3>1. a.step \in 1 .. step' /\ b.step \in 1 .. step'
      BY <1>3, <1>4, <1>5
    <3> QED BY <1>1, <1>2, <1>3, <1>5, <3>1, BoundKept
  <2>2. plan' \in [drafts : BOOLEAN, fits : BOOLEAN]
    BY <1>3
  <2>3. step' \in 0 .. MaxSteps /\ draftReqs' \in 0 .. step' /\ prevSampled' \in 0 .. step' /\ step' # 0
    BY <1>1, <1>3, <1>4 DEF TypeInv
  <2> QED BY <1>1, <1>2, <1>3, <1>6, <1>7, <2>1, <2>2, <2>3 DEF TypeInv
<1>9. Keeps
  BY <1>1, <1>2, <1>5, DefaultKeeps
<1>10. ASSUME NEW p \in Waits("default") PROVE At("default", p).kind # "inputs"
  <2>1. CASE cfg.async
    <3>1. done["default"] >= event["inputs"] /\ event["inputs"] \in Nat
      BY <1>1, <2>1 DEF ExecuteModel, MayPrepare, Reached, EventStream, TypeInv
    <3>2. p > done["default"] /\ p \in Nat
      BY <1>1, <1>4, WaitsType
    <3> QED BY <1>1, <1>4, <3>1, <3>2 DEF DefaultOp
  <2>2. CASE ~cfg.async
    BY <1>1, <1>3, <2>2 DEF DefaultOp
  <2> QED BY <2>1, <2>2
<1>11. Waits("default")' = Waits("default") \cup {e + 1, e + 2}
       /\ (\A p : p = e + 1 => At("default", p)' = a)
       /\ (\A p : p = e + 2 => At("default", p)' = b)
  BY <1>2 DEF AddsTwo
<1>12. ASSUME NEW p \in Waits("default")' PROVE DefaultOp(p)'
  <2>1. CASE p \in Waits("default")
    <3>1. At("default", p).kind \notin {"experts", "tokens"}
      BY <1>1, <1>3, <2>1 DEF DefaultOp
    <3> QED BY <1>1, <1>3, <1>9, <1>10, <2>1, <3>1, DefaultOpKept
  <2>2. CASE p = e + 1
    <3>1. p + 1 \in Waits("default")' /\ At("default", p + 1)' = b /\ At("default", p)' = a
          /\ p <= event'["inputs"]
      BY <1>4, <1>7, <1>11, <2>2
    <3> QED BY <1>3, <1>5, <1>6, <3>1, DefaultOpNext DEF DefaultKinds
  <2>3. CASE p = e + 2
    <3>1. p - 1 \in Waits("default")' /\ At("default", p - 1)' = a /\ At("default", p)' = b
      BY <1>4, <1>11, <2>3
    <3> QED BY <1>3, <1>5, <3>1, DefaultOpNext DEF DefaultKinds
  <2> QED BY <1>11, <2>1, <2>2, <2>3
<1>13. CopyOps'
  BY <1>1, <1>2, <1>3, <1>4, <1>9, CopyOpsKept DEF Inv
<1>14. InStep'
  <2>1. PICK t, p : t = step + 1 /\ p = e + 2
    OBVIOUS
  <2>2. /\ p \in Waits("default")' /\ At("default", p)' = b /\ b.step = t
        /\ \A j \in Waits("default")' : ~(p < j /\ j <= p)
    <3>1. \A j \in Waits("default")' : j \in Int
      BY DEF Waits
    <3> QED BY <1>4, <1>5, <1>11, <2>1, <3>1
  <2>3. SampledBy(t, p)' /\ ExpertsBy(t, p)'
    <3>1. p <= p
      BY <1>4, <2>1
    <3> QED BY <1>5, <2>2, <3>1 DEF SampledBy, ExpertsBy, Before
  <2>4. SampledBy(step, End("default"))' /\ ExpertsBy(step, End("default"))'
    <3>1. End("default")' = p
      BY <1>2, <2>1 DEF AddsTwo
    <3> QED BY <1>3, <2>1, <2>3, <3>1, ByNext
  <2> QED BY <1>3, <2>4 DEF InStep
<1>15. DraftsInv'
  <2>1. Stays("draftCopy")
    BY <1>2, <1>4
  <2>2. ~cfg.async => Waits("draftCopy") = {}
    <3>1. ASSUME ~cfg.async, draftReqs # 0 PROVE Waits("draftCopy") = {}
      <4>1. done["draftCopy"] >= event["drafts"]
        BY <3>1 DEF ExecuteModel, Taken, ReadyDrafts, Reached, EventStream
      <4>2. event["drafts"] = End("draftCopy")
        BY <3>1 DEF Inv, DraftsInv
      <4> QED BY <1>1, <1>4, <4>1, <4>2, WaitsType
    <3> QED BY <3>1 DEF Inv, DraftsInv
  <2>3. DraftsInv
    BY DEF Inv
  <2> QED BY <1>3, <1>6, <1>7, <2>1, <2>2, <2>3 DEF DraftsInv, Stays
<1>16. CountsInv'
  <2>1. Stays("countCopy") /\ CountsInv
    BY <1>2, <1>4 DEF Inv
  <2> QED BY <1>3, <1>6, <1>7, <2>1 DEF CountsInv, Stays
<1>17. OutputsInv' /\ InputsIntact'
  BY <1>3, <1>4 DEF Inv, OutputsInv, InputsIntact, Steps
<1> QED BY <1>8, <1>12, <1>13, <1>14, <1>15, <1>16, <1>17 DEF Inv

\* What the worker adds after its forward pass comes after it.
LEMMA InStepKept ==
  ASSUME TypeInv, dev' = dev, step' = step,
         SampledBy(step, End("default")), ExpertsBy(step, End("default")),
         \/ Stays("default")
         \/ \E op \in OpType : Adds("default", op) /\ op.kind # "forward"
         \/ \E a, b \in OpType : /\ AddsTwo("default", a, b)
                                 /\ a.kind # "forward" /\ b.kind # "forward"
  PROVE  /\ SampledBy(step, End("default"))' /\ ExpertsBy(step, End("default"))'
         /\ \A t, p : t = step /\ p \in Nat /\ p >= End("default") =>
              SampledBy(t, p)' /\ ExpertsBy(t, p)'
<1>1. "default" \in Streams /\ End("default") \in Nat
  BY WaitsType DEF Streams
<1>2. PICK n, e : n = step /\ e = End("default")
  OBVIOUS
<1>3. SampledBy(n, e)' /\ ExpertsBy(n, e)'
  <2>1. SampledBy(n, e) /\ ExpertsBy(n, e) /\ e \in Nat /\ e <= End("default")
    BY <1>1, <1>2 DEF SampledBy, ExpertsBy, Before
  <2>2. Keeps
    BY DefaultKeeps
  <2> QED BY <2>1, <2>2, StillBy
<1>4. \A i \in Waits("default")' : i \in Int /\ (i > e => At("default", i)'.kind # "forward")
  <2>1. \A i \in Waits("default")' : i \in Int
    BY DEF Waits
  <2>2. \A i \in Waits("default") : ~(i > e)
    BY <1>1, <1>2, WaitsType
  <2>3. CASE Stays("default")
    BY <2>1, <2>2, <2>3 DEF Stays
  <2>4. ASSUME NEW op \in OpType, Adds("default", op), op.kind # "forward"
        PROVE  \A i \in Waits("default")' : i > e => At("default", i)'.kind # "forward"
    BY <2>2, <2>4 DEF Adds
  <2>5. ASSUME NEW a \in OpType, NEW b \in OpType, AddsTwo("default", a, b),
               a.kind # "forward", b.kind # "forward"
        PROVE  \A i \in Waits("default")' : i > e => At("default", i)'.kind # "forward"
    BY <2>2, <2>5 DEF AddsTwo
  <2> QED BY <2>1, <2>3, <2>4, <2>5
<1>5. ASSUME NEW p \in Nat, p >= e PROVE SampledBy(n, p)' /\ ExpertsBy(n, p)'
  <2>1. \A i \in Waits("default")' : i <= e => i <= p
    BY <1>1, <1>2, <1>4, <1>5
  <2>2. SampledBy(n, p)'
    BY <1>3, <2>1 DEF SampledBy, Before
  <2>3. ExpertsBy(n, p)'
    <3>1. \A i \in Waits("default")' : i <= e \/ i > e
      BY <1>1, <1>2, <1>4
    <3>2. CASE dev'.experts = n /\ \A i \in Waits("default")' : i <= e => At("default", i)'.kind # "forward"
      BY <1>4, <3>1, <3>2 DEF ExpertsBy
    <3>3. ASSUME NEW i \in Waits("default")', i <= e,
                 At("default", i)'.kind = "forward", At("default", i)'.step = n,
                 \A j \in Waits("default")' : i < j /\ j <= e => At("default", j)'.kind # "forward"
          PROVE  ExpertsBy(n, p)'
      BY <1>4, <2>1, <3>1, <3>3 DEF ExpertsBy
    <3> QED BY <1>3, <3>2, <3>3 DEF ExpertsBy
  <2> QED BY <2>2, <2>3
<1>6. End("default")' \in Nat /\ End("default")' >= End("default")
  BY <1>1 DEF Stays, Adds, AddsTwo
<1>7. PICK q : q = End("default")'
  OBVIOUS
<1>8. SampledBy(n, q)' /\ ExpertsBy(n, q)'
  BY <1>2, <1>5, <1>6, <1>7
<1>9. SampledBy(step, End("default"))' /\ ExpertsBy(step, End("default"))'
  BY <1>2, <1>7, <1>8, ByNext
<1>10. ASSUME NEW t, NEW p, t = step, p \in Nat, p >= End("default")
       PROVE  SampledBy(t, p)' /\ ExpertsBy(t, p)'
  <2>1. t = n
    BY <1>2, <1>10
  <2> QED BY <1>2, <1>5, <1>10, <2>1
<1> QED BY <1>9, <1>10

LEMMA InvSample == Inv /\ Sample => Inv'
<1> SUFFICES ASSUME Inv, Sample PROVE Inv'
  OBVIOUS
<1>1. TypeInv /\ \A p \in Waits("default") : DefaultOp(p)
  BY DEF Inv
<1>2. /\ pc = "launched" /\ pc' = "sampled"
      /\ draftIds' = NoDrafts /\ draftReqs' = 0 /\ prevSampled' = 0
      /\ UNCHANGED <<cfg, step, plan, queue, done, event, host, out, dev, overlapped>>
  BY DEF Sample
<1>3. \A s \in Streams : Stays(s)
  BY <1>2, StreamStays
<1>4. "default" \in Streams /\ "draftCopy" \in Streams /\ "countCopy" \in Streams
      /\ "outputCopy" \in Streams
  BY DEF Streams
<1>5. TypeInv'
  <2>1. \A s \in Streams : \A p \in Waits(s)' : At(s, p)'.step \in 1 .. step'
    BY <1>1, <1>2, <1>3, BoundKept
  <2>2. draftIds' \in DraftType /\ step \in Nat
    BY <1>1, <1>2 DEF NoDrafts, DraftType, TypeInv
  <2>3. draftReqs' \in 0 .. step /\ prevSampled' \in 0 .. step
    BY <1>2, <2>2
  <2> QED BY <1>1, <1>2, <2>1, <2>2, <2>3 DEF TypeInv
<1>6. Keeps
  BY <1>1, <1>3, <1>4, DefaultKeeps
<1>7. ASSUME NEW p \in Waits("default")' PROVE DefaultOp(p)'
  <2>1. p \in Waits("default") /\ DefaultOp(p)
    BY <1>1, <1>3, <1>4 DEF Stays
  <2>2. At("default", p).kind \notin {"experts", "tokens"}
    BY <1>2, <2>1 DEF DefaultOp
  <2> QED BY <1>1, <1>2, <1>6, <2>1, <2>2, DefaultOpKept
<1>8. CopyOps'
  BY <1>1, <1>2, <1>3, <1>4, <1>6, CopyOpsKept DEF Inv
<1>9. InStep'
  <2>1. SampledBy(step, End("default")) /\ ExpertsBy(step, End("default"))
    BY <1>2 DEF Inv, InStep
  <2>2. SampledBy(step, End("default"))' /\ ExpertsBy(step, End("default"))'
    BY <1>1, <1>2, <1>3, <1>4, <2>1, InStepKept
  <2> QED BY <1>2, <2>2 DEF InStep
<1>10. DraftsInv'
  BY <1>2, <1>3, <1>4 DEF Inv, DraftsInv, Stays
<1>11. CountsInv'
  BY <1>2, <1>3, <1>4 DEF Inv, CountsInv, Stays
<1>12. OutputsInv' /\ InputsIntact'
  BY <1>2 DEF Inv, OutputsInv, InputsIntact
<1> QED BY <1>5, <1>7, <1>8, <1>9, <1>10, <1>11, <1>12 DEF Inv

LEMMA InvOutput == Inv /\ AsyncOutput => Inv'
<1> SUFFICES ASSUME Inv, AsyncOutput PROVE Inv'
  OBVIOUS
<1>1. TypeInv /\ \A p \in Waits("default") : DefaultOp(p)
  BY DEF Inv
<1>2. /\ pc = "drafted" /\ pc' = "idle" /\ cfg.async
      /\ prevSampled' = IF prevSampled = 0 THEN step ELSE prevSampled
      /\ UNCHANGED <<cfg, step, plan, done, event, host, out, dev, draftIds, draftReqs, overlapped>>
  BY DEF AsyncOutput
<1>3. PICK e, n, o, c : /\ e = End("default") /\ n = step
                        /\ o = Op("clone", step) /\ c = CopyOp("output", step, End("default") + 1)
  OBVIOUS
<1>4. /\ Adds("default", o) /\ Adds("outputCopy", c)
      /\ Stays("draftCopy") /\ Stays("countCopy") /\ queue' \in [Streams -> Seq(OpType)]
  BY <1>1, <1>3, OutputQueues
<1>5. /\ "default" \in Streams /\ "draftCopy" \in Streams /\ "countCopy" \in Streams
      /\ "outputCopy" \in Streams /\ e \in Nat /\ n \in Nat /\ n \in 1 .. step
      /\ Streams = {"default", "draftCopy", "countCopy", "outputCopy"}
  BY <1>1, <1>2, <1>3, WaitsType DEF Streams, TypeInv
<1>6. /\ o \in OpType /\ o.kind = "clone" /\ o.step = n
      /\ c \in OpType /\ c.kind = "output" /\ c.step = n /\ c.after = e + 1
  <2>1. {"clone", "output"} \subseteq Kinds /\ e + 1 \in Nat
    BY <1>5 DEF Kinds, DefaultKinds
  <2> QED BY <1>3, <1>5, <2>1, OpTypes
<1>7. TypeInv'
  <2>1. \A s \in Streams : \A p \in Waits(s)' : At(s, p)'.step \in 1 .. step'
    BY <1>1, <1>2, <1>4, <1>5, <1>6, BoundKept
  <2>2. prevSampled' \in 0 .. step
    BY <1>1, <1>2, <1>5 DEF TypeInv
  <2> QED BY <1>1, <1>2, <1>4, <2>1, <2>2 DEF TypeInv
<1>8. Keeps
  BY <1>1, <1>4, <1>6, DefaultKeeps
<1>9. \A p \in Nat : p >= e => SampledBy(n, p)' /\ ExpertsBy(n, p)'
  <2>1. SampledBy(step, End("default")) /\ ExpertsBy(step, End("default"))
    BY <1>2 DEF Inv, InStep
  <2>2. o.kind # "forward"
    BY <1>6
  <2>3. \A t, p : t = step /\ p \in Nat /\ p >= End("default") =>
              SampledBy(t, p)' /\ ExpertsBy(t, p)'
    BY <1>1, <1>2, <1>4, <1>6, <2>1, <2>2, InStepKept
  <2> QED BY <1>3, <2>3
<1>10. ASSUME NEW p \in Waits("default")' PROVE DefaultOp(p)'
  <2>1. CASE p \in Waits("default")
    <3>1. At("default", p).kind \notin {"experts", "tokens"}
      BY <1>1, <1>2, <2>1 DEF DefaultOp
    <3> QED BY <1>1, <1>2, <1>8, <2>1, <3>1, DefaultOpKept
  <2>2. CASE p = e + 1
    <3>1. At("default", p)' = o
      BY <1>3, <1>4, <2>2 DEF Adds
    <3>2. ExpertsBy(o.step, p)'
      BY <1>5, <1>6, <1>9, <2>2
    <3> QED BY <1>2, <1>6, <3>1, <3>2, DefaultOpNext DEF DefaultKinds
  <2> QED BY <1>3, <1>4, <2>1, <2>2 DEF Adds
<1>11. CopyOps'
  <2>1. OutputCopyOp(c)'
    <3>1. SampledBy(c.step, c.after)'
      BY <1>5, <1>6, <1>9
    <3>2. ClonedBy(c.step, c.after)'
      <4>1. PICK p : p = e + 1
        OBVIOUS
      <4>2. p \in Waits("default")' /\ At("default", p)' = o /\ p <= c.after
        BY <1>3, <1>4, <1>5, <1>6, <4>1 DEF Adds
      <4> QED BY <1>6, <4>2 DEF ClonedBy, Before
    <3> QED BY <1>2, <1>6, <3>1, <3>2 DEF OutputCopyOp
  <2> QED BY <1>1, <1>2, <1>4, <1>6, <1>8, <2>1, CopyOpsKept DEF Inv
<1>12. InStep'
  BY <1>2 DEF InStep
<1>13. DraftsInv'
  BY <1>2, <1>4 DEF Inv, DraftsInv, Stays
<1>14. CountsInv'
  BY <1>2, <1>4 DEF Inv, CountsInv, Stays
<1>15. OutputsInv' /\ InputsIntact'
  BY <1>2 DEF Inv, OutputsInv, InputsIntact
<1> QED BY <1>7, <1>10, <1>11, <1>12, <1>13, <1>14, <1>15 DEF Inv

LEMMA InvPropose ==
  ASSUME Inv, Propose, UNCHANGED <<cfg, step, plan, done, dev>>, cfg.drafter # "none",
         \/ pc = "sampled" /\ pc' = "drafted"
         \/ pc = "toList" /\ pc' = "idle" /\ Waits("default") = {},
         out' \in [Steps -> OutType], OutputsInv'
  PROVE  Inv'
<1>1. TypeInv /\ (\A p \in Waits("default") : DefaultOp(p)) /\ pc # "idle"
  BY DEF Inv
<1>2. /\ host' = host /\ prevSampled' = IF cfg.async THEN step ELSE prevSampled
  BY DEF Propose
<1>3. PICK e, n, o, c, d : /\ e = End("default") /\ n = step /\ o = Op("propose", step)
                           /\ c = CopyOp("counts", step, End("default"))
                           /\ d = CopyOp("drafts", step, End("default") + 1)
  OBVIOUS
<1>4. /\ Adds("default", o)
      /\ IF cfg.drafter = "gpu" /\ cfg.async THEN Adds("countCopy", c) ELSE Stays("countCopy")
      /\ Stays("outputCopy")
      /\ queue' \in [Streams -> Seq(OpType)]
      /\ event' \in [DOMAIN EventStream -> Nat]
      /\ event'["inputs"] = event["inputs"] /\ event'["transfer"] = event["transfer"]
      /\ event'["counts"] = End("countCopy")'
      /\ draftIds' = [step |-> step, zero |-> FALSE]
      /\ \/ /\ Adds("draftCopy", d)
            /\ draftReqs' = step /\ overlapped' = FALSE /\ event'["drafts"] = End("draftCopy")'
         \/ /\ cfg.async /\ Stays("draftCopy")
            /\ draftReqs' = 0 /\ overlapped' = overlapped
  BY <1>1, <1>3, ProposeQueues
<1>5. /\ "default" \in Streams /\ "draftCopy" \in Streams /\ "countCopy" \in Streams
      /\ "outputCopy" \in Streams /\ e \in Nat /\ n \in Nat /\ n \in 1 .. step
      /\ Streams = {"default", "draftCopy", "countCopy", "outputCopy"}
  BY <1>1, <1>3, WaitsType DEF Streams, TypeInv
<1>6. /\ o \in OpType /\ o.kind = "propose" /\ o.step = n
      /\ c \in OpType /\ c.kind = "counts" /\ c.step = n /\ c.after = e
      /\ d \in OpType /\ d.kind = "drafts" /\ d.step = n /\ d.after = e + 1
  <2>1. {"propose", "counts", "drafts"} \subseteq Kinds /\ e + 1 \in Nat
    BY <1>5 DEF Kinds, DefaultKinds
  <2> QED BY <1>3, <1>5, <2>1, OpTypes
<1>7. TypeInv'
  <2>1. ASSUME NEW s \in Streams PROVE \A p \in Waits(s)' : At(s, p)'.step \in 1 .. step'
    BY <1>1, <1>4, <1>5, <1>6, BoundKept
  <2>2. /\ prevSampled' \in 0 .. step /\ draftReqs' \in 0 .. step /\ overlapped' \in BOOLEAN
    <3>1. step \in 0 .. step /\ 0 \in 0 .. step /\ prevSampled \in 0 .. step /\ overlapped \in BOOLEAN
      BY <1>1, <1>5 DEF TypeInv
    <3>2. draftReqs' \in {0, step} /\ overlapped' \in {FALSE, overlapped}
      BY <1>4
    <3> QED BY <1>2, <3>1, <3>2
  <2>3. draftIds' \in DraftType
    BY <1>3, <1>4, <1>5 DEF DraftType
  <2>4. pc' \in {"drafted", "idle"} /\ step # 0
    BY <1>1 DEF TypeInv
  <2> QED BY <1>1, <1>2, <1>4, <2>1, <2>2, <2>3, <2>4 DEF TypeInv
<1>8. Keeps
  BY <1>1, <1>4, <1>6, DefaultKeeps
<1>9. /\ SampledBy(step, End("default"))' /\ ExpertsBy(step, End("default"))'
      /\ \A p \in Nat : p >= e => SampledBy(n, p)'
  <2>1. SampledBy(step, End("default")) /\ ExpertsBy(step, End("default"))
    BY <1>1 DEF Inv, InStep
  <2>2. o.kind # "forward"
    BY <1>6
  <2>3. /\ SampledBy(step, End("default"))' /\ ExpertsBy(step, End("default"))'
        /\ \A t, p : t = step /\ p \in Nat /\ p >= End("default") => SampledBy(t, p)'
    BY <1>1, <1>4, <1>6, <2>1, <2>2, InStepKept
  <2> QED BY <1>3, <2>3
<1>10. ASSUME NEW p \in Waits("default")' PROVE DefaultOp(p)'
  <2>1. CASE p \in Waits("default")
    <3>1. pc = "sampled" /\ pc' = "drafted"
      BY <2>1
    <3>2. At("default", p).kind \notin {"experts", "tokens"}
      BY <1>1, <2>1, <3>1 DEF DefaultOp
    <3> QED BY <1>1, <1>2, <1>4, <1>8, <2>1, <3>1, <3>2, DefaultOpKept
  <2>2. CASE p = e + 1
    <3>1. At("default", p)' = o
      BY <1>3, <1>4, <2>2 DEF Adds
    <3>2. SampledBy(o.step, p)'
      BY <1>5, <1>6, <1>9, <2>2
    <3> QED BY <1>6, <3>1, <3>2, DefaultOpNext DEF DefaultKinds
  <2> QED BY <1>3, <1>4, <2>1, <2>2 DEF Adds
<1>11. CopyOps'
  <2>1. DraftCopyOp(d)'
    <3>1. PICK p : p = e + 1
      OBVIOUS
    <3>2. p \in Waits("default")' /\ At("default", p)' = o /\ p <= d.after
      BY <1>3, <1>4, <1>5, <1>6, <3>1 DEF Adds
    <3> QED BY <1>6, <3>2 DEF DraftCopyOp, DraftedBy, Before
  <2>2. CountCopyOp(c)'
    <3>1. SampledBy(c.step, c.after)'
      BY <1>5, <1>6, <1>9
    <3> QED BY <1>6, <3>1 DEF CountCopyOp
  <2> QED BY <1>1, <1>4, <1>6, <1>8, <2>1, <2>2, CopyOpsKept DEF Inv
<1>12. InStep'
  BY <1>9 DEF InStep
<1>13. DraftsInv'
  <2>1. DraftsInv /\ draftIds'.step = step /\ ~draftIds'.zero /\ pc' \notin {"launched", "sampled"}
    BY <1>4 DEF Inv
  <2>2. CASE /\ Adds("draftCopy", d) /\ draftReqs' = step /\ overlapped' = FALSE
             /\ event'["drafts"] = End("draftCopy")'
    <3>1. Waits("draftCopy")' # {} /\ LastOp("draftCopy")'.step = draftIds'.step
      BY <1>3, <1>6, <2>1, <2>2 DEF Adds
    <3> QED BY <1>5, <2>1, <2>2, <3>1 DEF DraftsInv
  <2>3. CASE cfg.async /\ draftReqs' = 0
    BY <2>1, <2>3 DEF DraftsInv
  <2> QED BY <1>4, <2>2, <2>3
<1>14. CountsInv'
  <2>1. CountsInv /\ pc' # "toList" /\ (cfg.async => cfg.drafter = "gpu") /\ step # 0
    <3>1. cfg \in Configs /\ cfg.drafter \in {"none", "gpu", "cpu"}
      BY <1>1, CopiesAssumption DEF TypeInv
    <3> QED BY <1>1, <3>1, CopiesAssumption DEF Inv, TypeInv
  <2>2. CASE cfg.async
    <3>1. Waits("countCopy")' # {} /\ LastOp("countCopy")'.step = prevSampled'
      BY <1>2, <1>3, <1>4, <1>6, <2>1, <2>2 DEF Adds
    <3> QED BY <1>2, <1>4, <2>1, <2>2, <3>1 DEF CountsInv
  <2>3. CASE ~cfg.async
    BY <1>2, <2>1, <2>3 DEF CountsInv
  <2> QED BY <2>2, <2>3
<1>15. InputsIntact'
  BY DEF Inv, InputsIntact
<1> QED BY <1>7, <1>10, <1>11, <1>12, <1>13, <1>14, <1>15 DEF Inv

LEMMA InvZeros ==
  ASSUME Inv, Zeros, UNCHANGED <<cfg, step, plan, done, dev, out>>, cfg.drafter # "none",
         pc = "sampled", pc' = "drafted"
  PROVE  Inv'
<1>1. TypeInv /\ (\A p \in Waits("default") : DefaultOp(p))
  BY DEF Inv
<1>2. prevSampled' = IF cfg.async THEN step ELSE prevSampled
  BY DEF Zeros
<1>3. PICK e, n, c, z : /\ e = End("default") /\ n = step
                        /\ c = CopyOp("counts", step, End("default"))
                        /\ z = [step |-> step, zero |-> TRUE]
  OBVIOUS
<1>4. /\ IF cfg.async THEN Adds("countCopy", c) ELSE Stays("countCopy")
      /\ Stays("default") /\ Stays("outputCopy") /\ Stays("draftCopy")
      /\ queue' \in [Streams -> Seq(OpType)]
      /\ event' \in [DOMAIN EventStream -> Nat]
      /\ event'["inputs"] = event["inputs"] /\ event'["transfer"] = event["transfer"]
      /\ event'["counts"] = End("countCopy")'
      /\ draftIds' = z
      /\ \/ /\ draftReqs' = step /\ event'["drafts"] = End("draftCopy")'
            /\ host' = [host EXCEPT !.drafts = z]
            /\ overlapped' = (Waits("draftCopy") # {})
         \/ cfg.async /\ draftReqs' = 0 /\ host' = host /\ overlapped' = overlapped
  BY <1>1, <1>3, ZerosQueues
<1>5. /\ "default" \in Streams /\ "draftCopy" \in Streams /\ "countCopy" \in Streams
      /\ "outputCopy" \in Streams /\ e \in Nat /\ n \in Nat /\ n \in 1 .. step
      /\ Streams = {"default", "draftCopy", "countCopy", "outputCopy"}
  BY <1>1, <1>3, WaitsType DEF Streams, TypeInv
<1>6. c \in OpType /\ c.kind = "counts" /\ c.step = n /\ c.after = e
  <2>1. "counts" \in Kinds
    BY DEF Kinds
  <2> QED BY <1>3, <1>5, <2>1, OpTypes
<1>7. /\ host' \in HostType /\ host'.inputs = host.inputs /\ host'.counts = host.counts
      /\ host'.experts = host.experts /\ z \in DraftType /\ z.step = step
      /\ draftReqs' # 0 => host'.drafts = z
  <2>1. z \in DraftType /\ z.step = step
    BY <1>3, <1>5 DEF DraftType
  <2>2. host \in HostType
    BY <1>1 DEF TypeInv
  <2>3. CASE host' = [host EXCEPT !.drafts = z]
    BY <2>1, <2>2, <2>3, HostDrafts
  <2>4. CASE draftReqs' = 0 /\ host' = host
    BY <2>1, <2>2, <2>4
  <2> QED BY <1>4, <2>3, <2>4
<1>8. TypeInv'
  <2>1. ASSUME NEW s \in Streams PROVE \A p \in Waits(s)' : At(s, p)'.step \in 1 .. step'
    BY <1>1, <1>4, <1>5, <1>6, BoundKept
  <2>2. /\ prevSampled' \in 0 .. step /\ draftReqs' \in 0 .. step /\ overlapped' \in BOOLEAN
    <3>1. step \in 0 .. step /\ 0 \in 0 .. step /\ prevSampled \in 0 .. step /\ overlapped \in BOOLEAN
      BY <1>1, <1>5 DEF TypeInv
    <3>2. draftReqs' \in {0, step}
      BY <1>4
    <3>3. overlapped' \in BOOLEAN
      BY <1>4, <3>1, Zenon
    <3> QED BY <1>2, <3>1, <3>2, <3>3
  <2> QED BY <1>1, <1>4, <1>7, <2>1, <2>2 DEF TypeInv
<1>9. Keeps
  BY <1>1, <1>4, DefaultKeeps
<1>10. /\ SampledBy(step, End("default"))' /\ ExpertsBy(step, End("default"))'
       /\ \A p \in Nat : p >= e => SampledBy(n, p)'
  <2>1. SampledBy(step, End("default")) /\ ExpertsBy(step, End("default"))
    BY DEF Inv, InStep
  <2>2. /\ SampledBy(step, End("default"))' /\ ExpertsBy(step, End("default"))'
        /\ \A t, p : t = step /\ p \in Nat /\ p >= End("default") => SampledBy(t, p)'
    BY <1>1, <1>4, <2>1, InStepKept
  <2> QED BY <1>3, <2>2
<1>11. ASSUME NEW p \in Waits("default")' PROVE DefaultOp(p)'
  <2>1. p \in Waits("default") /\ DefaultOp(p)
    BY <1>1, <1>4 DEF Stays
  <2>2. At("default", p).kind \notin {"experts", "tokens"}
    BY <2>1 DEF DefaultOp
  <2> QED BY <1>1, <1>4, <1>7, <1>9, <2>1, <2>2, DefaultOpKept
<1>12. CopyOps'
  <2>1. CountCopyOp(c)'
    <3>1. SampledBy(c.step, c.after)'
      BY <1>5, <1>6, <1>10
    <3> QED BY <1>6, <3>1 DEF CountCopyOp
  <2> QED BY <1>1, <1>4, <1>6, <1>9, <2>1, CopyOpsKept DEF Inv
<1>13. InStep'
  BY <1>10 DEF InStep
<1>14. DraftsInv'
  <2>1. DraftsInv /\ (~cfg.async => Waits("draftCopy") = {})
    BY DEF Inv, DraftsInv
  <2>2. CASE draftReqs' = step /\ event'["drafts"] = End("draftCopy")'
             /\ overlapped' = (Waits("draftCopy") # {})
    <3>1. step # 0 /\ host'.drafts = draftIds' /\ draftReqs' = draftIds'.step
      BY <1>4, <1>5, <1>7, <2>2
    <3> QED BY <1>4, <2>1, <2>2, <3>1 DEF DraftsInv, Stays
  <2>3. CASE cfg.async /\ draftReqs' = 0
    BY <2>1, <2>3 DEF DraftsInv
  <2> QED BY <1>4, <2>2, <2>3
<1>15. CountsInv'
  <2>1. CountsInv /\ step # 0
    BY <1>5 DEF Inv
  <2>2. CASE cfg.async
    <3>1. Waits("countCopy")' # {} /\ LastOp("countCopy")'.step = prevSampled'
      BY <1>2, <1>3, <1>4, <1>6, <2>2 DEF Adds
    <3> QED BY <1>2, <1>4, <2>1, <2>2, <3>1 DEF CountsInv
  <2>3. CASE ~cfg.async
    BY <1>2, <2>1, <2>3 DEF CountsInv
  <2> QED BY <2>2, <2>3
<1>16. OutputsInv' /\ InputsIntact'
  BY DEF Inv, OutputsInv, InputsIntact
<1> QED BY <1>8, <1>11, <1>12, <1>13, <1>14, <1>15, <1>16 DEF Inv

LEMMA InvDraft == Inv /\ Draft => Inv'
<1> SUFFICES ASSUME Inv, Draft PROVE Inv'
  OBVIOUS
<1>1. TypeInv /\ (\A p \in Waits("default") : DefaultOp(p))
  BY DEF Inv
<1>2. pc = "sampled" /\ pc' = "drafted" /\ UNCHANGED <<cfg, step, plan, done, out, dev>>
  BY DEF Draft
<1>3. CASE cfg.drafter # "none" /\ Zeros
  BY <1>2, <1>3, InvZeros
<1>4. CASE cfg.drafter = "gpu" /\ Propose
  <2>1. out' \in [Steps -> OutType] /\ OutputsInv'
    BY <1>1, <1>2 DEF TypeInv, Inv, OutputsInv
  <2> QED BY <1>2, <1>4, <2>1, InvPropose
<1>5. CASE /\ cfg.drafter # "gpu"
           /\ UNCHANGED <<queue, draftIds, draftReqs, host, overlapped, event, prevSampled>>
  <2>1. \A s \in Streams : Stays(s)
    BY <1>2, <1>5, StreamStays
  <2>2. "default" \in Streams /\ "draftCopy" \in Streams /\ "countCopy" \in Streams
        /\ "outputCopy" \in Streams
    BY DEF Streams
  <2>3. Keeps
    BY <1>1, <2>1, <2>2, DefaultKeeps
  <2>4. TypeInv'
    <3>1. \A s \in Streams : \A p \in Waits(s)' : At(s, p)'.step \in 1 .. step'
      BY <1>1, <1>2, <2>1, BoundKept
    <3> QED BY <1>1, <1>2, <1>5, <3>1 DEF TypeInv
  <2>5. ASSUME NEW p \in Waits("default")' PROVE DefaultOp(p)'
    <3>1. p \in Waits("default") /\ DefaultOp(p)
      BY <1>1, <2>1, <2>2 DEF Stays
    <3>2. At("default", p).kind \notin {"experts", "tokens"}
      BY <1>2, <3>1 DEF DefaultOp
    <3> QED BY <1>1, <1>2, <1>5, <2>3, <3>1, <3>2, DefaultOpKept
  <2>6. CopyOps'
    BY <1>1, <1>2, <2>1, <2>2, <2>3, CopyOpsKept DEF Inv
  <2>7. InStep'
    <3>1. SampledBy(step, End("default")) /\ ExpertsBy(step, End("default"))
      BY <1>2 DEF Inv, InStep
    <3>2. SampledBy(step, End("default"))' /\ ExpertsBy(step, End("default"))'
      BY <1>1, <1>2, <2>1, <2>2, <3>1, InStepKept
    <3> QED BY <1>2, <3>2 DEF InStep
  <2>8. DraftsInv'
    BY <1>2, <1>5, <2>1, <2>2 DEF Inv, DraftsInv, Stays
  <2>9. CountsInv'
    <3>1. cfg.async => cfg.drafter = "none"
      <4>1. cfg \in Configs /\ cfg.drafter \in {"none", "gpu", "cpu"}
        BY <1>1, CopiesAssumption DEF TypeInv
      <4> QED BY <1>5, <4>1, CopiesAssumption
    <3> QED BY <1>2, <1>5, <2>1, <2>2, <3>1 DEF Inv, CountsInv, Stays
  <2>10. OutputsInv' /\ InputsIntact'
    BY <1>2 DEF Inv, OutputsInv, InputsIntact
  <2> QED BY <2>4, <2>5, <2>6, <2>7, <2>8, <2>9, <2>10 DEF Inv
<1> QED BY <1>3, <1>4, <1>5 DEF Draft

LEMMA InvSync == Inv /\ SyncCopy => Inv'
<1> SUFFICES ASSUME Inv, SyncCopy PROVE Inv'
  OBVIOUS
<1>1. TypeInv /\ (\A p \in Waits("default") : DefaultOp(p))
  BY DEF Inv
<1>2. /\ pc = "drafted" /\ pc' = "toList" /\ ~cfg.async
      /\ UNCHANGED <<cfg, step, plan, done, host, out, dev, draftIds, draftReqs, prevSampled,
                     overlapped>>
  BY DEF SyncCopy
<1>3. PICK e, n, a, b : /\ e = End("default") /\ n = step
                        /\ a = Op("experts", step) /\ b = Op("tokens", step)
  OBVIOUS
<1>4. /\ AddsTwo("default", a, b) /\ (\A s \in Streams : s # "default" => Stays(s))
      /\ queue' \in [Streams -> Seq(OpType)]
      /\ event' = [event EXCEPT !["transfer"] = End("default")']
  BY <1>1, <1>3, SyncQueues
<1>5. /\ "default" \in Streams /\ "draftCopy" \in Streams /\ "countCopy" \in Streams
      /\ "outputCopy" \in Streams /\ e \in Nat /\ n \in Nat /\ n \in 1 .. step
  BY <1>1, <1>2, <1>3, WaitsType DEF Streams, TypeInv
<1>6. /\ a \in OpType /\ a.kind = "experts" /\ a.step = n
      /\ b \in OpType /\ b.kind = "tokens" /\ b.step = n
  <2>1. {"experts", "tokens"} \subseteq Kinds
    BY DEF Kinds, DefaultKinds
  <2> QED BY <1>3, <1>5, <2>1, OpTypes
<1>7. /\ event' \in [DOMAIN EventStream -> Nat] /\ event'["transfer"] = e + 2
      /\ event'["inputs"] = event["inputs"]
      /\ event'["drafts"] = event["drafts"] /\ event'["counts"] = event["counts"]
      /\ End("default")' = e + 2
  <2>1. End("default")' = e + 2 /\ e + 2 \in Nat
    BY <1>3, <1>4, <1>5 DEF AddsTwo
  <2> QED BY <1>1, <1>4, <2>1, EventKeys DEF TypeInv
<1>8. TypeInv'
  <2>1. ASSUME NEW s \in Streams PROVE \A p \in Waits(s)' : At(s, p)'.step \in 1 .. step'
    BY <1>1, <1>2, <1>4, <1>5, <1>6, BoundKept
  <2> QED BY <1>1, <1>2, <1>4, <1>7, <2>1 DEF TypeInv
<1>9. Keeps
  BY <1>1, <1>4, <1>6, DefaultKeeps
<1>10. /\ SampledBy(step, End("default"))' /\ ExpertsBy(step, End("default"))'
       /\ \A p \in Nat : p >= e => SampledBy(n, p)' /\ ExpertsBy(n, p)'
  <2>1. SampledBy(step, End("default")) /\ ExpertsBy(step, End("default"))
    BY <1>2 DEF Inv, InStep
  <2>2. /\ SampledBy(step, End("default"))' /\ ExpertsBy(step, End("default"))'
        /\ \A t, p : t = step /\ p \in Nat /\ p >= End("default") =>
             SampledBy(t, p)' /\ ExpertsBy(t, p)'
    BY <1>1, <1>2, <1>4, <1>6, <2>1, InStepKept
  <2> QED BY <1>3, <2>2
<1>11. /\ Waits("default")' = Waits("default") \cup {e + 1, e + 2}
       /\ \A p : p = e + 1 => At("default", p)' = a
       /\ \A p : p = e + 2 => At("default", p)' = b
  BY <1>3, <1>4 DEF AddsTwo
<1>12. ASSUME NEW p \in Waits("default")' PROVE DefaultOp(p)'
  <2>1. CASE p \in Waits("default")
    <3>1. At("default", p).kind \notin {"experts", "tokens"}
      BY <1>1, <1>2, <2>1 DEF DefaultOp
    <3>2. p <= event'["transfer"]
      BY <1>1, <1>3, <1>5, <1>7, <2>1, WaitsType
    <3> QED BY <1>1, <1>2, <1>7, <1>9, <2>1, <3>1, <3>2, DefaultOpKept
  <2>2. CASE p = e + 1
    <3>1. At("default", p)' = a /\ ExpertsBy(a.step, p)' /\ p <= event'["transfer"]
      BY <1>5, <1>6, <1>7, <1>10, <1>11, <2>2
    <3> QED BY <1>2, <1>3, <1>6, <3>1, DefaultOpNext DEF DefaultKinds
  <2>3. CASE p = e + 2
    <3>1. At("default", p)' = b /\ SampledBy(b.step, p)' /\ p <= event'["transfer"]
      BY <1>5, <1>6, <1>7, <1>10, <1>11, <2>3
    <3> QED BY <1>2, <1>3, <1>6, <3>1, DefaultOpNext DEF DefaultKinds
  <2> QED BY <1>11, <2>1, <2>2, <2>3
<1>13. CopyOps'
  BY <1>1, <1>2, <1>4, <1>5, <1>9, CopyOpsKept DEF Inv
<1>14. InStep'
  <2>1. PICK i, j : i = e + 1 /\ j = e + 2
    OBVIOUS
  <2>2. /\ i \in Waits("default")' /\ i <= End("default")' /\ At("default", i)' = a
        /\ j \in Waits("default")' /\ j <= End("default")' /\ At("default", j)' = b
    BY <1>5, <1>7, <1>11, <2>1
  <2>3. Before("experts", step, End("default"))' /\ Before("tokens", step, End("default"))'
    BY <1>2, <1>3, <1>6, <2>2 DEF Before
  <2> QED BY <1>2, <1>10, <2>3 DEF InStep
<1>15. DraftsInv'
  BY <1>2, <1>4, <1>5, <1>7 DEF Inv, DraftsInv, Stays
<1>16. CountsInv'
  BY <1>2, <1>4, <1>5, <1>7 DEF Inv, CountsInv, Stays
<1>17. OutputsInv' /\ InputsIntact'
  BY <1>2 DEF Inv, OutputsInv, InputsIntact
<1> QED BY <1>8, <1>12, <1>13, <1>14, <1>15, <1>16, <1>17 DEF Inv

LEMMA InvToList == Inv /\ ToList => Inv'
<1> SUFFICES ASSUME Inv, ToList PROVE Inv'
  OBVIOUS
<1>1. TypeInv /\ (\A p \in Waits("default") : DefaultOp(p))
  BY DEF Inv
<1>2. /\ pc = "toList" /\ pc' = "idle" /\ done["default"] >= event["transfer"]
      /\ out' = [out EXCEPT ![step].experts = host.experts]
      /\ UNCHANGED <<cfg, step, plan, done, dev>>
  BY DEF ToList, Reached, EventStream
<1>3. /\ "default" \in Streams /\ "draftCopy" \in Streams /\ "countCopy" \in Streams
      /\ "outputCopy" \in Streams /\ step \in Steps /\ ~cfg.async
  BY <1>1, <1>2, CopiesAssumption DEF Streams, TypeInv, Steps, Inv, InStep
<1>4. Waits("default") = {}
  <2>1. \A p \in Waits("default") : p <= event["transfer"] /\ done["default"] < p /\ p \in Nat
    BY <1>1, <1>2, <1>3, WaitsType DEF DefaultOp
  <2>2. done["default"] \in Nat /\ event["transfer"] \in Nat
    BY <1>1, <1>3, EventKeys DEF TypeInv
  <2> QED BY <1>2, <2>1, <2>2
<1>5. out[step].tokens = step /\ host.experts = step
  BY <1>2, <1>4 DEF Inv, InStep, Before
<1>6. /\ out'[step] = [tokens |-> step, experts |-> step]
      /\ \A t \in Steps : t # step => out'[t] = out[t]
      /\ out' \in [Steps -> OutType]
  <2>1. out \in [Steps -> OutType] /\ step \in Nat
    BY <1>1, <1>3 DEF TypeInv, Steps
  <2>2. out'[step] = [out[step] EXCEPT !.experts = step]
    BY <1>2, <1>3, <1>5, <2>1
  <2>3. out'[step] = [tokens |-> step, experts |-> step]
    BY <1>3, <1>5, <2>1, <2>2 DEF OutType
  <2>4. [tokens |-> step, experts |-> step] \in OutType
    BY <2>1 DEF OutType
  <2>5. \A t \in Steps : t # step => out'[t] = out[t]
    BY <1>2, <2>1
  <2>6. \A t \in Steps : out'[t] \in OutType
    BY <2>1, <2>3, <2>4, <2>5
  <2>7. out' = [t \in Steps |-> out'[t]]
    BY <1>2, <2>1
  <2> QED BY <2>3, <2>5, <2>6, <2>7
<1>7. OutputsInv'
  BY <1>2, <1>3, <1>6 DEF Inv, OutputsInv, Steps
<1>8. CASE cfg.drafter = "cpu" /\ Propose
  BY <1>2, <1>4, <1>6, <1>7, <1>8, InvPropose
<1>9. CASE UNCHANGED <<queue, draftIds, draftReqs, host, overlapped, event, prevSampled>>
  <2>1. \A s \in Streams : Stays(s)
    BY <1>2, <1>9, StreamStays
  <2>2. Keeps
    BY <1>1, <2>1, <1>3, DefaultKeeps
  <2>3. TypeInv'
    <3>1. \A s \in Streams : \A p \in Waits(s)' : At(s, p)'.step \in 1 .. step'
      BY <1>1, <1>2, <2>1, BoundKept
    <3> QED BY <1>1, <1>2, <1>6, <1>9, <3>1 DEF TypeInv
  <2>4. Waits("default")' = {}
    BY <1>3, <1>4, <2>1 DEF Stays
  <2>5. CopyOps'
    BY <1>1, <1>2, <1>3, <2>1, <2>2, CopyOpsKept DEF Inv
  <2>6. InStep'
    BY <1>2 DEF InStep
  <2>7. DraftsInv'
    BY <1>2, <1>3, <1>9, <2>1 DEF Inv, DraftsInv, Stays
  <2>8. CountsInv'
    BY <1>2, <1>3, <1>9, <2>1 DEF Inv, CountsInv, Stays
  <2>9. InputsIntact'
    BY <1>2 DEF Inv, InputsIntact
  <2> QED BY <1>7, <2>3, <2>4, <2>5, <2>6, <2>7, <2>8, <2>9 DEF Inv
<1> QED BY <1>8, <1>9 DEF ToList

LEMMA InvInit == Init => Inv
<1> SUFFICES ASSUME Init PROVE Inv
  OBVIOUS
<1>1. \A s \in Streams : queue[s] = <<>> /\ done[s] = 0
  BY DEF Init
<1>2. \A s \in Streams : Waits(s) = {} /\ End(s) = 0
  BY <1>1 DEF Waits, End
<1>3. "default" \in Streams /\ "draftCopy" \in Streams /\ "countCopy" \in Streams
      /\ "outputCopy" \in Streams
  BY DEF Streams
<1>4. TypeInv
  <2>1. /\ cfg \in Configs /\ step \in 0 .. MaxSteps /\ draftReqs \in 0 .. step
        /\ prevSampled \in 0 .. step /\ overlapped \in BOOLEAN /\ pc = "idle"
    <3>1. step = 0 /\ draftReqs = 0 /\ prevSampled = 0
      BY DEF Init
    <3>2. step \in 0 .. MaxSteps /\ draftReqs \in 0 .. step /\ prevSampled \in 0 .. step
      BY <3>1, CopiesAssumption
    <3>3. cfg \in Configs /\ overlapped \in BOOLEAN /\ pc = "idle"
      BY DEF Init
    <3> QED BY <3>2, <3>3
  <2>7. plan \in [drafts : BOOLEAN, fits : BOOLEAN]
    BY DEF Init
  <2>2. queue \in [Streams -> Seq(OpType)] /\ done \in [Streams -> Nat]
    BY DEF Init
  <2>3. event \in [DOMAIN EventStream -> Nat]
    BY DEF Init
  <2>4. host \in HostType /\ draftIds \in DraftType
    BY DEF Init, HostType, DraftType, NoDrafts
  <2>5. out \in [Steps -> OutType]
    BY DEF Init, OutType, NoOutput
  <2>6. dev \in DevType
    BY DEF Init, DevType
  <2> QED BY <1>2, <2>1, <2>2, <2>3, <2>4, <2>5, <2>6, <2>7 DEF TypeInv
<1>5. CopyOps /\ InStep /\ DraftsInv /\ CountsInv
  BY <1>2, <1>3 DEF Init, CopyOps, InStep, DraftsInv, CountsInv
<1>6. OutputsInv
  <2>1. \A t \in Steps : out[t] = NoOutput /\ t > 0
    BY CopiesAssumption DEF Init, Steps
  <2> QED BY <2>1, CopiesAssumption DEF Init, OutputsInv, Steps
<1>7. InputsIntact
  BY DEF Init, InputsIntact
<1> QED BY <1>2, <1>3, <1>4, <1>5, <1>6, <1>7 DEF Inv

-----------------------------------------------------------------------------
(* The device takes the first operation of a stream.                       *)

LEMMA DeviceTakes ==
  ASSUME TypeInv, NEW s \in Streams, Device(s)
  PROVE  /\ Takes(s) /\ (\A r \in Streams : r # s => Stays(r))
         /\ queue' \in [Streams -> Seq(OpType)] /\ done' \in [Streams -> Nat]
         /\ \E op \in OpType :
              /\ op = At(s, done[s] + 1) /\ op = Head(queue[s])
              /\ op.step \in 1 .. step /\ op.step \in Steps
              /\ op.after <= done["default"] /\ Effect(op)
         /\ UNCHANGED <<cfg, pc, step, plan, event, draftIds, draftReqs, prevSampled, overlapped>>
<1>1. /\ queue[s] # <<>> /\ Head(queue[s]).after <= done["default"] /\ Effect(Head(queue[s]))
      /\ UNCHANGED <<cfg, pc, step, plan, event, draftIds, draftReqs, prevSampled, overlapped>>
  BY DEF Device
<1>2. /\ queue \in [Streams -> Seq(OpType)] /\ done \in [Streams -> Nat]
      /\ queue' = [queue EXCEPT ![s] = Tail(@)] /\ done' = [done EXCEPT ![s] = @ + 1]
  BY DEF Device, TypeInv
<1>3. /\ queue'[s] = Tail(queue[s]) /\ done'[s] = done[s] + 1
      /\ \A r \in Streams : r # s => queue'[r] = queue[r] /\ done'[r] = done[r]
  BY <1>2
<1>4. queue' \in [Streams -> Seq(OpType)] /\ done' \in [Streams -> Nat]
  <2>1. queue[s] \in Seq(OpType) /\ Tail(queue[s]) \in Seq(OpType) /\ done[s] + 1 \in Nat
    BY <1>1, <1>2
  <2> QED BY <1>2, <2>1
<1>5. Takes(s) /\ \A r \in Streams : r # s => Stays(r)
  BY <1>1, <1>3, StreamTakes, StreamStays
<1>6. PICK p : p = done[s] + 1
  OBVIOUS
<1>7. p \in Waits(s) /\ At(s, p) = Head(queue[s]) /\ At(s, p) \in OpType /\ At(s, p).step \in 1 .. step
  BY <1>5, <1>6, WaitsType DEF Takes, TypeInv
<1>8. At(s, p).step \in Steps
  BY <1>7, CopiesAssumption DEF TypeInv, Steps
<1> QED BY <1>1, <1>4, <1>5, <1>6, <1>7, <1>8

LEMMA DevTyped ==
  ASSUME NEW d \in DevType, NEW v \in Nat, NEW t \in Steps
  PROVE  /\ d.inputs \in Nat /\ d.experts \in Nat /\ d.sampled \in [Steps -> Nat]
         /\ d.drafts \in [Steps -> Nat] /\ d.clone \in [Steps -> Nat]
         /\ [d.sampled EXCEPT ![t] = v] \in [Steps -> Nat]
         /\ [d.drafts EXCEPT ![t] = v] \in [Steps -> Nat]
         /\ [d.clone EXCEPT ![t] = v] \in [Steps -> Nat]
BY DEF DevType

LEMMA DevInputs ==
  ASSUME NEW d \in DevType, NEW v \in Nat, NEW g, g = [d EXCEPT !.inputs = v]
  PROVE  /\ g \in DevType /\ g.inputs = v /\ g.experts = d.experts
         /\ g.sampled = d.sampled /\ g.drafts = d.drafts /\ g.clone = d.clone
BY DEF DevType

LEMMA DevDrafts ==
  ASSUME NEW d \in DevType, NEW f \in [Steps -> Nat], NEW g, g = [d EXCEPT !.drafts = f]
  PROVE  /\ g \in DevType /\ g.drafts = f /\ g.experts = d.experts
         /\ g.inputs = d.inputs /\ g.sampled = d.sampled /\ g.clone = d.clone
BY DEF DevType

LEMMA DevClone ==
  ASSUME NEW d \in DevType, NEW f \in [Steps -> Nat], NEW g, g = [d EXCEPT !.clone = f]
  PROVE  /\ g \in DevType /\ g.clone = f /\ g.experts = d.experts
         /\ g.inputs = d.inputs /\ g.sampled = d.sampled /\ g.drafts = d.drafts
BY DEF DevType

\* The tensors after op, those it does not name unchanged.
OutTokens(t, v) == /\ out' \in [Steps -> OutType]
                   /\ out'[t].tokens = v /\ out'[t].experts = out[t].experts
                   /\ \A u \in Steps : u # t => out'[u] = out[u]
OutBoth(t, v, w) == /\ out' \in [Steps -> OutType] /\ out'[t] = [tokens |-> v, experts |-> w]
                    /\ \A u \in Steps : u # t => out'[u] = out[u]

LEMMA OutTokensIs ==
  ASSUME out \in [Steps -> OutType], NEW v \in Nat, NEW t \in Steps,
         out' = [out EXCEPT ![t].tokens = v]
  PROVE  OutTokens(t, v)
<1>1. out[t] \in OutType /\ [out[t] EXCEPT !.tokens = v] \in OutType
      /\ [out[t] EXCEPT !.tokens = v].tokens = v
      /\ [out[t] EXCEPT !.tokens = v].experts = out[t].experts
  BY DEF OutType
<1> QED BY <1>1 DEF OutTokens

LEMMA OutBothIs ==
  ASSUME out \in [Steps -> OutType], NEW v \in Nat, NEW w \in Nat, NEW t \in Steps,
         out' = [out EXCEPT ![t] = [tokens |-> v, experts |-> w]]
  PROVE  OutBoth(t, v, w)
<1>1. [tokens |-> v, experts |-> w] \in OutType
  BY DEF OutType
<1> QED BY <1>1 DEF OutBoth

\* What the operation op does to the tensors, told field by field.
DevSame  == dev' = dev
HostSame == host' = host
OutSame  == out' = out

LEMMA EffectIs ==
  ASSUME host \in HostType, dev \in DevType, out \in [Steps -> OutType],
         NEW op, op.step \in Steps, Effect(op)
  PROVE  /\ op.kind = "inputs" =>
              /\ HostSame /\ OutSame /\ dev' \in DevType
              /\ dev'.inputs = host.inputs /\ dev'.experts = dev.experts
              /\ dev'.sampled = dev.sampled /\ dev'.drafts = dev.drafts /\ dev'.clone = dev.clone
         /\ op.kind = "forward" =>
              /\ HostSame /\ OutSame /\ dev' \in DevType
              /\ dev'.inputs = dev.inputs /\ dev'.experts = dev.inputs
              /\ dev'.sampled = [dev.sampled EXCEPT ![op.step] = dev.inputs]
              /\ dev'.drafts = dev.drafts /\ dev'.clone = dev.clone
         /\ op.kind = "propose" =>
              /\ HostSame /\ OutSame /\ dev' \in DevType
              /\ dev'.inputs = dev.inputs /\ dev'.experts = dev.experts
              /\ dev'.sampled = dev.sampled /\ dev'.clone = dev.clone
              /\ dev'.drafts = [dev.drafts EXCEPT ![op.step] = dev.sampled[op.step]]
         /\ op.kind = "clone" =>
              /\ HostSame /\ OutSame /\ dev' \in DevType
              /\ dev'.inputs = dev.inputs /\ dev'.experts = dev.experts
              /\ dev'.sampled = dev.sampled /\ dev'.drafts = dev.drafts
              /\ dev'.clone = [dev.clone EXCEPT ![op.step] = dev.experts]
         /\ op.kind = "drafts" =>
              /\ DevSame /\ OutSame /\ host' \in HostType
              /\ host'.drafts = [step |-> dev.drafts[op.step], zero |-> FALSE]
              /\ host'.inputs = host.inputs /\ host'.counts = host.counts
              /\ host'.experts = host.experts
         /\ op.kind = "counts" =>
              /\ DevSame /\ OutSame /\ host' \in HostType
              /\ host'.counts = dev.sampled[op.step]
              /\ host'.inputs = host.inputs /\ host'.drafts = host.drafts
              /\ host'.experts = host.experts
         /\ op.kind = "experts" =>
              /\ DevSame /\ OutSame /\ host' \in HostType
              /\ host'.experts = dev.experts
              /\ host'.inputs = host.inputs /\ host'.drafts = host.drafts
              /\ host'.counts = host.counts
         /\ op.kind = "tokens" =>
              /\ DevSame /\ HostSame /\ OutTokens(op.step, dev.sampled[op.step])
         /\ op.kind = "output" =>
              /\ DevSame /\ HostSame
              /\ OutBoth(op.step, dev.sampled[op.step], dev.clone[op.step])
<1>1. /\ host.inputs \in Nat /\ dev.inputs \in Nat /\ dev.experts \in Nat
      /\ dev.sampled[op.step] \in Nat /\ dev.drafts[op.step] \in Nat /\ dev.clone[op.step] \in Nat
      /\ [step |-> dev.drafts[op.step], zero |-> FALSE] \in DraftType
  BY DEF HostType, DevType, DraftType
<1>2. CASE op.kind = "inputs"
  <2>1. dev' = [dev EXCEPT !.inputs = host.inputs] /\ host' = host /\ out' = out
    BY <1>2 DEF Effect
  <2> QED BY <1>1, <1>2, <2>1, DevInputs DEF HostSame, OutSame
<1>3. CASE op.kind = "forward"
  <2>1. /\ dev' = [dev EXCEPT !.experts = dev.inputs, !.sampled[op.step] = dev.inputs]
        /\ host' = host /\ out' = out
    BY <1>3 DEF Effect
  <2>2. PICK t, v : t = op.step /\ v = dev.inputs
    OBVIOUS
  <2>3. PICK f : f = [dev.sampled EXCEPT ![t] = v]
    OBVIOUS
  <2>4. t \in Steps /\ v \in Nat
    BY <1>1, <2>2
  <2>5. f \in [Steps -> Nat] /\ dev' = [dev EXCEPT !.experts = v, !.sampled = f]
    BY <2>1, <2>2, <2>3, <2>4, DevTyped
  <2>6. /\ dev' \in DevType /\ dev'.sampled = f /\ dev'.experts = v
        /\ dev'.inputs = dev.inputs /\ dev'.drafts = dev.drafts /\ dev'.clone = dev.clone
    BY <2>4, <2>5 DEF DevType
  <2> QED BY <1>3, <2>1, <2>2, <2>3, <2>6 DEF HostSame, OutSame
<1>4. CASE op.kind = "propose"
  <2>1. dev' = [dev EXCEPT !.drafts[op.step] = dev.sampled[op.step]] /\ host' = host /\ out' = out
    BY <1>4 DEF Effect
  <2>2. PICK t, v : t = op.step /\ v = dev.sampled[op.step]
    OBVIOUS
  <2>3. PICK f : f = [dev.drafts EXCEPT ![t] = v]
    OBVIOUS
  <2>4. t \in Steps /\ v \in Nat
    BY <1>1, <2>2
  <2>5. f \in [Steps -> Nat] /\ dev' = [dev EXCEPT !.drafts = f]
    BY <2>1, <2>2, <2>3, <2>4, DevTyped
  <2>6. /\ dev' \in DevType /\ dev'.drafts = f
        /\ dev'.inputs = dev.inputs /\ dev'.experts = dev.experts
        /\ dev'.sampled = dev.sampled /\ dev'.clone = dev.clone
    BY <2>4, <2>5, DevDrafts
  <2> QED BY <1>4, <2>1, <2>2, <2>3, <2>6 DEF HostSame, OutSame
<1>5. CASE op.kind = "clone"
  <2>1. dev' = [dev EXCEPT !.clone[op.step] = dev.experts] /\ host' = host /\ out' = out
    BY <1>5 DEF Effect
  <2>2. PICK t, v : t = op.step /\ v = dev.experts
    OBVIOUS
  <2>3. PICK f : f = [dev.clone EXCEPT ![t] = v]
    OBVIOUS
  <2>4. t \in Steps /\ v \in Nat
    BY <1>1, <2>2
  <2>5. f \in [Steps -> Nat] /\ dev' = [dev EXCEPT !.clone = f]
    BY <2>1, <2>2, <2>3, <2>4, DevTyped
  <2>6. /\ dev' \in DevType /\ dev'.clone = f
        /\ dev'.inputs = dev.inputs /\ dev'.experts = dev.experts
        /\ dev'.sampled = dev.sampled /\ dev'.drafts = dev.drafts
    BY <2>4, <2>5, DevClone
  <2> QED BY <1>5, <2>1, <2>2, <2>3, <2>6 DEF HostSame, OutSame
<1>6. CASE op.kind = "drafts"
  <2>1. /\ host' = [host EXCEPT !.drafts = [step |-> dev.drafts[op.step], zero |-> FALSE]]
        /\ dev' = dev /\ out' = out
    BY <1>6 DEF Effect
  <2> QED BY <1>1, <1>6, <2>1, HostDrafts DEF DevSame, OutSame
<1>7. CASE op.kind = "counts"
  <2>1. host' = [host EXCEPT !.counts = dev.sampled[op.step]] /\ dev' = dev /\ out' = out
    BY <1>7 DEF Effect
  <2> QED BY <1>1, <1>7, <2>1, HostCounts DEF DevSame, OutSame
<1>8. CASE op.kind = "experts"
  <2>1. host' = [host EXCEPT !.experts = dev.experts] /\ dev' = dev /\ out' = out
    BY <1>8 DEF Effect
  <2> QED BY <1>1, <1>8, <2>1, HostExperts DEF DevSame, OutSame
<1>9. CASE op.kind = "tokens"
  <2>1. out' = [out EXCEPT ![op.step].tokens = dev.sampled[op.step]] /\ dev' = dev /\ host' = host
    BY <1>9 DEF Effect
  <2> QED BY <1>1, <1>9, <2>1, OutTokensIs DEF DevSame, HostSame
<1>10. CASE op.kind = "output"
  <2>1. /\ out' = [out EXCEPT ![op.step] = [tokens |-> dev.sampled[op.step],
                                            experts |-> dev.clone[op.step]]]
        /\ dev' = dev /\ host' = host
    BY <1>10 DEF Effect, ExpertsOf
  <2> QED BY <1>1, <1>10, <2>1, OutBothIs DEF DevSame, HostSame
<1> QED BY <1>2, <1>3, <1>4, <1>5, <1>6, <1>7, <1>8, <1>9, <1>10

\* What waits no longer has been done; what waits still will be.
LEMMA HeadHas ==
  ASSUME TypeInv, NEW t, NEW h, h = done["default"] + 1, At("default", h).kind # "forward",
         h \in Waits("default")
  PROVE  /\ SampledBy(t, h) => dev.sampled[t] = t
         /\ ExpertsBy(t, h) => dev.experts = t
<1>1. \A i \in Waits("default") : i <= h => i = h
  BY WaitsType DEF Streams
<1> QED BY <1>1 DEF SampledBy, ExpertsBy, Before

LEMMA ReachedHas ==
  ASSUME TypeInv, NEW t, NEW p \in Nat, p <= done["default"]
  PROVE  /\ SampledBy(t, p) => dev.sampled[t] = t
         /\ DraftedBy(t, p) => dev.drafts[t] = t
         /\ ClonedBy(t, p) => dev.clone[t] = t
<1>1. \A i \in Waits("default") : ~(i <= p)
  BY WaitsType DEF Streams
<1> QED BY <1>1 DEF SampledBy, DraftedBy, ClonedBy, Before

LEMMA ByTaken ==
  ASSUME TypeInv, Takes("default"), NEW h, h = done["default"] + 1,
         NEW op, op = At("default", h),
         \A t \in Steps : /\ dev.sampled[t] = t => dev'.sampled[t] = t
                          /\ dev.drafts[t] = t => dev'.drafts[t] = t
                          /\ dev.clone[t] = t => dev'.clone[t] = t,
         op.kind = "forward" => dev'.sampled[op.step] = op.step /\ dev'.experts = op.step,
         op.kind # "forward" => dev'.experts = dev.experts,
         op.kind = "propose" => dev'.drafts[op.step] = op.step,
         op.kind = "clone" => dev'.clone[op.step] = op.step,
         NEW t \in Steps, NEW p \in Nat
  PROVE  /\ SampledBy(t, p) => SampledBy(t, p)'
         /\ DraftedBy(t, p) => DraftedBy(t, p)'
         /\ ClonedBy(t, p) => ClonedBy(t, p)'
         /\ p >= h /\ ExpertsBy(t, p) => ExpertsBy(t, p)'
<1>1. /\ h \in Waits("default") /\ Waits("default")' = Waits("default") \ {h}
      /\ \A i \in Waits("default")' : At("default", i)' = At("default", i)
  BY DEF Takes
<1>2. \A i \in Waits("default") : i \in Nat /\ (i = h \/ h < i)
  BY WaitsType DEF Streams
<1>3. ASSUME NEW kind, Before(kind, t, p), ~(op.kind = kind /\ op.step = t)
      PROVE  Before(kind, t, p)'
  BY <1>1, <1>3 DEF Before
<1>4. SampledBy(t, p) => SampledBy(t, p)'
  BY <1>3 DEF SampledBy
<1>5. DraftedBy(t, p) => DraftedBy(t, p)'
  BY <1>3 DEF DraftedBy
<1>6. ClonedBy(t, p) => ClonedBy(t, p)'
  BY <1>3 DEF ClonedBy
<1>7. ASSUME p >= h, ExpertsBy(t, p) PROVE ExpertsBy(t, p)'
  <2>1. CASE /\ dev.experts = t
             /\ \A i \in Waits("default") : i <= p => At("default", i).kind # "forward"
    <3>1. op.kind # "forward"
      BY <1>1, <1>2, <1>7, <2>1
    <3> QED BY <1>1, <2>1, <3>1 DEF ExpertsBy
  <2>2. ASSUME NEW i \in Waits("default"), i <= p,
               At("default", i).kind = "forward", At("default", i).step = t,
               \A j \in Waits("default") : i < j /\ j <= p => At("default", j).kind # "forward"
        PROVE  ExpertsBy(t, p)'
    <3>1. CASE i = h
      <4>1. \A j \in Waits("default")' : h < j /\ At("default", j)' = At("default", j)
        BY <1>1, <1>2
      <4>2. dev'.experts = t
        BY <2>2, <3>1
      <4> QED BY <1>1, <2>2, <3>1, <4>1, <4>2 DEF ExpertsBy
    <3>2. CASE i # h
      <4>1. /\ i \in Waits("default")' /\ At("default", i)'.kind = "forward"
            /\ At("default", i)'.step = t
        BY <1>1, <2>2, <3>2
      <4>2. \A j \in Waits("default")' : i < j /\ j <= p => At("default", j)'.kind # "forward"
        BY <1>1, <2>2
      <4> QED BY <2>2, <4>1, <4>2 DEF ExpertsBy
    <3> QED BY <3>1, <3>2
  <2> QED BY <1>7, <2>1, <2>2 DEF ExpertsBy
<1> QED BY <1>4, <1>5, <1>6, <1>7

LEMMA CopyOpsTaken ==
  ASSUME TypeInv, CopyOps, cfg' = cfg,
         \A s \in Streams : Stays(s) \/ Takes(s),
         \A t \in Steps, p \in Nat : /\ SampledBy(t, p) => SampledBy(t, p)'
                                     /\ DraftedBy(t, p) => DraftedBy(t, p)'
                                     /\ ClonedBy(t, p) => ClonedBy(t, p)'
  PROVE  CopyOps'
<1>1. {"draftCopy", "countCopy", "outputCopy"} \subseteq Streams
  BY DEF Streams
<1>2. ASSUME NEW s \in Streams, NEW p \in Waits(s)', NEW op, op = At(s, p)'
      PROVE  p \in Waits(s) /\ op = At(s, p) /\ op.step \in Steps /\ op.after \in Nat
  <2>1. p \in Waits(s) /\ op = At(s, p)
    BY <1>2 DEF Stays, Takes
  <2>2. op.after \in Nat
    BY <2>1, WaitsType DEF OpType
  <2>3. op.step \in 1 .. step
    BY <2>1 DEF TypeInv
  <2>4. op.step \in Steps
    BY <2>3, CopiesAssumption DEF TypeInv, Steps
  <2> QED BY <2>1, <2>2, <2>4
<1>3. ASSUME NEW p \in Waits("draftCopy")', NEW op, op = At("draftCopy", p)' PROVE DraftCopyOp(op)'
  BY <1>1, <1>2, <1>3, CopyOpsAre DEF DraftCopyOp
<1>4. ASSUME NEW p \in Waits("countCopy")', NEW op, op = At("countCopy", p)' PROVE CountCopyOp(op)'
  BY <1>1, <1>2, <1>4, CopyOpsAre DEF CountCopyOp
<1>5. ASSUME NEW p \in Waits("outputCopy")', NEW op, op = At("outputCopy", p)' PROVE OutputCopyOp(op)'
  BY <1>1, <1>2, <1>5, CopyOpsAre DEF OutputCopyOp
<1> QED BY <1>3, <1>4, <1>5, CopyOpsAreNext

\* A copy stream reads what its operation waited for.
LEMMA InvCopied == ASSUME Inv, NEW s \in Streams, s # "default", Device(s) PROVE Inv'
<1>1. TypeInv /\ (\A p \in Waits("default") : DefaultOp(p)) /\ CopyOps
  BY DEF Inv
<1>2. /\ Takes(s) /\ (\A r \in Streams : r # s => Stays(r))
      /\ queue' \in [Streams -> Seq(OpType)] /\ done' \in [Streams -> Nat]
      /\ UNCHANGED <<cfg, pc, step, plan, event, draftIds, draftReqs, prevSampled, overlapped>>
  BY <1>1, DeviceTakes
<1>3. PICK h, op : /\ h = done[s] + 1 /\ op = At(s, h) /\ op = Head(queue[s])
                   /\ op.step \in 1 .. step /\ op.step \in Steps
                   /\ op.after <= done["default"] /\ Effect(op)
  BY <1>1, DeviceTakes
<1>4. /\ "default" \in Streams /\ "draftCopy" \in Streams /\ "countCopy" \in Streams
      /\ "outputCopy" \in Streams /\ s \in {"draftCopy", "countCopy", "outputCopy"}
  BY DEF Streams
<1>5. h \in Waits(s) /\ op \in OpType /\ op.after \in Nat
  BY <1>1, <1>2, <1>3, WaitsType DEF Takes, OpType
<1>6. /\ s = "draftCopy" => op.kind = "drafts" /\ dev.drafts[op.step] = op.step
      /\ s = "countCopy" => op.kind = "counts" /\ dev.sampled[op.step] = op.step
      /\ s = "outputCopy" => /\ op.kind = "output" /\ cfg.async
                             /\ dev.sampled[op.step] = op.step /\ dev.clone[op.step] = op.step
  <2>1. /\ s = "draftCopy" => DraftCopyOp(op)
        /\ s = "countCopy" => CountCopyOp(op)
        /\ s = "outputCopy" => OutputCopyOp(op)
    BY <1>1, <1>3, <1>5, CopyOpsAre
  <2> QED BY <1>1, <1>3, <1>5, <2>1, ReachedHas DEF DraftCopyOp, CountCopyOp, OutputCopyOp
<1>7. host \in HostType /\ dev \in DevType /\ out \in [Steps -> OutType]
  BY <1>1 DEF TypeInv
<1>8. /\ dev' = dev /\ host' \in HostType /\ out' \in [Steps -> OutType]
      /\ host'.inputs = host.inputs /\ host'.experts = host.experts
      /\ IF s = "draftCopy" THEN host'.drafts = [step |-> op.step, zero |-> FALSE]
         ELSE host'.drafts = host.drafts
      /\ IF s = "countCopy" THEN host'.counts = op.step ELSE host'.counts = host.counts
      /\ IF s = "outputCopy"
         THEN /\ out'[op.step] = [tokens |-> op.step, experts |-> op.step]
              /\ \A u \in Steps : u # op.step => out'[u] = out[u]
         ELSE out' = out
  <2>1. CASE s = "draftCopy"
    <3>1. op.kind = "drafts" /\ dev.drafts[op.step] = op.step
      BY <1>6, <2>1
    <3>2. /\ dev' = dev /\ out' = out /\ host' \in HostType
          /\ host'.drafts = [step |-> dev.drafts[op.step], zero |-> FALSE]
          /\ host'.inputs = host.inputs /\ host'.counts = host.counts
          /\ host'.experts = host.experts
      BY <1>3, <1>7, <3>1, EffectIs DEF DevSame, OutSame
    <3>3. host'.drafts = [step |-> op.step, zero |-> FALSE]
      BY <3>1, <3>2
    <3> QED BY <1>7, <2>1, <3>2, <3>3
  <2>2. CASE s = "countCopy"
    <3>1. op.kind = "counts" /\ dev.sampled[op.step] = op.step
      BY <1>6, <2>2
    <3> QED BY <1>3, <1>7, <2>2, <3>1, EffectIs DEF DevSame, OutSame
  <2>3. CASE s = "outputCopy"
    <3>1. op.kind = "output" /\ dev.sampled[op.step] = op.step /\ dev.clone[op.step] = op.step
      BY <1>6, <2>3
    <3> QED BY ZenonT(60), <1>3, <1>7, <2>3, <3>1, EffectIs DEF DevSame, HostSame, OutBoth
  <2> QED BY <1>4, <2>1, <2>2, <2>3
<1>9. Keeps
  BY <1>1, <1>2, <1>4, DefaultKeeps
<1>10. TypeInv'
  <2>1. ASSUME NEW r \in Streams, NEW p \in Waits(r)' PROVE At(r, p)'.step \in 1 .. step'
    <3>1. p \in Waits(r) /\ At(r, p)' = At(r, p)
      BY <1>2, <2>1 DEF Stays, Takes
    <3> QED BY <1>1, <1>2, <3>1 DEF TypeInv
  <2> QED BY <1>1, <1>2, <1>7, <1>8, <2>1 DEF TypeInv
<1>11. ASSUME NEW p \in Waits("default")' PROVE DefaultOp(p)'
  <2>1. p \in Waits("default") /\ DefaultOp(p)
    BY <1>1, <1>2, <1>4, <1>11 DEF Stays
  <2>2. /\ At("default", p).kind \in {"experts", "tokens"} => pc' = "toList"
        /\ ~cfg.async /\ pc' = "idle" => At("default", p).kind = "propose"
        /\ pc' = "toList" => p <= event'["transfer"]
    BY <1>2, <2>1 DEF DefaultOp
  <2> QED BY <1>1, <1>2, <1>8, <1>9, <2>1, <2>2, DefaultOpKept
<1>12. CopyOps'
  <2>1. \A t \in Steps, p \in Nat : /\ SampledBy(t, p) => SampledBy(t, p)'
                                    /\ DraftedBy(t, p) => DraftedBy(t, p)'
                                    /\ ClonedBy(t, p) => ClonedBy(t, p)'
    BY <1>1, <1>8, <1>9, StillBy
  <2> QED BY <1>1, <1>2, <2>1, CopyOpsTaken
<1>13. InStep'
  <2>1. CASE pc = "idle"
    BY <1>2, <2>1 DEF InStep
  <2>2. CASE pc # "idle"
    <3>1. SampledBy(step, End("default")) /\ ExpertsBy(step, End("default"))
      BY <2>2 DEF Inv, InStep
    <3>2. SampledBy(step, End("default"))' /\ ExpertsBy(step, End("default"))'
      BY <1>1, <1>2, <1>4, <1>8, <3>1, InStepKept
    <3>3. CASE pc = "toList"
      <4>1. /\ ~cfg.async /\ (host.experts = step \/ Before("experts", step, End("default")))
            /\ (out[step].tokens = step \/ Before("tokens", step, End("default")))
        BY <3>3 DEF Inv, InStep
      <4>2. host'.experts = host.experts /\ out' = out
        BY <1>4, <1>6, <1>8, <4>1
      <4>3. /\ Before("experts", step, End("default")) => Before("experts", step, End("default"))'
            /\ Before("tokens", step, End("default")) => Before("tokens", step, End("default"))'
        BY <1>2, <1>4 DEF Before, Stays
      <4> QED BY <1>2, <3>2, <4>1, <4>2, <4>3 DEF InStep
    <3>4. CASE pc # "toList"
      BY <1>2, <3>2, <3>4 DEF InStep
    <3> QED BY <3>3, <3>4
  <2> QED BY <2>1, <2>2
<1>14. DraftsInv'
  <2>1. DraftsInv
    BY DEF Inv
  <2>2. CASE s = "draftCopy"
    <3>1. /\ End("draftCopy")' = End("draftCopy") /\ Waits("draftCopy") # {}
          /\ Waits("draftCopy")' # {} => LastOp("draftCopy")' = LastOp("draftCopy")
          /\ Waits("draftCopy")' = {} => LastOp("draftCopy") = op
      BY <1>2, <1>3, <2>2 DEF Takes
    <3>2. ~draftIds.zero => draftIds = [step |-> draftIds.step, zero |-> FALSE]
      BY <1>1 DEF TypeInv, DraftType
    <3>3. /\ Waits("draftCopy")' = {} /\ ~draftIds.zero /\ LastOp("draftCopy").step = draftIds.step
          => host'.drafts = draftIds'
      BY <1>2, <1>8, <2>2, <3>1, <3>2
    <3> QED BY <1>2, <2>1, <3>1, <3>3 DEF DraftsInv
  <2>3. CASE s # "draftCopy"
    BY <1>2, <1>4, <1>8, <2>1, <2>3 DEF DraftsInv, Stays
  <2> QED BY <2>2, <2>3
<1>15. CountsInv'
  <2>1. CountsInv
    BY DEF Inv
  <2>2. CASE s = "countCopy"
    <3>1. /\ End("countCopy")' = End("countCopy") /\ Waits("countCopy") # {}
          /\ Waits("countCopy")' # {} => LastOp("countCopy")' = LastOp("countCopy")
          /\ Waits("countCopy")' = {} => LastOp("countCopy") = op
      BY <1>2, <1>3, <2>2 DEF Takes
    <3> QED BY <1>2, <1>8, <2>1, <2>2, <3>1 DEF CountsInv
  <2>3. CASE s # "countCopy"
    BY <1>2, <1>4, <1>8, <2>1, <2>3 DEF CountsInv, Stays
  <2> QED BY <2>2, <2>3
<1>16. OutputsInv'
  BY <1>2, <1>3, <1>4, <1>6, <1>8 DEF Inv, OutputsInv
<1>17. InputsIntact'
  BY <1>8 DEF Inv, InputsIntact
<1> QED BY <1>10, <1>11, <1>12, <1>13, <1>14, <1>15, <1>16, <1>17 DEF Inv

\* The default stream runs its operations on what they were enqueued for.
LEMMA InvRan == Inv /\ Device("default") => Inv'
<1> SUFFICES ASSUME Inv, Device("default") PROVE Inv'
  OBVIOUS
<1>1. TypeInv /\ (\A p \in Waits("default") : DefaultOp(p)) /\ CopyOps
  BY DEF Inv
<1>2. /\ "default" \in Streams /\ "draftCopy" \in Streams /\ "countCopy" \in Streams
      /\ "outputCopy" \in Streams
  BY DEF Streams
<1>3. /\ Takes("default") /\ (\A r \in Streams : r # "default" => Stays(r))
      /\ queue' \in [Streams -> Seq(OpType)] /\ done' \in [Streams -> Nat]
      /\ UNCHANGED <<cfg, pc, step, plan, event, draftIds, draftReqs, prevSampled, overlapped>>
  BY <1>1, <1>2, DeviceTakes
<1>4. PICK h, op : /\ h = done["default"] + 1 /\ op = At("default", h)
                   /\ op.step \in 1 .. step /\ op.step \in Steps /\ Effect(op)
  BY <1>1, <1>2, DeviceTakes
<1>5. /\ h \in Waits("default") /\ h - 1 \notin Waits("default") /\ op \in OpType /\ h \in Nat
      /\ DefaultOp(h) /\ h <= End("default") /\ End("default") \in Nat
  <2>1. h \in Waits("default") /\ DefaultOp(h)
    BY <1>1, <1>3, <1>4 DEF Takes
  <2>2. done["default"] \in Nat /\ ~(done["default"] < h - 1)
    BY <1>1, <1>2, <1>4, WaitsType
  <2> QED BY <1>1, <1>2, <1>4, <2>1, <2>2, WaitsType
<1>6. /\ op.kind \in DefaultKinds
      /\ op.kind = "inputs" => op.step = host.inputs
      /\ op.kind = "forward" => dev.inputs = op.step
      /\ op.kind \in {"propose", "tokens"} => dev.sampled[op.step] = op.step
      /\ op.kind \in {"clone", "experts"} => dev.experts = op.step
      /\ op.kind = "clone" => cfg.async
      /\ op.kind \in {"experts", "tokens"} => ~cfg.async /\ pc = "toList" /\ op.step = step
  <2>1. /\ op.kind \in {"propose", "tokens"} => SampledBy(op.step, h)
        /\ op.kind \in {"clone", "experts"} => ExpertsBy(op.step, h)
    BY <1>4, <1>5 DEF DefaultOp
  <2>2. op.kind # "forward" => /\ SampledBy(op.step, h) => dev.sampled[op.step] = op.step
                               /\ ExpertsBy(op.step, h) => dev.experts = op.step
    BY <1>1, <1>4, <1>5, HeadHas
  <2> QED BY <1>4, <1>5, <2>1, <2>2 DEF DefaultOp
<1>7. host \in HostType /\ dev \in DevType /\ out \in [Steps -> OutType]
  BY <1>1 DEF TypeInv
<1>8. /\ dev' \in DevType /\ host' \in HostType /\ out' \in [Steps -> OutType]
      /\ host'.inputs = host.inputs /\ host'.drafts = host.drafts /\ host'.counts = host.counts
      /\ IF op.kind = "experts" THEN host'.experts = step ELSE host'.experts = host.experts
      /\ IF op.kind = "tokens"
         THEN out'[step].tokens = step /\ \A u \in Steps : u # step => out'[u] = out[u]
         ELSE out' = out
      /\ IF op.kind = "inputs" THEN dev'.inputs = host.inputs ELSE dev'.inputs = dev.inputs
      /\ IF op.kind = "forward"
         THEN dev'.experts = op.step /\ dev'.sampled = [dev.sampled EXCEPT ![op.step] = op.step]
         ELSE dev'.experts = dev.experts /\ dev'.sampled = dev.sampled
      /\ IF op.kind = "propose" THEN dev'.drafts = [dev.drafts EXCEPT ![op.step] = op.step]
         ELSE dev'.drafts = dev.drafts
      /\ IF op.kind = "clone" THEN dev'.clone = [dev.clone EXCEPT ![op.step] = op.step]
         ELSE dev'.clone = dev.clone
  <2>1. CASE op.kind = "inputs"
    BY <1>4, <1>7, <2>1, EffectIs DEF HostSame, OutSame
  <2>2. CASE op.kind = "forward"
    <3>1. /\ host' = host /\ out' = out /\ dev' \in DevType /\ dev.inputs = op.step
          /\ dev'.inputs = dev.inputs /\ dev'.experts = dev.inputs
          /\ dev'.sampled = [dev.sampled EXCEPT ![op.step] = dev.inputs]
          /\ dev'.drafts = dev.drafts /\ dev'.clone = dev.clone
      BY <1>4, <1>6, <1>7, <2>2, EffectIs DEF HostSame, OutSame
    <3> QED BY <1>7, <2>2, <3>1
  <2>3. CASE op.kind = "propose"
    <3>1. /\ host' = host /\ out' = out /\ dev' \in DevType /\ dev.sampled[op.step] = op.step
          /\ dev'.inputs = dev.inputs /\ dev'.experts = dev.experts
          /\ dev'.drafts = [dev.drafts EXCEPT ![op.step] = dev.sampled[op.step]]
          /\ dev'.sampled = dev.sampled /\ dev'.clone = dev.clone
      BY <1>4, <1>6, <1>7, <2>3, EffectIs DEF HostSame, OutSame
    <3> QED BY <1>7, <2>3, <3>1
  <2>4. CASE op.kind = "clone"
    <3>1. /\ host' = host /\ out' = out /\ dev' \in DevType /\ dev.experts = op.step
          /\ dev'.inputs = dev.inputs /\ dev'.experts = dev.experts
          /\ dev'.clone = [dev.clone EXCEPT ![op.step] = dev.experts]
          /\ dev'.sampled = dev.sampled /\ dev'.drafts = dev.drafts
      BY <1>4, <1>6, <1>7, <2>4, EffectIs DEF HostSame, OutSame
    <3> QED BY <1>7, <2>4, <3>1
  <2>5. CASE op.kind = "experts"
    <3>1. dev.experts = op.step /\ op.step = step
      BY <1>6, <2>5
    <3> QED BY <1>4, <1>7, <2>5, <3>1, EffectIs DEF DevSame, OutSame
  <2>6. CASE op.kind = "tokens"
    <3>1. dev.sampled[op.step] = op.step /\ op.step = step
      BY <1>6, <2>6
    <3> QED BY ZenonT(60), <1>4, <1>7, <2>6, <3>1, EffectIs DEF DevSame, HostSame, OutTokens
  <2> QED BY <1>6, <2>1, <2>2, <2>3, <2>4, <2>5, <2>6 DEF DefaultKinds
<1>9. \A t \in Steps, p \in Nat : /\ SampledBy(t, p) => SampledBy(t, p)'
                                  /\ DraftedBy(t, p) => DraftedBy(t, p)'
                                  /\ ClonedBy(t, p) => ClonedBy(t, p)'
                                  /\ p >= h /\ ExpertsBy(t, p) => ExpertsBy(t, p)'
  <2>1. /\ dev.sampled \in [Steps -> Nat] /\ dev.drafts \in [Steps -> Nat]
        /\ dev.clone \in [Steps -> Nat]
    BY <1>7 DEF DevType
  <2>2. /\ \A t \in Steps : /\ dev.sampled[t] = t => dev'.sampled[t] = t
                            /\ dev.drafts[t] = t => dev'.drafts[t] = t
                            /\ dev.clone[t] = t => dev'.clone[t] = t
        /\ op.kind = "forward" => dev'.sampled[op.step] = op.step /\ dev'.experts = op.step
        /\ op.kind # "forward" => dev'.experts = dev.experts
        /\ op.kind = "propose" => dev'.drafts[op.step] = op.step
        /\ op.kind = "clone" => dev'.clone[op.step] = op.step
    BY <1>4, <1>8, <2>1
  <2> QED BY <1>1, <1>3, <1>4, <2>2, ByTaken
<1>10. TypeInv'
  <2>1. ASSUME NEW r \in Streams, NEW p \in Waits(r)' PROVE At(r, p)'.step \in 1 .. step'
    <3>1. p \in Waits(r) /\ At(r, p)' = At(r, p)
      BY <1>3, <2>1 DEF Stays, Takes
    <3> QED BY <1>1, <1>3, <3>1 DEF TypeInv
  <2> QED BY <1>1, <1>3, <1>8, <2>1 DEF TypeInv
<1>11. ASSUME NEW p \in Waits("default")' PROVE DefaultOp(p)'
  <2>1. /\ p \in Waits("default") /\ DefaultOp(p) /\ p # h
        /\ p \in Nat /\ h < p /\ At("default", p)' = At("default", p)
        /\ At("default", p).step \in Steps
    <3>1. p \in Waits("default") /\ p # h /\ At("default", p)' = At("default", p)
      BY <1>3, <1>4, <1>11 DEF Takes
    <3>2. p \in Nat /\ done["default"] < p /\ done["default"] \in Nat
      BY <1>1, <1>2, <3>1, WaitsType
    <3>3. At("default", p).step \in 1 .. step
      BY <1>1, <1>2, <3>1 DEF TypeInv
    <3>4. At("default", p).step \in Steps
      BY <1>1, <3>3, CopiesAssumption DEF TypeInv, Steps
    <3> QED BY <1>1, <1>4, <3>1, <3>2, <3>4
  <2>2. PICK w : w = At("default", p)
    OBVIOUS
  <2>3. /\ w.kind \in {"propose", "tokens"} => SampledBy(w.step, p)'
        /\ w.kind \in {"clone", "experts"} => ExpertsBy(w.step, p)'
    <3>1. /\ w.kind \in {"propose", "tokens"} => SampledBy(w.step, p)
          /\ w.kind \in {"clone", "experts"} => ExpertsBy(w.step, p)
      BY <2>1, <2>2 DEF DefaultOp
    <3>2. w.step \in Steps /\ p >= h
      BY <1>5, <2>1, <2>2
    <3>3. /\ SampledBy(w.step, p) => SampledBy(w.step, p)'
          /\ ExpertsBy(w.step, p) => ExpertsBy(w.step, p)'
      BY <1>9, <2>1, <3>2
    <3> QED BY <3>1, <3>3
  <2>4. w.kind = "inputs" =>
          /\ w.step = host'.inputs /\ p <= event'["inputs"] /\ p + 1 \in Waits("default")'
          /\ At("default", p + 1)'.kind = "forward" /\ At("default", p + 1)'.step = w.step
    <3>1. ASSUME w.kind = "inputs", NEW i, i = p + 1
          PROVE  i \in Waits("default")' /\ At("default", i)' = At("default", i)
      <4>1. i \in Waits("default") /\ i # h
        BY <1>5, <2>1, <2>2, <3>1 DEF DefaultOp
      <4> QED BY <1>3, <1>4, <4>1 DEF Takes
    <3>2. w.kind = "inputs" =>
            /\ w.step = host.inputs /\ p <= event["inputs"]
            /\ At("default", p + 1).kind = "forward" /\ At("default", p + 1).step = w.step
      BY <2>1, <2>2 DEF DefaultOp
    <3> QED BY <1>3, <1>8, <3>1, <3>2
  <2>5. w.kind = "forward" =>
          IF p - 1 \in Waits("default")'
          THEN At("default", p - 1)'.kind = "inputs" /\ At("default", p - 1)'.step = w.step
          ELSE dev'.inputs = w.step
    <3>1. ASSUME w.kind = "forward", NEW i, i = p - 1
          PROVE  IF i \in Waits("default")'
                 THEN At("default", i)'.kind = "inputs" /\ At("default", i)'.step = w.step
                 ELSE dev'.inputs = w.step
      <4>1. i \in Waits("default")
        <5>1. Len(queue["default"]) \in Nat /\ done["default"] \in Nat
          BY <1>1, <1>2, WaitsType
        <5> QED BY <1>4, <2>1, <3>1, <5>1 DEF Waits
      <4>2. At("default", i).kind = "inputs" /\ At("default", i).step = w.step
        BY <2>1, <2>2, <3>1, <4>1 DEF DefaultOp
      <4>3. CASE i = h
        BY <1>3, <1>4, <1>6, <1>8, <4>2, <4>3 DEF Takes
      <4>4. CASE i # h
        BY <1>3, <1>4, <4>1, <4>2, <4>4 DEF Takes
      <4> QED BY <4>3, <4>4
    <3> QED BY <3>1
  <2>6. /\ w.kind \in DefaultKinds
        /\ w.kind = "clone" => cfg'.async
        /\ w.kind \in {"experts", "tokens"} => ~cfg'.async /\ pc' = "toList" /\ w.step = step'
        /\ ~cfg'.async /\ pc' = "idle" => w.kind = "propose"
        /\ pc' = "toList" => p <= event'["transfer"]
    BY <1>3, <2>1, <2>2 DEF DefaultOp
  <2> QED BY <2>1, <2>2, <2>3, <2>4, <2>5, <2>6, DefaultOpNext
<1>12. CopyOps'
  BY <1>1, <1>3, <1>9, CopyOpsTaken
<1>13. InStep'
  <2>1. CASE pc = "idle"
    BY <1>3, <2>1 DEF InStep
  <2>2. CASE pc # "idle"
    <3>1. SampledBy(step, End("default")) /\ ExpertsBy(step, End("default"))
      BY <2>2 DEF Inv, InStep
    <3>2. step \in Steps
      BY <1>1, <2>2, CopiesAssumption DEF TypeInv, Steps
    <3>3. PICK n, e : n = step /\ e = End("default")
      OBVIOUS
    <3>4. SampledBy(n, e)' /\ ExpertsBy(n, e)'
      <4>1. SampledBy(n, e) /\ ExpertsBy(n, e) /\ e \in Nat /\ e >= h /\ n \in Steps
        BY <1>5, <3>1, <3>2, <3>3 DEF SampledBy, ExpertsBy, Before
      <4> QED BY <1>9, <4>1
    <3>5. step' = n /\ End("default")' = e
      BY <1>3, <3>3 DEF Takes
    <3>6. SampledBy(step, End("default"))' /\ ExpertsBy(step, End("default"))'
      BY <3>4, <3>5, ByNext
    <3>7. ASSUME pc = "toList"
          PROVE  /\ ~cfg.async
                 /\ host'.experts = step \/ Before("experts", step, End("default"))'
                 /\ out'[step].tokens = step \/ Before("tokens", step, End("default"))'
      <4>1. /\ ~cfg.async /\ (host.experts = step \/ Before("experts", step, End("default")))
            /\ (out[step].tokens = step \/ Before("tokens", step, End("default")))
        BY <3>7 DEF Inv, InStep
      <4>2. /\ op.kind = "experts" => host'.experts = step
            /\ op.kind # "experts" => host'.experts = host.experts
            /\ op.kind = "tokens" => out'[step].tokens = step
            /\ op.kind # "tokens" => out' = out
        BY <1>8
      <4>3. ASSUME NEW kind, kind # op.kind, Before(kind, step, End("default"))
            PROVE  Before(kind, step, End("default"))'
        BY <1>3, <1>4, <4>3 DEF Before, Takes
      <4> QED BY <4>1, <4>2, <4>3
    <3> QED BY <1>3, <2>2, <3>6, <3>7 DEF InStep
  <2> QED BY <2>1, <2>2
<1>14. DraftsInv'
  BY <1>2, <1>3, <1>8 DEF Inv, DraftsInv, Stays
<1>15. CountsInv'
  BY <1>2, <1>3, <1>8 DEF Inv, CountsInv, Stays
<1>16. OutputsInv'
  <2>1. OutputsInv
    BY DEF Inv
  <2>2. CASE op.kind # "tokens"
    BY <1>3, <1>8, <2>1, <2>2 DEF OutputsInv
  <2>3. CASE op.kind = "tokens"
    <3>1. /\ ~cfg.async /\ pc = "toList" /\ \A u \in Steps : u # step => out'[u] = out[u]
          /\ step \in Nat
      BY <1>1, <1>6, <1>8, <2>3 DEF TypeInv
    <3>2. ASSUME NEW t \in Steps, t > step \/ t < step PROVE out'[t] = out[t]
      BY <3>1, <3>2 DEF Steps
    <3>3. \A t \in Steps : /\ t > step => out[t] = NoOutput
                           /\ t < step => out[t] = [tokens |-> t, experts |-> t]
      BY <2>1, <3>1 DEF OutputsInv
    <3>4. \A t \in Steps : /\ t > step => out'[t] = NoOutput
                           /\ t < step => out'[t] = [tokens |-> t, experts |-> t]
      BY <3>2, <3>3, Zenon
    <3>5. ~cfg'.async /\ pc' # "idle" /\ step' = step
      BY <1>3, <3>1
    <3> QED BY <3>4, <3>5 DEF OutputsInv
  <2> QED BY <2>2, <2>3
<1>17. InputsIntact'
  <2>1. dev.sampled \in [Steps -> Nat]
    BY <1>7 DEF DevType
  <2> QED BY <1>4, <1>8, <2>1 DEF Inv, InputsIntact
<1> QED BY <1>10, <1>11, <1>12, <1>13, <1>14, <1>15, <1>16, <1>17 DEF Inv

LEMMA InvNext == Inv /\ [Next]_vars => Inv'
<1> SUFFICES ASSUME Inv, [Next]_vars PROVE Inv'
  OBVIOUS
<1>1. CASE ExecuteModel
  BY <1>1, InvExecute
<1>2. CASE Sample
  BY <1>2, InvSample
<1>3. CASE Draft
  BY <1>3, InvDraft
<1>4. CASE AsyncOutput
  BY <1>4, InvOutput
<1>5. CASE SyncCopy
  BY <1>5, InvSync
<1>6. CASE ToList
  BY <1>6, InvToList
<1>7. ASSUME NEW s \in Streams, Device(s) PROVE Inv'
  BY <1>7, InvCopied, InvRan
<1>8. CASE UNCHANGED vars
  <2>1. /\ UNCHANGED <<cfg, step, pc, plan, queue, done, event, dev, host, draftIds, draftReqs,
                       prevSampled, overlapped, out>>
        /\ TypeInv /\ CopyOps /\ InStep /\ DraftsInv /\ CountsInv /\ OutputsInv /\ InputsIntact
        /\ \A p \in Waits("default") : DefaultOp(p)
    BY <1>8 DEF vars, Inv
  <2>2. TypeInv'
    BY <2>1 DEF TypeInv, Waits, At
  <2>3. ASSUME NEW p \in Waits("default")' PROVE DefaultOp(p)'
    <3>1. p \in Waits("default") /\ DefaultOp(p)
      BY <2>1 DEF Waits
    <3> QED BY <2>1, <3>1 DEF DefaultOp, SampledBy, ExpertsBy, Before, Waits, At
  <2>4. CopyOps'
    BY <2>1 DEF CopyOps, SampledBy, DraftedBy, ClonedBy, Before, Waits, At
  <2>5. InStep'
    BY <2>1 DEF InStep, SampledBy, ExpertsBy, Before, Waits, At, End
  <2>6. DraftsInv' /\ CountsInv'
    BY <2>1 DEF DraftsInv, CountsInv, Waits, At, End, LastOp
  <2>7. OutputsInv' /\ InputsIntact'
    BY <2>1 DEF OutputsInv, InputsIntact
  <2> QED BY <2>2, <2>3, <2>4, <2>5, <2>6, <2>7 DEF Inv
<1>9. CASE Done
  BY <1>8, <1>9 DEF Done
<1> QED BY <1>1, <1>2, <1>3, <1>4, <1>5, <1>6, <1>7, <1>8, <1>9 DEF Next

-----------------------------------------------------------------------------
(* The theorems.                                                           *)

LEMMA AlwaysInv == Spec => []Inv
<1>1. Init => Inv
  BY InvInit
<1>2. Inv /\ [Next]_vars => Inv'
  BY InvNext
<1> QED BY <1>1, <1>2, PTL DEF Spec

\* Whatever runs ahead of whatever, an operation waiting on a stream finds the
\* data it was enqueued for when the stream gets to it: the inputs of its own
\* forward pass, the tokens and drafts its step wrote, the private clone of the
\* experts (synchronize_input_prep, wait_stream before each copy, the clone of
\* AsyncGPUModelRunnerOutput).
THEOREM DataReady == Spec => [](CopyOps /\ \A p \in Waits("default") : DefaultOp(p))
<1>1. Inv => CopyOps /\ \A p \in Waits("default") : DefaultOp(p)
  BY DEF Inv
<1> QED BY <1>1, AlwaysInv, PTL

\* Types: a queue holds operations of launched steps only, and the step whose
\* request ids or sampled ids are kept is never ahead of the worker.
THEOREM TypeCorrect == Spec => []TypeOK
<1>1. ASSUME Inv PROVE TypeOK
  <2>1. TypeInv
    BY <1>1 DEF Inv
  <2>2. ASSUME NEW s \in Streams, NEW i \in DOMAIN queue[s]
        PROVE  queue[s][i].step \in 1 .. step
    <3>1. queue[s] \in Seq(OpType) /\ done[s] \in Nat /\ Len(queue[s]) \in Nat
          /\ i \in 1 .. Len(queue[s])
      BY <2>1, <2>2 DEF TypeInv
    <3>2. ASSUME NEW p, p = done[s] + i PROVE p \in Waits(s) /\ p - done[s] = i
      BY <3>1, <3>2 DEF Waits
    <3> QED BY <2>1, <3>2 DEF TypeInv, At
  <2> QED BY <2>1, <2>2 DEF TypeInv, TypeOK
<1> QED BY <1>1, AlwaysInv, PTL

\* A forward pass runs on the inputs prepared for it, although every step
\* writes the same pinned tensors: synchronize_input_prep waits for the event
\* recorded behind the copy.
THEOREM InputsCorrect == Spec => []InputsIntact
<1>1. Inv => InputsIntact
  BY DEF Inv
<1> QED BY <1>1, AlwaysInv, PTL

\* take_draft_token_ids and _sample read the drafts, or the zeros, of the step
\* whose request ids go with them, unless zeros were written over a copy that
\* was still in flight under async scheduling.
THEOREM DraftsCorrect == Spec => []DraftsExact
<1>1. ASSUME Inv, ReadyDrafts
      PROVE  draftReqs = draftIds.step /\ (host.drafts = draftIds \/ (cfg.async /\ overlapped))
  <2>1. DraftsInv /\ TypeInv /\ "draftCopy" \in Streams
    BY <1>1 DEF Inv, Streams
  <2>2. draftReqs # 0 /\ done["draftCopy"] >= event["drafts"]
    BY <1>1 DEF ReadyDrafts, Reached, EventStream
  <2>3. event["drafts"] = End("draftCopy")
    BY <2>1, <2>2 DEF DraftsInv
  <2>4. Waits("draftCopy") = {}
    BY <2>1, <2>2, <2>3, WaitsType
  <2> QED BY <2>1, <2>2, <2>4 DEF DraftsInv
<1>2. Inv => DraftsExact
  BY <1>1 DEF DraftsExact
<1> QED BY <1>2, AlwaysInv, PTL

\* The counts _get_valid_sampled_token_count waits for are those of the last
\* sampled ids, drafted by the drafter or zeroed past max_model_len.
THEOREM CountsCorrect == Spec => []CountsExact
<1>1. ASSUME Inv, ReadyCounts PROVE host.counts = prevSampled
  <2>1. CountsInv /\ TypeInv /\ "countCopy" \in Streams
    BY <1>1 DEF Inv, Streams
  <2>2. prevSampled # 0 /\ cfg.drafter # "none" /\ done["countCopy"] >= event["counts"]
    BY <1>1 DEF ReadyCounts, Reached, EventStream
  <2>3. event["counts"] = End("countCopy")
    BY <2>1, <2>2 DEF CountsInv
  <2>4. Waits("countCopy") = {}
    BY <2>1, <2>2, <2>3, WaitsType
  <2> QED BY <2>1, <2>2, <2>4 DEF CountsInv
<1>2. Inv => CountsExact
  BY <1>1 DEF CountsExact
<1> QED BY <1>2, AlwaysInv, PTL

\* An output the engine may read has the tokens and the routed experts of its
\* own step, however late its copy runs and however far the next forward passes
\* have got (AsyncGPUModelRunnerOutput, _to_list).
THEOREM OutputsCorrect == Spec => []OutputsExact
<1>1. ASSUME Inv, NEW t \in Steps, out[t].tokens # 0, t < step \/ pc = "idle"
      PROVE  out[t] = [tokens |-> t, experts |-> t]
  <2>1. OutputsInv /\ step \in Nat /\ t \in Nat
    BY <1>1, CopiesAssumption DEF Inv, TypeInv, Steps
  <2>2. out[t] # NoOutput
    BY <1>1 DEF NoOutput
  <2> QED BY <1>1, <2>1, <2>2 DEF OutputsInv
<1>2. Inv => OutputsExact
  BY <1>1 DEF OutputsExact
<1> QED BY <1>2, AlwaysInv, PTL
=============================================================================

---------------------------- MODULE TpForward_proofs ----------------------------
(***************************************************************************)
(* Theorems about TpForward, for any set of ranks, any forward pass and    *)
(* any graphs.                                                             *)
(*                                                                         *)
(* A rank is at a pass and a position of it.  The argument turns on the    *)
(* collectives that block: all ranks that are alive have passed the same   *)
(* of them, so that ranks that meet are in the same call, and a rank that  *)
(* waits waits for nobody who is ahead.                                    *)
(***************************************************************************)
EXTENDS TpForward, SequenceTheorems, TLAPS

N      == Len(Program)
Pos(r) == N - Len(todo[r])
Alive(r) == how[r] # "dead"
Past(r)  == index[r] > 0 /\ how[r] # "barrier"

\* What a capture of graph d keeps.
InGraph(d, k)   == Program[k] # "break" \/ GraphModes[d] = "FULL"
GraphSteps(d)   == [k \in 1 .. N |-> StepOf(k, InGraph(d, k))]

\* The step a rank takes at position k of its pass.
Flag(r, k) == how[r] = "replay" /\ InGraph(Call(r).desc, k)
Todo(r, k) == StepOf(k, Flag(r, k))

\* Operators at which pass i waits for the other ranks.
Meets(call, k) ==
  /\ Program[k] \in Collectives
  /\ \/ call.phase = "serve"
     \/ call.phase = "profile" /\ Program[k] \in {"all_reduce_", "communicator"}
Blocks(i, k)    == Meets(calls[i], k)
Passed(r, i, k) == i < index[r] \/ (i = index[r] /\ k <= Pos(r))

StepType == [op : 1 .. N, graph : BOOLEAN]
CallType == [phase : {"profile", "capture", "serve"}, desc : Desc \cup {"eager"},
             mode : {"NONE", "PIECEWISE", "FULL"}, fails : SUBSET (Rank \X (1 .. N))]
RanType  == [op : 1 .. N, meta : Nat, result : {"done", "own part", "combined", "mixed"}]
CaptureType == [active : BOOLEAN, capturing : BOOLEAN, graph : Seq(StepType), steps : Seq(StepType)]

TypeInv ==
  /\ calls \in Seq(CallType)
  /\ index \in [Rank -> Nat] /\ \A r \in Rank : index[r] <= Len(calls)
  /\ how \in [Rank -> {"idle", "barrier", "eager", "capture", "replay", "dead"}]
  /\ todo \in [Rank -> Seq(StepType)] /\ inBreak \in [Rank -> BOOLEAN]
  /\ ran \in [Rank -> Seq(RanType)] /\ capture \in [Rank -> CaptureType]
  /\ entries \in [Rank -> [Desc -> Seq(StepType)]] /\ bufferOf \in [Rank -> Nat]
  /\ redirect \in [Rank -> BOOLEAN] /\ waiting \in [Rank -> Backends]

\* The passes: the profile run, every graph once, then service.
CallOk(i) ==
  /\ calls[i].phase = "profile" <=> i = 1
  /\ calls[i].phase = "profile" => calls[i].mode = "NONE"
  /\ calls[i].phase = "capture" =>
       /\ calls[i].desc \in Desc /\ calls[i].mode = GraphModes[calls[i].desc]
       /\ \A j \in 1 .. (i - 1) : calls[j].phase = "capture" => calls[j].desc # calls[i].desc
  /\ calls[i].phase = "serve" =>
       /\ calls[i].mode = "NONE"
          \/ (calls[i].desc \in Desc /\ calls[i].mode = GraphModes[calls[i].desc])
       /\ \A d \in Desc : \E j \in 1 .. (i - 1) : calls[j].phase = "capture" /\ calls[j].desc = d
CallsInv == \A i \in 1 .. Len(calls) : CallOk(i)

CapturedBy(r, d) ==
  \E i \in 1 .. index[r] : /\ calls[i].phase = "capture" /\ calls[i].desc = d
                           /\ i < index[r] \/ how[r] = "idle"

\* What a rank that is alive has left to do, and in which manner.
PassInv(r) ==
  /\ Len(todo[r]) <= N
  /\ index[r] = 0 => how[r] = "idle"
  /\ redirect[r] <=> index[r] = 1 /\ how[r] # "idle"
  /\ how[r] = "idle" => todo[r] = <<>>
  /\ how[r] = "barrier" <=> waiting[r] = "barrier"
  /\ how[r] = "barrier" => index[r] = 1 /\ ran[r] = <<>> /\ Len(todo[r]) = N
  /\ how[r] = "eager" => Call(r).phase \in {"profile", "serve"}
  /\ how[r] = "capture" => Call(r).phase = "capture"
  /\ how[r] = "replay" => /\ Call(r).phase = "serve" /\ Call(r).desc \in Desc
                          /\ Call(r).mode = GraphModes[Call(r).desc]
                          /\ Call(r).mode = "FULL" => bufferOf[r] = index[r]
  /\ \A j \in 1 .. Len(todo[r]) : todo[r][j] = Todo(r, Pos(r) + j)

\* A rank waits at an operator that blocks, in its back end unless a call has failed.
WaitInv(r) ==
  waiting[r] \in {"xccl", "gloo"} =>
    /\ how[r] \in {"eager", "replay"} /\ todo[r] # <<>>
    /\ Blocks(index[r], Pos(r) + 1)
    /\ waiting[r] = Backend(r, Program[Pos(r) + 1]) \/ Call(r).fails # {}

\* A capture has kept the steps so far.
Kept(c) == c.steps \o c.graph
CaptureInv(r) ==
  /\ inBreak[r] => /\ how[r] = "capture" /\ todo[r] # <<>> /\ Program[Pos(r) + 1] = "break"
                   /\ Call(r).mode # "FULL" /\ capture[r].graph = <<>>
  /\ how[r] = "capture" =>
       /\ capture[r].active /\ capture[r].capturing = ~inBreak[r]
       /\ Len(Kept(capture[r])) = Pos(r)
       /\ \A k \in 1 .. Pos(r) : Kept(capture[r])[k] = StepOf(k, InGraph(Call(r).desc, k))

EntriesInv(r) ==
  \A d \in Desc : entries[r][d] = IF CapturedBy(r, d) THEN GraphSteps(d) ELSE <<>>

\* A served pass has run its operators so far exactly.
Result(k) == IF Program[k] \in Collectives THEN "combined" ELSE "done"
RanInv(r) ==
  index[r] > 0 /\ Call(r).phase = "serve" =>
    /\ Len(ran[r]) = Pos(r)
    /\ \A k \in 1 .. Pos(r) : ran[r][k] = [op |-> k, meta |-> index[r], result |-> Result(k)]

\* No rank has passed an operator that blocks and another has not.
Together ==
  \A r, q \in Rank : Alive(r) /\ Alive(q) =>
    \A i \in 1 .. Len(calls), k \in 1 .. N : Blocks(i, k) /\ Passed(r, i, k) => Passed(q, i, k)

\* Nor the barrier before the profile run.
BarrierInv ==
  \A r, q \in Rank : Alive(r) /\ Alive(q) /\ Past(r) => Past(q)

RankInv(r) == PassInv(r) /\ WaitInv(r) /\ CaptureInv(r) /\ EntriesInv(r) /\ RanInv(r)

Inv ==
  /\ TypeInv /\ CallsInv
  /\ \A r \in Rank : Alive(r) => RankInv(r)
  /\ \A r \in Rank : ~Alive(r) => waiting[r] = "none" /\ ~inBreak[r]
  /\ Together /\ BarrierInv /\ DiesOfFailuresOnly

-----------------------------------------------------------------------------
(* Where a rank is.                                                        *)

LEMMA ProgramType ==
  /\ N \in Nat \ {0} /\ \A k \in 1 .. N : Program[k] \in Collectives \cup {"kernel", "break"}
  /\ "kernel" \notin Collectives /\ "break" \notin Collectives
<1>1. Program \in Seq(Collectives \cup {"kernel", "break"}) /\ Program # <<>>
  BY ForwardAssumption
<1>2. Len(Program) # 0
  BY <1>1, EmptySeq
<1>3. "kernel" \notin Collectives /\ "break" \notin Collectives
  BY DEF Collectives
<1> QED BY <1>1, <1>2, <1>3 DEF N

LEMMA TodoIs ==
  ASSUME NEW r, NEW k
  PROVE  Todo(r, k).op = k /\ Todo(r, k).graph = Flag(r, k)
BY DEF Todo, StepOf

LEMMA TodoSame ==
  ASSUME NEW r, NEW k, how'[r] = how[r], how[r] = "replay" => Call(r)' = Call(r)
  PROVE  Todo(r, k)' = Todo(r, k)
<1>1. Flag(r, k)' <=> Flag(r, k)
  BY DEF Flag, InGraph
<1>2. Flag(r, k) \in BOOLEAN /\ Flag(r, k)' \in BOOLEAN
  BY DEF Flag
<1>3. Flag(r, k)' = Flag(r, k)
  BY <1>1, <1>2, Zenon
<1> QED BY <1>3 DEF Todo, StepOf

LEMMA Places ==
  ASSUME TypeInv, NEW r \in Rank, PassInv(r)
  PROVE  /\ N \in Nat \ {0} /\ Len(todo[r]) \in Nat /\ Pos(r) \in 0 .. N /\ index[r] \in Nat
         /\ todo[r] = <<>> => Pos(r) = N
         /\ Len(todo[r]) = N => Pos(r) = 0
         /\ how[r] # "idle" => index[r] \in 1 .. Len(calls)
         /\ index[r] # 0 => index[r] \in 1 .. Len(calls)
         /\ index[r] \in 1 .. Len(calls) => Call(r) \in CallType
         /\ todo[r] # <<>> => /\ Pos(r) + 1 \in 1 .. N
                              /\ Head(todo[r]) = Todo(r, Pos(r) + 1)
                              /\ Head(todo[r]).op = Pos(r) + 1
                              /\ Head(todo[r]).graph = Flag(r, Pos(r) + 1)
                              /\ Op(r) = Program[Pos(r) + 1]
<1>1. /\ todo[r] \in Seq(StepType) /\ Len(todo[r]) \in Nat /\ index[r] \in Nat
      /\ calls \in Seq(CallType) /\ Len(calls) \in Nat /\ index[r] <= Len(calls)
  BY DEF TypeInv
<1>2. N \in Nat \ {0} /\ Len(todo[r]) <= N
  BY ProgramType DEF PassInv
<1>3. /\ Pos(r) \in 0 .. N
      /\ Len(todo[r]) # 0 => Pos(r) + 1 \in 1 .. N
      /\ Len(todo[r]) = 0 => Pos(r) = N
      /\ Len(todo[r]) = N => Pos(r) = 0
  BY <1>1, <1>2 DEF Pos
<1>4. todo[r] = <<>> <=> Len(todo[r]) = 0
  BY <1>1, EmptySeq
<1>5. index[r] # 0 => index[r] \in 1 .. Len(calls)
  BY <1>1
<1>6. ASSUME todo[r] # <<>>
      PROVE  /\ Head(todo[r]) = Todo(r, Pos(r) + 1)
             /\ Head(todo[r]).op = Pos(r) + 1 /\ Head(todo[r]).graph = Flag(r, Pos(r) + 1)
             /\ Op(r) = Program[Pos(r) + 1]
  <2>1. Head(todo[r]) = todo[r][1] /\ 1 \in 1 .. Len(todo[r])
    BY <1>1, <1>4, <1>6
  <2>2. Head(todo[r]) = Todo(r, Pos(r) + 1)
    BY <2>1 DEF PassInv
  <2> QED BY <2>2, TodoIs DEF Op
<1>7. index[r] \in 1 .. Len(calls) => Call(r) \in CallType
  BY <1>1 DEF Call
<1>8. how[r] # "idle" => index[r] # 0
  BY DEF PassInv
<1> QED BY <1>1, <1>2, <1>3, <1>4, <1>5, <1>6, <1>7, <1>8

LEMMA Advances ==
  ASSUME TypeInv, NEW r \in Rank, PassInv(r), todo[r] # <<>>, todo'[r] = Tail(todo[r]),
         how'[r] = how[r], how[r] = "replay" => Call(r)' = Call(r)
  PROVE  /\ todo'[r] \in Seq(StepType) /\ Pos(r)' = Pos(r) + 1
         /\ Len(todo'[r]) \in Nat /\ Len(todo'[r]) <= N /\ Len(todo'[r]) # N
         /\ \A j \in 1 .. Len(todo'[r]) : (todo[r][j] = Todo(r, Pos(r) + j))'
<1>1. todo[r] \in Seq(StepType) /\ Len(todo[r]) \in Nat \ {0}
  BY EmptySeq DEF TypeInv
<1>2. todo'[r] \in Seq(StepType) /\ Len(todo'[r]) = Len(todo[r]) - 1
  BY <1>1
<1>3. N \in Nat /\ Len(todo[r]) <= N /\ Pos(r) \in Nat
  BY Places DEF PassInv
<1>4. Pos(r)' = Pos(r) + 1
  <2>1. Pos(r)' = N - Len(todo'[r]) /\ Pos(r) = N - Len(todo[r])
    BY DEF Pos, N
  <2> QED BY <1>1, <1>2, <1>3, <2>1
<1>5. ASSUME NEW j \in 1 .. Len(todo'[r]) PROVE (todo[r][j] = Todo(r, Pos(r) + j))'
  <2>1. j + 1 \in 1 .. Len(todo[r]) /\ todo'[r][j] = todo[r][j + 1]
    BY <1>1, <1>2
  <2>2. PICK k : k = Pos(r) + (j + 1)
    OBVIOUS
  <2>3. todo'[r][j] = Todo(r, k)
    BY <2>1, <2>2 DEF PassInv
  <2>4. Todo(r, k)' = Todo(r, k)
    BY TodoSame
  <2>5. Pos(r)' + j = k
    BY <1>3, <1>4, <2>1, <2>2
  <2> QED BY <2>3, <2>4, <2>5 DEF Todo, Flag
<1> QED BY <1>1, <1>2, <1>3, <1>4, <1>5

-----------------------------------------------------------------------------
(* A step of one rank leaves the others alone.                             *)

Same(q) ==
  /\ index'[q] = index[q] /\ how'[q] = how[q] /\ todo'[q] = todo[q] /\ inBreak'[q] = inBreak[q]
  /\ ran'[q] = ran[q] /\ capture'[q] = capture[q] /\ entries'[q] = entries[q]
  /\ bufferOf'[q] = bufferOf[q] /\ redirect'[q] = redirect[q] /\ waiting'[q] = waiting[q]
CallsGrow == Len(calls') >= Len(calls) /\ \A i \in 1 .. Len(calls) : calls'[i] = calls[i]

LEMMA RankFrame ==
  ASSUME TypeInv, NEW q \in Rank, Same(q), CallsGrow, RankInv(q)
  PROVE  RankInv(q)'
<1>1. PassInv(q) /\ WaitInv(q) /\ CaptureInv(q) /\ EntriesInv(q) /\ RanInv(q)
  BY DEF RankInv
<1>2. /\ index[q] # 0 => index[q] \in 1 .. Len(calls)
      /\ how[q] # "idle" => index[q] \in 1 .. Len(calls)
      /\ index[q] \in Nat /\ Len(calls) \in Nat
  BY <1>1, Places DEF TypeInv
<1>3. /\ Pos(q)' = Pos(q) /\ index'[q] = index[q]
      /\ index[q] # 0 => Call(q)' = Call(q) /\ calls'[index[q]] = calls[index[q]]
      /\ how[q] # "idle" => index[q] # 0
  BY <1>2 DEF Same, Pos, N, CallsGrow, Call
<1>4. PassInv(q)'
  <2>1. ASSUME NEW j \in 1 .. Len(todo'[q]) PROVE (todo[q][j] = Todo(q, Pos(q) + j))'
    <3>1. PICK k : k = Pos(q) + j
      OBVIOUS
    <3>2. Todo(q, k)' = Todo(q, k)
      BY <1>3, TodoSame DEF Same
    <3>3. todo'[q][j] = Todo(q, k)' /\ Pos(q)' + j = k
      BY <1>1, <1>3, <2>1, <3>1, <3>2 DEF Same, PassInv
    <3> QED BY <3>3 DEF Todo, Flag
  <2>3. /\ Len(todo'[q]) <= N
        /\ index'[q] = 0 => how'[q] = "idle"
        /\ redirect'[q] <=> index'[q] = 1 /\ how'[q] # "idle"
        /\ how'[q] = "idle" => todo'[q] = <<>>
        /\ how'[q] = "barrier" <=> waiting'[q] = "barrier"
        /\ how'[q] = "barrier" => index'[q] = 1 /\ ran'[q] = <<>> /\ Len(todo'[q]) = N
    BY <1>1 DEF PassInv, Same
  <2>4. /\ how'[q] = "eager" => Call(q)'.phase \in {"profile", "serve"}
        /\ how'[q] = "capture" => Call(q)'.phase = "capture"
        /\ how'[q] = "replay" => /\ Call(q)'.phase = "serve" /\ Call(q)'.desc \in Desc
                                 /\ Call(q)'.mode = GraphModes[Call(q)'.desc]
                                 /\ Call(q)'.mode = "FULL" => bufferOf'[q] = index'[q]
    BY <1>1, <1>3 DEF PassInv, Same
  <2> QED BY <2>1, <2>3, <2>4 DEF PassInv
<1>5. WaitInv(q)'
  BY <1>1, <1>3 DEF WaitInv, Same, Blocks, Backend
<1>6. CaptureInv(q)'
  BY <1>1, <1>3 DEF CaptureInv, Same
<1>7. EntriesInv(q)'
  <2>1. \A i \in 1 .. index[q] : calls'[i] = calls[i]
    BY <1>2 DEF CallsGrow
  <2> QED BY <1>1, <1>3, <2>1 DEF EntriesInv, CapturedBy, Same
<1>8. RanInv(q)'
  BY <1>1, <1>3 DEF RanInv, Same
<1> QED BY <1>4, <1>5, <1>6, <1>7, <1>8 DEF RankInv

\* What a rank has passed of what blocks, it has still, and no more.
SamePassed(r) ==
  \A i \in 1 .. Len(calls'), k \in 1 .. N :
    Blocks(i, k)' => (Passed(r, i, k)' <=> i <= Len(calls) /\ Passed(r, i, k))

LEMMA SamePassedFrame ==
  ASSUME TypeInv, NEW q \in Rank, index'[q] = index[q], todo'[q] = todo[q]
  PROVE  SamePassed(q)
<1>1. index[q] \in Nat /\ index[q] <= Len(calls) /\ Len(calls) \in Nat
  BY DEF TypeInv
<1>2. ASSUME NEW i \in 1 .. Len(calls'), NEW k \in 1 .. N
      PROVE  Passed(q, i, k)' <=> i <= Len(calls) /\ Passed(q, i, k)
  BY <1>1 DEF Passed, Pos, N
<1> QED BY <1>2 DEF SamePassed

LEMMA TogetherKept ==
  ASSUME TypeInv, Together, CallsGrow,
         \A r \in Rank : Alive(r)' => Alive(r) /\ SamePassed(r)
  PROVE  Together'
<1> SUFFICES ASSUME NEW r \in Rank, NEW q \in Rank, Alive(r)', Alive(q)',
                    NEW i \in 1 .. Len(calls'), NEW k \in 1 .. N, Blocks(i, k)', Passed(r, i, k)'
             PROVE  Passed(q, i, k)'
  BY DEF Together
<1>1. i <= Len(calls) /\ Passed(r, i, k) /\ Alive(r) /\ Alive(q) /\ Len(calls) \in Nat
  BY DEF SamePassed, TypeInv
<1>2. i \in 1 .. Len(calls) /\ Blocks(i, k)
  BY <1>1 DEF CallsGrow, Blocks
<1>3. Passed(q, i, k)
  BY <1>1, <1>2 DEF Together
<1> QED BY <1>1, <1>3 DEF SamePassed

\* The step of one rank keeps the invariant if it keeps what concerns the rank.
LEMMA OneRank ==
  ASSUME Inv, NEW r \in Rank, TypeInv', CallsInv', CallsGrow, Alive(r),
         \A q \in Rank \ {r} : Same(q),
         Alive(r)' => RankInv(r)' /\ SamePassed(r) /\ (Past(r)' <=> Past(r)),
         ~Alive(r)' => /\ waiting'[r] = "none" /\ ~inBreak'[r]
                       /\ \E i \in 1 .. Len(calls) : calls[i].fails # {}
  PROVE  Inv'
<1>1. TypeInv /\ Together /\ BarrierInv /\ DiesOfFailuresOnly
      /\ (\A q \in Rank : Alive(q) => RankInv(q))
      /\ (\A q \in Rank : ~Alive(q) => waiting[q] = "none" /\ ~inBreak[q])
  BY DEF Inv
<1>2. ASSUME NEW q \in Rank, Alive(q)' PROVE RankInv(q)' /\ SamePassed(q) /\ Alive(q)
                                             /\ (Past(q)' <=> Past(q))
  <2>1. CASE q = r
    BY <1>2, <2>1
  <2>2. CASE q # r
    <3>1. Same(q)
      BY <2>2
    <3>2. Alive(q) /\ index'[q] = index[q] /\ todo'[q] = todo[q] /\ (Past(q)' <=> Past(q))
      BY <1>2, <3>1 DEF Same, Alive, Past
    <3> QED BY <1>1, <3>1, <3>2, RankFrame, SamePassedFrame
  <2> QED BY <2>1, <2>2
<1>3. ASSUME NEW q \in Rank, ~Alive(q)' PROVE waiting'[q] = "none" /\ ~inBreak'[q]
  BY <1>1, <1>3 DEF Same, Alive
<1>4. Together'
  BY <1>1, <1>2, TogetherKept
<1>5. BarrierInv'
  BY <1>1, <1>2 DEF BarrierInv
<1>6. DiesOfFailuresOnly'
  <2>1. ASSUME NEW q \in Rank, how'[q] = "dead" PROVE \E i \in 1 .. Len(calls) : calls[i].fails # {}
    BY <1>1, <2>1 DEF Same, Alive, DiesOfFailuresOnly
  <2>2. (\E i \in 1 .. Len(calls) : calls[i].fails # {}) =>
          \E i \in 1 .. Len(calls') : calls'[i].fails # {}
    <3>1. Len(calls) \in Nat /\ Len(calls') \in Nat
      BY <1>1 DEF TypeInv
    <3> QED BY <3>1 DEF CallsGrow
  <2> QED BY <2>1, <2>2 DEF DiesOfFailuresOnly
<1> QED BY <1>2, <1>3, <1>4, <1>5, <1>6 DEF Inv

-----------------------------------------------------------------------------
(* The steps of one rank.                                                  *)

OnlyRank(r) ==
  /\ index' = [index EXCEPT ![r] = index'[r]] /\ how' = [how EXCEPT ![r] = how'[r]]
  /\ todo' = [todo EXCEPT ![r] = todo'[r]] /\ inBreak' = [inBreak EXCEPT ![r] = inBreak'[r]]
  /\ ran' = [ran EXCEPT ![r] = ran'[r]] /\ capture' = [capture EXCEPT ![r] = capture'[r]]
  /\ entries' = [entries EXCEPT ![r] = entries'[r]]
  /\ bufferOf' = [bufferOf EXCEPT ![r] = bufferOf'[r]]
  /\ redirect' = [redirect EXCEPT ![r] = redirect'[r]]
  /\ waiting' = [waiting EXCEPT ![r] = waiting'[r]]

RankType(r) ==
  /\ index'[r] \in Nat /\ index'[r] <= Len(calls')
  /\ how'[r] \in {"idle", "barrier", "eager", "capture", "replay", "dead"}
  /\ todo'[r] \in Seq(StepType) /\ inBreak'[r] \in BOOLEAN
  /\ ran'[r] \in Seq(RanType) /\ capture'[r] \in CaptureType
  /\ entries'[r] \in [Desc -> Seq(StepType)] /\ bufferOf'[r] \in Nat
  /\ redirect'[r] \in BOOLEAN /\ waiting'[r] \in Backends

LEMMA OnlyRankSame ==
  ASSUME TypeInv, NEW r \in Rank, OnlyRank(r)
  PROVE  \A q \in Rank \ {r} : Same(q)
<1> SUFFICES ASSUME NEW q \in Rank, q # r PROVE Same(q)
  OBVIOUS
<1>1. index'[q] = index[q] /\ how'[q] = how[q] /\ todo'[q] = todo[q] /\ inBreak'[q] = inBreak[q]
  BY DEF OnlyRank, TypeInv
<1>2. ran'[q] = ran[q] /\ capture'[q] = capture[q] /\ entries'[q] = entries[q]
  BY DEF OnlyRank, TypeInv
<1>3. bufferOf'[q] = bufferOf[q] /\ redirect'[q] = redirect[q] /\ waiting'[q] = waiting[q]
  BY DEF OnlyRank, TypeInv
<1> QED BY <1>1, <1>2, <1>3 DEF Same

LEMMA OnlyRankType ==
  ASSUME TypeInv, NEW r \in Rank, OnlyRank(r), RankType(r), CallsGrow, calls' \in Seq(CallType)
  PROVE  TypeInv'
<1>1. index' \in [Rank -> Nat]
  BY DEF OnlyRank, TypeInv, RankType
<1>2. \A q \in Rank : index'[q] <= Len(calls')
  <2>1. \A q \in Rank \ {r} : index'[q] = index[q]
    BY OnlyRankSame DEF Same
  <2>2. \A q \in Rank : index[q] \in Nat /\ index[q] <= Len(calls)
    BY DEF TypeInv
  <2>3. Len(calls) \in Nat /\ Len(calls') \in Nat
    BY DEF TypeInv
  <2> QED BY <2>1, <2>2, <2>3 DEF RankType, CallsGrow
<1>3. how' \in [Rank -> {"idle", "barrier", "eager", "capture", "replay", "dead"}]
  BY DEF OnlyRank, TypeInv, RankType
<1>4. todo' \in [Rank -> Seq(StepType)] /\ inBreak' \in [Rank -> BOOLEAN]
  BY DEF OnlyRank, TypeInv, RankType
<1>5. ran' \in [Rank -> Seq(RanType)] /\ capture' \in [Rank -> CaptureType]
  BY DEF OnlyRank, TypeInv, RankType
<1>6. entries' \in [Rank -> [Desc -> Seq(StepType)]] /\ bufferOf' \in [Rank -> Nat]
  BY DEF OnlyRank, TypeInv, RankType
<1>7. redirect' \in [Rank -> BOOLEAN] /\ waiting' \in [Rank -> Backends]
  BY DEF OnlyRank, TypeInv, RankType
<1> QED BY <1>1, <1>2, <1>3, <1>4, <1>5, <1>6, <1>7 DEF TypeInv

LEMMA CallsSame == TypeInv /\ CallsInv /\ calls' = calls => CallsGrow /\ CallsInv' /\ calls' \in Seq(CallType)
<1> SUFFICES ASSUME TypeInv, CallsInv, calls' = calls
             PROVE  CallsGrow /\ CallsInv' /\ calls' \in Seq(CallType)
  OBVIOUS
<1>1. Len(calls) \in Nat
  BY DEF TypeInv
<1> QED BY <1>1 DEF CallsGrow, CallsInv, CallOk, TypeInv

\* The rank goes on to the next position.
LEMMA Moved ==
  ASSUME TypeInv, NEW r \in Rank, PassInv(r), EntriesInv(r), calls' = calls,
         todo[r] # <<>>, todo'[r] = Tail(todo[r]),
         index'[r] = index[r], how'[r] = how[r], bufferOf'[r] = bufferOf[r],
         entries'[r] = entries[r], redirect'[r] = redirect[r],
         waiting[r] # "barrier", waiting'[r] # "barrier"
  PROVE  /\ PassInv(r)' /\ EntriesInv(r)' /\ Pos(r)' = Pos(r) + 1 /\ (Past(r)' <=> Past(r))
         /\ ~Blocks(index[r], Pos(r) + 1) => SamePassed(r)
<1>1. /\ todo'[r] \in Seq(StepType) /\ Pos(r)' = Pos(r) + 1 /\ Len(todo'[r]) <= N
      /\ \A j \in 1 .. Len(todo'[r]) : (todo[r][j] = Todo(r, Pos(r) + j))'
  BY Advances DEF Call
<1>2. how[r] # "idle" /\ how[r] # "barrier" /\ Call(r)' = Call(r)
  BY DEF PassInv, Call
<1>3. PassInv(r)'
  BY <1>1, <1>2 DEF PassInv
<1>4. EntriesInv(r)'
  BY <1>2 DEF EntriesInv, CapturedBy
<1>5. Past(r)' <=> Past(r)
  BY DEF Past
<1>6. ASSUME ~Blocks(index[r], Pos(r) + 1) PROVE SamePassed(r)
  <2>1. index[r] \in Nat /\ index[r] <= Len(calls) /\ Pos(r) \in Nat /\ Len(calls) \in Nat
    BY Places DEF TypeInv
  <2>2. ASSUME NEW i \in 1 .. Len(calls), NEW k \in 1 .. N, Blocks(i, k)
        PROVE  Passed(r, i, k)' <=> Passed(r, i, k)
    <3>1. ~(i = index[r] /\ k = Pos(r) + 1)
      BY <1>6, <2>2
    <3>2. k \in Nat
      OBVIOUS
    <3> QED BY <1>1, <2>1, <3>1, <3>2 DEF Passed
  <2> QED BY <2>1, <2>2 DEF SamePassed, Blocks
<1> QED BY <1>1, <1>3, <1>4, <1>5, <1>6

LEMMA RanOn ==
  ASSUME TypeInv, NEW r \in Rank, RanInv(r), PassInv(r), calls' = calls, index'[r] = index[r],
         Pos(r)' = Pos(r) + 1,
         Call(r).phase = "serve" =>
           ran'[r] = Append(ran[r], [op |-> Pos(r) + 1, meta |-> index[r], result |-> Result(Pos(r) + 1)])
  PROVE  RanInv(r)'
<1> SUFFICES ASSUME index[r] > 0, Call(r).phase = "serve"
             PROVE  /\ Len(ran'[r]) = Pos(r)'
                    /\ \A k \in 1 .. Pos(r)' :
                         ran'[r][k] = [op |-> k, meta |-> index[r], result |-> Result(k)]
  BY DEF RanInv, Call, Result
<1>1. /\ ran[r] \in Seq(RanType) /\ Len(ran[r]) = Pos(r) /\ Pos(r) \in Nat
      /\ \A k \in 1 .. Pos(r) : ran[r][k] = [op |-> k, meta |-> index[r], result |-> Result(k)]
  BY Places DEF TypeInv, RanInv
<1>2. PICK e : e = [op |-> Pos(r) + 1, meta |-> index[r], result |-> Result(Pos(r) + 1)]
  OBVIOUS
<1>3. ran'[r] = Append(ran[r], e)
  BY <1>2
<1>4. /\ Len(ran'[r]) = Pos(r) + 1 /\ ran'[r][Pos(r) + 1] = e
      /\ \A k \in 1 .. Pos(r) : ran'[r][k] = ran[r][k]
  BY <1>1, <1>3
<1>5. ASSUME NEW k \in 1 .. (Pos(r) + 1)
      PROVE  ran'[r][k] = [op |-> k, meta |-> index[r], result |-> Result(k)]
  <2>1. CASE k = Pos(r) + 1
    BY <1>2, <1>4, <2>1
  <2>2. CASE k # Pos(r) + 1
    <3>1. k \in 1 .. Pos(r)
      BY <1>1, <2>2
    <3> QED BY <1>1, <1>4, <3>1
  <2> QED BY <2>1, <2>2
<1> QED BY <1>4, <1>5

LEMMA InvKernel == ASSUME Inv, NEW r \in Rank, RunKernel(r) PROVE Inv'
<1>1. /\ how[r] \in {"eager", "replay"} /\ todo[r] # <<>> /\ waiting[r] = "none"
      /\ Op(r) \in {"kernel", "break"} /\ Alive(r)
      /\ UNCHANGED <<calls, index, how, inBreak, capture, entries, bufferOf, redirect, waiting>>
  BY DEF RunKernel, Launching, Alive, collectiveVars
<1>2. /\ ran' = [ran EXCEPT ![r] = Append(@, [op |-> Head(todo[r]).op,
                    meta |-> IF Op(r) = "break" THEN Metadata(r) ELSE index[r], result |-> "done"])]
      /\ todo' = [todo EXCEPT ![r] = Tail(todo[r])]
  BY DEF RunKernel, Ran, Advance
<1>3. /\ TypeInv /\ CallsInv /\ PassInv(r) /\ WaitInv(r) /\ CaptureInv(r) /\ EntriesInv(r)
      /\ RanInv(r)
  BY <1>1 DEF Inv, RankInv
<1>4. /\ Pos(r) + 1 \in 1 .. N /\ Head(todo[r]).op = Pos(r) + 1
      /\ Head(todo[r]).graph = Flag(r, Pos(r) + 1) /\ Op(r) = Program[Pos(r) + 1]
      /\ index[r] \in Nat /\ bufferOf[r] \in Nat /\ N \in Nat
  BY <1>1, <1>3, Places DEF TypeInv
<1>5. PICK m \in Nat : /\ m = IF Op(r) = "break" THEN Metadata(r) ELSE index[r]
                       /\ m = index[r]
  <2>1. ASSUME Op(r) = "break" PROVE Metadata(r) = index[r]
    <3>1. Metadata(r) = IF Flag(r, Pos(r) + 1) THEN bufferOf[r] ELSE index[r]
      BY <1>4 DEF Metadata
    <3>2. ASSUME Flag(r, Pos(r) + 1) PROVE bufferOf[r] = index[r]
      <4>1. how[r] = "replay" /\ GraphModes[Call(r).desc] = "FULL"
        BY <1>4, <2>1, <3>2 DEF Flag, InGraph
      <4> QED BY <1>3, <4>1 DEF PassInv
    <3> QED BY <3>1, <3>2
  <2> QED BY <1>4, <2>1
<1>6. PICK e : e = [op |-> Pos(r) + 1, meta |-> index[r], result |-> "done"]
  OBVIOUS
<1>7. ran' = [ran EXCEPT ![r] = Append(@, e)]
  BY <1>2, <1>4, <1>5, <1>6
<1>8. ran[r] \in Seq(RanType) /\ e \in RanType /\ ran'[r] = Append(ran[r], e)
  <2>1. ran \in [Rank -> Seq(RanType)]
    BY <1>3 DEF TypeInv
  <2>2. e \in RanType
    BY <1>4, <1>6 DEF RanType
  <2> QED BY <1>7, <2>1, <2>2
<1>9. todo'[r] = Tail(todo[r]) /\ todo'[r] \in Seq(StepType)
  <2>1. todo \in [Rank -> Seq(StepType)]
    BY <1>3 DEF TypeInv
  <2>2. todo'[r] = Tail(todo[r])
    BY <1>2, <2>1
  <2> QED BY <1>1, <1>3, <2>2, Advances DEF Call
<1>10. OnlyRank(r)
  BY <1>1, <1>2, <1>3, <1>7, <1>8, <1>9 DEF OnlyRank, TypeInv
<1>11. RankType(r)
  BY <1>1, <1>3, <1>8, <1>9 DEF RankType, TypeInv
<1>12. /\ PassInv(r)' /\ EntriesInv(r)' /\ Pos(r)' = Pos(r) + 1 /\ (Past(r)' <=> Past(r))
       /\ ~Blocks(index[r], Pos(r) + 1) => SamePassed(r)
  BY <1>1, <1>3, <1>9, Moved
<1>13. Program[Pos(r) + 1] \notin Collectives
  BY <1>1, <1>4, ProgramType
<1>14. SamePassed(r)
  BY <1>12, <1>13 DEF Blocks, Meets
<1>15. RanInv(r)'
  <2>1. Result(Pos(r) + 1) = "done"
    BY <1>13 DEF Result
  <2> QED BY <1>1, <1>3, <1>6, <1>8, <1>12, <2>1, RanOn
<1>16. WaitInv(r)' /\ CaptureInv(r)'
  BY <1>1, <1>3 DEF WaitInv, CaptureInv
<1>17. CallsGrow /\ CallsInv' /\ calls' \in Seq(CallType)
  BY <1>1, <1>3, CallsSame
<1>18. TypeInv' /\ \A q \in Rank \ {r} : Same(q)
  BY <1>3, <1>10, <1>11, <1>17, OnlyRankSame, OnlyRankType
<1>19. RankInv(r)'
  BY <1>12, <1>15, <1>16 DEF RankInv
<1> QED BY <1>1, <1>12, <1>14, <1>17, <1>18, <1>19, OneRank DEF Alive

LEMMA CallFails ==
  ASSUME TypeInv, NEW r \in Rank, PassInv(r), how[r] # "idle", Call(r).fails # {}
  PROVE  \E i \in 1 .. Len(calls) : calls[i].fails # {}
BY Places DEF Call

LEMMA InvEnter == ASSUME Inv, NEW r \in Rank, EnterCollective(r) PROVE Inv'
<1>1. /\ how[r] \in {"eager", "replay"} /\ todo[r] # <<>> /\ waiting[r] = "none"
      /\ Op(r) \in Collectives /\ Alive(r)
      /\ UNCHANGED <<calls, index, inBreak, capture, entries, bufferOf, redirect>>
  BY DEF EnterCollective, Launching, Alive
<1>2. /\ TypeInv /\ CallsInv /\ PassInv(r) /\ WaitInv(r) /\ CaptureInv(r) /\ EntriesInv(r)
      /\ RanInv(r)
  BY <1>1 DEF Inv, RankInv
<1>3. /\ Pos(r) + 1 \in 1 .. N /\ Head(todo[r]).op = Pos(r) + 1 /\ Op(r) = Program[Pos(r) + 1]
      /\ index[r] \in 1 .. Len(calls) /\ Call(r) \in CallType /\ N \in Nat
  BY <1>1, <1>2, Places
<1>4. /\ redirect[r] \in BOOLEAN /\ (redirect[r] <=> index[r] = 1)
      /\ Call(r).phase \in {"profile", "serve"} /\ (Call(r).phase = "profile" <=> index[r] = 1)
      /\ how[r] # "barrier"
  BY <1>1, <1>2, <1>3 DEF TypeInv, PassInv, CallsInv, CallOk, Call
<1>5. /\ Fails(r) => Backend(r, Op(r)) = "xccl" /\ Call(r).fails # {}
      /\ Backend(r, Op(r)) = "xccl" <=> ~redirect[r]
      /\ Backend(r, Op(r)) \in {"none", "xccl", "gloo"}
      /\ AfterFailure(Op(r)) \in {"gloo", "raise"}
  BY <1>4 DEF Fails, Backend, AfterFailure
<1>6. CallsGrow /\ CallsInv' /\ calls' \in Seq(CallType)
  BY <1>1, <1>2, CallsSame
<1>7. CASE how' = [how EXCEPT ![r] = "dead"] /\ UNCHANGED <<waiting, ran, todo>> /\ Fails(r)
  <2>1. how'[r] = "dead"
    BY <1>2, <1>7 DEF TypeInv
  <2>2. OnlyRank(r)
    BY <1>1, <1>2, <1>7, <2>1 DEF OnlyRank, TypeInv
  <2>3. RankType(r)
    BY <1>1, <1>2, <1>7, <2>1 DEF RankType, TypeInv
  <2>4. TypeInv' /\ \A q \in Rank \ {r} : Same(q)
    BY <1>2, <1>6, <2>2, <2>3, OnlyRankSame, OnlyRankType
  <2>5. waiting'[r] = "none" /\ ~Alive(r)' /\ \E i \in 1 .. Len(calls) : calls[i].fails # {}
    BY <1>1, <1>2, <1>5, <1>7, <2>1, CallFails DEF Alive
  <2>6. ~inBreak'[r]
    BY <1>1, <1>2 DEF CaptureInv
  <2> QED BY <1>1, <1>6, <2>4, <2>5, <2>6, OneRank
<1>8. ASSUME NEW b \in {"xccl", "gloo"}, waiting' = [waiting EXCEPT ![r] = b],
             UNCHANGED <<how, ran, todo>>, Blocks(index[r], Pos(r) + 1),
             b = Backend(r, Op(r)) \/ Call(r).fails # {}
      PROVE  Inv'
  <2>1. waiting'[r] = b /\ b \in Backends
    BY <1>2, <1>8 DEF TypeInv, Backends
  <2>2. OnlyRank(r)
    BY <1>1, <1>2, <1>8, <2>1 DEF OnlyRank, TypeInv
  <2>3. RankType(r)
    BY <1>1, <1>2, <1>8, <2>1 DEF RankType, TypeInv
  <2>4. TypeInv' /\ \A q \in Rank \ {r} : Same(q)
    BY <1>2, <1>6, <2>2, <2>3, OnlyRankSame, OnlyRankType
  <2>5. PassInv(r)'
    BY <1>1, <1>2, <1>4, <1>8, <2>1 DEF PassInv, Pos, Todo, Flag, Call
  <2>6. WaitInv(r)'
    BY <1>1, <1>2, <1>3, <1>8, <2>1 DEF WaitInv, Blocks, Pos, Backend, Call
  <2>7. CaptureInv(r)' /\ EntriesInv(r)' /\ RanInv(r)'
    BY <1>1, <1>2, <1>8 DEF CaptureInv, EntriesInv, RanInv, CapturedBy, Pos, Call
  <2>8. SamePassed(r) /\ (Past(r)' <=> Past(r)) /\ Alive(r)'
    BY <1>1, <1>2, <1>8, SamePassedFrame DEF Past, Alive
  <2> QED BY <1>1, <1>6, <2>4, <2>5, <2>6, <2>7, <2>8, OneRank DEF RankInv
<1>9. CASE /\ waiting' = [waiting EXCEPT ![r] = "gloo"] /\ UNCHANGED <<how, ran, todo>>
           /\ Fails(r) /\ AfterFailure(Op(r)) = "gloo"
  <2>1. Blocks(index[r], Pos(r) + 1)
    BY <1>1, <1>3, <1>4, <1>5, <1>9 DEF Blocks, Meets, Call
  <2> QED BY <1>5, <1>8, <1>9, <2>1
<1>10. CASE /\ waiting' = [waiting EXCEPT ![r] = Backend(r, Op(r))] /\ UNCHANGED <<how, ran, todo>>
            /\ Backend(r, Op(r)) # "none"
  <2>1. Blocks(index[r], Pos(r) + 1)
    BY <1>1, <1>3, <1>4, <1>10 DEF Blocks, Meets, Call, Backend
  <2> QED BY <1>5, <1>8, <1>10, <2>1
<1>11. CASE Ran(r, index[r], "own part") /\ Advance(r) /\ UNCHANGED <<how, waiting>>
            /\ Backend(r, Op(r)) = "none"
  <2>1. PICK e : e = [op |-> Pos(r) + 1, meta |-> index[r], result |-> "own part"]
    OBVIOUS
  <2>2. ran' = [ran EXCEPT ![r] = Append(@, e)] /\ todo' = [todo EXCEPT ![r] = Tail(@)]
    BY <1>3, <1>11, <2>1 DEF Ran, Advance
  <2>3. e \in RanType
    <3>1. Pos(r) + 1 \in 1 .. N /\ index[r] \in Nat
      BY <1>2, <1>3 DEF TypeInv
    <3> QED BY <2>1, <3>1 DEF RanType
  <2>4. /\ ran'[r] \in Seq(RanType) /\ ran' = [ran EXCEPT ![r] = ran'[r]]
        /\ todo'[r] = Tail(todo[r]) /\ todo' = [todo EXCEPT ![r] = todo'[r]]
    <3>1. ran \in [Rank -> Seq(RanType)] /\ todo \in [Rank -> Seq(StepType)]
      BY <1>2 DEF TypeInv
    <3> QED BY <2>2, <2>3, <3>1
  <2>5. todo'[r] \in Seq(StepType)
    BY <1>1, <1>2, <1>11, <2>4, Advances DEF Call
  <2>6. OnlyRank(r)
    BY <1>1, <1>2, <1>11, <2>4 DEF OnlyRank, TypeInv
  <2>7. RankType(r)
    BY <1>1, <1>2, <1>11, <2>4, <2>5 DEF RankType, TypeInv
  <2>8. TypeInv' /\ \A q \in Rank \ {r} : Same(q)
    BY <1>2, <1>6, <2>6, <2>7, OnlyRankSame, OnlyRankType
  <2>9. /\ PassInv(r)' /\ EntriesInv(r)' /\ Pos(r)' = Pos(r) + 1 /\ (Past(r)' <=> Past(r))
        /\ ~Blocks(index[r], Pos(r) + 1) => SamePassed(r)
    BY <1>1, <1>2, <1>11, <2>4, Moved
  <2>10. Call(r).phase = "profile" /\ Program[Pos(r) + 1] \notin {"all_reduce_", "communicator"}
    BY <1>3, <1>4, <1>11 DEF Backend
  <2>11. SamePassed(r) /\ RanInv(r)'
    BY <1>1, <1>2, <2>9, <2>10 DEF Blocks, Meets, Call, RanInv
  <2>12. WaitInv(r)' /\ CaptureInv(r)' /\ Alive(r)'
    BY <1>1, <1>2, <1>11 DEF WaitInv, CaptureInv, Alive
  <2> QED BY <1>1, <1>6, <2>8, <2>9, <2>11, <2>12, OneRank DEF RankInv
<1>12. \/ how' = [how EXCEPT ![r] = "dead"] /\ UNCHANGED <<waiting, ran, todo>> /\ Fails(r)
       \/ /\ waiting' = [waiting EXCEPT ![r] = "gloo"] /\ UNCHANGED <<how, ran, todo>>
          /\ Fails(r) /\ AfterFailure(Op(r)) = "gloo"
       \/ /\ waiting' = [waiting EXCEPT ![r] = Backend(r, Op(r))] /\ UNCHANGED <<how, ran, todo>>
          /\ Backend(r, Op(r)) # "none"
       \/ /\ Ran(r, index[r], "own part") /\ Advance(r) /\ UNCHANGED <<how, waiting>>
          /\ Backend(r, Op(r)) = "none"
  <2>1. CASE Fails(r) /\ AfterFailure(Op(r)) = "raise"
    BY <1>5, <2>1 DEF EnterCollective
  <2>2. CASE Fails(r) /\ AfterFailure(Op(r)) = "gloo"
    BY <1>5, <2>2 DEF EnterCollective
  <2>3. CASE ~Fails(r) /\ Backend(r, Op(r)) = "none"
    BY <1>5, <2>3 DEF EnterCollective
  <2>4. CASE ~Fails(r) /\ Backend(r, Op(r)) # "none"
    BY <1>5, <2>4 DEF EnterCollective
  <2> QED BY <1>5, <2>1, <2>2, <2>3, <2>4
<1> QED BY <1>7, <1>9, <1>10, <1>11, <1>12

\* A rank that waits is never left behind, unless a call has failed.
LEMMA GivesUpOnFailure ==
  ASSUME Inv, NEW r \in Rank, waiting[r] # "none", GivesUp(r)
  PROVE  \E i \in 1 .. Len(calls) : calls[i].fails # {}
<1>1. /\ TypeInv /\ CallsInv /\ Together /\ BarrierInv /\ DiesOfFailuresOnly
      /\ \A q \in Rank : Alive(q) => PassInv(q) /\ WaitInv(q)
      /\ \A q \in Rank : ~Alive(q) => waiting[q] = "none"
  BY DEF Inv, RankInv
<1>2. PICK q \in Rank : \/ how[q] = "dead" \/ waiting[q] \notin {"none", waiting[r]}
                        \/ index[q] > index[r] \/ (index[q] = index[r] /\ how[q] = "idle")
  BY DEF GivesUp
<1>3. CASE how[q] = "dead"
  BY <1>1, <1>3 DEF DiesOfFailuresOnly
<1> SUFFICES ASSUME Alive(q) PROVE \E i \in 1 .. Len(calls) : calls[i].fails # {}
  BY <1>3 DEF Alive
<1>4. Alive(r) /\ PassInv(r) /\ WaitInv(r) /\ PassInv(q) /\ WaitInv(q)
  BY <1>1
<1>5. /\ waiting[r] \in {"xccl", "gloo", "barrier"} /\ waiting[q] \in {"none", "xccl", "gloo", "barrier"}
      /\ index[r] \in Nat /\ index[q] \in Nat
  BY <1>1 DEF TypeInv, Backends
<1>6. CASE waiting[r] = "barrier"
  <2>1. how[r] = "barrier" /\ index[r] = 1
    BY <1>4, <1>6 DEF PassInv
  <2>2. ~Past(q)
    BY <1>1, <1>4, <2>1 DEF BarrierInv, Past
  <2>3. index[q] = 0 \/ (how[q] = "barrier" /\ index[q] = 1)
    BY <1>4, <1>5, <2>2 DEF Past, PassInv
  <2>4. waiting[q] # "none" => index[q] # 0
    BY <1>4, <1>5 DEF PassInv, WaitInv
  <2> QED BY <1>2, <1>4, <1>5, <1>6, <2>1, <2>3, <2>4 DEF PassInv, Alive
<1>7. CASE waiting[r] \in {"xccl", "gloo"}
  <2>1. PICK k : k = Pos(r) + 1
    OBVIOUS
  <2>2. /\ k \in 1 .. N /\ index[r] \in 1 .. Len(calls) /\ Pos(r) \in Nat
        /\ Blocks(index[r], k) /\ ~Passed(r, index[r], k)
        /\ how[r] \in {"eager", "replay"}
        /\ waiting[r] = Backend(r, Program[k]) \/ Call(r).fails # {}
    BY <1>1, <1>4, <1>7, <2>1, Places DEF WaitInv, Passed
  <2>3. ~Passed(q, index[r], k)
    BY <1>1, <1>4, <2>2 DEF Together
  <2>4. index[q] <= index[r] /\ ~(index[q] = index[r] /\ how[q] = "idle")
    <3>1. ASSUME index[q] = index[r], how[q] = "idle" PROVE Pos(q) = N
      BY <1>1, <1>4, <3>1, Places DEF PassInv
    <3>2. k <= N
      BY <2>2, ProgramType
    <3> QED BY <1>5, <2>3, <3>1, <3>2 DEF Passed
  <2>5. waiting[q] \notin {"none", waiting[r]}
    BY <1>2, <1>5, <2>4 DEF Alive
  <2>6. waiting[q] # "barrier"
    <3>1. Past(r)
      BY <2>2 DEF Past
    <3>2. how[q] # "barrier"
      BY <1>1, <1>4, <3>1 DEF BarrierInv, Past
    <3> QED BY <1>4, <3>2 DEF PassInv
  <2>7. waiting[q] \in {"xccl", "gloo"}
    BY <1>5, <2>5, <2>6
  <2>8. PICK j : j = Pos(q) + 1
    OBVIOUS
  <2>9. /\ j \in 1 .. N /\ index[q] \in 1 .. Len(calls) /\ Pos(q) \in Nat
        /\ Blocks(index[q], j) /\ ~Passed(q, index[q], j)
        /\ how[q] \in {"eager", "replay"}
        /\ waiting[q] = Backend(q, Program[j]) \/ Call(q).fails # {}
    BY <1>1, <1>4, <2>7, <2>8, Places DEF WaitInv, Passed
  <2>10. ~Passed(r, index[q], j)
    BY <1>1, <1>4, <2>9 DEF Together
  <2>11. index[r] = index[q] /\ k = j
    BY <1>5, <2>1, <2>2, <2>3, <2>4, <2>8, <2>9, <2>10 DEF Passed
  <2>12. redirect[r] = redirect[q]
    <3>1. (redirect[r] <=> redirect[q]) /\ redirect[r] \in BOOLEAN /\ redirect[q] \in BOOLEAN
      BY <1>1, <1>4, <2>2, <2>9, <2>11 DEF PassInv, TypeInv
    <3> QED BY <3>1, Zenon
  <2>13. Backend(r, Program[k]) = Backend(q, Program[j])
    BY <2>11, <2>12 DEF Backend
  <2>14. Call(r).fails # {} \/ Call(q).fails # {}
    BY <2>2, <2>5, <2>9, <2>13
  <2> QED BY <1>1, <1>4, <2>2, <2>9, <2>14, CallFails
<1> QED BY <1>5, <1>6, <1>7

LEMMA InvTimeout == ASSUME Inv, NEW r \in Rank, Timeout(r) PROVE Inv'
<1>1. /\ waiting[r] # "none" /\ GivesUp(r)
      /\ how' = [how EXCEPT ![r] = "dead"] /\ waiting' = [waiting EXCEPT ![r] = "none"]
      /\ UNCHANGED <<calls, index, todo, inBreak, ran, capture, entries, bufferOf, redirect>>
  BY DEF Timeout
<1>2. TypeInv /\ CallsInv /\ Alive(r)
  BY <1>1 DEF Inv
<1>3. how'[r] = "dead" /\ waiting'[r] = "none" /\ "none" \in Backends
  BY <1>1, <1>2 DEF TypeInv, Backends
<1>4. OnlyRank(r)
  BY <1>1, <1>2, <1>3 DEF OnlyRank, TypeInv
<1>5. RankType(r)
  BY <1>1, <1>2, <1>3 DEF RankType, TypeInv
<1>6. CallsGrow /\ CallsInv' /\ calls' \in Seq(CallType)
  BY <1>1, <1>2, CallsSame
<1>7. TypeInv' /\ \A q \in Rank \ {r} : Same(q)
  BY <1>2, <1>4, <1>5, <1>6, OnlyRankSame, OnlyRankType
<1>8. \E i \in 1 .. Len(calls) : calls[i].fails # {}
  BY <1>1, GivesUpOnFailure
<1>9. ~inBreak'[r]
  <2>1. how[r] # "capture" /\ CaptureInv(r)
    BY <1>1, <1>2 DEF Inv, RankInv, PassInv, WaitInv, TypeInv, Backends
  <2> QED BY <1>1, <2>1 DEF CaptureInv
<1> QED BY <1>2, <1>3, <1>6, <1>7, <1>8, <1>9, OneRank DEF Alive

-----------------------------------------------------------------------------
(* What a capture keeps.                                                   *)

LEMMA ConcatAppend ==
  ASSUME NEW s \in Seq(StepType), NEW g \in Seq(StepType), NEW e \in StepType
  PROVE  s \o Append(g, e) = Append(s \o g, e)
<1> DEFINE left  == s \o Append(g, e)
           right == Append(s \o g, e)
<1>1. /\ Len(s) \in Nat /\ Len(g) \in Nat /\ s \o g \in Seq(StepType)
      /\ Append(g, e) \in Seq(StepType) /\ left \in Seq(StepType) /\ right \in Seq(StepType)
      /\ Len(left) = Len(s) + Len(g) + 1 /\ Len(right) = Len(s) + Len(g) + 1
  OBVIOUS
<1>2. ASSUME NEW i \in 1 .. Len(left) PROVE left[i] = right[i]
  <2>1. CASE i \in 1 .. Len(s)
    BY <2>1
  <2>2. CASE i \in (Len(s) + 1) .. (Len(s) + Len(g))
    <3>1. i - Len(s) \in 1 .. Len(g) /\ i \in 1 .. Len(s \o g)
      BY <1>1, <2>2
    <3>2. left[i] = g[i - Len(s)]
      BY <1>1, <2>2, <3>1
    <3>3. right[i] = (s \o g)[i]
      BY <1>1, <3>1
    <3>4. (s \o g)[i] = g[i - Len(s)]
      BY <1>1, <2>2, <3>1
    <3> QED BY <3>2, <3>3, <3>4
  <2>3. CASE i = Len(s) + Len(g) + 1
    <3>1. i - Len(s) = Len(g) + 1 /\ i = Len(s \o g) + 1
      BY <1>1, <2>3
    <3>2. left[i] = e /\ right[i] = e
      BY <1>1, <2>3, <3>1
    <3> QED BY <3>2
  <2> QED BY <1>1, <2>1, <2>2, <2>3
<1> HIDE DEF left, right
<1>3. left = right
  BY <1>1, <1>2, SeqEqual
<1> QED BY <1>3 DEF left, right

LEMMA ConcatNothing ==
  ASSUME NEW S, NEW s \in Seq(S)
  PROVE  s \o <<>> = s
OBVIOUS

LEMMA StepTypes ==
  ASSUME NEW i \in 1 .. N, NEW b \in BOOLEAN
  PROVE  StepOf(i, b) \in StepType
BY DEF StepOf, StepType

LEMMA EnterIs == Enter \in CaptureType /\ Enter.active /\ Enter.capturing /\ Kept(Enter) = <<>>
<1>1. Enter = [active |-> TRUE, capturing |-> TRUE, graph |-> <<>>, steps |-> <<>>]
  <2>1. PICK c : c = [NoCapture EXCEPT !.active = TRUE]
    OBVIOUS
  <2>2. c = [active |-> TRUE, capturing |-> FALSE, graph |-> <<>>, steps |-> <<>>]
    BY <2>1, Zenon DEF NoCapture
  <2>3. Enter = [c EXCEPT !.capturing = TRUE, !.graph = <<>>]
    BY <2>1, Zenon DEF Enter, BeginSegment
  <2> QED BY <2>2, <2>3, Zenon
<1>2. <<>> \in Seq(StepType)
  OBVIOUS
<1>3. Enter \in CaptureType
  BY <1>1, <1>2, Zenon DEF CaptureType
<1>4. Enter.active /\ Enter.capturing /\ Enter.graph = <<>> /\ Enter.steps = <<>>
  BY <1>1
<1> QED BY <1>3, <1>4 DEF Kept

LEMMA RecordIs ==
  ASSUME NEW c \in CaptureType, NEW i \in 1 .. N
  PROVE  /\ Record(c, i) \in CaptureType
         /\ Record(c, i).active = c.active /\ Record(c, i).capturing = c.capturing
         /\ Kept(Record(c, i)) = Append(Kept(c), StepOf(i, TRUE))
<1>1. PICK e : e = StepOf(i, TRUE)
  OBVIOUS
<1>2. e \in StepType /\ c.graph \in Seq(StepType) /\ c.steps \in Seq(StepType)
  BY <1>1, StepTypes DEF CaptureType
<1>3. PICK g : g = Append(c.graph, e)
  OBVIOUS
<1>4. g \in Seq(StepType) /\ Record(c, i) = [c EXCEPT !.graph = g]
  <2>1. g \in Seq(StepType)
    BY <1>2, <1>3
  <2>2. Record(c, i) = [c EXCEPT !.graph = g]
    BY <1>1, <1>3, Zenon DEF Record
  <2> QED BY <2>1, <2>2
<1>5. /\ Record(c, i) \in CaptureType
      /\ Record(c, i).active = c.active /\ Record(c, i).capturing = c.capturing
      /\ Record(c, i).graph = g /\ Record(c, i).steps = c.steps
  BY <1>4 DEF CaptureType
<1>6. c.steps \o g = Append(c.steps \o c.graph, e)
  BY <1>2, <1>3, ConcatAppend, Zenon
<1> QED BY <1>1, <1>5, <1>6 DEF Kept

LEMMA EndSegmentIs ==
  ASSUME NEW c \in CaptureType, c.capturing
  PROVE  /\ EndSegment(c) \in CaptureType /\ EndSegment(c).active = c.active
         /\ ~EndSegment(c).capturing /\ EndSegment(c).graph = <<>>
         /\ EndSegment(c).steps = Kept(c) /\ Kept(EndSegment(c)) = Kept(c)
<1>1. c.graph \in Seq(StepType) /\ c.steps \in Seq(StepType) /\ <<>> \in Seq(StepType)
  BY DEF CaptureType
<1>2. PICK s : s = c.steps \o c.graph
  OBVIOUS
<1>3. s \in Seq(StepType) /\ EndSegment(c) = [c EXCEPT !.capturing = FALSE, !.graph = <<>>, !.steps = s]
  BY <1>1, <1>2 DEF EndSegment
<1>4. /\ EndSegment(c).active = c.active /\ EndSegment(c).capturing = FALSE
      /\ EndSegment(c).graph = <<>> /\ EndSegment(c).steps = s
  BY <1>3 DEF CaptureType
<1>5. EndSegment(c) \in CaptureType
  BY <1>1, <1>3, Zenon DEF CaptureType
<1>6. s \o <<>> = s
  BY <1>3, ConcatNothing
<1> QED BY <1>2, <1>4, <1>5, <1>6 DEF Kept

LEMMA AfterEagerIs ==
  ASSUME NEW c \in CaptureType, c.graph = <<>>, NEW i \in 1 .. N
  PROVE  /\ AfterEager(c, i) \in CaptureType /\ AfterEager(c, i).active = c.active
         /\ AfterEager(c, i).capturing
         /\ Kept(AfterEager(c, i)) = Append(Kept(c), StepOf(i, FALSE))
<1>1. PICK e : e = StepOf(i, FALSE)
  OBVIOUS
<1>2. e \in StepType /\ c.steps \in Seq(StepType) /\ <<>> \in Seq(StepType)
  BY <1>1, StepTypes DEF CaptureType
<1>3. PICK s : s = Append(c.steps, e)
  OBVIOUS
<1>4. PICK d : d = [c EXCEPT !.steps = s]
  OBVIOUS
<1>5. s \in Seq(StepType) /\ AfterEager(c, i) = [d EXCEPT !.capturing = TRUE, !.graph = <<>>]
  <2>1. s \in Seq(StepType)
    BY <1>2, <1>3
  <2>2. AfterEager(c, i) = [d EXCEPT !.capturing = TRUE, !.graph = <<>>]
    BY <1>1, <1>3, <1>4, Zenon DEF AfterEager, BeginSegment
  <2> QED BY <2>1, <2>2
<1>6. d \in CaptureType /\ d.active = c.active /\ d.steps = s
  BY <1>4, <1>5 DEF CaptureType
<1>7. /\ AfterEager(c, i).active = c.active /\ AfterEager(c, i).capturing = TRUE
      /\ AfterEager(c, i).graph = <<>> /\ AfterEager(c, i).steps = s
  BY <1>5, <1>6 DEF CaptureType
<1>8. AfterEager(c, i) \in CaptureType
  BY <1>2, <1>5, <1>6, Zenon DEF CaptureType
<1>9. s \o <<>> = s /\ c.steps \o <<>> = c.steps
  BY <1>2, <1>5, ConcatNothing
<1> QED BY <1>1, <1>3, <1>7, <1>8, <1>9 DEF Kept

LEMMA LeaveIs ==
  ASSUME NEW c \in CaptureType
  PROVE  Leave(c) \in CaptureType /\ (c.capturing => Leave(c).steps = Kept(c))
<1>1. PICK d : d = EndSegment(c)
  OBVIOUS
<1>2. d \in CaptureType /\ (c.capturing => d.steps = Kept(c))
  <2>1. CASE c.capturing
    BY <1>1, <2>1, EndSegmentIs
  <2>2. CASE ~c.capturing
    BY <1>1, <2>2 DEF EndSegment
  <2> QED BY <2>1, <2>2
<1>3. Leave(c) = [d EXCEPT !.active = FALSE]
  BY <1>1 DEF Leave
<1>4. Leave(c).steps = d.steps
  BY <1>2, <1>3 DEF CaptureType
<1>5. Leave(c) \in CaptureType
  BY <1>2, <1>3, Zenon DEF CaptureType
<1> QED BY <1>2, <1>4, <1>5
-----------------------------------------------------------------------------
(* The steps of a capture.                                                 *)

\* A capture that has kept the steps up to its position, and goes on by one.
LEMMA KeptOn ==
  ASSUME NEW c \in CaptureType, NEW d, NEW desc, NEW p \in Nat,
         Len(Kept(c)) = p,
         \A k \in 1 .. p : Kept(c)[k] = StepOf(k, InGraph(desc, k)),
         Kept(d) = Append(Kept(c), StepOf(p + 1, InGraph(desc, p + 1)))
  PROVE  /\ Len(Kept(d)) = p + 1
         /\ \A k \in 1 .. (p + 1) : Kept(d)[k] = StepOf(k, InGraph(desc, k))
<1>1. PICK s : s = Kept(c)
  OBVIOUS
<1>2. s \in Seq(StepType)
  <2>1. c.steps \in Seq(StepType) /\ c.graph \in Seq(StepType)
    BY DEF CaptureType
  <2> QED BY <1>1, <2>1 DEF Kept
<1>3. PICK e : e = StepOf(p + 1, InGraph(desc, p + 1))
  OBVIOUS
<1>4. Kept(d) = Append(s, e) /\ Len(s) = p /\ \A k \in 1 .. p : s[k] = StepOf(k, InGraph(desc, k))
  BY <1>1, <1>3
<1>5. /\ Len(Append(s, e)) = p + 1 /\ Append(s, e)[p + 1] = e
      /\ \A k \in 1 .. p : Append(s, e)[k] = s[k]
  BY <1>2, <1>4
<1>6. ASSUME NEW k \in 1 .. (p + 1) PROVE Append(s, e)[k] = StepOf(k, InGraph(desc, k))
  <2>1. CASE k = p + 1
    BY <1>3, <1>5, <2>1
  <2>2. CASE k # p + 1
    <3>1. k \in 1 .. p
      BY <2>2
    <3> QED BY <1>4, <1>5, <3>1
  <2> QED BY <2>1, <2>2
<1> QED BY <1>4, <1>5, <1>6

\* What a rank that captures is doing.
LEMMA CapturingIs ==
  ASSUME Inv, NEW r \in Rank, how[r] = "capture", todo[r] # <<>>
  PROVE  /\ TypeInv /\ CallsInv /\ PassInv(r) /\ WaitInv(r) /\ CaptureInv(r) /\ EntriesInv(r)
         /\ RanInv(r) /\ Alive(r) /\ waiting[r] = "none" /\ redirect[r] = FALSE
         /\ Pos(r) \in Nat /\ Pos(r) + 1 \in 1 .. N /\ N \in Nat
         /\ Head(todo[r]).op = Pos(r) + 1 /\ Op(r) = Program[Pos(r) + 1]
         /\ index[r] \in 1 .. Len(calls) /\ Call(r).phase = "capture" /\ Call(r).desc \in Desc
         /\ Call(r).mode = GraphModes[Call(r).desc]
         /\ capture[r] \in CaptureType /\ capture[r].active
         /\ capture[r].capturing = ~inBreak[r] /\ inBreak[r] \in BOOLEAN
         /\ \A k \in 1 .. N : ~Blocks(index[r], k)
<1>1. Alive(r)
  BY DEF Alive
<1>2. /\ TypeInv /\ CallsInv /\ PassInv(r) /\ WaitInv(r) /\ CaptureInv(r) /\ EntriesInv(r)
      /\ RanInv(r)
  BY <1>1 DEF Inv, RankInv
<1>3. /\ Pos(r) \in Nat /\ Pos(r) + 1 \in 1 .. N /\ N \in Nat
      /\ Head(todo[r]).op = Pos(r) + 1 /\ Op(r) = Program[Pos(r) + 1]
      /\ index[r] \in 1 .. Len(calls)
  BY <1>2, Places
<1>4. Call(r).phase = "capture" /\ CallOk(index[r]) /\ Call(r) = calls[index[r]]
  BY <1>2, <1>3 DEF PassInv, CallsInv, Call
<1>5. Call(r).desc \in Desc /\ Call(r).mode = GraphModes[Call(r).desc] /\ index[r] # 1
  BY <1>4 DEF CallOk
<1>6. waiting[r] \in {"none", "xccl", "gloo", "barrier"} /\ redirect[r] \in BOOLEAN
      /\ capture[r] \in CaptureType /\ inBreak[r] \in BOOLEAN
  BY <1>2 DEF TypeInv, Backends
<1>7. waiting[r] = "none"
  BY <1>2, <1>6 DEF PassInv, WaitInv
<1>8. redirect[r] = FALSE
  BY <1>2, <1>5, <1>6 DEF PassInv
<1>9. capture[r].active /\ capture[r].capturing = ~inBreak[r]
  BY <1>2 DEF CaptureInv
<1>10. \A k \in 1 .. N : ~Blocks(index[r], k)
  BY <1>4 DEF Blocks, Meets
<1> QED BY <1>1, <1>2, <1>3, <1>4, <1>5, <1>6, <1>7, <1>8, <1>9, <1>10

\* The capture goes to the next operator, having kept a step for this one.
LEMMA InvCaptures ==
  ASSUME Inv, NEW r \in Rank, how[r] = "capture", todo[r] # <<>>,
         NEW c \in CaptureType, capture' = [capture EXCEPT ![r] = c],
         c.active, c.capturing,
         Kept(c) = Append(Kept(capture[r]), StepOf(Pos(r) + 1, InGraph(Call(r).desc, Pos(r) + 1))),
         Advance(r), inBreak' = [inBreak EXCEPT ![r] = FALSE],
         ran' = [ran EXCEPT ![r] = ran'[r]], ran'[r] \in Seq(RanType),
         UNCHANGED <<calls, index, how, entries, bufferOf, redirect, waiting>>
  PROVE  Inv'
<1>1. /\ TypeInv /\ CallsInv /\ PassInv(r) /\ WaitInv(r) /\ CaptureInv(r) /\ EntriesInv(r)
      /\ RanInv(r) /\ Alive(r) /\ waiting[r] = "none"
      /\ Pos(r) \in Nat /\ Pos(r) + 1 \in 1 .. N /\ index[r] \in 1 .. Len(calls)
      /\ Call(r).phase = "capture" /\ capture[r] \in CaptureType
      /\ ~Blocks(index[r], Pos(r) + 1)
  BY CapturingIs
<1>2. capture'[r] = c /\ inBreak'[r] = FALSE
  BY <1>1 DEF TypeInv
<1>3. todo'[r] = Tail(todo[r]) /\ todo' = [todo EXCEPT ![r] = todo'[r]]
  BY <1>1 DEF Advance, TypeInv
<1>4. todo'[r] \in Seq(StepType)
  BY <1>1, <1>3, Advances
<1>5. OnlyRank(r)
  BY <1>1, <1>2, <1>3 DEF OnlyRank, TypeInv
<1>6. RankType(r)
  BY <1>1, <1>2, <1>4 DEF RankType, TypeInv
<1>7. CallsGrow /\ CallsInv' /\ calls' \in Seq(CallType)
  BY <1>1, CallsSame
<1>8. TypeInv' /\ \A q \in Rank \ {r} : Same(q)
  BY <1>1, <1>5, <1>6, <1>7, OnlyRankSame, OnlyRankType
<1>9. PassInv(r)' /\ EntriesInv(r)' /\ Pos(r)' = Pos(r) + 1 /\ (Past(r)' <=> Past(r)) /\ SamePassed(r)
  BY <1>1, <1>3, Moved
<1>10. WaitInv(r)' /\ RanInv(r)' /\ Alive(r)'
  BY <1>1 DEF WaitInv, RanInv, Alive, Call
<1>11. CaptureInv(r)'
  <2>1. /\ Len(Kept(capture[r])) = Pos(r)
        /\ \A k \in 1 .. Pos(r) : Kept(capture[r])[k] = StepOf(k, InGraph(Call(r).desc, k))
    BY <1>1 DEF CaptureInv
  <2>2. PICK desc, p : desc = Call(r).desc /\ p = Pos(r)
    OBVIOUS
  <2>3. /\ Len(Kept(c)) = p + 1
        /\ \A k \in 1 .. (p + 1) : Kept(c)[k] = StepOf(k, InGraph(desc, k))
    BY <1>1, <2>1, <2>2, KeptOn
  <2>4. Call(r)'.desc = desc /\ Pos(r)' = p + 1
    BY <1>9, <2>2 DEF Call
  <2>5. /\ Len(Kept(c)) = Pos(r)'
        /\ \A k \in 1 .. Pos(r)' : Kept(c)[k] = StepOf(k, InGraph(Call(r)'.desc, k))
    BY <2>3, <2>4
  <2>6. capture'[r].active /\ capture'[r].capturing = ~inBreak'[r] /\ ~inBreak'[r]
    <3>1. c.capturing \in BOOLEAN
      BY DEF CaptureType
    <3>2. c.capturing = ~inBreak'[r]
      BY <1>2, <3>1, Zenon
    <3> QED BY <1>2, <3>2, Zenon
  <2> QED BY <1>2, <2>5, <2>6 DEF CaptureInv
<1> QED BY <1>1, <1>7, <1>8, <1>9, <1>10, <1>11, OneRank DEF RankInv

LEMMA InvRecords ==
  ASSUME Inv, NEW r \in Rank, Capturing(r), InGraph(Call(r).desc, Pos(r) + 1),
         capture' = [capture EXCEPT ![r] = Record(@, Head(todo[r]).op)], Advance(r),
         UNCHANGED <<calls, index, how, inBreak, ran, entries, bufferOf, redirect, waiting>>
  PROVE  Inv'
<1>1. how[r] = "capture" /\ todo[r] # <<>> /\ ~inBreak[r]
  BY DEF Capturing
<1>2. /\ TypeInv /\ Pos(r) + 1 \in 1 .. N /\ Head(todo[r]).op = Pos(r) + 1
      /\ capture[r] \in CaptureType /\ capture[r].active /\ capture[r].capturing = ~inBreak[r]
      /\ inBreak[r] \in BOOLEAN
  BY <1>1, CapturingIs
<1>3. PICK c : c = Record(capture[r], Pos(r) + 1)
  OBVIOUS
<1>4. /\ c \in CaptureType /\ c.active = capture[r].active /\ c.capturing = capture[r].capturing
      /\ Kept(c) = Append(Kept(capture[r]), StepOf(Pos(r) + 1, TRUE))
  BY <1>2, <1>3, RecordIs
<1>5. c.active /\ c.capturing
  BY <1>1, <1>2, <1>4
<1>6. InGraph(Call(r).desc, Pos(r) + 1) = TRUE
  BY Zenon DEF InGraph
<1>7. Kept(c) = Append(Kept(capture[r]), StepOf(Pos(r) + 1, InGraph(Call(r).desc, Pos(r) + 1)))
  BY <1>4, <1>6
<1>8. capture' = [capture EXCEPT ![r] = c]
  BY <1>2, <1>3
<1>9. inBreak' = [inBreak EXCEPT ![r] = FALSE]
  BY <1>1, <1>2 DEF TypeInv
<1>10. ran' = [ran EXCEPT ![r] = ran'[r]] /\ ran'[r] \in Seq(RanType)
  BY <1>2 DEF TypeInv
<1> QED BY <1>1, <1>4, <1>5, <1>7, <1>8, <1>9, <1>10, InvCaptures

LEMMA InvCaptureKernel == ASSUME Inv, NEW r \in Rank, CaptureKernel(r) PROVE Inv'
<1>1. /\ Capturing(r) /\ Op(r) \in {"kernel", "break"}
      /\ Op(r) = "break" => ~BreaksOut(capture[r], Call(r).mode)
      /\ capture' = [capture EXCEPT ![r] = Record(@, Head(todo[r]).op)] /\ Advance(r)
      /\ UNCHANGED <<calls, index, how, inBreak, ran, entries, bufferOf, redirect, waiting>>
  BY DEF CaptureKernel, collectiveVars
<1>2. how[r] = "capture" /\ todo[r] # <<>> /\ ~inBreak[r]
  BY <1>1 DEF Capturing
<1>3. /\ Op(r) = Program[Pos(r) + 1] /\ Call(r).mode = GraphModes[Call(r).desc]
      /\ capture[r].active /\ capture[r].capturing = ~inBreak[r]
  BY <1>2, CapturingIs
<1>4. InGraph(Call(r).desc, Pos(r) + 1)
  BY <1>1, <1>2, <1>3 DEF InGraph, BreaksOut
<1> QED BY <1>1, <1>4, InvRecords

LEMMA InvCaptureCollective == ASSUME Inv, NEW r \in Rank, CaptureCollective(r) PROVE Inv'
<1>1. Capturing(r) /\ Op(r) \in Collectives
  BY DEF CaptureCollective
<1>2. how[r] = "capture" /\ todo[r] # <<>> /\ ~inBreak[r]
  BY <1>1 DEF Capturing
<1>3. TypeInv /\ redirect[r] = FALSE /\ Op(r) = Program[Pos(r) + 1]
  BY <1>2, CapturingIs
<1>4. CaptureOutcome(r, Op(r)) = "record"
  BY <1>3 DEF CaptureOutcome, Backend
<1>5. /\ capture' = [capture EXCEPT ![r] = Record(@, Head(todo[r]).op)]
      /\ how' = [how EXCEPT ![r] = @] /\ Advance(r)
      /\ UNCHANGED <<calls, index, inBreak, ran, entries, bufferOf, redirect, waiting>>
  BY <1>4 DEF CaptureCollective, collectiveVars
<1>6. how' = how
  BY <1>3, <1>5 DEF TypeInv
<1>7. InGraph(Call(r).desc, Pos(r) + 1)
  BY <1>1, <1>3, ProgramType DEF InGraph
<1> QED BY <1>1, <1>5, <1>6, <1>7, InvRecords

LEMMA InvBeginBreak == ASSUME Inv, NEW r \in Rank, BeginBreak(r) PROVE Inv'
<1>1. /\ Capturing(r) /\ Op(r) = "break" /\ BreaksOut(capture[r], Call(r).mode)
      /\ capture' = [capture EXCEPT ![r] = EndSegment(capture[r])]
      /\ inBreak' = [inBreak EXCEPT ![r] = TRUE]
      /\ UNCHANGED <<calls, index, how, todo, ran, entries, bufferOf, redirect, waiting>>
  BY DEF BeginBreak, BeforeEager, collectiveVars
<1>2. how[r] = "capture" /\ todo[r] # <<>> /\ ~inBreak[r]
  BY <1>1 DEF Capturing
<1>3. /\ TypeInv /\ CallsInv /\ PassInv(r) /\ WaitInv(r) /\ CaptureInv(r) /\ EntriesInv(r)
      /\ RanInv(r) /\ Alive(r) /\ waiting[r] = "none"
      /\ Pos(r) \in Nat /\ Pos(r) + 1 \in 1 .. N /\ index[r] \in 1 .. Len(calls)
      /\ Op(r) = Program[Pos(r) + 1] /\ Call(r).phase = "capture" /\ capture[r] \in CaptureType
      /\ capture[r].active /\ capture[r].capturing = ~inBreak[r] /\ inBreak[r] \in BOOLEAN
  BY <1>2, CapturingIs
<1>4. PICK c : c = EndSegment(capture[r])
  OBVIOUS
<1>5. /\ c \in CaptureType /\ c.active = capture[r].active /\ ~c.capturing /\ c.graph = <<>>
      /\ Kept(c) = Kept(capture[r])
  BY <1>2, <1>3, <1>4, EndSegmentIs
<1>6. capture'[r] = c /\ inBreak'[r] = TRUE
  BY <1>1, <1>3, <1>4 DEF TypeInv
<1>7. OnlyRank(r)
  BY <1>1, <1>3, <1>6 DEF OnlyRank, TypeInv
<1>8. RankType(r)
  BY <1>1, <1>3, <1>5, <1>6 DEF RankType, TypeInv
<1>9. CallsGrow /\ CallsInv' /\ calls' \in Seq(CallType)
  BY <1>1, <1>3, CallsSame
<1>10. TypeInv' /\ \A q \in Rank \ {r} : Same(q)
  BY <1>3, <1>7, <1>8, <1>9, OnlyRankSame, OnlyRankType
<1>11. PassInv(r)'
  BY <1>1, <1>3 DEF PassInv, Pos, Todo, Flag, Call
<1>12. WaitInv(r)' /\ EntriesInv(r)' /\ RanInv(r)'
  BY <1>1, <1>3 DEF WaitInv, EntriesInv, CapturedBy, RanInv, Pos, Call
<1>13. Alive(r)' /\ (Past(r)' <=> Past(r)) /\ SamePassed(r)
  BY <1>1, <1>3, SamePassedFrame DEF Alive, Past
<1>14. CaptureInv(r)'
  <2>1. Pos(r)' = Pos(r) /\ Call(r)' = Call(r)
    BY <1>1 DEF Pos, N, Call
  <2>2. c.capturing = ~inBreak'[r]
    <3>1. c.capturing \in BOOLEAN
      BY <1>5 DEF CaptureType
    <3> QED BY <1>5, <1>6, <3>1, Zenon
  <2>3. inBreak'[r] => /\ how'[r] = "capture" /\ todo'[r] # <<>> /\ Program[Pos(r)' + 1] = "break"
                       /\ Call(r)'.mode # "FULL" /\ capture'[r].graph = <<>>
    BY <1>1, <1>2, <1>3, <1>5, <1>6, <2>1 DEF BreaksOut
  <2>4. /\ Len(Kept(c)) = Pos(r)'
        /\ \A k \in 1 .. Pos(r)' : Kept(c)[k] = StepOf(k, InGraph(Call(r)'.desc, k))
    BY <1>2, <1>3, <1>5, <2>1 DEF CaptureInv
  <2>5. c.active
    BY <1>3, <1>5
  <2> QED BY <1>6, <2>2, <2>3, <2>4, <2>5 DEF CaptureInv
<1> QED BY <1>3, <1>9, <1>10, <1>11, <1>12, <1>13, <1>14, OneRank DEF RankInv

LEMMA InvEndBreak == ASSUME Inv, NEW r \in Rank, EndBreak(r) PROVE Inv'
<1>1. /\ inBreak[r] /\ Ran(r, index[r], "done") /\ Advance(r)
      /\ capture' = [capture EXCEPT ![r] = AfterEager(@, Head(todo[r]).op)]
      /\ inBreak' = [inBreak EXCEPT ![r] = FALSE]
      /\ UNCHANGED <<calls, index, how, entries, bufferOf, redirect, waiting>>
  BY DEF EndBreak, collectiveVars
<1>2. how[r] = "capture" /\ todo[r] # <<>> /\ Program[Pos(r) + 1] = "break"
      /\ Call(r).mode # "FULL" /\ capture[r].graph = <<>>
  BY <1>1 DEF Inv, RankInv, CaptureInv
<1>3. /\ TypeInv /\ Pos(r) + 1 \in 1 .. N /\ Head(todo[r]).op = Pos(r) + 1 /\ index[r] \in Nat
      /\ Call(r).mode = GraphModes[Call(r).desc]
      /\ capture[r] \in CaptureType /\ capture[r].active
  <2>1. /\ TypeInv /\ Pos(r) + 1 \in 1 .. N /\ Head(todo[r]).op = Pos(r) + 1
        /\ Call(r).mode = GraphModes[Call(r).desc]
        /\ capture[r] \in CaptureType /\ capture[r].active
    BY <1>2, CapturingIs
  <2> QED BY <2>1 DEF TypeInv
<1>4. PICK c : c = AfterEager(capture[r], Pos(r) + 1)
  OBVIOUS
<1>5. /\ c \in CaptureType /\ c.active = capture[r].active /\ c.capturing
      /\ Kept(c) = Append(Kept(capture[r]), StepOf(Pos(r) + 1, FALSE))
  BY <1>2, <1>3, <1>4, AfterEagerIs
<1>6. InGraph(Call(r).desc, Pos(r) + 1) = FALSE
  <2>1. ~InGraph(Call(r).desc, Pos(r) + 1)
    BY <1>2, <1>3 DEF InGraph
  <2> QED BY <2>1, Zenon DEF InGraph
<1>7. Kept(c) = Append(Kept(capture[r]), StepOf(Pos(r) + 1, InGraph(Call(r).desc, Pos(r) + 1)))
  BY <1>5, <1>6
<1>8. capture' = [capture EXCEPT ![r] = c] /\ c.active
  BY <1>1, <1>3, <1>4, <1>5
<1>9. PICK e : e = [op |-> Pos(r) + 1, meta |-> index[r], result |-> "done"]
  OBVIOUS
<1>10. e \in RanType
  BY <1>3, <1>9 DEF RanType
<1>11. ran' = [ran EXCEPT ![r] = ran'[r]] /\ ran'[r] \in Seq(RanType)
  <2>1. ran \in [Rank -> Seq(RanType)]
    BY <1>3 DEF TypeInv
  <2>2. ran' = [ran EXCEPT ![r] = Append(@, e)]
    BY <1>1, <1>3, <1>9 DEF Ran
  <2> QED BY <1>10, <2>1, <2>2
<1> QED BY <1>1, <1>2, <1>5, <1>7, <1>8, <1>11, InvCaptures

-----------------------------------------------------------------------------
(* The pass returns.                                                       *)

LEMMA GraphStepsType ==
  ASSUME NEW d
  PROVE  /\ GraphSteps(d) \in Seq(StepType) /\ Len(GraphSteps(d)) = N /\ GraphSteps(d) # <<>>
         /\ \A k \in 1 .. N : GraphSteps(d)[k] = StepOf(k, InGraph(d, k))
<1>1. N \in Nat \ {0}
  BY ProgramType
<1>2. \A k \in 1 .. N : StepOf(k, InGraph(d, k)) \in StepType
  <2>1. \A k \in 1 .. N : InGraph(d, k) \in BOOLEAN
    BY DEF InGraph
  <2> QED BY <2>1, StepTypes
<1>3. /\ GraphSteps(d) \in Seq(StepType) /\ Len(GraphSteps(d)) = N
      /\ \A k \in 1 .. N : GraphSteps(d)[k] = StepOf(k, InGraph(d, k))
  BY <1>1, <1>2 DEF GraphSteps
<1> QED BY <1>1, <1>3, EmptySeq

\* A capture that has come to the end of the pass has kept the graph.
LEMMA CaptureEnds ==
  ASSUME Inv, NEW r \in Rank, how[r] = "capture", todo[r] = <<>>
  PROVE  Leave(capture[r]) \in CaptureType /\ Leave(capture[r]).steps = GraphSteps(Call(r).desc)
<1>1. TypeInv /\ PassInv(r) /\ CaptureInv(r)
  BY DEF Inv, RankInv, Alive
<1>2. Pos(r) = N /\ N \in Nat
  BY <1>1, Places
<1>3. capture[r] \in CaptureType /\ capture[r].capturing
  <2>1. ~inBreak[r] /\ capture[r].capturing = ~inBreak[r] /\ capture[r] \in CaptureType
    BY <1>1 DEF CaptureInv, TypeInv
  <2> QED BY <2>1
<1>4. Leave(capture[r]) \in CaptureType /\ Leave(capture[r]).steps = Kept(capture[r])
  BY <1>3, LeaveIs
<1>5. PICK s, g : s = Kept(capture[r]) /\ g = GraphSteps(Call(r).desc)
  OBVIOUS
<1>6. s \in Seq(StepType)
  <2>1. capture[r].steps \in Seq(StepType) /\ capture[r].graph \in Seq(StepType)
    BY <1>3 DEF CaptureType
  <2> QED BY <1>5, <2>1 DEF Kept
<1>7. Len(s) = N /\ \A k \in 1 .. N : s[k] = StepOf(k, InGraph(Call(r).desc, k))
  BY <1>1, <1>2, <1>5 DEF CaptureInv
<1>8. /\ g \in Seq(StepType) /\ Len(g) = N
      /\ \A k \in 1 .. N : g[k] = StepOf(k, InGraph(Call(r).desc, k))
  BY <1>5, GraphStepsType
<1>9. s = g
  <2>1. \A k \in 1 .. Len(s) : s[k] = g[k]
    BY <1>7, <1>8
  <2> QED BY <1>6, <1>7, <1>8, <2>1, SeqEqual
<1> QED BY <1>4, <1>5, <1>9

LEMMA InvFinish == ASSUME Inv, NEW r \in Rank, Finish(r) PROVE Inv'
<1>1. /\ how[r] \in {"eager", "replay", "capture"} /\ todo[r] = <<>>
      /\ how' = [how EXCEPT ![r] = "idle"]
      /\ redirect' = [redirect EXCEPT ![r] = AfterPass(r)]
      /\ capture' = [capture EXCEPT ![r] = IF how[r] = "capture" THEN Leave(@) ELSE @]
      /\ entries' = IF how[r] # "capture" THEN entries
                    ELSE [entries EXCEPT ![r][Call(r).desc] = Leave(capture[r]).steps]
      /\ UNCHANGED <<calls, index, todo, inBreak, ran, bufferOf, waiting>> /\ Alive(r)
  BY DEF Finish, Alive
<1>2. /\ TypeInv /\ CallsInv /\ PassInv(r) /\ WaitInv(r) /\ CaptureInv(r) /\ EntriesInv(r)
      /\ RanInv(r)
  BY <1>1 DEF Inv, RankInv
<1>3. index[r] \in 1 .. Len(calls) /\ Call(r) = calls[index[r]] /\ CallOk(index[r])
  BY <1>1, <1>2, Places DEF CallsInv, Call
<1>4. /\ Call(r).phase = "profile" <=> index[r] = 1
      /\ how[r] = "capture" => Call(r).phase = "capture" /\ Call(r).desc \in Desc
      /\ how[r] # "capture" => Call(r).phase # "capture"
  BY <1>1, <1>2, <1>3 DEF PassInv, CallOk
<1>5. how'[r] = "idle" /\ redirect'[r] = FALSE
  <2>1. how'[r] = "idle" /\ redirect'[r] = AfterPass(r)
    BY <1>1, <1>2 DEF TypeInv
  <2>2. ~AfterPass(r)
    BY <1>2, <1>4 DEF AfterPass, PassInv
  <2> QED BY <2>1, <2>2, Zenon DEF AfterPass
<1>6. capture' = [capture EXCEPT ![r] = capture'[r]] /\ capture'[r] \in CaptureType
  <2>1. capture \in [Rank -> CaptureType]
    BY <1>2 DEF TypeInv
  <2>2. CASE how[r] = "capture"
    BY <1>1, <2>1, <2>2, CaptureEnds
  <2>3. CASE how[r] # "capture"
    BY <1>1, <2>1, <2>3
  <2> QED BY <2>2, <2>3
<1>7. /\ entries' = [entries EXCEPT ![r] = entries'[r]]
      /\ entries'[r] \in [Desc -> Seq(StepType)]
      /\ \A d \in Desc : entries'[r][d] = IF how[r] = "capture" /\ d = Call(r).desc
                                          THEN GraphSteps(d) ELSE entries[r][d]
  <2>1. entries \in [Rank -> [Desc -> Seq(StepType)]]
    BY <1>2 DEF TypeInv
  <2>2. CASE how[r] = "capture"
    <3>1. PICK s : s = GraphSteps(Call(r).desc)
      OBVIOUS
    <3>2. entries' = [entries EXCEPT ![r][Call(r).desc] = s] /\ s \in Seq(StepType)
      BY <1>1, <2>2, <3>1, CaptureEnds, GraphStepsType
    <3>3. entries'[r] = [entries[r] EXCEPT ![Call(r).desc] = s]
      BY <2>1, <3>2
    <3>4. entries' = [entries EXCEPT ![r] = entries'[r]]
      BY <2>1, <3>2
    <3>5. entries'[r] \in [Desc -> Seq(StepType)]
      BY <2>1, <3>2, <3>3
    <3>6. \A d \in Desc : entries'[r][d] = IF d = Call(r).desc THEN s ELSE entries[r][d]
      BY <2>1, <3>3
    <3> QED BY <2>2, <3>1, <3>4, <3>5, <3>6
  <2>3. CASE how[r] # "capture"
    BY <1>1, <2>1, <2>3
  <2> QED BY <2>2, <2>3
<1>8. OnlyRank(r)
  BY <1>1, <1>2, <1>5, <1>6, <1>7 DEF OnlyRank, TypeInv
<1>9. RankType(r)
  BY <1>1, <1>2, <1>5, <1>6, <1>7 DEF RankType, TypeInv
<1>10. CallsGrow /\ CallsInv' /\ calls' \in Seq(CallType)
  BY <1>1, <1>2, CallsSame
<1>11. TypeInv' /\ \A q \in Rank \ {r} : Same(q)
  BY <1>2, <1>8, <1>9, <1>10, OnlyRankSame, OnlyRankType
<1>12. PassInv(r)'
  <2>1. Len(todo'[r]) = 0 /\ todo'[r] = <<>> /\ Len(todo'[r]) <= N
    BY <1>1, <1>2 DEF PassInv
  <2>2. \A j \in 1 .. Len(todo'[r]) : (todo[r][j] = Todo(r, Pos(r) + j))'
    BY <2>1
  <2>3. /\ index'[r] = 0 => how'[r] = "idle"
        /\ redirect'[r] <=> index'[r] = 1 /\ how'[r] # "idle"
        /\ how'[r] = "barrier" <=> waiting'[r] = "barrier"
    BY <1>1, <1>2, <1>5 DEF PassInv
  <2> QED BY <1>5, <2>1, <2>2, <2>3 DEF PassInv
<1>13. WaitInv(r)' /\ CaptureInv(r)' /\ RanInv(r)'
  BY <1>1, <1>2, <1>5 DEF WaitInv, CaptureInv, RanInv, Pos, Call
<1>14. EntriesInv(r)'
  <2>1. ASSUME NEW d \in Desc
        PROVE  CapturedBy(r, d)' <=> CapturedBy(r, d) \/ (how[r] = "capture" /\ d = Call(r).desc)
    <3>1. index[r] \in Nat /\ index[r] >= 1
      BY <1>3, <1>2 DEF TypeInv
    <3> QED BY <1>1, <1>3, <1>4, <1>5, <3>1 DEF CapturedBy
  <2> QED BY <1>2, <1>7, <2>1 DEF EntriesInv, GraphSteps, InGraph, StepOf, N
<1>15. Alive(r)' /\ (Past(r)' <=> Past(r)) /\ SamePassed(r)
  BY <1>1, <1>2, <1>5, SamePassedFrame DEF Alive, Past
<1> QED BY <1>1, <1>10, <1>11, <1>12, <1>13, <1>14, <1>15, OneRank DEF RankInv

-----------------------------------------------------------------------------
(* The passes, and how one starts.                                         *)

LEMMA NextCallType ==
  ASSUME NEW c \in NextCalls
  PROVE  /\ c \in CallType
         /\ c.phase = "profile" <=> calls = <<>>
         /\ c.phase = "profile" => c.mode = "NONE"
         /\ c.phase = "capture" => /\ c.desc \in Desc \ Captured /\ c.mode = GraphModes[c.desc]
         /\ c.phase = "serve" => /\ c.mode = "NONE" \/ (c.desc \in Desc /\ c.mode = GraphModes[c.desc])
                                 /\ Captured = Desc
<1>1. /\ {} \in SUBSET (Rank \X (1 .. N))
      /\ \A S \in SUBSET Rank, i \in CollectiveOps : S \X {i} \in SUBSET (Rank \X (1 .. N))
  BY DEF CollectiveOps, N
<1>2. \A d \in Desc : GraphModes[d] \in {"PIECEWISE", "FULL"}
  BY ForwardAssumption DEF Desc
<1>3. CASE calls = <<>>
  <2>1. c = [Eager EXCEPT !.phase = "profile"]
    BY <1>3 DEF NextCalls
  <2>2. c = [phase |-> "profile", desc |-> "eager", mode |-> "NONE", fails |-> {}]
    BY <2>1, Zenon DEF Eager
  <2>3. c.phase = "profile" /\ c.desc = "eager" /\ c.mode = "NONE" /\ c.fails = {}
    BY <2>2
  <2>4. c \in CallType
    BY <1>1, <2>2 DEF CallType
  <2> QED BY <1>3, <2>3, <2>4
<1>4. CASE calls # <<>> /\ Captured # Desc
  <2>1. PICK d \in Desc \ Captured :
               c = [phase |-> "capture", desc |-> d, mode |-> GraphModes[d], fails |-> {}]
    BY <1>4 DEF NextCalls
  <2>2. c.phase = "capture" /\ c.desc = d /\ c.mode = GraphModes[d]
    BY <2>1
  <2>3. c \in CallType
    BY <1>1, <1>2, <2>1 DEF CallType
  <2> QED BY <1>4, <2>2, <2>3
<1>5. CASE calls # <<>> /\ Captured = Desc
  <2>1. \/ \E d \in Desc : c = [phase |-> "serve", desc |-> d, mode |-> GraphModes[d], fails |-> {}]
        \/ \E S \in SUBSET Rank, i \in CollectiveOps : c = [Eager EXCEPT !.fails = S \X {i}]
    BY <1>5 DEF NextCalls
  <2>2. CASE \E d \in Desc : c = [phase |-> "serve", desc |-> d, mode |-> GraphModes[d], fails |-> {}]
    <3>1. PICK d \in Desc : c = [phase |-> "serve", desc |-> d, mode |-> GraphModes[d], fails |-> {}]
      BY <2>2
    <3>2. c.phase = "serve" /\ c.desc = d /\ c.mode = GraphModes[d]
      BY <3>1
    <3>3. c \in CallType
      BY <1>1, <1>2, <3>1 DEF CallType
    <3> QED BY <1>5, <3>2, <3>3
  <2>3. CASE \E S \in SUBSET Rank, i \in CollectiveOps : c = [Eager EXCEPT !.fails = S \X {i}]
    <3>1. PICK S \in SUBSET Rank, i \in CollectiveOps : c = [Eager EXCEPT !.fails = S \X {i}]
      BY <2>3
    <3>2. PICK f : f = S \X {i}
      OBVIOUS
    <3>3. c = [phase |-> "serve", desc |-> "eager", mode |-> "NONE", fails |-> f]
      BY <3>1, <3>2, Zenon DEF Eager
    <3>4. c.phase = "serve" /\ c.mode = "NONE"
      BY <3>3
    <3>5. f \in SUBSET (Rank \X (1 .. N))
      BY <1>1, <3>2
    <3>6. c \in CallType
      BY <3>3, <3>5 DEF CallType
    <3> QED BY <1>5, <3>4, <3>6
  <2> QED BY <2>1, <2>2, <2>3
<1> QED BY <1>3, <1>4, <1>5

\* The call a rank is about to start, issued now if it is the first to come to it.
LEMMA CallStarts ==
  ASSUME TypeInv, CallsInv, NEW r \in Rank,
         NEW c \in IF index[r] < Len(calls) THEN {calls[index[r] + 1]} ELSE NextCalls,
         calls' = IF index[r] < Len(calls) THEN calls ELSE Append(calls, c)
  PROVE  /\ calls' \in Seq(CallType) /\ CallsGrow /\ CallsInv'
         /\ index[r] \in Nat /\ index[r] + 1 \in 1 .. Len(calls') /\ calls'[index[r] + 1] = c
<1>1. /\ calls \in Seq(CallType) /\ Len(calls) \in Nat /\ index[r] \in Nat /\ index[r] <= Len(calls)
  BY DEF TypeInv
<1>2. CASE index[r] < Len(calls)
  <2>1. calls' = calls /\ c = calls[index[r] + 1]
    BY <1>2
  <2>2. index[r] + 1 \in 1 .. Len(calls')
    BY <1>1, <1>2, <2>1
  <2> QED BY <1>1, <2>1, <2>2, CallsSame
<1>3. CASE ~(index[r] < Len(calls))
  <2>1. calls' = Append(calls, c) /\ c \in NextCalls /\ index[r] = Len(calls)
    BY <1>1, <1>3
  <2>2. /\ c \in CallType
        /\ c.phase = "profile" <=> calls = <<>>
        /\ c.phase = "profile" => c.mode = "NONE"
        /\ c.phase = "capture" => /\ c.desc \in Desc \ Captured /\ c.mode = GraphModes[c.desc]
        /\ c.phase = "serve" => /\ c.mode = "NONE" \/ (c.desc \in Desc /\ c.mode = GraphModes[c.desc])
                                /\ Captured = Desc
    BY <2>1, NextCallType
  <2>3. /\ calls' \in Seq(CallType) /\ Len(calls') = Len(calls) + 1 /\ calls'[Len(calls) + 1] = c
        /\ \A i \in 1 .. Len(calls) : calls'[i] = calls[i]
    BY <1>1, <2>1, <2>2
  <2>4. ASSUME NEW i \in 1 .. Len(calls') PROVE CallOk(i)'
    <3>1. CASE i \in 1 .. Len(calls)
      <4>1. CallOk(i) /\ calls'[i] = calls[i]
        BY <2>3, <3>1 DEF CallsInv
      <4>2. \A j \in 1 .. (i - 1) : calls'[j] = calls[j]
        BY <1>1, <2>3, <3>1
      <4> QED BY <4>1, <4>2 DEF CallOk
    <3>2. CASE i = Len(calls) + 1
      <4>1. calls'[i] = c /\ \A j \in 1 .. (i - 1) : calls'[j] = calls[j] /\ j \in 1 .. Len(calls)
        BY <1>1, <2>3, <3>2
      <4>2. calls = <<>> <=> i = 1
        BY <1>1, <3>2, EmptySeq
      <4>3. c.phase = "capture" =>
              \A j \in 1 .. (i - 1) : calls[j].phase = "capture" => calls[j].desc # c.desc
        BY <2>2, <4>1 DEF Captured
      <4>4. c.phase = "serve" =>
              \A d \in Desc : \E j \in 1 .. (i - 1) : calls[j].phase = "capture" /\ calls[j].desc = d
        <5>1. i - 1 = Len(calls)
          BY <1>1, <3>2
        <5> QED BY <2>2, <5>1 DEF Captured
      <4> QED BY <2>2, <4>1, <4>2, <4>3, <4>4 DEF CallOk
    <3> QED BY <1>1, <2>3, <3>1, <3>2
  <2>5. CallsGrow
    BY <1>1, <2>3 DEF CallsGrow
  <2>6. index[r] + 1 \in 1 .. Len(calls')
    BY <1>1, <2>1, <2>3
  <2> QED BY <1>1, <2>1, <2>3, <2>4, <2>5, <2>6 DEF CallsInv
<1> QED BY <1>2, <1>3

LEMMA AllStepsType ==
  /\ AllSteps \in Seq(StepType) /\ Len(AllSteps) = N
  /\ \A k \in 1 .. N : AllSteps[k] = StepOf(k, FALSE)
<1>1. PICK b \in BOOLEAN : b = FALSE
  OBVIOUS
<1>2. N \in Nat \ {0} /\ \A k \in 1 .. N : StepOf(k, b) \in StepType
  BY ProgramType, StepTypes
<1>3. AllSteps = [k \in 1 .. N |-> StepOf(k, b)]
  BY <1>1 DEF AllSteps, N
<1>4. PICK s : s = [k \in 1 .. N |-> StepOf(k, b)]
  OBVIOUS
<1>5. s \in Seq(StepType) /\ Len(s) = N /\ \A k \in 1 .. N : s[k] = StepOf(k, b)
  BY <1>2, <1>4
<1> QED BY <1>1, <1>3, <1>4, <1>5

\* The ways a pass can start.
LEMMA HowItRuns ==
  ASSUME Inv, NEW r \in Rank, how[r] = "idle",
         NEW c \in IF index[r] < Len(calls) THEN {calls[index[r] + 1]} ELSE NextCalls,
         calls' = IF index[r] < Len(calls) THEN calls ELSE Append(calls, c)
  PROVE  /\ c.phase = "profile" <=> index[r] = 0
         /\ \/ c.phase = "profile" /\ c.mode = "NONE" /\ HowToRun(r, c) = "eager"
            \/ c.phase = "capture" /\ c.desc \in Desc /\ HowToRun(r, c) = "capture"
            \/ c.phase = "serve" /\ HowToRun(r, c) = "eager"
            \/ /\ c.phase = "serve" /\ HowToRun(r, c) = "replay" /\ c.desc \in Desc
               /\ c.mode = GraphModes[c.desc] /\ entries[r][c.desc] = GraphSteps(c.desc)
<1>1. TypeInv /\ CallsInv /\ EntriesInv(r)
  BY DEF Inv, Alive, RankInv
<1>2. /\ calls' \in Seq(CallType) /\ CallsGrow /\ CallsInv'
      /\ index[r] \in Nat /\ index[r] + 1 \in 1 .. Len(calls') /\ calls'[index[r] + 1] = c
  BY <1>1, CallStarts
<1>3. index[r] <= Len(calls) /\ Len(calls) \in Nat /\ c.phase \in {"profile", "capture", "serve"}
  <2>1. c \in CallType
    BY <1>2
  <2> QED BY <1>1, <2>1 DEF TypeInv, CallType
<1>4. \A j \in 1 .. index[r] : calls'[j] = calls[j]
  BY <1>2, <1>3 DEF CallsGrow
<1>5. PICK i : i = index[r] + 1
  OBVIOUS
<1>6. /\ c.phase = "profile" <=> index[r] = 0
      /\ c.phase = "profile" => c.mode = "NONE"
      /\ c.phase = "capture" =>
           /\ c.desc \in Desc /\ c.mode = GraphModes[c.desc]
           /\ \A j \in 1 .. index[r] : calls[j].phase = "capture" => calls[j].desc # c.desc
      /\ c.phase = "serve" =>
           /\ c.mode = "NONE" \/ (c.desc \in Desc /\ c.mode = GraphModes[c.desc])
           /\ \A d \in Desc : \E j \in 1 .. index[r] : calls[j].phase = "capture" /\ calls[j].desc = d
  <2>1. CallOk(i)'
    BY <1>2, <1>5 DEF CallsInv
  <2>2. calls'[i] = c /\ i - 1 = index[r] /\ (i = 1 <=> index[r] = 0)
    BY <1>2, <1>5
  <2>3. /\ c.phase = "profile" <=> i = 1
        /\ c.phase = "profile" => c.mode = "NONE"
        /\ c.phase = "capture" =>
             /\ c.desc \in Desc /\ c.mode = GraphModes[c.desc]
             /\ \A j \in 1 .. (i - 1) : calls'[j].phase = "capture" => calls'[j].desc # c.desc
        /\ c.phase = "serve" =>
             /\ c.mode = "NONE" \/ (c.desc \in Desc /\ c.mode = GraphModes[c.desc])
             /\ \A d \in Desc : \E j \in 1 .. (i - 1) : calls'[j].phase = "capture" /\ calls'[j].desc = d
    BY <2>1, <2>2 DEF CallOk
  <2>4. \A j \in 1 .. (i - 1) : j \in 1 .. index[r] /\ calls'[j] = calls[j]
    BY <1>4, <2>2
  <2>5. ASSUME c.phase = "serve", NEW d \in Desc
        PROVE  \E j \in 1 .. index[r] : calls[j].phase = "capture" /\ calls[j].desc = d
    <3>1. PICK j \in 1 .. (i - 1) : calls'[j].phase = "capture" /\ calls'[j].desc = d
      BY <2>3, <2>5
    <3> QED BY <2>4, <3>1
  <2> QED BY <2>2, <2>3, <2>4, <2>5
<1>7. CASE c.phase = "profile"
  BY <1>6, <1>7 DEF HowToRun
<1>8. CASE c.phase = "capture"
  <2>1. ~CapturedBy(r, c.desc)
    BY <1>6, <1>8 DEF CapturedBy
  <2>2. entries[r][c.desc] = <<>>
    BY <1>1, <1>6, <1>8, <2>1 DEF EntriesInv
  <2>3. c.mode # "NONE"
    BY <1>6, <1>8, ForwardAssumption DEF Desc
  <2> QED BY <1>6, <1>8, <2>2, <2>3 DEF HowToRun
<1>9. CASE c.phase = "serve"
  <2>1. CASE c.mode = "NONE"
    BY <1>6, <1>9, <2>1 DEF HowToRun
  <2>2. CASE c.mode # "NONE"
    <3>1. c.desc \in Desc /\ c.mode = GraphModes[c.desc] /\ CapturedBy(r, c.desc)
      BY <1>6, <1>9, <2>2 DEF CapturedBy
    <3>2. entries[r][c.desc] = GraphSteps(c.desc) /\ GraphSteps(c.desc) # <<>>
      BY <1>1, <3>1, GraphStepsType DEF EntriesInv
    <3> QED BY <1>6, <1>9, <2>2, <3>1, <3>2 DEF HowToRun
  <2> QED BY <2>1, <2>2
<1> QED BY <1>3, <1>6, <1>7, <1>8, <1>9

\* The rank has begun pass index'[r] in one of these ways.
LEMMA PassStarts ==
  ASSUME Inv, NEW r \in Rank, how[r] = "idle", NEW c, index[r] \in Nat,
         calls' \in Seq(CallType), CallsGrow, CallsInv', index[r] + 1 \in 1 .. Len(calls'),
         calls'[index[r] + 1] = c, index'[r] = index[r] + 1,
         inBreak'[r] = FALSE, ran'[r] = <<>>, entries'[r] = entries[r],
         c.phase = "profile" <=> index[r] = 0,
         redirect'[r] = (c.phase = "profile"),
         waiting'[r] = IF c.phase = "profile" THEN "barrier" ELSE "none",
         todo'[r] \in Seq(StepType), Len(todo'[r]) = N,
         \A k \in 1 .. N : todo'[r][k] = StepOf(k, how'[r] = "replay" /\ InGraph(c.desc, k)),
         \/ c.phase = "profile" /\ how'[r] = "barrier"
         \/ c.phase = "capture" /\ how'[r] = "capture" /\ capture'[r] = Enter
         \/ c.phase = "serve" /\ how'[r] = "eager"
         \/ /\ c.phase = "serve" /\ how'[r] = "replay" /\ c.desc \in Desc
            /\ c.mode = GraphModes[c.desc] /\ (c.mode = "FULL" => bufferOf'[r] = index'[r])
  PROVE  RankInv(r)' /\ SamePassed(r) /\ (Past(r)' <=> Past(r)) /\ Alive(r)'
<1>1. TypeInv /\ CallsInv /\ PassInv(r) /\ EntriesInv(r)
  BY DEF Inv, Alive, RankInv
<1>2. /\ Call(r)' = c /\ N \in Nat \ {0} /\ Pos(r)' = 0 /\ index'[r] # 0
      /\ index'[r] = 1 <=> index[r] = 0
  <2>1. Call(r)' = calls'[index'[r]]
    BY DEF Call
  <2>2. N \in Nat \ {0}
    BY ProgramType
  <2>3. Pos(r)' = N - Len(todo'[r])
    BY DEF Pos, N
  <2> QED BY <2>1, <2>2, <2>3
<1>3. PassInv(r)'
  <2>1. ASSUME NEW j \in 1 .. Len(todo'[r]) PROVE (todo[r][j] = Todo(r, Pos(r) + j))'
    <3>1. todo'[r][j] = StepOf(j, how'[r] = "replay" /\ InGraph(c.desc, j))
      BY <2>1
    <3>2. Pos(r)' + j = j
      BY <1>2, <2>1
    <3>3. Todo(r, j)' = StepOf(j, how'[r] = "replay" /\ InGraph(Call(r)'.desc, j))
      BY DEF Todo, Flag, StepOf
    <3> QED BY <1>2, <3>1, <3>2, <3>3 DEF Todo, Flag
  <2>2. /\ Len(todo'[r]) <= N
        /\ index'[r] = 0 => how'[r] = "idle"
        /\ redirect'[r] <=> index'[r] = 1 /\ how'[r] # "idle"
        /\ how'[r] = "idle" => todo'[r] = <<>>
        /\ how'[r] = "barrier" <=> waiting'[r] = "barrier"
        /\ how'[r] = "barrier" => index'[r] = 1 /\ ran'[r] = <<>> /\ Len(todo'[r]) = N
    <3>1. redirect'[r] <=> c.phase = "profile"
      BY Zenon
    <3>2. how'[r] # "idle" /\ (how'[r] = "barrier" <=> c.phase = "profile")
      OBVIOUS
    <3>3. (waiting'[r] = "barrier" <=> c.phase = "profile") /\ Len(todo'[r]) <= N
      BY <1>2
    <3> QED BY <1>2, <3>1, <3>2, <3>3
  <2>3. /\ how'[r] = "eager" => Call(r)'.phase \in {"profile", "serve"}
        /\ how'[r] = "capture" => Call(r)'.phase = "capture"
        /\ how'[r] = "replay" => /\ Call(r)'.phase = "serve" /\ Call(r)'.desc \in Desc
                                 /\ Call(r)'.mode = GraphModes[Call(r)'.desc]
                                 /\ Call(r)'.mode = "FULL" => bufferOf'[r] = index'[r]
    BY <1>2
  <2> QED BY <2>1, <2>2, <2>3 DEF PassInv
<1>4. WaitInv(r)'
  BY DEF WaitInv
<1>5. CaptureInv(r)'
  <2>1. how'[r] = "capture" => capture'[r] = Enter
    OBVIOUS
  <2>2. Enter.active /\ Enter.capturing = TRUE /\ Kept(Enter) = <<>>
    <3>1. Enter.active /\ Enter.capturing /\ Kept(Enter) = <<>> /\ Enter \in CaptureType
      BY EnterIs
    <3>2. Enter.capturing \in BOOLEAN
      BY <3>1 DEF CaptureType
    <3>3. Enter.capturing = TRUE
      BY <3>1, <3>2, Zenon
    <3> QED BY <3>1, <3>3
  <2>3. ASSUME how'[r] = "capture"
        PROVE  /\ capture'[r].active /\ capture'[r].capturing = TRUE
               /\ Kept(capture'[r]) = <<>> /\ Len(Kept(capture'[r])) = Pos(r)'
    BY <1>2, <2>1, <2>2, <2>3
  <2>4. \A k : k \notin 1 .. Pos(r)'
    BY <1>2
  <2>5. TRUE = ~inBreak'[r]
    BY Zenon
  <2> QED BY <2>3, <2>4, <2>5 DEF CaptureInv
<1>6. EntriesInv(r)'
  <2>1. \A j \in 1 .. index[r] : calls'[j] = calls[j]
    BY SMTT(30), <1>1 DEF CallsGrow, TypeInv
  <2>2. how'[r] # "idle"
    OBVIOUS
  <2>3. ASSUME NEW d \in Desc PROVE CapturedBy(r, d)' <=> CapturedBy(r, d)
    <3>1. CapturedBy(r, d) <=> \E i \in 1 .. index[r] : calls[i].phase = "capture" /\ calls[i].desc = d
      BY DEF CapturedBy
    <3>2. CapturedBy(r, d)' <=> \E i \in 1 .. index[r] : calls'[i].phase = "capture" /\ calls'[i].desc = d
      <4>1. \A i : i \in 1 .. index'[r] /\ i < index'[r] <=> i \in 1 .. index[r]
        OBVIOUS
      <4> QED BY <2>2, <4>1 DEF CapturedBy
    <3> QED BY <2>1, <3>1, <3>2
  <2> QED BY <1>1, <2>3 DEF EntriesInv, GraphSteps, InGraph, StepOf, N
<1>7. RanInv(r)'
  <2>1. Len(ran'[r]) = Pos(r)' /\ \A k : k \notin 1 .. Pos(r)'
    BY <1>2
  <2> QED BY <2>1 DEF RanInv
<1>8. SamePassed(r)
  <2>1. todo[r] = <<>> /\ Pos(r) = N /\ index[r] <= Len(calls) /\ Len(calls) \in Nat
    <3>1. todo[r] = <<>>
      BY <1>1 DEF PassInv
    <3>2. Pos(r) = N
      BY <1>1, <3>1, Places
    <3>3. index[r] <= Len(calls) /\ Len(calls) \in Nat
      BY <1>1 DEF TypeInv
    <3> QED BY <3>1, <3>2, <3>3
  <2>2. ASSUME NEW i \in 1 .. Len(calls'), NEW k \in 1 .. N
        PROVE  Passed(r, i, k)' <=> i <= Len(calls) /\ Passed(r, i, k)
    BY <1>2, <2>1 DEF Passed
  <2> QED BY <2>2 DEF SamePassed
<1>9. Past(r)' <=> Past(r)
  BY <1>2 DEF Past
<1> QED BY <1>3, <1>4, <1>5, <1>6, <1>7, <1>8, <1>9 DEF RankInv, Alive

LEMMA InvStart == ASSUME Inv, NEW r \in Rank, Start(r) PROVE Inv'
<1>1. PICK c \in IF index[r] < Len(calls) THEN {calls[index[r] + 1]} ELSE NextCalls :
        /\ calls' = IF index[r] < Len(calls) THEN calls ELSE Append(calls, c)
        /\ how' = [how EXCEPT ![r] = IF c.phase = "profile" THEN "barrier" ELSE HowToRun(r, c)]
        /\ redirect' = [redirect EXCEPT ![r] = @ \/ c.phase = "profile"]
        /\ capture' = [capture EXCEPT ![r] = IF HowToRun(r, c) = "capture" THEN Enter ELSE NoCapture]
        /\ todo' = [todo EXCEPT ![r] = IF HowToRun(r, c) = "replay" THEN entries[r][c.desc] ELSE AllSteps]
        /\ bufferOf' = [bufferOf EXCEPT ![r] = IF c.mode = "FULL" THEN index[r] + 1 ELSE @]
        /\ waiting' = [waiting EXCEPT ![r] = IF c.phase = "profile" THEN "barrier" ELSE "none"]
  BY DEF Start
<1>2. /\ how[r] = "idle" /\ index' = [index EXCEPT ![r] = @ + 1]
      /\ ran' = [ran EXCEPT ![r] = <<>>] /\ inBreak' = [inBreak EXCEPT ![r] = FALSE]
      /\ entries' = entries
  BY DEF Start
<1>3. TypeInv /\ CallsInv /\ PassInv(r) /\ Alive(r)
  BY <1>2 DEF Inv, RankInv, Alive
<1>4. /\ calls' \in Seq(CallType) /\ CallsGrow /\ CallsInv'
      /\ index[r] \in Nat /\ index[r] + 1 \in 1 .. Len(calls') /\ calls'[index[r] + 1] = c
  BY <1>1, <1>3, CallStarts
<1>5. /\ c.phase = "profile" <=> index[r] = 0
      /\ \/ c.phase = "profile" /\ c.mode = "NONE" /\ HowToRun(r, c) = "eager"
         \/ c.phase = "capture" /\ c.desc \in Desc /\ HowToRun(r, c) = "capture"
         \/ c.phase = "serve" /\ HowToRun(r, c) = "eager"
         \/ /\ c.phase = "serve" /\ HowToRun(r, c) = "replay" /\ c.desc \in Desc
            /\ c.mode = GraphModes[c.desc] /\ entries[r][c.desc] = GraphSteps(c.desc)
  BY <1>1, <1>2, HowItRuns
<1>6. index'[r] = index[r] + 1 /\ inBreak'[r] = FALSE /\ ran'[r] = <<>> /\ entries'[r] = entries[r]
  BY <1>2, <1>3 DEF TypeInv
<1>7. how'[r] = IF c.phase = "profile" THEN "barrier" ELSE HowToRun(r, c)
  BY <1>1, <1>3 DEF TypeInv
<1>8. redirect'[r] = (c.phase = "profile")
  <2>1. redirect'[r] = (redirect[r] \/ c.phase = "profile") /\ ~redirect[r]
    BY <1>1, <1>2, <1>3 DEF TypeInv, PassInv
  <2> QED BY <2>1, Zenon
<1>9. waiting'[r] = IF c.phase = "profile" THEN "barrier" ELSE "none"
  BY <1>1, <1>3 DEF TypeInv
<1>10. capture'[r] = IF HowToRun(r, c) = "capture" THEN Enter ELSE NoCapture
  BY <1>1, <1>3 DEF TypeInv
<1>11. bufferOf'[r] = IF c.mode = "FULL" THEN index[r] + 1 ELSE bufferOf[r]
  BY <1>1, <1>3 DEF TypeInv
<1>12. todo'[r] = IF HowToRun(r, c) = "replay" THEN entries[r][c.desc] ELSE AllSteps
  BY <1>1, <1>3 DEF TypeInv
<1>13. /\ todo'[r] \in Seq(StepType) /\ Len(todo'[r]) = N
       /\ \A k \in 1 .. N : todo'[r][k] = StepOf(k, how'[r] = "replay" /\ InGraph(c.desc, k))
  <2>1. CASE HowToRun(r, c) = "replay"
    <3>1. todo'[r] = GraphSteps(c.desc) /\ how'[r] = "replay"
      BY <1>5, <1>7, <1>12, <2>1
    <3>2. ASSUME NEW k \in 1 .. N
          PROVE  InGraph(c.desc, k) = (how'[r] = "replay" /\ InGraph(c.desc, k))
      BY <3>1, Zenon DEF InGraph
    <3>3. \A k \in 1 .. N : todo'[r][k] = StepOf(k, InGraph(c.desc, k))
      BY <3>1, GraphStepsType
    <3> QED BY <3>1, <3>2, <3>3, GraphStepsType
  <2>2. CASE HowToRun(r, c) # "replay"
    <3>1. todo'[r] = AllSteps /\ how'[r] # "replay"
      BY <1>5, <1>7, <1>12, <2>2
    <3>2. ASSUME NEW k \in 1 .. N
          PROVE  FALSE = (how'[r] = "replay" /\ InGraph(c.desc, k))
      BY <3>1, Zenon
    <3>3. \A k \in 1 .. N : todo'[r][k] = StepOf(k, FALSE)
      BY <3>1, AllStepsType
    <3> QED BY <3>1, <3>2, <3>3, AllStepsType
  <2> QED BY <2>1, <2>2
<1>14. \/ c.phase = "profile" /\ how'[r] = "barrier"
       \/ c.phase = "capture" /\ how'[r] = "capture" /\ capture'[r] = Enter
       \/ c.phase = "serve" /\ how'[r] = "eager"
       \/ /\ c.phase = "serve" /\ how'[r] = "replay" /\ c.desc \in Desc
          /\ c.mode = GraphModes[c.desc] /\ (c.mode = "FULL" => bufferOf'[r] = index'[r])
  BY <1>5, <1>6, <1>7, <1>10, <1>11
<1>15. RankInv(r)' /\ SamePassed(r) /\ (Past(r)' <=> Past(r)) /\ Alive(r)'
  BY <1>2, <1>4, <1>5, <1>6, <1>8, <1>9, <1>13, <1>14, PassStarts
<1>16. OnlyRank(r)
  <2>1. /\ index' = [index EXCEPT ![r] = index'[r]] /\ how' = [how EXCEPT ![r] = how'[r]]
        /\ todo' = [todo EXCEPT ![r] = todo'[r]] /\ inBreak' = [inBreak EXCEPT ![r] = inBreak'[r]]
    BY <1>1, <1>2, <1>3 DEF TypeInv
  <2>2. /\ ran' = [ran EXCEPT ![r] = ran'[r]] /\ capture' = [capture EXCEPT ![r] = capture'[r]]
        /\ entries' = [entries EXCEPT ![r] = entries'[r]]
    BY <1>1, <1>2, <1>3 DEF TypeInv
  <2>3. /\ bufferOf' = [bufferOf EXCEPT ![r] = bufferOf'[r]]
        /\ redirect' = [redirect EXCEPT ![r] = redirect'[r]]
        /\ waiting' = [waiting EXCEPT ![r] = waiting'[r]]
    BY <1>1, <1>2, <1>3 DEF TypeInv
  <2> QED BY <2>1, <2>2, <2>3 DEF OnlyRank
<1>17. RankType(r)
  <2>1. index'[r] \in Nat /\ index'[r] <= Len(calls')
    BY <1>4, <1>6
  <2>2. how'[r] \in {"idle", "barrier", "eager", "capture", "replay", "dead"}
    BY <1>14
  <2>3. ran'[r] \in Seq(RanType)
    BY <1>6
  <2>4. capture'[r] \in CaptureType
    <3>1. <<>> \in Seq(StepType)
      OBVIOUS
    <3>2. NoCapture \in CaptureType
      BY <3>1 DEF NoCapture, CaptureType
    <3> QED BY <1>10, <3>2, EnterIs
  <2>5. entries'[r] \in [Desc -> Seq(StepType)] /\ bufferOf'[r] \in Nat
    BY <1>3, <1>4, <1>6, <1>11 DEF TypeInv
  <2>6. redirect'[r] \in BOOLEAN /\ inBreak'[r] \in BOOLEAN
    BY <1>6, <1>8
  <2>7. waiting'[r] \in Backends
    BY <1>9 DEF Backends
  <2> QED BY <1>13, <2>1, <2>2, <2>3, <2>4, <2>5, <2>6, <2>7 DEF RankType
<1>18. TypeInv' /\ \A q \in Rank \ {r} : Same(q)
  BY <1>3, <1>4, <1>16, <1>17, OnlyRankSame, OnlyRankType
<1> QED BY <1>3, <1>4, <1>15, <1>18, OneRank

-----------------------------------------------------------------------------
(* Where all ranks meet.                                                   *)

LEMMA InvBarrier == ASSUME Inv, Barrier PROVE Inv'
<1>1. /\ \A r \in Rank : waiting[r] = "barrier"
      /\ waiting' = [r \in Rank |-> "none"] /\ how' = [r \in Rank |-> "eager"]
      /\ UNCHANGED <<calls, index, todo, inBreak, ran, capture, entries, bufferOf, redirect>>
  BY DEF Barrier, MeetAt
<1>2. TypeInv /\ CallsInv /\ Together
  BY DEF Inv
<1>3. \A r \in Rank : Alive(r) /\ RankInv(r)
  BY <1>1 DEF Inv
<1>4. TypeInv'
  BY <1>1, <1>2 DEF TypeInv, Backends
<1>5. CallsGrow /\ CallsInv'
  BY <1>1, <1>2, CallsSame
<1>6. ASSUME NEW r \in Rank PROVE RankInv(r)' /\ Past(r)' /\ SamePassed(r)
  <2>1. /\ PassInv(r) /\ CaptureInv(r) /\ EntriesInv(r) /\ RanInv(r)
        /\ how[r] = "barrier" /\ index[r] = 1 /\ how'[r] = "eager" /\ waiting'[r] = "none"
    BY <1>1, <1>3 DEF RankInv, PassInv
  <2>2. Call(r)' = Call(r) /\ Call(r).phase = "profile"
    BY <1>1, <1>2, <2>1, Places DEF Call, CallsInv, CallOk
  <2>3. PassInv(r)'
    <3>1. ASSUME NEW j \in 1 .. Len(todo'[r]) PROVE (todo[r][j] = Todo(r, Pos(r) + j))'
      <4>1. PICK k : k = Pos(r) + j
        OBVIOUS
      <4>2. todo[r][j] = Todo(r, k)
        BY <1>1, <2>1, <4>1 DEF PassInv
      <4>3. Flag(r, k)' = FALSE /\ Flag(r, k) = FALSE
        BY <2>1, Zenon DEF Flag
      <4>4. Todo(r, k)' = Todo(r, k)
        BY <4>3 DEF Todo, StepOf
      <4>5. Pos(r)' + j = k
        BY <1>1, <4>1 DEF Pos, N
      <4> QED BY <1>1, <4>2, <4>4, <4>5 DEF Todo, Flag
    <3> QED BY <1>1, <2>1, <2>2, <3>1 DEF PassInv
  <2>4. WaitInv(r)' /\ CaptureInv(r)' /\ RanInv(r)'
    BY <1>1, <2>1 DEF WaitInv, CaptureInv, RanInv, Pos, Call
  <2>5. EntriesInv(r)'
    BY <1>1, <2>1 DEF EntriesInv, CapturedBy
  <2>6. Past(r)' /\ SamePassed(r)
    BY <1>1, <1>2, <2>1, SamePassedFrame DEF Past
  <2> QED BY <2>3, <2>4, <2>5, <2>6 DEF RankInv
<1>7. Together'
  BY <1>2, <1>3, <1>5, <1>6, TogetherKept
<1>8. BarrierInv'
  BY <1>6 DEF BarrierInv
<1>9. \A r \in Rank : how'[r] # "dead"
  BY <1>1
<1>10. DiesOfFailuresOnly'
  BY <1>9 DEF DiesOfFailuresOnly
<1> QED BY <1>4, <1>5, <1>6, <1>7, <1>8, <1>9, <1>10 DEF Inv, Alive

\* Ranks that wait in a back end are at the same place.
LEMMA MeetSame ==
  ASSUME Inv, NEW r \in Rank, NEW q \in Rank,
         waiting[r] \in {"xccl", "gloo"}, waiting[q] \in {"xccl", "gloo"}
  PROVE  index[r] = index[q] /\ Pos(r) = Pos(q) /\ Head(todo[r]).op = Head(todo[q]).op
<1>1. /\ TypeInv /\ Together /\ Alive(r) /\ Alive(q)
      /\ PassInv(r) /\ WaitInv(r) /\ PassInv(q) /\ WaitInv(q)
  BY DEF Inv, RankInv
<1>2. PICK k, j : k = Pos(r) + 1 /\ j = Pos(q) + 1
  OBVIOUS
<1>3. /\ k \in 1 .. N /\ index[r] \in 1 .. Len(calls) /\ Pos(r) \in Nat /\ Head(todo[r]).op = k
      /\ Blocks(index[r], k) /\ ~Passed(r, index[r], k) /\ index[r] \in Nat
  BY <1>1, <1>2, Places DEF WaitInv, Passed
<1>4. /\ j \in 1 .. N /\ index[q] \in 1 .. Len(calls) /\ Pos(q) \in Nat /\ Head(todo[q]).op = j
      /\ Blocks(index[q], j) /\ ~Passed(q, index[q], j) /\ index[q] \in Nat
  BY <1>1, <1>2, Places DEF WaitInv, Passed
<1>5. ~Passed(q, index[r], k) /\ ~Passed(r, index[q], j)
  BY <1>1, <1>3, <1>4 DEF Together
<1>6. index[r] = index[q] /\ k = j
  BY <1>2, <1>3, <1>4, <1>5 DEF Passed
<1> QED BY <1>2, <1>3, <1>4, <1>6

LEMMA InvCommunicate ==
  ASSUME Inv, NEW backend \in {"xccl", "gloo"}, Communicate(backend)
  PROVE  Inv'
<1>1. /\ \A r \in Rank : waiting[r] = backend
      /\ waiting' = [r \in Rank |-> "none"]
      /\ todo' = [r \in Rank |-> Tail(todo[r])]
      /\ UNCHANGED <<calls, index, how, inBreak, capture, entries, bufferOf, redirect>>
  BY DEF Communicate, MeetAt
<1>2. /\ TypeInv /\ CallsInv /\ Together /\ BarrierInv /\ DiesOfFailuresOnly
      /\ \A r \in Rank : Alive(r) /\ RankInv(r)
  BY <1>1 DEF Inv
<1>3. SameCollective
  BY <1>1, MeetSame DEF SameCollective
<1>4. ran' = [r \in Rank |-> Append(ran[r], [op |-> Head(todo[r]).op, meta |-> index[r],
                                             result |-> "combined"])]
  BY <1>3 DEF Communicate
<1>5. CallsGrow /\ CallsInv' /\ calls' \in Seq(CallType)
  BY <1>1, <1>2, CallsSame
<1>6. ASSUME NEW r \in Rank
      PROVE  /\ ran'[r] \in Seq(RanType) /\ todo'[r] \in Seq(StepType)
             /\ RankInv(r)' /\ Pos(r)' = Pos(r) + 1
  <2>1. /\ PassInv(r) /\ WaitInv(r) /\ CaptureInv(r) /\ EntriesInv(r) /\ RanInv(r)
        /\ how[r] \in {"eager", "replay"} /\ todo[r] # <<>> /\ Program[Pos(r) + 1] \in Collectives
    BY <1>1, <1>2 DEF RankInv, WaitInv, Blocks, Meets
  <2>2. Pos(r) + 1 \in 1 .. N /\ Head(todo[r]).op = Pos(r) + 1 /\ index[r] \in Nat
    BY <1>2, <2>1, Places
  <2>3. todo'[r] = Tail(todo[r]) /\ waiting'[r] = "none"
    BY <1>1
  <2>4. todo'[r] \in Seq(StepType)
    BY <1>1, <1>2, <2>1, <2>3, Advances DEF Call
  <2>5. PICK e : e = [op |-> Pos(r) + 1, meta |-> index[r], result |-> "combined"]
    OBVIOUS
  <2>6. ran'[r] = Append(ran[r], e)
    BY <1>4, <2>2, <2>5
  <2>7. ran'[r] \in Seq(RanType)
    <3>1. ran[r] \in Seq(RanType)
      BY <1>2 DEF TypeInv
    <3>2. e \in RanType
      BY <2>2, <2>5 DEF RanType
    <3> QED BY <2>6, <3>1, <3>2
  <2>8. PassInv(r)' /\ EntriesInv(r)' /\ Pos(r)' = Pos(r) + 1
    BY <1>1, <1>2, <2>1, <2>3, Moved
  <2>9. RanInv(r)'
    <3>1. Result(Pos(r) + 1) = "combined"
      BY <2>1 DEF Result
    <3> QED BY <1>1, <1>2, <2>1, <2>5, <2>6, <2>8, <3>1, RanOn
  <2>10. WaitInv(r)' /\ CaptureInv(r)'
    BY <1>1, <2>1, <2>3 DEF WaitInv, CaptureInv
  <2> QED BY <2>4, <2>7, <2>8, <2>9, <2>10 DEF RankInv
<1>7. TypeInv'
  <2>1. ran' \in [Rank -> Seq(RanType)] /\ todo' \in [Rank -> Seq(StepType)]
    BY <1>1, <1>4, <1>6
  <2>2. waiting' \in [Rank -> Backends]
    BY <1>1 DEF Backends
  <2> QED BY <1>1, <1>2, <2>1, <2>2 DEF TypeInv
<1>8. Together'
  <2>1. ASSUME NEW r \in Rank, NEW q \in Rank PROVE index'[r] = index'[q] /\ Pos(r)' = Pos(q)'
    BY <1>1, <1>6, MeetSame
  <2> QED BY <2>1 DEF Together, Passed
<1>9. BarrierInv'
  BY <1>1, <1>2 DEF BarrierInv, Alive, Past
<1>10. DiesOfFailuresOnly'
  BY <1>1, <1>2 DEF DiesOfFailuresOnly, Alive
<1> QED BY <1>1, <1>2, <1>5, <1>6, <1>7, <1>8, <1>9, <1>10 DEF Inv, Alive

-----------------------------------------------------------------------------
(* The invariant, and what follows from it.                                *)

LEMMA InvInit == ASSUME Init PROVE Inv
<1>1. /\ calls = <<>> /\ index = [r \in Rank |-> 0] /\ how = [r \in Rank |-> "idle"]
      /\ todo = [r \in Rank |-> <<>>] /\ inBreak = [r \in Rank |-> FALSE] /\ ran = [r \in Rank |-> <<>>]
      /\ capture = [r \in Rank |-> NoCapture]
      /\ entries = [r \in Rank |-> [d \in Desc |-> <<>>]]
      /\ bufferOf = [r \in Rank |-> 0]
      /\ redirect = [r \in Rank |-> FALSE] /\ waiting = [r \in Rank |-> "none"]
  BY DEF Init, CollectivesInit
<1>2. <<>> \in Seq(StepType) /\ <<>> \in Seq(CallType) /\ <<>> \in Seq(RanType) /\ Len(calls) = 0
  BY <1>1
<1>3. NoCapture \in CaptureType
  BY <1>2 DEF NoCapture, CaptureType
<1>4. TypeInv
  BY <1>1, <1>2, <1>3 DEF TypeInv, Backends
<1>5. CallsInv
  BY <1>2 DEF CallsInv
<1>6. ASSUME NEW r \in Rank PROVE RankInv(r)
  <2>1. /\ index[r] = 0 /\ how[r] = "idle" /\ todo[r] = <<>> /\ inBreak[r] = FALSE
        /\ redirect[r] = FALSE /\ waiting[r] = "none" /\ entries[r] = [d \in Desc |-> <<>>]
        /\ Len(todo[r]) = 0 /\ N \in Nat
    BY <1>1, ProgramType
  <2>2. PassInv(r)
    BY <2>1 DEF PassInv
  <2>3. WaitInv(r) /\ CaptureInv(r) /\ RanInv(r)
    BY <2>1 DEF WaitInv, CaptureInv, RanInv
  <2>4. EntriesInv(r)
    BY <2>1 DEF EntriesInv, CapturedBy
  <2> QED BY <2>2, <2>3, <2>4 DEF RankInv
<1>7. Together
  BY <1>2 DEF Together
<1>8. BarrierInv
  BY <1>1 DEF BarrierInv, Past
<1>9. DiesOfFailuresOnly
  BY <1>1 DEF DiesOfFailuresOnly
<1> QED BY <1>1, <1>4, <1>5, <1>6, <1>7, <1>8, <1>9 DEF Inv, Alive

LEMMA InvNext == ASSUME Inv, [Next]_vars PROVE Inv'
<1>1. CASE UNCHANGED vars
  <2>1. UNCHANGED <<calls, index, how, todo, inBreak, ran, capture, entries, bufferOf, redirect, waiting>>
    BY <1>1 DEF vars, collectiveVars
  <2>2. TypeInv /\ CallsInv
    BY DEF Inv
  <2>3. CallsGrow /\ CallsInv' /\ TypeInv'
    BY <2>1, <2>2, CallsSame DEF TypeInv
  <2>4. ASSUME NEW r \in Rank PROVE /\ Alive(r)' => RankInv(r)' /\ Alive(r) /\ SamePassed(r)
                                    /\ ~Alive(r)' => waiting'[r] = "none" /\ ~inBreak'[r]
    BY <2>1, <2>2, <2>3, RankFrame, SamePassedFrame DEF Inv, Alive, Same
  <2>5. Together'
    BY <2>2, <2>3, <2>4, TogetherKept DEF Inv
  <2>6. BarrierInv' /\ DiesOfFailuresOnly'
    BY <2>1 DEF Inv, BarrierInv, DiesOfFailuresOnly, Alive, Past
  <2> QED BY <2>3, <2>4, <2>5, <2>6 DEF Inv
<1>2. CASE Meeting
  BY <1>2, InvBarrier, InvCommunicate DEF Meeting
<1>3. ASSUME NEW r \in Rank, Step(r) PROVE Inv'
  BY <1>3, InvStart, InvKernel, InvEnter, InvTimeout, InvCaptureKernel, InvCaptureCollective,
     InvBeginBreak, InvEndBreak, InvFinish DEF Step
<1> QED BY <1>1, <1>2, <1>3 DEF Next, Stopped

LEMMA AlwaysInv == Spec => []Inv
BY InvInit, InvNext, PTL DEF Spec

\* Ranks that meet in a back end are in the same call of the same pass, for any
\* number of ranks, any forward pass and any failures: a rank that has lost a
\* call to exhausted resources waits in gloo, or is gone (AfterFailure, _safe_wait).
THEOREM CallsMatch == Spec => []NeverMixed
<1>1. Inv => NeverMixed
  <2> SUFFICES ASSUME Inv, NEW backend \in {"xccl", "gloo"}, \A r \in Rank : waiting[r] = backend
               PROVE  SameCollective
    BY DEF NeverMixed, Backends
  <2> QED BY MeetSame DEF SameCollective
<1> QED BY <1>1, AlwaysInv, PTL

\* A served pass that returns has done what an eager pass does: every operator
\* once, in order, on the metadata of this pass, every collective combined over
\* all ranks, in whichever of the ways of HowToRun it ran.
THEOREM PassesCorrect == Spec => []PassExact
<1>1. ASSUME Inv PROVE PassExact
  <2> SUFFICES ASSUME NEW r \in Rank, Returned(r), Call(r).phase = "serve"
               PROVE  ran[r] = ExactPass(r)
    BY DEF PassExact
  <2>1. TypeInv /\ PassInv(r) /\ RanInv(r) /\ index[r] > 0 /\ how[r] = "idle"
    BY <1>1 DEF Inv, RankInv, Alive, Returned
  <2>2. Pos(r) = N /\ N \in Nat \ {0} /\ index[r] \in Nat
    BY <2>1, Places DEF PassInv
  <2>3. ran[r] \in Seq(RanType) /\ Len(ran[r]) = N
    BY <2>1, <2>2 DEF TypeInv, RanInv
  <2>4. \A k \in 1 .. N : ran[r][k] = [op |-> k, meta |-> index[r], result |-> Result(k)]
    BY <2>1, <2>2 DEF RanInv
  <2>5. ExactPass(r) = [k \in 1 .. N |-> [op |-> k, meta |-> index[r], result |-> Result(k)]]
    BY DEF ExactPass, N, Result
  <2>6. ran[r] = [k \in 1 .. N |-> ran[r][k]]
    BY <2>3
  <2> QED BY <2>4, <2>5, <2>6
<1> QED BY <1>1, AlwaysInv, PTL

\* A rank ends only if resources have run out in some call: no capture is
\* refused or broken by a collective, and no rank that waits is left alone
\* (Backend, CaptureOutcome, the distributed timeout).
THEOREM NobodyLost == Spec => []DiesOfFailuresOnly
<1>1. Inv => DiesOfFailuresOnly
  BY DEF Inv
<1> QED BY <1>1, AlwaysInv, PTL
=============================================================================

-------------------------- MODULE HybridDecode_proofs --------------------------
(***************************************************************************)
(* Every launched step reads the recurrent state of its own position, as   *)
(* long as the scheduler keeps drafting for a decoding request.            *)
(*                                                                         *)
(* The runner itself is AsyncSpecDecode, so its invariants hold unchanged; *)
(* what is added relates the state slots to the KV and to the number of    *)
(* accepted tokens the next step will pick its slot by.                    *)
(***************************************************************************)
EXTENDS HybridDecode, AsyncSpecDecode_proofs

\* The scheduler has no further step for the request.
Ending(r) == sched[r].tokens + (IF sched[r].holes > 0 THEN 1 ELSE 0) >= MaxTokens[r]

Running(r) == sched[r].status = "running"
Drafted(r) == InRow(r) /\ st[r].draftLen > 0

\* A launched step has left the state after each of its last 1 + d tokens.
LaunchedSlots(r) ==
  ex[r].in => \A j \in 0 .. ex[r].d : slots[r][j] = ex[r].pos + ex[r].n - ex[r].d + j

\* The slot the next step will read holds the state at the end of the KV: the
\* slot of the last accepted token if the last step had drafts, else the first.
SampledSlots(r) ==
  InRow(r) /\ ~ex[r].in =>
    IF st[r].draftLen > 0 THEN slots[r][validCount[prevReqIdToIndex[r]] - 1] = kv[r]
    ELSE slots[r][0] = kv[r]

\* A request outside the batch that may come back has its state in slot 0: only
\* a request about to end is left out of a step after one with drafts.
AbsentSlots(r) ==
  /\ ~InRow(r) /\ so[r].kind = "cached" => slots[r][0] = kv[r]
  /\ ~InRow(r) /\ so[r].kind = "out" /\ Running(r) => slots[r][0] = kv[r] \/ Ending(r)

\* After a step with drafts the next one has drafts too, or is the last.
KeepsDrafting(r) ==
  /\ soReady /\ Drafted(r) /\ so[r].kind = "cached" => so[r].d > 0
  /\ soReady /\ Drafted(r) /\ so[r].kind = "out" /\ Running(r) => Ending(r)
  /\ ~soReady /\ Drafted(r) /\ Running(r) => sched[r].decoded

SlotsInv ==
  /\ slots \in [Req -> [Slots -> Int]] /\ stateRead \in [Req -> Int]
  /\ StateExact
  /\ \A r \in Req : /\ so[r].d <= NumSpec /\ (InRow(r) => st[r].draftLen <= NumSpec)
                    /\ LaunchedSlots(r) /\ SampledSlots(r)
                    /\ AbsentSlots(r) /\ KeepsDrafting(r)
-----------------------------------------------------------------------------
\* The recurrent layers only add state: the runner's steps are those of Spec.
LEMMA RunsTheRunner == HybridSpec => Spec
<1>1. HybridInit => Init
  BY DEF HybridInit
<1>2. [HybridNext]_hybridVars => [Next]_vars
  BY DEF HybridNext, hybridVars, Next
<1> QED BY <1>1, <1>2, PTL DEF HybridSpec, Spec

LEMMA SlotsInit == HybridInit => SlotsInv
<1> SUFFICES ASSUME HybridInit PROVE SlotsInv
  OBVIOUS
<1> USE SpecAssumption
<1>1. slots \in [Req -> [Slots -> Int]] /\ stateRead \in [Req -> Int]
  BY DEF HybridInit
<1>2. ASSUME NEW r \in Req
      PROVE /\ so[r].kind = "out" /\ so[r].d = 0 /\ ~ex[r].in /\ ~InRow(r) /\ st[r].draftLen = 0
            /\ ~Running(r)
  BY DEF HybridInit, Init, NotScheduled, NotLaunched, Absent, InRow, Running
<1>3. StateExact
  BY <1>2 DEF StateExact
<1>4. ASSUME NEW r \in Req
      PROVE /\ so[r].d <= NumSpec /\ (InRow(r) => st[r].draftLen <= NumSpec)
            /\ LaunchedSlots(r) /\ SampledSlots(r) /\ AbsentSlots(r) /\ KeepsDrafting(r)
  BY <1>2 DEF LaunchedSlots, SampledSlots, AbsentSlots, KeepsDrafting, Drafted
<1> QED BY <1>1, <1>3, <1>4 DEF SlotsInv

\* Taking in results, aborting and submitting again leave a request that keeps
\* running what it was, and never give it a further step.
LEMMA RunsOn ==
  ASSUME TypeOK, NEW r \in Req,
         \/ UpdateFromOutput \/ Done \/ UNCHANGED vars \/ \E q \in Req : Abort(q) \/ Resubmit(q)
  PROVE  /\ UNCHANGED <<soVars, batchVars, exVars, ghostVars>>
         /\ Running(r)' => /\ Running(r) /\ sched'[r].decoded = sched[r].decoded
                           /\ Ending(r) => Ending(r)'
<1> USE SpecAssumption
<1>0. sched[r] \in SchedEntry /\ res[r] \in ResEntry /\ MaxTokens[r] \in Nat
  BY DEF TypeOK
<1>1. CASE Done \/ UNCHANGED vars
  BY <1>1 DEF Done, vars, schedVars, Running, Ending
<1>2. CASE \E q \in Req : Abort(q) \/ Resubmit(q)
  <2>1. PICK q \in Req : Abort(q) \/ Resubmit(q)
    BY <1>2
  <2>2. CASE r = q
    <3>1. sched'[r].status # "running"
      BY <2>1, <2>2 DEF Abort, Resubmit, TypeOK, SchedEntry
    <3> QED BY <2>1, <3>1 DEF Abort, Resubmit, Running
  <2>3. CASE r # q
    <3>1. sched'[r] = sched[r]
      BY <2>1, <2>3 DEF Abort, Resubmit, TypeOK
    <3> QED BY <2>1, <3>1 DEF Abort, Resubmit, Running, Ending
  <2> QED BY <2>2, <2>3
<1>3. CASE UpdateFromOutput
  <2>1. UNCHANGED <<soVars, batchVars, exVars, ghostVars>>
    BY <1>3 DEF UpdateFromOutput
  <2>2. CASE Unmoved(r)
    BY <2>1, <2>2 DEF Unmoved, Running, Ending
  <2>3. CASE Ended(r)
    BY <2>1, <2>3 DEF Ended, Running
  <2>4. CASE res[r].cnt > 0 /\ Advanced(r)
    <3>1. sched'[r].tokens = sched[r].tokens + res[r].cnt /\ sched'[r].tokens < MaxTokens[r]
      BY <2>4 DEF Advanced
    <3>2. ~Ending(r)
      BY <1>0, <2>4, <3>1 DEF Ending, SchedEntry, ResEntry
    <3> QED BY <2>1, <2>4, <3>2 DEF Advanced, Running
  <2> QED BY <1>3, <2>2, <2>3, <2>4, UpdateCases
<1> QED BY <1>1, <1>2, <1>3

LEMMA SlotsRunOn ==
  TypeOK /\ SlotsInv /\ UNCHANGED <<slots, stateRead>>
    /\ (UpdateFromOutput \/ Done \/ UNCHANGED vars \/ \E q \in Req : Abort(q) \/ Resubmit(q))
  => SlotsInv'
<1> SUFFICES ASSUME TypeOK, SlotsInv, UNCHANGED <<slots, stateRead>>,
                    \/ UpdateFromOutput \/ Done \/ UNCHANGED vars
                    \/ \E q \in Req : Abort(q) \/ Resubmit(q)
             PROVE  SlotsInv'
  OBVIOUS
<1> USE DEF soVars, batchVars, exVars, ghostVars
<1>1. (slots \in [Req -> [Slots -> Int]] /\ stateRead \in [Req -> Int])'
  BY DEF SlotsInv
<1>2. ASSUME NEW r \in Req
      PROVE (/\ so[r].d <= NumSpec /\ (InRow(r) => st[r].draftLen <= NumSpec)
             /\ ex[r].in => stateRead[r] = ex[r].pos
             /\ LaunchedSlots(r) /\ SampledSlots(r) /\ AbsentSlots(r) /\ KeepsDrafting(r))'
  <2>1. /\ UNCHANGED <<soVars, batchVars, exVars, ghostVars>>
        /\ Running(r)' => /\ Running(r) /\ sched'[r].decoded = sched[r].decoded
                          /\ Ending(r) => Ending(r)'
    BY RunsOn
  <2>2. /\ so[r].d <= NumSpec /\ (InRow(r) => st[r].draftLen <= NumSpec)
        /\ ex[r].in => stateRead[r] = ex[r].pos
        /\ LaunchedSlots(r) /\ SampledSlots(r) /\ AbsentSlots(r) /\ KeepsDrafting(r)
    BY DEF SlotsInv, StateExact
  <2>3. (/\ so[r].d <= NumSpec /\ (InRow(r) => st[r].draftLen <= NumSpec)
         /\ ex[r].in => stateRead[r] = ex[r].pos
         /\ LaunchedSlots(r) /\ SampledSlots(r))'
    BY <2>1, <2>2 DEF LaunchedSlots, SampledSlots, InRow
  <2>4. AbsentSlots(r)'
    BY <2>1, <2>2 DEF AbsentSlots, InRow
  <2>5. KeepsDrafting(r)'
    BY <2>1, <2>2 DEF KeepsDrafting, Drafted, InRow
  <2> QED BY <2>3, <2>4, <2>5
<1>3. StateExact'
  BY <1>2 DEF StateExact
<1> QED BY <1>1, <1>2, <1>3 DEF SlotsInv

\* Steps of a decoding request carry all its drafts (Steady), so nothing that
\* has drafts in its rows is staged without.
LEMMA SlotsSchedule ==
  SteadyDrafts /\ TypeOK /\ Inv /\ SlotsInv /\ Schedule /\ Steady /\ UNCHANGED <<slots, stateRead>>
  => SlotsInv'
<1> SUFFICES ASSUME TypeOK, Inv, SlotsInv, Schedule, Steady, UNCHANGED <<slots, stateRead>>
             PROVE  SlotsInv'
  OBVIOUS
<1> USE SpecAssumption
<1>1. /\ UNCHANGED <<st, prevReqIdToIndex, prevSampled, validCount, exReady, ex, kv, len>>
      /\ soReady' = TRUE /\ ~soReady /\ ~(exReady /\ resReady)
  BY DEF Schedule, batchVars, exVars, ghostVars
<1>2. (slots \in [Req -> [Slots -> Int]] /\ stateRead \in [Req -> Int])'
  BY DEF SlotsInv
<1>3. ASSUME NEW r \in Req
      PROVE (/\ so[r].d <= NumSpec /\ (InRow(r) => st[r].draftLen <= NumSpec)
             /\ ex[r].in => stateRead[r] = ex[r].pos
             /\ LaunchedSlots(r) /\ SampledSlots(r) /\ AbsentSlots(r) /\ KeepsDrafting(r))'
  <2>1. /\ so[r].d <= NumSpec /\ (InRow(r) => st[r].draftLen <= NumSpec)
        /\ ex[r].in => stateRead[r] = ex[r].pos
        /\ LaunchedSlots(r) /\ SampledSlots(r) /\ AbsentSlots(r) /\ KeepsDrafting(r)
    BY DEF SlotsInv, StateExact
  <2>2. (/\ InRow(r) => st[r].draftLen <= NumSpec
         /\ ex[r].in => stateRead[r] = ex[r].pos
         /\ LaunchedSlots(r) /\ SampledSlots(r))'
    BY <1>1, <2>1 DEF LaunchedSlots, SampledSlots, InRow
  <2>3. /\ so[r].kind = "out" /\ sched[r] \in SchedEntry /\ MaxTokens[r] \in Nat
        /\ st[r].draftLen \in Nat
    BY <1>1 DEF Inv, BuffersInv, NotScheduled, TypeOK, StEntry
  <2>4. /\ InRow(r)' = InRow(r) /\ Drafted(r)' = Drafted(r) /\ slots'[r] = slots[r] /\ kv'[r] = kv[r]
    BY <1>1 DEF InRow, Drafted
  <2>5. ~CanSchedule(r) /\ Running(r) /\ sched[r].decoded => Ending(r)
    BY <2>3 DEF CanSchedule, Running, Live, Ending, SchedEntry
  <2>6. CanSchedule(r) => ~Ending(r)
    BY <2>3 DEF CanSchedule, Ending, SchedEntry
  <2>7. CASE LeavesOut(r)
    <3>1. so'[r].d = 0 /\ so'[r].kind = "out"
      BY <2>7 DEF LeavesOut, NotScheduled
    <3>2. Running(r)' => Running(r)
      BY <2>7 DEF LeavesOut, Running
    <3>3. Ending(r)' <=> Ending(r)
      BY <2>7 DEF LeavesOut, Ending
    <3>4. AbsentSlots(r)'
      BY <2>1, <2>3, <2>4, <3>1, <3>2, <3>3 DEF AbsentSlots
    <3>5. Drafted(r) /\ Running(r)' => Ending(r)
      <4> SUFFICES ASSUME Drafted(r), Running(r)' PROVE Ending(r)
        OBVIOUS
      <4>1. Running(r) /\ sched[r].decoded /\ NumSpec > 0
        BY <1>1, <2>1, <2>3, <3>2 DEF KeepsDrafting, Drafted
      <4>2. so'[r].d = NumSpec \/ sched'[r].status # "running" \/ ~CanSchedule(r)
        BY <4>1 DEF Steady
      <4>3. ~CanSchedule(r)
        BY <3>1, <4>1, <4>2 DEF Running
      <4> QED BY <2>5, <4>1, <4>3
    <3>6. KeepsDrafting(r)'
      BY <1>1, <2>4, <3>1, <3>3, <3>5 DEF KeepsDrafting
    <3> QED BY <2>2, <3>1, <3>4, <3>6
  <2>8. ASSUME NEW amount \in Amounts(r), Stages(r, amount)
        PROVE (so[r].d <= NumSpec /\ AbsentSlots(r) /\ KeepsDrafting(r))'
    <3>1. /\ CanSchedule(r) /\ so'[r].d = amount.d /\ so'[r].kind = Kind(r)
          /\ sched'[r].status = "running"
      BY <2>8 DEF Stages, Entry
    <3>2. amount.d <= NumSpec
      <4>1. CASE amount \in {[n |-> n, d |-> 0] : n \in 1 .. Min2(MaxChunk, Uncomputed(r))}
        BY <4>1
      <4>2. CASE amount \in {[n |-> 1 + d, d |-> d] :
                   d \in IF sched[r].decoded /\ Uncomputed(r) = 1 THEN 0 .. NumSpec ELSE {}}
        BY <4>2
      <4> QED BY <4>1, <4>2 DEF Amounts
    <3>3. Kind(r) # "out" /\ (Kind(r) = "cached" => Running(r))
      BY <3>1 DEF Kind, CanSchedule, Live, Running
    <3>4. AbsentSlots(r)'
      BY <2>1, <2>3, <2>4, <2>6, <3>1, <3>3 DEF AbsentSlots
    <3>5. Drafted(r) /\ Running(r) => so'[r].d > 0
      <4> SUFFICES ASSUME Drafted(r), Running(r) PROVE so'[r].d > 0
        OBVIOUS
      <4>1. sched[r].decoded /\ NumSpec > 0
        BY <1>1, <2>1, <2>3 DEF KeepsDrafting, Drafted
      <4> QED BY <3>1, <4>1 DEF Steady
    <3>6. KeepsDrafting(r)'
      BY <1>1, <2>4, <3>1, <3>3, <3>5 DEF KeepsDrafting
    <3> QED BY <3>1, <3>2, <3>4, <3>6
  <2> QED BY <2>2, <2>7, <2>8, ScheduleCases
<1>4. StateExact'
  BY <1>3 DEF StateExact
<1> QED BY <1>2, <1>3, <1>4 DEF SlotsInv

\* Whatever is accepted, the count picks the slot written for the last
\* accepted token.
LEMMA SlotsSample ==
  TypeOK /\ Inv /\ SlotsInv /\ SampleTokens /\ UNCHANGED <<slots, stateRead>> => SlotsInv'
<1> SUFFICES ASSUME TypeOK, Inv, SlotsInv, SampleTokens, UNCHANGED <<slots, stateRead>>
             PROVE  SlotsInv'
  OBVIOUS
<1>1. /\ UNCHANGED <<sched, so, soReady>> /\ exReady
      /\ ex' = [r \in Req |-> NotLaunched]
  BY DEF SampleTokens, schedVars, soVars
<1>2. (slots \in [Req -> [Slots -> Int]] /\ stateRead \in [Req -> Int])'
  BY DEF SlotsInv
<1>3. ASSUME NEW r \in Req
      PROVE (/\ so[r].d <= NumSpec /\ (InRow(r) => st[r].draftLen <= NumSpec)
             /\ ~ex[r].in
             /\ LaunchedSlots(r) /\ SampledSlots(r) /\ AbsentSlots(r) /\ KeepsDrafting(r))'
  <2>1. /\ so[r].d <= NumSpec /\ (InRow(r) => st[r].draftLen <= NumSpec)
        /\ LaunchedSlots(r) /\ AbsentSlots(r) /\ KeepsDrafting(r)
    BY DEF SlotsInv
  <2>2. /\ LaunchedInv(r) /\ (InRow(r) <=> ex[r].in)
        /\ ex[r] \in ExEntry /\ st[r] \in StEntry /\ ~ex'[r].in
    BY <1>1 DEF Inv, RowsInv, TypeOK, NotLaunched
  <2>3. st'[r].row = st[r].row /\ st'[r].draftLen = st[r].draftLen
    BY SampleCases DEF PassedOver, Sampled
  <2>4. /\ InRow(r)' = InRow(r) /\ Drafted(r)' = Drafted(r) /\ Running(r)' = Running(r)
        /\ Ending(r)' = Ending(r) /\ slots'[r] = slots[r] /\ so'[r] = so[r]
    BY <1>1, <2>3 DEF InRow, Drafted, Running, Ending
  <2>5. InRow(r) => /\ ex[r].in /\ ex[r].d \in Nat /\ st[r].draftLen = ex[r].d
                    /\ ex[r].pos \in Int /\ ex[r].n \in Nat
                    /\ \A j \in 0 .. ex[r].d : slots[r][j] = ex[r].pos + ex[r].n - ex[r].d + j
    BY <2>1, <2>2 DEF LaunchedSlots, LaunchedInv, ExEntry
  <2>6. SampledSlots(r)'
    <3> SUFFICES ASSUME InRow(r)
                 PROVE  IF ex[r].d > 0 THEN slots[r][validCount'[prevReqIdToIndex'[r]] - 1] = kv'[r]
                        ELSE slots[r][0] = kv'[r]
      BY <2>3, <2>4, <2>5 DEF SampledSlots
    <3>1. CASE PassedOver(r)
      <4>1. ex[r].discard /\ kv'[r] = ex[r].pos + ex[r].n
        BY <2>5, <3>1 DEF PassedOver, Samples
      <4>2. ex[r].d = 0
        BY <2>2, <2>5, <4>1 DEF LaunchedInv
      <4>3. slots[r][0] = ex[r].pos + ex[r].n - 0 + 0
        BY <2>5, <4>2
      <4> QED BY <2>5, <4>1, <4>2, <4>3
    <3>2. ASSUME NEW a \in Nat, Sampled(r, a)
          PROVE  IF ex[r].d > 0 THEN slots[r][validCount'[prevReqIdToIndex'[r]] - 1] = kv'[r]
                 ELSE slots[r][0] = kv'[r]
      <4>1. /\ a \in 0 .. ex[r].d /\ kv'[r] = ex[r].pos + ex[r].n - ex[r].d + a
            /\ validCount'[prevReqIdToIndex'[r]] = a + 1
        BY <3>2 DEF Sampled
      <4>2. slots[r][a] = kv'[r]
        BY <2>5, <4>1
      <4>3. validCount'[prevReqIdToIndex'[r]] - 1 = a
        BY <4>1
      <4>4. ex[r].d = 0 => a = 0
        BY <4>1
      <4> QED BY <2>5, <4>2, <4>3, <4>4
    <3> QED BY <3>1, <3>2, SampleCases
  <2>7. AbsentSlots(r)'
    <3>1. ~InRow(r) => kv'[r] = kv[r]
      BY <2>2, SampleCases DEF PassedOver, Sampled, Samples
    <3> QED BY <2>1, <2>4, <3>1 DEF AbsentSlots
  <2>8. KeepsDrafting(r)'
    BY <1>1, <2>1, <2>4 DEF KeepsDrafting
  <2>9. LaunchedSlots(r)'
    BY <2>2 DEF LaunchedSlots
  <2> QED BY <1>1, <2>1, <2>2, <2>3, <2>4, <2>6, <2>7, <2>8, <2>9
<1>4. StateExact'
  BY <1>3 DEF StateExact
<1> QED BY <1>2, <1>3, <1>4 DEF SlotsInv

\* What a launched row reads: the state of the tokens before its first one.
LEMMA ReadsStart ==
  ASSUME TypeOK, Inv, SlotsInv, soReady, ~exReady, NEW r \in Req, Staged(r),
         NEW rolledBack \in SUBSET {q \in Scheduled : MayRollBack(q)}
  PROVE  /\ ReadState(r, rolledBack) = StartPosition(r) /\ StartPosition(r) \in Int
         /\ ~SpecRow(r, rolledBack) => so[r].d = 0
<1>1. /\ LaunchedInv(r) /\ SampledInv(r) /\ StagedInv(r) /\ ~ex[r].in
      /\ SampledSlots(r) /\ AbsentSlots(r) /\ KeepsDrafting(r)
  BY DEF Inv, BuffersInv, NotLaunched, SlotsInv
<1>2. /\ so[r] \in SoEntry /\ st[r] \in StEntry /\ kv[r] \in Int /\ so[r].kind # "out"
  BY DEF TypeOK, Staged
<1>3. StartPosition(r) = IF so[r].kind \in {"new", "resumed"} THEN so[r].computed ELSE kv[r]
  BY StartsAtKv
<1>4. StartPosition(r) \in Int
  BY <1>2, <1>3 DEF SoEntry
<1>5. r \in Scheduled
  BY DEF Scheduled, Staged
<1>6. so[r].d > 0 => SpecRow(r, rolledBack)
  BY <1>1, <1>2, <1>5 DEF StagedInv, SpecRow, UsesSpecPath, SoEntry
<1>7. CASE so[r].kind \in {"new", "resumed"}
  <2>1. so[r].computed = 0
    BY <1>1, <1>7 DEF StagedInv
  <2>2. \A j : Slot(r, j) = 0
    BY <1>7 DEF Slot
  <2> QED BY <1>2, <1>3, <1>4, <1>6, <1>7, <2>1, <2>2 DEF ReadState, SoEntry
<1>8. CASE so[r].kind = "cached"
  <2>1. StartPosition(r) = kv[r] /\ \A j : Slot(r, j) = slots[r][j]
    BY <1>3, <1>8 DEF Slot
  <2>2. CASE Drafted(r)
    <3>1. so[r].d > 0
      BY <1>1, <1>8, <2>2 DEF KeepsDrafting
    <3>2. HasPrev(r) /\ InRow(r) /\ st[r].draftLen > 0
      BY <1>1, <2>2 DEF SampledInv, Drafted
    <3>3. Participates(r) /\ PrevIndex(r) = prevReqIdToIndex[r]
      BY <1>8, <3>2, ParticipatesOwn DEF IsOptimistic
    <3>4. NumAccepted(r) = validCount[prevReqIdToIndex[r]]
      BY <3>3 DEF NumAccepted
    <3>5. SpecRow(r, rolledBack)
      BY <1>6, <3>1
    <3>6. ReadState(r, rolledBack) = slots[r][validCount[prevReqIdToIndex[r]] - 1]
      BY <2>1, <3>4, <3>5 DEF ReadState, IsPrefillRow
    <3>7. slots[r][validCount[prevReqIdToIndex[r]] - 1] = kv[r]
      BY <1>1, <3>2 DEF SampledSlots
    <3> QED BY <1>4, <2>1, <3>5, <3>6, <3>7
  <2>3. CASE ~Drafted(r)
    <3>1. ~Participates(r)
      <4>1. Participates(r) => InRow(r) /\ st[r].draftLen > 0
        BY ParticipatesOwn DEF IsOptimistic
      <4> QED BY <2>3, <4>1 DEF Drafted
    <3>2. NumAccepted(r) - 1 = 0
      BY <3>1 DEF NumAccepted
    <3>3. slots[r][0] = kv[r]
      BY <1>1, <1>8, <2>3 DEF SampledSlots, AbsentSlots, Drafted
    <3>4. ReadState(r, rolledBack) = kv[r]
      BY <2>1, <3>2, <3>3 DEF ReadState
    <3> QED BY <1>2, <1>4, <1>6, <2>1, <3>4 DEF SoEntry
  <2> QED BY <2>2, <2>3
<1> QED BY <1>2, <1>7, <1>8 DEF SoEntry

\* What GdnForward leaves in the slots of a launched row.
LEMMA WritesSlots ==
  ASSUME TypeOK, Inv, SlotsInv, ExecuteModel, GdnForward, NEW r \in Req
  PROVE  /\ ~Staged(r) => slots'[r] = slots[r] /\ stateRead'[r] = stateRead[r]
         /\ Staged(r) =>
              /\ stateRead'[r] = StartPosition(r) /\ StartPosition(r) \in Int
              /\ slots'[r] \in [Slots -> Int]
              /\ \A j \in 0 .. so[r].d :
                   slots'[r][j] = StartPosition(r) + so[r].n - so[r].d + j
<1> USE SpecAssumption
<1>1. PICK rolledBack \in SUBSET {q \in Scheduled : MayRollBack(q)} :
        /\ stateRead' = [q \in Req |-> IF q \in Scheduled THEN ReadState(q, rolledBack)
                                       ELSE stateRead[q]]
        /\ slots' = [q \in Req |-> IF q \in Scheduled THEN WrittenSlots(q, rolledBack) ELSE slots[q]]
  BY DEF GdnForward
<1>2. r \in Scheduled <=> Staged(r)
  BY DEF Scheduled, Staged
<1>3. ~Staged(r) => slots'[r] = slots[r] /\ stateRead'[r] = stateRead[r]
  BY <1>1, <1>2
<1>4. ASSUME Staged(r)
      PROVE  /\ stateRead'[r] = StartPosition(r) /\ StartPosition(r) \in Int
             /\ slots'[r] \in [Slots -> Int]
             /\ \A j \in 0 .. so[r].d :
                  slots'[r][j] = StartPosition(r) + so[r].n - so[r].d + j
  <2>1. /\ ReadState(r, rolledBack) = StartPosition(r) /\ StartPosition(r) \in Int
        /\ ~SpecRow(r, rolledBack) => so[r].d = 0
    BY <1>4, ReadsStart DEF ExecuteModel
  <2>2. PICK p \in Int : p = StartPosition(r)
    BY <2>1
  <2>3. /\ so[r].d \in Nat /\ so[r].n \in Nat /\ so[r].d <= NumSpec
        /\ slots[r] \in [Slots -> Int]
    BY DEF TypeOK, SoEntry, SlotsInv
  <2>4. \A k \in Int : Folded(r, ReadState(r, rolledBack), k) = p + k
    BY <2>1, <2>2 DEF Folded
  <2>5. \A j \in Slots : Slot(r, j) \in Int
    BY <2>3 DEF Slot
  <2>6. slots'[r] = [j \in Slots |->
           IF SpecRow(r, rolledBack)
           THEN IF j <= so[r].d THEN p + (j + 1) ELSE Slot(r, j)
           ELSE IF j = 0 THEN p + so[r].n ELSE Slot(r, j)]
    <3>1. slots'[r] = WrittenSlots(r, rolledBack)
      BY <1>1, <1>2, <1>4
    <3>2. \A j \in Slots : Folded(r, ReadState(r, rolledBack), j + 1) = p + (j + 1)
      BY <2>4 DEF Slots
    <3>3. Folded(r, ReadState(r, rolledBack), so[r].n) = p + so[r].n
      BY <2>3, <2>4
    <3> QED BY <3>1, <3>2, <3>3 DEF WrittenSlots
  <2>7. slots'[r] \in [Slots -> Int]
    BY <2>3, <2>5, <2>6 DEF Slots
  <2>8. SpecRow(r, rolledBack) => so[r].n = so[r].d + 1
    BY DEF SpecRow
  <2>9. ASSUME NEW j \in 0 .. so[r].d PROVE slots'[r][j] = p + so[r].n - so[r].d + j
    <3>1. j \in Slots /\ j \in Int /\ j <= so[r].d
      BY <2>3, <2>9 DEF Slots
    <3>2. CASE SpecRow(r, rolledBack)
      BY <2>3, <2>6, <2>8, <3>1, <3>2
    <3>3. CASE ~SpecRow(r, rolledBack)
      BY <2>1, <2>3, <2>6, <2>9, <3>1, <3>3
    <3> QED BY <3>2, <3>3
  <2>10. stateRead'[r] = p
    BY <1>1, <1>2, <1>4, <2>1, <2>2
  <2> QED BY <2>1, <2>2, <2>7, <2>9, <2>10
<1> QED BY <1>3, <1>4

LEMMA SlotsExecute ==
  TypeOK /\ Inv /\ SlotsInv /\ ExecuteModel /\ GdnForward => SlotsInv'
<1> SUFFICES ASSUME TypeOK, Inv, SlotsInv, ExecuteModel, GdnForward PROVE SlotsInv'
  OBVIOUS
<1> USE SpecAssumption
<1>1. /\ UNCHANGED sched /\ soReady /\ ~soReady' /\ ~exReady
      /\ so' = [r \in Req |-> NotScheduled]
      /\ kv' = [r \in Req |-> IF so[r].kind \in {"new", "resumed"} THEN so[r].computed ELSE kv[r]]
  BY DEF ExecuteModel, schedVars
<1>2. (slots \in [Req -> [Slots -> Int]] /\ stateRead \in [Req -> Int])'
  <2>1. \A r \in Req : slots'[r] \in [Slots -> Int] /\ stateRead'[r] \in Int
    BY WritesSlots DEF SlotsInv
  <2>2. DOMAIN slots' = Req /\ DOMAIN stateRead' = Req
        /\ slots' = [r \in Req |-> slots'[r]] /\ stateRead' = [r \in Req |-> stateRead'[r]]
    BY DEF GdnForward
  <2> QED BY <2>1, <2>2
<1>3. PICK p \in Placements(Scheduled) :
        \A r \in Req : IF Staged(r) THEN Launched(r, p[r]) /\ p[r] \in Rows ELSE NotInStep(r)
  BY ExecuteCases
<1>4. ASSUME NEW r \in Req
      PROVE (/\ so[r].d <= NumSpec /\ (InRow(r) => st[r].draftLen <= NumSpec)
             /\ ex[r].in => stateRead[r] = ex[r].pos
             /\ LaunchedSlots(r) /\ SampledSlots(r) /\ AbsentSlots(r) /\ KeepsDrafting(r))'
  <2>1. /\ so'[r].d = 0 /\ so'[r].kind = "out"
        /\ so[r].d <= NumSpec /\ st[r] \in StEntry /\ so[r] \in SoEntry
        /\ SampledSlots(r) /\ AbsentSlots(r) /\ KeepsDrafting(r)
        /\ StagedInv(r) /\ SchedulerInv(r) /\ ~ex[r].in
    BY <1>1 DEF NotScheduled, SlotsInv, Inv, BuffersInv, NotLaunched, TypeOK
  <2>2. Running(r)' = Running(r) /\ Ending(r)' = Ending(r)
    BY <1>1 DEF Running, Ending
  <2>3. CASE Staged(r)
    <3>1. /\ ex'[r].in /\ ex'[r].pos = StartPosition(r) /\ ex'[r].n = so[r].n /\ ex'[r].d = so[r].d
          /\ st'[r].row = p[r] /\ st'[r].draftLen = so[r].d /\ p[r] \in Rows
      BY <1>3, <2>3 DEF Launched
    <3>2. InRow(r)'
      BY <3>1 DEF InRow, Rows, NoRow
    <3>3. LaunchedSlots(r)' /\ stateRead'[r] = ex'[r].pos
      BY <2>3, <3>1, WritesSlots DEF LaunchedSlots
    <3>4. SampledSlots(r)' /\ AbsentSlots(r)'
      BY <3>2, <3>1 DEF SampledSlots, AbsentSlots
    <3>5. so[r].d > 0 /\ Running(r) => sched[r].decoded
      BY <2>1, <2>3 DEF StagedInv, SchedulerInv, Running, Live, SoEntry
    <3>6. KeepsDrafting(r)'
      BY <1>1, <2>2, <3>1, <3>5 DEF KeepsDrafting, Drafted
    <3> QED BY <2>1, <3>1, <3>3, <3>4, <3>6
  <2>4. CASE ~Staged(r)
    <3>1. ~ex'[r].in /\ ~InRow(r)' /\ slots'[r] = slots[r] /\ so[r].kind = "out"
      BY <1>3, <2>4, WritesSlots DEF NotInStep, NotLaunched, InRow, Staged
    <3>2. kv'[r] = kv[r]
      BY <1>1, <3>1
    <3>3. Running(r) => slots[r][0] = kv[r] \/ Ending(r)
      BY <1>1, <2>1, <3>1 DEF AbsentSlots, SampledSlots, KeepsDrafting, Drafted
    <3>4. AbsentSlots(r)'
      BY <2>1, <2>2, <3>1, <3>2, <3>3 DEF AbsentSlots
    <3>5. LaunchedSlots(r)' /\ SampledSlots(r)' /\ KeepsDrafting(r)'
      BY <3>1 DEF LaunchedSlots, SampledSlots, KeepsDrafting, Drafted
    <3> QED BY <2>1, <3>1, <3>4, <3>5
  <2> QED BY <2>3, <2>4
<1>5. StateExact'
  BY <1>4 DEF StateExact
<1> QED BY <1>2, <1>4, <1>5 DEF SlotsInv

LEMMA SlotsNext ==
  SteadyDrafts /\ TypeOK /\ Inv /\ SlotsInv /\ [HybridNext]_hybridVars => SlotsInv'
BY SlotsRunOn, SlotsSchedule, SlotsSample, SlotsExecute DEF HybridNext, hybridVars

\* Every launched step, of new, resumed, continuing and left-out requests alike,
\* starts from the recurrent state of exactly the tokens before it, for any
\* placement, acceptance and roll-back of guided decoding: build() may drop the
\* accepted counts of a batch without drafts because a decoding request never
\* gets one (num_accepted_tokens).
THEOREM StateCorrect == ASSUME SteadyDrafts PROVE HybridSpec => []StateExact
<1>1. HybridSpec => [](TypeOK /\ Inv)
  BY RunsTheRunner, TypeCorrect, CountsRelated, PTL
<1>2. (TypeOK /\ Inv) /\ SlotsInv /\ [HybridNext]_hybridVars => SlotsInv'
  BY SlotsNext
<1>3. SlotsInv => StateExact
  BY DEF SlotsInv
<1> QED BY <1>1, <1>2, <1>3, SlotsInit, PTL DEF HybridSpec
=============================================================================

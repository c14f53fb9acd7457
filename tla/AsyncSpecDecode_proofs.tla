------------------------ MODULE AsyncSpecDecode_proofs ------------------------
(* Theorems about AsyncSpecDecode, for every value of its constants.       *)
EXTENDS AsyncSpecDecode, TLAPS

LEMMA TokenType == TypeOK => \A r \in Req, i \in Int : Token(r, i) \in Tokens
  BY DEF TypeOK, Token, Tokens, SchedEntry

LEMMA JunkType == Junk \in Tokens
  BY DEF Junk, Tokens

Statuses == {"waiting", "running", "preempted", "finished"}

LEMMA SchedFlag ==
  ASSUME NEW s \in SchedEntry, NEW decoded \in BOOLEAN
  PROVE  [s EXCEPT !.decoded = decoded] \in SchedEntry
  BY Zenon DEF SchedEntry

LEMMA SchedUpdate ==
  ASSUME NEW s \in SchedEntry, NEW status \in Statuses, NEW computed \in Int,
         NEW tokens \in Nat, NEW holes \in Int, NEW decoded \in BOOLEAN
  PROVE  /\ [s EXCEPT !.status = status, !.computed = computed, !.decoded = decoded] \in SchedEntry
         /\ [s EXCEPT !.status = status, !.computed = computed, !.holes = holes,
                      !.decoded = decoded] \in SchedEntry
         /\ [s EXCEPT !.status = status, !.tokens = tokens, !.holes = holes,
                      !.computed = computed] \in SchedEntry
  BY Zenon DEF SchedEntry, Statuses

LEMMA TypeInit == Init => TypeOK
<1> SUFFICES ASSUME Init PROVE TypeOK
  OBVIOUS
<1> USE SpecAssumption DEF Init
<1>1. sched \in [Req -> SchedEntry] /\ text \in [Req -> Seq(Int)]
  BY DEF SchedEntry
<1>2. so \in [Req -> SoEntry]
  BY DEF SoEntry, NotScheduled
<1>3. st \in [Req -> StEntry]
  BY DEF StEntry, Absent, NoRow
<1>4. ex \in [Req -> ExEntry]
  BY JunkType DEF ExEntry, NotLaunched
<1>5. res \in [Req -> ResEntry]
  BY DEF ResEntry, NoResult
<1>6. prevSampled \in [Rows -> Tokens]
  BY JunkType
<1> QED
  <2>1. prevReqIdToIndex \in [Req -> Rows \cup {NoRow}]
    OBVIOUS
  <2>2. validCount \in [Rows -> Nat] /\ gpuComputed \in [Rows -> Int]
    OBVIOUS
  <2>3. kv \in [Req -> Int] /\ len \in [Req -> Int]
    OBVIOUS
  <2>4. /\ soReady \in BOOLEAN /\ exReady \in BOOLEAN
        /\ resReady \in BOOLEAN /\ sampledOnce \in BOOLEAN
    BY Zenon
  <2>5. finishedIds \subseteq Req /\ soFinished \subseteq Req
    OBVIOUS
  <2> HIDE DEF Init
  <2> QED
    BY <1>1, <1>2, <1>3, <1>4, <1>5, <1>6, <2>1, <2>2, <2>3, <2>4, <2>5, Zenon DEF TypeOK

LEMMA AmountType ==
  ASSUME TypeOK, NEW r \in Req, NEW amount \in Amounts(r)
  PROVE  /\ amount.n \in Nat /\ amount.d \in Nat
         /\ Entry(r, amount) \in SoEntry
         /\ AfterSchedule(r, amount) \in SchedEntry
<1> USE SpecAssumption
<1>1. sched[r] \in SchedEntry
  BY DEF TypeOK
<1>2. amount.n \in Nat /\ amount.d \in Nat
  <2>1. CASE amount \in {[n |-> n, d |-> 0] : n \in 1 .. Min2(MaxChunk, Uncomputed(r))}
    <3>1. Min2(MaxChunk, Uncomputed(r)) \in Int
      BY <1>1 DEF Min2, Uncomputed, SchedEntry
    <3> QED BY <2>1, <3>1
  <2>2. CASE amount \in {[n |-> 1 + d, d |-> d] :
            d \in IF sched[r].decoded /\ Uncomputed(r) = 1 THEN 0 .. NumSpec ELSE {}}
    BY <2>2
  <2> QED BY <2>1, <2>2 DEF Amounts
<1>3. Kind(r) \in {"new", "cached", "resumed"}
  BY DEF Kind
<1>4. Entry(r, amount) \in SoEntry
  BY <1>1, <1>2, <1>3 DEF Entry, SoEntry, SchedEntry
<1>5. AfterSchedule(r, amount) \in SchedEntry
  <2> DEFINE atEnd == amount.n = Uncomputed(r) + amount.d
  <2>1. /\ sched[r].computed + amount.n \in Int
        /\ (IF atEnd THEN sched[r].holes + 1 + amount.d ELSE sched[r].holes) \in Int
    BY <1>1, <1>2 DEF SchedEntry
  <2>2. "running" \in Statuses /\ atEnd \in BOOLEAN
    BY DEF Statuses
  <2> HIDE DEF atEnd
  <2>3. [sched[r] EXCEPT !.status = "running", !.computed = sched[r].computed + amount.n,
                         !.holes = IF atEnd THEN sched[r].holes + 1 + amount.d ELSE sched[r].holes,
                         !.decoded = atEnd] \in SchedEntry
    BY <1>1, <2>1, <2>2, SchedUpdate, Zenon
  <2> QED BY <2>3, Zenon DEF AfterSchedule, atEnd
<1> QED BY <1>2, <1>4, <1>5

LEMMA TypeSchedule == TypeOK /\ Schedule => TypeOK'
<1> SUFFICES ASSUME TypeOK, Schedule PROVE TypeOK'
  OBVIOUS
<1> USE SpecAssumption
<1>1. PICK S \in SUBSET {r \in Req : CanSchedule(r)} :
       \E preempted \in SUBSET {r \in Req \ S : sched[r].status = "running"} :
          \E amount \in [S -> UNION {Amounts(r) : r \in S}] :
            /\ \A r \in S : amount[r] \in Amounts(r)
            /\ so' = [r \in Req |-> IF r \in S THEN Entry(r, amount[r]) ELSE NotScheduled]
            /\ sched' = [r \in Req |->
                 CASE r \in S         -> AfterSchedule(r, amount[r])
                   [] r \in preempted -> [sched[r] EXCEPT !.status = "preempted",
                                                          !.computed = 0,
                                                          !.decoded = FALSE]
                   [] OTHER           -> [sched[r] EXCEPT !.decoded = FALSE]]
  BY DEF Schedule
<1>2. PICK preempted \in SUBSET {r \in Req \ S : sched[r].status = "running"},
           amount \in [S -> UNION {Amounts(r) : r \in S}] :
            /\ \A r \in S : amount[r] \in Amounts(r)
            /\ so' = [r \in Req |-> IF r \in S THEN Entry(r, amount[r]) ELSE NotScheduled]
            /\ sched' = [r \in Req |->
                 CASE r \in S         -> AfterSchedule(r, amount[r])
                   [] r \in preempted -> [sched[r] EXCEPT !.status = "preempted",
                                                          !.computed = 0,
                                                          !.decoded = FALSE]
                   [] OTHER           -> [sched[r] EXCEPT !.decoded = FALSE]]
  BY <1>1
<1>3. \A r \in Req : sched[r] \in SchedEntry
  BY DEF TypeOK
<1>4. NotScheduled \in SoEntry
  BY DEF NotScheduled, SoEntry
<1>5. so' \in [Req -> SoEntry]
  BY <1>2, <1>4, AmountType
<1>6. sched' \in [Req -> SchedEntry]
  <2> SUFFICES ASSUME NEW r \in Req
               PROVE  (CASE r \in S         -> AfterSchedule(r, amount[r])
                         [] r \in preempted -> [sched[r] EXCEPT !.status = "preempted",
                                                                !.computed = 0,
                                                                !.decoded = FALSE]
                         [] OTHER           -> [sched[r] EXCEPT !.decoded = FALSE]) \in SchedEntry
    BY <1>2
  <2>1. CASE r \in S
    BY <2>1, <1>2, AmountType
  <2>2. CASE r \in preempted /\ r \notin S
    <3>1. 0 \in Int /\ FALSE \in BOOLEAN /\ "preempted" \in Statuses
      BY DEF Statuses
    <3>2. [sched[r] EXCEPT !.status = "preempted", !.computed = 0, !.decoded = FALSE] \in SchedEntry
      BY <1>3, <3>1, SchedUpdate, Zenon
    <3> QED BY <2>2, <3>2, Zenon
  <2>3. CASE r \notin preempted /\ r \notin S
    <3>1. FALSE \in BOOLEAN
      OBVIOUS
    <3>2. [sched[r] EXCEPT !.decoded = FALSE] \in SchedEntry
      BY <1>3, <3>1, SchedFlag, Zenon
    <3> QED BY <2>3, <3>2, Zenon
  <2> QED BY <2>1, <2>2, <2>3
<1> QED
  BY <1>5, <1>6 DEF TypeOK, Schedule, batchVars, exVars, resVars, ghostVars

LEMMA TypeUpdateFromOutput == TypeOK /\ UpdateFromOutput => TypeOK'
<1> SUFFICES ASSUME TypeOK, UpdateFromOutput PROVE TypeOK'
  OBVIOUS
<1> USE SpecAssumption
<1> DEFINE Takes(r) == res[r].in /\ res[r].cnt > 0 /\ Live(r)
           Ends(r, stop, keep)  == Takes(r) /\ (r \in stop \/ keep[r] < res[r].cnt
                                      \/ sched[r].tokens + keep[r] >= MaxTokens[r])
<1>1. PICK stop \in SUBSET Req, keep \in [Req -> 0 .. NumSpec + 1] :
           /\ sched' = [r \in Req |->
                IF ~Takes(r) THEN sched[r]
                ELSE [sched[r] EXCEPT
                        !.status   = IF Ends(r, stop, keep) THEN "finished" ELSE @,
                        !.tokens   = @ + keep[r],
                        !.holes    = @ - (res[r].d + 1),
                        !.computed = IF @ > 0 THEN @ - (res[r].d + 1 - res[r].cnt) ELSE 0]]
           /\ text' = [r \in Req |->
                text[r] \o [j \in 1 .. keep[r] |-> IF res[r].ok THEN res[r].first + j - 1 ELSE NoRow]]
           /\ finishedIds' = finishedIds \cup {r \in Req : Ends(r, stop, keep)}
  BY DEF UpdateFromOutput
<1>2. \A r \in Req : sched[r] \in SchedEntry /\ res[r] \in ResEntry /\ keep[r] \in Nat
  BY DEF TypeOK
<1>3. sched' \in [Req -> SchedEntry]
  <2> HIDE DEF Takes, Ends
  <2> SUFFICES ASSUME NEW r \in Req
               PROVE  [sched[r] EXCEPT
                        !.status   = IF Ends(r, stop, keep) THEN "finished" ELSE @,
                        !.tokens   = @ + keep[r],
                        !.holes    = @ - (res[r].d + 1),
                        !.computed = IF @ > 0 THEN @ - (res[r].d + 1 - res[r].cnt) ELSE 0] \in SchedEntry
    BY <1>1, <1>2
  <2>1. /\ sched[r].tokens + keep[r] \in Nat
        /\ sched[r].holes - (res[r].d + 1) \in Int
        /\ (IF sched[r].computed > 0
            THEN sched[r].computed - (res[r].d + 1 - res[r].cnt) ELSE 0) \in Int
    BY <1>2 DEF SchedEntry, ResEntry
  <2>2. (IF Ends(r, stop, keep) THEN "finished" ELSE sched[r].status) \in Statuses
    BY <1>2 DEF SchedEntry, Statuses
  <2> QED BY <1>2, <2>1, <2>2, SchedUpdate, Zenon
<1>4. text' \in [Req -> Seq(Int)]
  <2> SUFFICES ASSUME NEW r \in Req
               PROVE  text[r] \o [j \in 1 .. keep[r] |-> IF res[r].ok THEN res[r].first + j - 1 ELSE NoRow]
                        \in Seq(Int)
    BY <1>1
  <2>1. text[r] \in Seq(Int)
    BY DEF TypeOK
  <2>2. [j \in 1 .. keep[r] |-> IF res[r].ok THEN res[r].first + j - 1 ELSE NoRow] \in Seq(Int)
    <3>1. keep[r] \in Nat
      BY <1>2
    <3>2. \A j \in 1 .. keep[r] : (IF res[r].ok THEN res[r].first + j - 1 ELSE NoRow) \in Int
      BY <1>2 DEF ResEntry, NoRow
    <3> QED BY <3>1, <3>2
  <2> QED BY <2>1, <2>2
<1>5. res' \in [Req -> ResEntry]
  <2>1. NoResult \in ResEntry
    BY DEF NoResult, ResEntry
  <2> QED BY <2>1 DEF UpdateFromOutput
<1> QED
  BY <1>1, <1>3, <1>4, <1>5
     DEF TypeOK, UpdateFromOutput, soVars, batchVars, exVars, ghostVars

LEMMA TypeAbort == ASSUME NEW r \in Req PROVE TypeOK /\ Abort(r) => TypeOK'
<1> SUFFICES ASSUME TypeOK, Abort(r) PROVE TypeOK'
  OBVIOUS
<1>1. [sched[r] EXCEPT !.status = "finished"] \in SchedEntry
  BY ZenonT(40) DEF TypeOK, SchedEntry
<1>2. sched' \in [Req -> SchedEntry]
  BY <1>1 DEF TypeOK, Abort
<1> QED
  BY <1>2 DEF TypeOK, Abort, soVars, batchVars, exVars, resVars, ghostVars

LEMMA TypeResubmit == ASSUME NEW r \in Req PROVE TypeOK /\ Resubmit(r) => TypeOK'
<1> SUFFICES ASSUME TypeOK, Resubmit(r) PROVE TypeOK'
  OBVIOUS
<1>1. sched' \in [Req -> SchedEntry]
  <2>1. PromptLen[r] \in Nat /\ sched[r].gen + 1 \in Nat
    BY SpecAssumption DEF TypeOK, SchedEntry
  <2>2. [status |-> "waiting", computed |-> 0, tokens |-> PromptLen[r], holes |-> 0,
         gen |-> sched[r].gen + 1, decoded |-> FALSE] \in SchedEntry
    BY <2>1 DEF SchedEntry
  <2> QED BY <2>2 DEF TypeOK, Resubmit
<1>2. text' \in [Req -> Seq(Int)]
  BY DEF TypeOK, Resubmit
<1> QED
  BY <1>1, <1>2 DEF TypeOK, Resubmit, soVars, batchVars, exVars, resVars, ghostVars

LEMMA PositionType ==
  ASSUME TypeOK, NEW r \in Req
  PROVE  /\ PrevIndex(r) \in Rows \cup {NoRow}
         /\ PrevIndex(r) # NoRow => PrevIndex(r) \in Rows
         /\ StartPosition(r) \in Int
         /\ Correction(r) \in Int
<1>1. PrevIndex(r) \in Rows \cup {NoRow}
  BY DEF PrevIndex, TypeOK
<1>2. StartPosition(r) \in Int
  BY <1>1 DEF StartPosition, Participates, TypeOK, SoEntry
<1>3. Correction(r) \in Int
  BY <1>1 DEF Correction, TypeOK, StEntry
<1> QED BY <1>1, <1>2, <1>3

LEMMA StateType ==
  ASSUME TypeOK, NEW r \in Req, NEW row \in Rows \cup {NoRow}
  PROVE  /\ UpdatedState(r, row) \in StEntry
         /\ Corrected(r, UpdatedState(r, row)) \in StEntry
<1> USE SpecAssumption
<1>1. /\ so[r].kind \in {"out", "new", "cached", "resumed"}
      /\ so[r].n \in Nat /\ so[r].d \in Nat /\ so[r].computed \in Int
      /\ so[r].nout \in Int /\ so[r].known \in Nat
  BY DEF TypeOK, SoEntry
<1>2. /\ st[r] \in StEntry /\ st[r].draftLen \in Nat /\ st[r].out \in Int
      /\ st[r].noSpec \in Int /\ PromptLen[r] \in Nat
  BY DEF TypeOK, StEntry
<1>3. NewState(r, row) \in StEntry
  BY <1>1, <1>2 DEF NewState, StEntry
<1>4. CachedState(r, row) \in StEntry
  <2> DEFINE extended == st[r].out + (IF IsOptimistic(r) THEN st[r].draftLen ELSE 0)
             trimmed  == Trimmed(r, extended)
             restored == IF so[r].nout > 0 THEN so[r].nout ELSE trimmed
             noSpec   == IF so[r].nout < extended THEN PromptLen[r] + so[r].nout ELSE st[r].noSpec
  <2>1. /\ trimmed \in Int /\ restored \in Int /\ noSpec \in Int
        /\ PromptLen[r] + restored \in Int
    BY <1>1, <1>2 DEF Trimmed, Min2
  <2> HIDE DEF extended, trimmed, restored, noSpec
  <2>2. [st[r] EXCEPT !.row = row, !.computed = so[r].computed, !.cpu = so[r].computed,
                      !.draftLen = so[r].d, !.out = trimmed, !.noSpec = noSpec] \in StEntry
    BY <1>1, <1>2, <2>1, Zenon DEF StEntry
  <2>3. [st[r] EXCEPT !.row = row, !.computed = so[r].computed, !.cpu = so[r].computed,
                      !.draftLen = so[r].d, !.out = restored,
                      !.noSpec = PromptLen[r] + restored, !.real = so[r].known] \in StEntry
    BY <1>1, <1>2, <2>1, Zenon DEF StEntry
  <2> QED BY <2>2, <2>3, Zenon DEF CachedState, extended, trimmed, restored, noSpec
<1>5. UpdatedState(r, row) \in StEntry
  <2>1. Absent \in StEntry /\ [st[r] EXCEPT !.row = NoRow] \in StEntry
    BY <1>2 DEF Absent, StEntry
  <2> QED BY <1>3, <1>4, <2>1 DEF UpdatedState
<1>6. \A s \in StEntry : Corrected(r, s) \in StEntry
  <2> SUFFICES ASSUME NEW s \in StEntry PROVE Corrected(r, s) \in StEntry
    OBVIOUS
  <2>1. s.computed - Correction(r) \in Int /\ s.cpu - Correction(r) \in Int
    BY PositionType DEF StEntry
  <2> QED BY <2>1, Zenon DEF Corrected, StEntry
<1> QED BY <1>5, <1>6

LEMMA TypeExecuteModel == TypeOK /\ ExecuteModel => TypeOK'
<1> SUFFICES ASSUME TypeOK, ExecuteModel PROVE TypeOK'
  OBVIOUS
<1> USE SpecAssumption
<1> DEFINE rowOf(p) == [r \in Req |-> IF r \in Scheduled THEN p[r] ELSE NoRow]
           updated(p) == [r \in Req |-> UpdatedState(r, IF r \in Scheduled THEN p[r] ELSE NoRow)]
<1>1. PICK p \in Placements(Scheduled) :
        /\ st' = [r \in Req |-> Corrected(r, updated(p)[r])]
        /\ ex' = [r \in Req |-> IF r \in Scheduled THEN Launch(r, updated(p)[r]) ELSE NotLaunched]
        /\ gpuComputed' = [i \in Rows |->
             IF \E r \in Scheduled : p[r] = i
             THEN StartPosition(CHOOSE r \in Scheduled : p[r] = i) ELSE gpuComputed[i]]
  BY DEF ExecuteModel
<1>2. \A r \in Req : (IF r \in Scheduled THEN p[r] ELSE NoRow) \in Rows \cup {NoRow}
  BY DEF Placements
<1>3. \A r \in Req : updated(p)[r] \in StEntry /\ Corrected(r, updated(p)[r]) \in StEntry
  BY <1>2, StateType
<1>4. st' \in [Req -> StEntry]
  BY <1>1, <1>3
<1>5. ex' \in [Req -> ExEntry]
  <2>1. NotLaunched \in ExEntry
    BY JunkType DEF NotLaunched, ExEntry
  <2>2. \A r \in Req, s \in StEntry : Launch(r, s) \in ExEntry
    <3> SUFFICES ASSUME NEW r \in Req, NEW s \in StEntry PROVE Launch(r, s) \in ExEntry
      OBVIOUS
    <3>1. StartPosition(r) \in Int /\ s.row \in Rows \cup {NoRow} /\ so[r].n \in Nat /\ so[r].d \in Nat
      BY PositionType DEF TypeOK, SoEntry, StEntry
    <3>2. LastInputToken(r, s) \in Tokens
      <4>1. so[r].computed + so[r].n - so[r].d - 1 \in Int
        BY DEF TypeOK, SoEntry
      <4>2. PrevIndex(r) # NoRow => prevSampled[PrevIndex(r)] \in Tokens
        BY PositionType DEF TypeOK
      <4> QED BY <4>1, <4>2, TokenType, JunkType DEF LastInputToken
    <3>3. Discards(r, s) \in BOOLEAN
      BY DEF Discards
    <3>4. TRUE \in BOOLEAN
      OBVIOUS
    <3> QED BY <3>1, <3>2, <3>3, <3>4, Zenon DEF Launch, ExEntry
  <2> QED BY <1>1, <1>3, <2>1, <2>2
<1>6. gpuComputed' \in [Rows -> Int]
  <2> SUFFICES ASSUME NEW i \in Rows
               PROVE (IF \E r \in Scheduled : p[r] = i
                      THEN StartPosition(CHOOSE r \in Scheduled : p[r] = i) ELSE gpuComputed[i]) \in Int
    BY <1>1
  <2>1. (\E r \in Scheduled : p[r] = i) => (CHOOSE r \in Scheduled : p[r] = i) \in Req
    BY DEF Scheduled
  <2> QED BY <2>1, PositionType DEF TypeOK
<1>7. prevReqIdToIndex' \in [Req -> Rows \cup {NoRow}]
  BY PositionType DEF ExecuteModel
<1>8. so' \in [Req -> SoEntry]
  <2>1. NotScheduled \in SoEntry
    BY DEF NotScheduled, SoEntry
  <2> QED BY <2>1 DEF ExecuteModel
<1>9. kv' \in [Req -> Int] /\ len' \in [Req -> Int]
  <2>1. \A r \in Req : so[r].computed \in Int /\ kv[r] \in Int /\ len[r] \in Int /\ PromptLen[r] \in Int
    BY DEF TypeOK, SoEntry
  <2> QED BY <2>1 DEF ExecuteModel
<1>10. exReady' \in BOOLEAN /\ soReady' \in BOOLEAN /\ soFinished' \subseteq Req
  BY DEF ExecuteModel
<1> QED
  BY <1>4, <1>5, <1>6, <1>7, <1>8, <1>9, <1>10 DEF TypeOK, ExecuteModel, schedVars, resVars

LEMMA TypeSampleTokens == TypeOK /\ SampleTokens => TypeOK'
<1> SUFFICES ASSUME TypeOK, SampleTokens PROVE TypeOK'
  OBVIOUS
<1> USE SpecAssumption
<1> DEFINE Last(accepted, r) == ex[r].pos + ex[r].n - ex[r].d + accepted[r]
           At(i)   == CHOOSE r \in Req : Samples(r) /\ ex[r].row = i
           Used(i) == \E r \in Req : Samples(r) /\ ex[r].row = i
<1>1. PICK accepted \in [Req -> 0 .. NumSpec] :
           /\ validCount' = [i \in Rows |-> IF Used(i) THEN accepted[At(i)] + 1 ELSE 0]
           /\ prevSampled' = [i \in Rows |->
                IF Used(i) /\ RightInputs(At(i)) THEN Token(At(i), Last(accepted, At(i))) ELSE Junk]
           /\ res' = [r \in Req |->
                IF Samples(r)
                THEN [in |-> TRUE, first |-> Last(accepted, r) - accepted[r], cnt |-> accepted[r] + 1,
                      d |-> ex[r].d, ok |-> RightInputs(r)]
                ELSE [NoResult EXCEPT !.in = ex[r].in]]
           /\ kv' = [r \in Req |-> IF Samples(r) THEN Last(accepted, r)
                                   ELSE IF ex[r].in THEN ex[r].pos + ex[r].n ELSE kv[r]]
           /\ len' = [r \in Req |-> IF Samples(r) THEN Last(accepted, r) + 1 ELSE len[r]]
  BY DEF SampleTokens
<1>2. \A i \in Rows : Used(i) => At(i) \in Req
  OBVIOUS
<1>3. \A r \in Req : /\ accepted[r] \in Nat /\ Last(accepted, r) \in Int
                      /\ ex[r].pos \in Int /\ ex[r].n \in Nat /\ ex[r].d \in Nat
                      /\ ex[r].in \in BOOLEAN /\ ex[r].row \in Rows \cup {NoRow}
  BY DEF TypeOK, ExEntry
<1> HIDE DEF Last, At, Used
<1>4. validCount' \in [Rows -> Nat]
  BY <1>1, <1>2, <1>3
<1>5. prevSampled' \in [Rows -> Tokens]
  BY <1>1, <1>2, <1>3, TokenType, JunkType
<1>6. res' \in [Req -> ResEntry]
  <2> SUFFICES ASSUME NEW r \in Req
               PROVE  (IF Samples(r)
                       THEN [in |-> TRUE, first |-> Last(accepted, r) - accepted[r], cnt |-> accepted[r] + 1,
                             d |-> ex[r].d, ok |-> RightInputs(r)]
                       ELSE [NoResult EXCEPT !.in = ex[r].in]) \in ResEntry
    BY <1>1
  <2>1. /\ Last(accepted, r) - accepted[r] \in Int /\ accepted[r] + 1 \in Nat
        /\ RightInputs(r) \in BOOLEAN /\ TRUE \in BOOLEAN
    BY <1>3 DEF RightInputs
  <2>2. [in |-> TRUE, first |-> Last(accepted, r) - accepted[r], cnt |-> accepted[r] + 1,
         d |-> ex[r].d, ok |-> RightInputs(r)] \in ResEntry
    BY <1>3, <2>1, Zenon DEF ResEntry
  <2>3. NoResult \in ResEntry
    BY DEF NoResult, ResEntry
  <2>4. [NoResult EXCEPT !.in = ex[r].in] \in ResEntry
    BY <1>3, <2>3, Zenon DEF ResEntry
  <2> QED BY <2>2, <2>4
<1>7. kv' \in [Req -> Int] /\ len' \in [Req -> Int]
  <2>1. \A r \in Req : kv[r] \in Int /\ len[r] \in Int
    BY DEF TypeOK
  <2> QED BY <1>1, <1>3, <2>1
<1>8. prevReqIdToIndex' \in [Req -> Rows \cup {NoRow}]
  BY <1>3 DEF SampleTokens
<1>9. st' \in [Req -> StEntry]
  <2> SUFFICES ASSUME NEW r \in Req
               PROVE [st[r] EXCEPT !.out = @ + 1, !.noSpec = @ + 1] \in StEntry
    BY DEF SampleTokens, TypeOK
  <2>1. st[r] \in StEntry /\ st[r].out + 1 \in Int /\ st[r].noSpec + 1 \in Int
    BY DEF TypeOK, StEntry
  <2> QED BY <2>1, Zenon DEF StEntry
<1>10. ex' \in [Req -> ExEntry]
  <2>1. NotLaunched \in ExEntry
    BY JunkType DEF NotLaunched, ExEntry
  <2> QED BY <2>1 DEF SampleTokens
<1>11. /\ sampledOnce' \in BOOLEAN /\ exReady' \in BOOLEAN /\ resReady' \in BOOLEAN
  BY DEF SampleTokens
<1> QED
  BY <1>4, <1>5, <1>6, <1>7, <1>8, <1>9, <1>10, <1>11
     DEF TypeOK, SampleTokens, schedVars, soVars

\* Whatever the scheduler sends and however the steps interleave, the runner's
\* state stays well-typed: rows stay inside the persistent batch, tokens keep
\* their owner, and no count leaves the integers.
THEOREM TypeCorrect == Spec => []TypeOK
<1>1. TypeOK /\ [Next]_vars => TypeOK'
  <2> SUFFICES ASSUME TypeOK, [Next]_vars PROVE TypeOK'
    OBVIOUS
  <2>1. CASE Schedule
    BY <2>1, TypeSchedule
  <2>2. CASE UpdateFromOutput
    BY <2>2, TypeUpdateFromOutput
  <2>3. CASE ExecuteModel
    BY <2>3, TypeExecuteModel
  <2>4. CASE SampleTokens
    BY <2>4, TypeSampleTokens
  <2>5. CASE \E r \in Req : Abort(r) \/ Resubmit(r)
    BY <2>5, TypeAbort, TypeResubmit
  <2>6. CASE UNCHANGED vars
    BY <2>6 DEF TypeOK, vars, schedVars, soVars, batchVars, exVars, resVars, ghostVars
  <2> QED
    BY <2>1, <2>2, <2>3, <2>4, <2>5, <2>6 DEF Next, Done
<1> QED
  BY TypeInit, <1>1, PTL DEF Spec

-----------------------------------------------------------------------------
(***************************************************************************)
(* The inductive invariant of AsyncSpecDecode, and what follows from it.   *)
(*                                                                         *)
(* A request has up to three steps under way at once: scheduled (so),      *)
(* launched (ex) and delivered (res).  Each copy of its counts is right    *)
(* only after the steps under way are added to it or taken from it, so     *)
(* every part below relates a copy to the steps under way.                 *)
(***************************************************************************)
Staged(r)     == so[r].kind # "out"
ReachesEnd(r) == so[r].computed + so[r].n = PromptLen[r] + so[r].nout + so[r].d

\* Tokens each step under way may still produce, and drafts known rejected
\* that the scheduler has not taken back.
StagedTokens(r)    == IF Staged(r) /\ ReachesEnd(r) THEN 1 + so[r].d ELSE 0
LaunchedTokens(r)  == IF Samples(r) THEN 1 + ex[r].d ELSE 0
DeliveredTokens(r) == IF res[r].cnt > 0 THEN 1 + res[r].d ELSE 0
Rejections(r)      == IF res[r].cnt > 0 THEN 1 + res[r].d - res[r].cnt ELSE 0

\* Where the KV of the request ends once its launched step has run, all its
\* drafts accepted, and how many inputs the staged step needs to reach the end.
Reached(r) == IF ex[r].in THEN ex[r].pos + ex[r].n ELSE kv[r]
Gap(r) == CASE so[r].kind = "new"     -> PromptLen[r]
            [] so[r].kind = "resumed" -> len[r]
            [] OTHER -> IF Samples(r) THEN 1 ELSE len[r] - Reached(r)

InRow(r)   == st[r].row # NoRow
HasPrev(r) == prevReqIdToIndex[r] # NoRow

\* An empty buffer holds nothing.
BuffersInv ==
  /\ ~soReady  => so = [r \in Req |-> NotScheduled] /\ soFinished = {}
  /\ ~exReady  => ex = [r \in Req |-> NotLaunched]
  /\ ~resReady => res = [r \in Req |-> NoResult]

\* The batch holds exactly the requests of the last step, in different rows,
\* and so does the record of the last sampled step.
RowsInv ==
  /\ \A r \in Req : ex[r].in => InRow(r)
  /\ exReady => \A r \in Req : InRow(r) => ex[r].in
  /\ \A r, q \in Req : ex[r].in /\ ex[q].in /\ ex[r].row = ex[q].row => r = q
  /\ \A r, q \in Req : HasPrev(r) /\ prevReqIdToIndex[r] = prevReqIdToIndex[q] => r = q
  /\ \A r \in Req : HasPrev(r) => sampledOnce

\* A launched step.
LaunchedInv(r) ==
  ex[r].in => /\ ex[r].row = st[r].row /\ st[r].draftLen = ex[r].d
              /\ gpuComputed[ex[r].row] = ex[r].pos
              /\ ex[r].pos = kv[r]
              /\ ex[r].n >= 1 + ex[r].d
              /\ ex[r].d > 0 => ex[r].n = 1 + ex[r].d
              /\ ex[r].discard  => ex[r].d = 0 /\ ex[r].pos + ex[r].n < len[r]
              /\ ~ex[r].discard => ex[r].pos + ex[r].n - ex[r].d = len[r]

\* What the runner keeps of the request's last step once it is sampled.
SampledInv(r) ==
  /\ 0 <= kv[r] /\ kv[r] < len[r] /\ st[r].out >= 0
  /\ res[r].cnt <= 1 + res[r].d /\ (res[r].cnt > 0 => res[r].in)
  /\ InRow(r) /\ ~ex[r].in =>
       /\ HasPrev(r) => len[r] = kv[r] + 1
       /\ st[r].draftLen > 0 =>
            /\ HasPrev(r)
            /\ gpuComputed[prevReqIdToIndex[r]] + validCount[prevReqIdToIndex[r]] = kv[r]
       /\ res[r].cnt > 0 => /\ HasPrev(r)
                            /\ res[r].cnt = validCount[prevReqIdToIndex[r]]
                            /\ res[r].d = st[r].draftLen
  /\ InRow(r) /\ (IF ex[r].in THEN ex[r].discard ELSE ~HasPrev(r)) => st[r].real = len[r]

\* A staged step, against the state it will find.
StagedInv(r) ==
  /\ ~Staged(r) => so[r] = NotScheduled
  /\ Staged(r) =>
       /\ so[r].n >= 1 + so[r].d /\ so[r].nout >= 0
       /\ so[r].d > 0 => so[r].n = 1 + so[r].d
       /\ so[r].n - so[r].d <= Gap(r)
       /\ ReachesEnd(r) <=> so[r].n - so[r].d = Gap(r)
       /\ ~ReachesEnd(r) => so[r].d = 0 /\ so[r].computed + so[r].n < PromptLen[r] + so[r].nout
       /\ r \in soFinished => so[r].kind = "new"
  /\ so[r].kind = "new" => so[r].computed = 0 /\ so[r].nout = 0 /\ ~ex[r].in /\ res[r].cnt = 0
  /\ so[r].kind = "resumed" => so[r].computed = 0 /\ ~ex[r].in /\ res[r].cnt = 0 /\ so[r].known = len[r]
  /\ so[r].kind = "cached" =>
       /\ ~InRow(r) \/ st[r].draftLen = 0 => so[r].computed = Reached(r)
       /\ ~InRow(r) => so[r].known = len[r]
       /\ InRow(r) => so[r].nout <= st[r].out + (IF Samples(r) THEN 1 ELSE 0) + st[r].draftLen

\* What the scheduler believes, against the steps under way.
SchedulerInv(r) ==
  /\ r \in finishedIds => sched[r].status \in {"finished", "waiting"}
  /\ sched[r].status = "waiting" =>
       /\ so[r].kind = "out" /\ ~ex[r].in /\ res[r].cnt = 0
       /\ sched[r].computed = 0 /\ sched[r].tokens = PromptLen[r] /\ ~sched[r].decoded
  /\ sched[r].status = "preempted" =>
       /\ so[r].kind = "out" /\ (soReady \/ ~ex[r].in)
       /\ sched[r].computed = 0 /\ ~sched[r].decoded
  /\ sched[r].status = "running" =>
       IF so[r].kind \in {"new", "resumed"} THEN sched[r].computed = so[r].n
       ELSE Reached(r) > 0 /\ sched[r].computed = Reached(r) + so[r].n + Rejections(r)
  /\ Live(r) =>
       /\ sched[r].holes = StagedTokens(r) + LaunchedTokens(r) + DeliveredTokens(r)
       /\ sched[r].tokens >= PromptLen[r]
       /\ IF sched[r].status = "waiting" \/ so[r].kind = "new"
          THEN sched[r].tokens = PromptLen[r] ELSE sched[r].tokens + res[r].cnt = len[r]
       /\ IF Staged(r)
          THEN /\ sched[r].decoded <=> ReachesEnd(r)
               /\ sched[r].tokens + sched[r].holes <= PromptLen[r] + so[r].nout + StagedTokens(r)
          ELSE /\ sched[r].decoded => ~soReady /\ InRow(r)
               /\ sched[r].status = "running" /\ InRow(r) =>
                    sched[r].tokens + sched[r].holes
                      <= PromptLen[r] + st[r].out + (IF Samples(r) THEN 1 ELSE 0) + st[r].draftLen

Inv ==
  /\ BuffersInv /\ RowsInv
  /\ \A r \in Req : /\ LaunchedInv(r) /\ SampledInv(r) /\ StagedInv(r) /\ SchedulerInv(r)

\* Without early outputs: a step is always scheduled before the tokens of the
\* step before it are taken in, so the scheduler's count is the optimistic one.
StrictInv ==
  \A r \in Req :
    /\ sched[r].status = "running" /\ ~soReady /\ InRow(r) /\ st[r].draftLen > 0 =>
         /\ sched[r].decoded
         /\ ex[r].in \/ res[r].cnt > 0
    /\ so[r].kind = "cached" /\ InRow(r) /\ st[r].draftLen > 0 =>
         so[r].computed = IF ex[r].in THEN ex[r].pos + ex[r].n
                          ELSE gpuComputed[prevReqIdToIndex[r]] + 1 + st[r].draftLen

\* The request of the row may be scheduled again, or is.
Continues(r) == so[r].kind = "cached" \/ (so[r].kind = "out" /\ sched[r].status = "running")

\* With removed ids forgotten: the record of the last sampled step names only
\* requests of the batch, and holds their own newest token.
TokensInv ==
  /\ FeedsOwnToken
  /\ \A r \in Req :
       /\ HasPrev(r) => InRow(r)
       /\ Continues(r) /\ InRow(r) /\ ~ex[r].in /\ HasPrev(r) =>
            prevSampled[prevReqIdToIndex[r]] = Token(r, kv[r])
       /\ res[r].cnt > 0 => res[r].ok

\* What has been delivered, and what is about to be.
TextInv ==
  \A r \in Req : Live(r) =>
    /\ sched[r].tokens = PromptLen[r] + Len(text[r])
    /\ res[r].cnt > 0 => res[r].first = sched[r].tokens

-----------------------------------------------------------------------------
LEMMA InvInit == Init => Inv
<1> SUFFICES ASSUME Init PROVE Inv
  OBVIOUS
<1> USE SpecAssumption
<1>1. BuffersInv
  BY DEF Init, BuffersInv
<1>2. RowsInv
  BY DEF Init, RowsInv, InRow, HasPrev, NotLaunched, Absent
<1>3. ASSUME NEW r \in Req
      PROVE LaunchedInv(r) /\ SampledInv(r) /\ StagedInv(r) /\ SchedulerInv(r)
  <2>1. /\ so[r] = NotScheduled /\ ex[r] = NotLaunched /\ res[r] = NoResult /\ st[r] = Absent
        /\ kv[r] = 0 /\ len[r] = PromptLen[r] /\ PromptLen[r] \in Nat \ {0}
        /\ sched[r] = [status |-> "waiting", computed |-> 0, tokens |-> PromptLen[r],
                       holes |-> 0, gen |-> 0, decoded |-> FALSE]
        /\ finishedIds = {}
    BY DEF Init
  <2>2. LaunchedInv(r) /\ SampledInv(r) /\ StagedInv(r)
    BY <2>1 DEF LaunchedInv, SampledInv, StagedInv, Staged, NotScheduled, NotLaunched, NoResult,
                Absent, InRow, HasPrev
  <2>3. SchedulerInv(r)
    BY <2>1 DEF SchedulerInv, Staged, StagedTokens, LaunchedTokens, DeliveredTokens, Samples,
                NotScheduled, NotLaunched, NoResult, Absent, InRow, Live
  <2> QED BY <2>2, <2>3
<1> QED BY <1>1, <1>2, <1>3 DEF Inv

LEMMA InvAbort == ASSUME NEW q \in Req PROVE TypeOK /\ Inv /\ Abort(q) => Inv'
<1> SUFFICES ASSUME TypeOK, Inv, Abort(q) PROVE Inv'
  OBVIOUS
<1> USE DEF Abort, soVars, batchVars, exVars, resVars, ghostVars
<1>1. BuffersInv'
  BY DEF BuffersInv, Inv
<1>2. RowsInv'
  BY DEF RowsInv, Inv, InRow, HasPrev
<1>3. ASSUME NEW r \in Req
      PROVE (LaunchedInv(r) /\ SampledInv(r) /\ StagedInv(r) /\ SchedulerInv(r))'
  <2>1. LaunchedInv(r)'
    BY DEF LaunchedInv, Inv
  <2>2. SampledInv(r)'
    BY DEF SampledInv, Inv, InRow, HasPrev
  <2>3. StagedInv(r)'
    BY DEF StagedInv, Inv, InRow, Staged, ReachesEnd, Gap, Reached, Samples
  <2>4. SchedulerInv(r)'
    <3>1. SchedulerInv(r)
      BY DEF Inv
    <3>2. CASE r = q
      BY <3>1, <3>2 DEF SchedulerInv, TypeOK, Live
    <3>3. CASE r # q
      <4>1. sched'[r] = sched[r] /\ (r \in finishedIds' <=> r \in finishedIds)
        BY <3>3 DEF TypeOK
      <4> QED BY <3>1, <4>1 DEF SchedulerInv, Live, InRow, Staged, ReachesEnd, Reached, Samples,
                    StagedTokens, LaunchedTokens, DeliveredTokens, Rejections
    <3> QED BY <3>2, <3>3
  <2> QED BY <2>1, <2>2, <2>3, <2>4
<1> QED BY <1>1, <1>2, <1>3 DEF Inv

LEMMA InvResubmit == ASSUME NEW q \in Req PROVE TypeOK /\ Inv /\ Resubmit(q) => Inv'
<1> SUFFICES ASSUME TypeOK, Inv, Resubmit(q) PROVE Inv'
  OBVIOUS
<1> USE SpecAssumption DEF Resubmit, soVars, batchVars, exVars, resVars, ghostVars
<1>1. BuffersInv'
  BY DEF BuffersInv, Inv
<1>2. RowsInv'
  BY DEF RowsInv, Inv, InRow, HasPrev
<1>3. ASSUME NEW r \in Req
      PROVE (LaunchedInv(r) /\ SampledInv(r) /\ StagedInv(r) /\ SchedulerInv(r))'
  <2>1. LaunchedInv(r)'
    BY DEF LaunchedInv, Inv
  <2>2. SampledInv(r)'
    BY DEF SampledInv, Inv, InRow, HasPrev
  <2>3. StagedInv(r)'
    BY DEF StagedInv, Inv, InRow, Staged, ReachesEnd, Gap, Reached, Samples
  <2>4. SchedulerInv(r)'
    <3>1. SchedulerInv(r)
      BY DEF Inv
    <3>2. CASE r = q
      <4>1. so[r] = NotScheduled /\ ~ex[r].in /\ res[r].cnt = 0
        BY <3>2 DEF Inv, BuffersInv, StagedInv, SampledInv, Staged, InFlight, NotLaunched, NoResult, TypeOK, ResEntry
      <4>2. /\ sched'[r] = [status |-> "waiting", computed |-> 0, tokens |-> PromptLen[r],
                            holes |-> 0, gen |-> sched[r].gen + 1, decoded |-> FALSE]
            /\ PromptLen[r] \in Nat
        BY <3>2 DEF TypeOK
      <4> QED
        BY <4>1, <4>2 DEF SchedulerInv, Live, Staged, NotScheduled, Samples,
                          StagedTokens, LaunchedTokens, DeliveredTokens
    <3>3. CASE r # q
      <4>1. sched'[r] = sched[r] /\ (r \in finishedIds' <=> r \in finishedIds)
        BY <3>3 DEF TypeOK
      <4> QED BY <3>1, <4>1 DEF SchedulerInv, Live, InRow, Staged, ReachesEnd, Reached, Samples,
                    StagedTokens, LaunchedTokens, DeliveredTokens, Rejections
    <3> QED BY <3>2, <3>3
  <2> QED BY <2>1, <2>2, <2>3, <2>4
<1> QED BY <1>1, <1>2, <1>3 DEF Inv

\* What UpdateFromOutput does to one request: it takes nothing from it, ends
\* it, or takes all of its tokens.
Unmoved(r) == /\ sched'[r] = sched[r] /\ text'[r] = text[r]
              /\ r \in finishedIds' <=> r \in finishedIds
Ended(r) == sched'[r].status = "finished" /\ Live(r)
Advanced(r) ==
  /\ sched'[r].status = sched[r].status
  /\ sched'[r].tokens = sched[r].tokens + res[r].cnt
  /\ sched'[r].tokens < MaxTokens[r]
  /\ sched'[r].holes = sched[r].holes - (1 + res[r].d)
  /\ sched'[r].computed = IF sched[r].computed > 0 THEN sched[r].computed - Rejections(r) ELSE 0
  /\ sched'[r].decoded = sched[r].decoded
  /\ r \in finishedIds' <=> r \in finishedIds

LEMMA UpdateCases ==
  ASSUME TypeOK, UpdateFromOutput, NEW r \in Req
  PROVE  /\ sched'[r].gen = sched[r].gen
         /\ \/ Unmoved(r) /\ ~(Live(r) /\ res[r].in /\ res[r].cnt > 0)
            \/ Live(r) /\ res[r].cnt > 0 /\ (Ended(r) \/ Advanced(r))
<1> USE SpecAssumption
<1> DEFINE Takes(q) == res[q].in /\ res[q].cnt > 0 /\ Live(q)
           Ends(q, stop, keep)  == Takes(q) /\ (q \in stop \/ keep[q] < res[q].cnt
                                      \/ sched[q].tokens + keep[q] >= MaxTokens[q])
<1>1. PICK stop \in SUBSET Req, keep \in [Req -> 0 .. NumSpec + 1] :
           /\ \A q \in Req :
                IF Takes(q) THEN keep[q] \in 1 .. Min2(res[q].cnt, MaxTokens[q] - sched[q].tokens)
                            ELSE keep[q] = 0 /\ q \notin stop
           /\ sched' = [q \in Req |->
                IF ~Takes(q) THEN sched[q]
                ELSE [sched[q] EXCEPT
                        !.status   = IF Ends(q, stop, keep) THEN "finished" ELSE @,
                        !.tokens   = @ + keep[q],
                        !.holes    = @ - (res[q].d + 1),
                        !.computed = IF @ > 0 THEN @ - (res[q].d + 1 - res[q].cnt) ELSE 0]]
           /\ text' = [q \in Req |->
                text[q] \o [j \in 1 .. keep[q] |-> IF res[q].ok THEN res[q].first + j - 1 ELSE NoRow]]
           /\ finishedIds' = finishedIds \cup {q \in Req : Ends(q, stop, keep)}
  BY DEF UpdateFromOutput
<1>2. /\ sched[r] \in SchedEntry /\ res[r] \in ResEntry /\ keep[r] \in Nat
      /\ text[r] \in Seq(Int) /\ MaxTokens[r] \in Nat
  BY DEF TypeOK
<1>3. CASE ~Takes(r)
  <2>1. sched'[r] = sched[r] /\ keep[r] = 0
    BY <1>1, <1>3
  <2>2. text'[r] = text[r] \o [j \in 1 .. 0 |-> IF res[r].ok THEN res[r].first + j - 1 ELSE NoRow]
    BY <1>1, <2>1
  <2>3. [j \in 1 .. 0 |-> IF res[r].ok THEN res[r].first + j - 1 ELSE NoRow] = <<>>
    OBVIOUS
  <2>4. text'[r] = text[r]
    BY <1>2, <2>2, <2>3
  <2>5. r \in finishedIds' <=> r \in finishedIds
    BY <1>1, <1>3
  <2> QED BY <1>3, <2>1, <2>4, <2>5 DEF Unmoved
<1>4. CASE Takes(r)
  <2> DEFINE status == IF Ends(r, stop, keep) THEN "finished" ELSE sched[r].status
             computed == IF sched[r].computed > 0
                         THEN sched[r].computed - (res[r].d + 1 - res[r].cnt) ELSE 0
  <2>1. sched'[r] = [sched[r] EXCEPT !.status = status, !.tokens = sched[r].tokens + keep[r],
                                     !.holes = sched[r].holes - (res[r].d + 1),
                                     !.computed = computed]
    BY <1>1, <1>4, Zenon
  <2> HIDE DEF status, computed
  <2>2. /\ sched'[r].status = status /\ sched'[r].tokens = sched[r].tokens + keep[r]
        /\ sched'[r].holes = sched[r].holes - (res[r].d + 1) /\ sched'[r].computed = computed
        /\ sched'[r].gen = sched[r].gen /\ sched'[r].decoded = sched[r].decoded
    BY <1>2, <2>1, Zenon DEF SchedEntry
  <2>3. CASE Ends(r, stop, keep)
    BY <1>4, <2>2, <2>3 DEF status, Ended
  <2>4. CASE ~Ends(r, stop, keep)
    <3>1. keep[r] = res[r].cnt /\ sched[r].tokens + keep[r] < MaxTokens[r]
      <4>1. ~(keep[r] < res[r].cnt) /\ ~(sched[r].tokens + keep[r] >= MaxTokens[r])
        BY <1>4, <2>4
      <4>2. keep[r] \in 1 .. Min2(res[r].cnt, MaxTokens[r] - sched[r].tokens)
        BY <1>1, <1>4
      <4>3. res[r].cnt \in Nat /\ sched[r].tokens \in Nat
        BY <1>2 DEF SchedEntry, ResEntry
      <4> QED BY <1>2, <4>1, <4>2, <4>3 DEF Min2
    <3>2. r \in finishedIds' <=> r \in finishedIds
      BY <1>1, <2>4
    <3>3. computed = IF sched[r].computed > 0 THEN sched[r].computed - Rejections(r) ELSE 0
      BY <1>2, <1>4 DEF computed, Rejections, SchedEntry, ResEntry
    <3>4. sched'[r].holes = sched[r].holes - (1 + res[r].d)
      BY <1>2, <2>2 DEF SchedEntry, ResEntry
    <3> QED BY <1>4, <2>2, <2>4, <3>1, <3>2, <3>3, <3>4, Zenon DEF status, Advanced
  <2> QED BY <2>2, <2>3, <2>4, <1>4
<1> QED BY <1>3, <1>4

LEMMA InvUpdateFromOutput == TypeOK /\ Inv /\ UpdateFromOutput => Inv'
<1> SUFFICES ASSUME TypeOK, Inv, UpdateFromOutput PROVE Inv'
  OBVIOUS
<1>1. /\ UNCHANGED <<soReady, so, soFinished, st, prevReqIdToIndex, prevSampled, validCount,
                     sampledOnce, exReady, ex, gpuComputed, kv, len>>
      /\ resReady' = FALSE /\ res' = [r \in Req |-> NoResult]
  BY DEF UpdateFromOutput, soVars, batchVars, exVars, ghostVars
<1>2. BuffersInv'
  BY <1>1 DEF BuffersInv, Inv
<1>3. RowsInv'
  BY <1>1 DEF RowsInv, Inv, InRow, HasPrev
<1>4. ASSUME NEW r \in Req
      PROVE (LaunchedInv(r) /\ SampledInv(r) /\ StagedInv(r) /\ SchedulerInv(r))'
  <2>1. LaunchedInv(r)'
    BY <1>1 DEF LaunchedInv, Inv
  <2>2. SampledInv(r)'
    BY <1>1 DEF SampledInv, Inv, InRow, HasPrev, NoResult
  <2>3. StagedInv(r)'
    BY <1>1 DEF StagedInv, Inv, InRow, Staged, ReachesEnd, Gap, Reached, Samples, NoResult
  <2>4. SchedulerInv(r)'
    <3>1. SchedulerInv(r) /\ SampledInv(r) /\ StagedInv(r) /\ LaunchedInv(r)
      BY DEF Inv
    <3>2. /\ res'[r].cnt = 0 /\ DeliveredTokens(r)' = 0 /\ Rejections(r)' = 0
          /\ StagedTokens(r)' = StagedTokens(r) /\ LaunchedTokens(r)' = LaunchedTokens(r)
          /\ Reached(r)' = Reached(r) /\ Staged(r)' = Staged(r) /\ ReachesEnd(r)' = ReachesEnd(r)
          /\ Samples(r)' = Samples(r) /\ InRow(r)' = InRow(r)
      BY <1>1 DEF NoResult, DeliveredTokens, Rejections, StagedTokens, LaunchedTokens, Reached,
                  Staged, ReachesEnd, Samples, InRow
    <3>3. /\ sched[r] \in SchedEntry /\ res[r] \in ResEntry
          /\ so[r] \in SoEntry /\ st[r] \in StEntry /\ ex[r] \in ExEntry /\ len[r] \in Int /\ kv[r] \in Int
          /\ PromptLen[r] \in Nat
      BY SpecAssumption DEF TypeOK
    <3>4. CASE Unmoved(r) /\ ~(Live(r) /\ res[r].in /\ res[r].cnt > 0)
      <4>1. Live(r)' = Live(r)
        BY <3>4 DEF Unmoved, Live
      <4>2. CASE Live(r)
        <5>1. res[r].cnt = 0 /\ DeliveredTokens(r) = 0 /\ Rejections(r) = 0
          BY <3>1, <3>3, <3>4, <4>2 DEF SampledInv, ResEntry, DeliveredTokens, Rejections
        <5> QED BY <1>1, <3>1, <3>2, <3>4, <4>1, <5>1 DEF SchedulerInv, Unmoved
      <4>3. CASE ~Live(r)
        <5>1. sched[r].status = "finished"
          BY <3>3, <4>3 DEF Live, SchedEntry
        <5> QED BY <3>4, <4>1, <4>3, <5>1 DEF SchedulerInv, Unmoved
      <4> QED BY <4>2, <4>3
    <3>5. CASE Ended(r)
      BY <3>5 DEF Ended, SchedulerInv, Live
    <3>6. CASE Live(r) /\ res[r].cnt > 0 /\ Advanced(r)
      <4>1. Live(r)' /\ sched[r].status \in {"running", "preempted"} /\ so[r].kind # "new"
        BY <3>1, <3>3, <3>6 DEF Live, Advanced, SchedulerInv, StagedInv
      <4>2. DeliveredTokens(r) = 1 + res[r].d /\ Rejections(r) = 1 + res[r].d - res[r].cnt
        BY <3>6 DEF DeliveredTokens, Rejections
      <4>3. sched[r].status = "running" =>
              IF so[r].kind = "resumed" THEN sched'[r].computed = so[r].n
              ELSE Reached(r) > 0 /\ sched'[r].computed = Reached(r) + so[r].n
        <5> SUFFICES ASSUME sched[r].status = "running"
                     PROVE IF so[r].kind = "resumed" THEN sched'[r].computed = so[r].n
                           ELSE Reached(r) > 0 /\ sched'[r].computed = Reached(r) + so[r].n
          OBVIOUS
        <5>1. so[r].kind # "resumed"
          BY <3>1, <3>6, <3>3 DEF StagedInv
        <5>2. Reached(r) > 0 /\ sched[r].computed = Reached(r) + so[r].n + Rejections(r)
          BY <3>1, <4>1, <5>1 DEF SchedulerInv
        <5>3. Reached(r) \in Int /\ Rejections(r) \in Nat
          BY <3>1, <3>3, <4>2 DEF Reached, ExEntry, SampledInv, ResEntry
        <5> QED BY <3>3, <3>6, <5>1, <5>2, <5>3 DEF Advanced, SoEntry
      <4>4. sched[r].status = "preempted" => sched'[r].computed = 0
        BY <3>1, <3>6 DEF SchedulerInv, Advanced
      <4>5. sched'[r].holes = StagedTokens(r) + LaunchedTokens(r)
        <5>1. StagedTokens(r) \in Int /\ LaunchedTokens(r) \in Int
          BY <3>3 DEF StagedTokens, LaunchedTokens, SoEntry, ExEntry
        <5> QED BY <3>1, <3>3, <3>6, <4>2, <5>1 DEF SchedulerInv, Advanced, ResEntry
      <4>6. /\ sched'[r].tokens >= PromptLen[r] /\ sched'[r].tokens = len[r]
            /\ sched'[r].tokens + sched'[r].holes <= sched[r].tokens + sched[r].holes
        BY <3>1, <3>3, <3>6, <4>1 DEF SchedulerInv, SampledInv, Advanced, ResEntry, SchedEntry
      <4>7. sched'[r].tokens \in Int /\ sched'[r].holes \in Int
        BY <3>3, <3>6 DEF Advanced, SchedEntry, ResEntry
      <4>8. IF Staged(r)
            THEN sched'[r].tokens + sched'[r].holes <= PromptLen[r] + so[r].nout + StagedTokens(r)
            ELSE sched[r].status = "running" /\ InRow(r) =>
                    sched'[r].tokens + sched'[r].holes
                      <= PromptLen[r] + st[r].out + (IF Samples(r) THEN 1 ELSE 0) + st[r].draftLen
        <5>1. /\ StagedTokens(r) \in Int /\ sched[r].tokens \in Int /\ sched[r].holes \in Int
              /\ so[r].nout \in Int /\ st[r].out \in Int /\ st[r].draftLen \in Int
          BY <3>3 DEF StagedTokens, SoEntry, StEntry, SchedEntry
        <5> QED BY <3>1, <3>3, <3>6, <4>6, <4>7, <5>1 DEF SchedulerInv
      <4>9. /\ sched'[r].status = sched[r].status /\ sched'[r].decoded = sched[r].decoded
            /\ r \in finishedIds' <=> r \in finishedIds
        BY <3>6 DEF Advanced
      <4> QED
        <5>1. so'[r] = so[r] /\ ex'[r] = ex[r] /\ st'[r] = st[r] /\ len'[r] = len[r] /\ soReady' = soReady
          BY <1>1
        <5>2. /\ r \in finishedIds' => sched'[r].status \in {"finished", "waiting"}
              /\ sched'[r].status # "waiting"
              /\ sched'[r].status = "preempted" =>
                   /\ so'[r].kind = "out" /\ (soReady' \/ ~ex'[r].in)
                   /\ sched'[r].computed = 0 /\ ~sched'[r].decoded
          BY <3>1, <4>1, <4>4, <4>9, <5>1 DEF SchedulerInv
        <5>3. /\ Staged(r) => (sched'[r].decoded <=> ReachesEnd(r))
              /\ ~Staged(r) => (sched'[r].decoded => ~soReady /\ InRow(r))
          BY <3>1, <3>6, <4>9 DEF SchedulerInv
        <5>4. /\ DeliveredTokens(r)' = 0 /\ StagedTokens(r) + LaunchedTokens(r) + 0 = sched'[r].holes
              /\ sched'[r].tokens + 0 = len[r] /\ so[r].n \in Int /\ Reached(r) \in Int
          BY <3>2, <3>3, <4>5, <4>6, <4>7 DEF SoEntry, StagedTokens, LaunchedTokens, SoEntry, ExEntry, Reached
        <5> QED
          BY <3>2, <4>1, <4>3, <4>6, <4>8, <4>9, <5>1, <5>2, <5>3, <5>4 DEF SchedulerInv
    <3> QED BY <3>4, <3>5, <3>6, UpdateCases
  <2> QED BY <2>1, <2>2, <2>3, <2>4
<1> QED BY <1>2, <1>3, <1>4 DEF Inv

\* What Schedule does to one request.
Stages(r, amount) ==
  /\ CanSchedule(r) /\ so'[r] = Entry(r, amount)
  /\ sched'[r].status = "running"
  /\ sched'[r].computed = sched[r].computed + amount.n
  /\ sched'[r].tokens = sched[r].tokens
  /\ sched'[r].decoded <=> amount.n = Uncomputed(r) + amount.d
  /\ sched'[r].holes = IF amount.n = Uncomputed(r) + amount.d
                       THEN sched[r].holes + 1 + amount.d ELSE sched[r].holes
LeavesOut(r) ==
  /\ so'[r] = NotScheduled /\ ~sched'[r].decoded
  /\ sched'[r].tokens = sched[r].tokens /\ sched'[r].holes = sched[r].holes
  /\ \/ sched[r].status = "running" /\ sched'[r].status = "preempted" /\ sched'[r].computed = 0
     \/ sched'[r].status = sched[r].status /\ sched'[r].computed = sched[r].computed

LEMMA ScheduleCases ==
  ASSUME TypeOK, Schedule, NEW r \in Req
  PROVE  /\ sched'[r].gen = sched[r].gen
         /\ LeavesOut(r) \/ \E amount \in Amounts(r) : Stages(r, amount)
<1> DEFINE Moved(q, S, preempted, amount) ==
                 CASE q \in S         -> AfterSchedule(q, amount[q])
                   [] q \in preempted -> [sched[q] EXCEPT !.status = "preempted",
                                                          !.computed = 0,
                                                          !.decoded = FALSE]
                   [] OTHER           -> [sched[q] EXCEPT !.decoded = FALSE]
<1>1. PICK S \in SUBSET {q \in Req : CanSchedule(q)} :
       \E preempted \in SUBSET {q \in Req \ S : sched[q].status = "running"} :
          \E amount \in [S -> UNION {Amounts(q) : q \in S}] :
            /\ \A q \in S : amount[q] \in Amounts(q)
            /\ so' = [q \in Req |-> IF q \in S THEN Entry(q, amount[q]) ELSE NotScheduled]
            /\ sched' = [q \in Req |-> Moved(q, S, preempted, amount)]
  BY DEF Schedule
<1>2. PICK preempted \in SUBSET {q \in Req \ S : sched[q].status = "running"},
           amount \in [S -> UNION {Amounts(q) : q \in S}] :
            /\ \A q \in S : amount[q] \in Amounts(q)
            /\ so' = [q \in Req |-> IF q \in S THEN Entry(q, amount[q]) ELSE NotScheduled]
            /\ sched' = [q \in Req |-> Moved(q, S, preempted, amount)]
  BY <1>1
<1>3. sched'[r] = Moved(r, S, preempted, amount) /\ sched[r] \in SchedEntry
  BY <1>2 DEF TypeOK
<1>4. CASE r \in S
  <2>1. sched'[r] = AfterSchedule(r, amount[r]) /\ so'[r] = Entry(r, amount[r])
        /\ CanSchedule(r) /\ amount[r] \in Amounts(r)
    BY <1>1, <1>2, <1>3, <1>4
  <2> DEFINE atEnd == amount[r].n = Uncomputed(r) + amount[r].d
             holes == IF atEnd THEN sched[r].holes + 1 + amount[r].d ELSE sched[r].holes
  <2>2. PICK u \in BOOLEAN : u = atEnd
    OBVIOUS
  <2>3. sched'[r] = [sched[r] EXCEPT !.status = "running",
                       !.computed = sched[r].computed + amount[r].n, !.holes = holes, !.decoded = u]
    BY <2>1, <2>2, Zenon DEF AfterSchedule
  <2> HIDE DEF holes
  <2>4. /\ sched'[r].status = "running" /\ sched'[r].computed = sched[r].computed + amount[r].n
        /\ sched'[r].tokens = sched[r].tokens /\ sched'[r].decoded = u
        /\ sched'[r].holes = holes /\ sched'[r].gen = sched[r].gen
    BY <1>3, <2>3, Zenon DEF SchedEntry
  <2>5. Stages(r, amount[r])
    BY <2>1, <2>2, <2>4, Zenon DEF Stages, holes
  <2> QED BY <2>1, <2>4, <2>5
<1>5. CASE r \notin S /\ r \in preempted
  <2>1. sched'[r] = [sched[r] EXCEPT !.status = "preempted", !.computed = 0, !.decoded = FALSE]
    BY <1>3, <1>5, Zenon
  <2>2. so'[r] = NotScheduled /\ sched[r].status = "running"
    BY <1>2, <1>5
  <2> QED BY <1>3, <2>1, <2>2, Zenon DEF LeavesOut, SchedEntry
<1>6. CASE r \notin S /\ r \notin preempted
  <2>1. sched'[r] = [sched[r] EXCEPT !.decoded = FALSE]
    BY <1>3, <1>6, Zenon
  <2>2. so'[r] = NotScheduled
    BY <1>2, <1>6
  <2> QED BY <1>3, <2>1, <2>2, Zenon DEF LeavesOut, SchedEntry
<1> QED BY <1>4, <1>5, <1>6

\* What an entry amounts to.
LEMMA AmountBounds ==
  ASSUME TypeOK, NEW r \in Req, NEW amount \in Amounts(r)
  PROVE  /\ amount.n \in Nat /\ amount.d \in Nat /\ Uncomputed(r) \in Int
         /\ amount.n >= 1 + amount.d /\ amount.n - amount.d <= Uncomputed(r)
         /\ amount.d > 0 => amount.n = 1 + amount.d /\ amount.n = Uncomputed(r) + amount.d
<1> USE SpecAssumption
<1>1. sched[r] \in SchedEntry
  BY DEF TypeOK
<1>2. Uncomputed(r) \in Int
  BY <1>1 DEF Uncomputed, SchedEntry
<1>3. CASE amount \in {[n |-> n, d |-> 0] : n \in 1 .. Min2(MaxChunk, Uncomputed(r))}
  BY <1>2, <1>3 DEF Min2
<1>4. CASE amount \in {[n |-> 1 + d, d |-> d] :
            d \in IF sched[r].decoded /\ Uncomputed(r) = 1 THEN 0 .. NumSpec ELSE {}}
  BY <1>2, <1>4
<1> QED BY <1>2, <1>3, <1>4 DEF Amounts

\* Seen by the scheduler, all steps under way fully accepted, a request lacks
\* exactly what the runner will find it lacks.
LEMMA Lacks ==
  ASSUME TypeOK, Inv, ~soReady, ~(exReady /\ resReady), NEW r \in Req, CanSchedule(r)
  PROVE  /\ ~Staged(r)
         /\ sched[r].status = "waiting" =>
              /\ sched[r].computed = 0 /\ sched[r].holes = 0 /\ sched[r].tokens = PromptLen[r]
              /\ ~ex[r].in /\ res[r].cnt = 0
         /\ sched[r].status = "preempted" =>
              /\ sched[r].computed = 0 /\ sched[r].holes = 0 /\ sched[r].tokens = len[r]
              /\ ~ex[r].in /\ res[r].cnt = 0
         /\ sched[r].status = "running" =>
              /\ Uncomputed(r) = IF Samples(r) THEN 1 ELSE len[r] - Reached(r)
              /\ ~InRow(r) \/ st[r].draftLen = 0 => Rejections(r) = 0
              /\ ~InRow(r) => sched[r].tokens = len[r]
<1> USE SpecAssumption
<1>1. LaunchedInv(r) /\ SampledInv(r) /\ SchedulerInv(r) /\ BuffersInv /\ RowsInv
  BY DEF Inv
<1>2. /\ sched[r] \in SchedEntry /\ res[r] \in ResEntry
      /\ st[r] \in StEntry /\ ex[r] \in ExEntry /\ len[r] \in Int /\ kv[r] \in Int /\ PromptLen[r] \in Nat
  BY DEF TypeOK
<1>3. ~Staged(r) /\ so[r] = NotScheduled /\ so[r].n = 0 /\ StagedTokens(r) = 0 /\ so[r].kind = "out"
  BY <1>1 DEF BuffersInv, Staged, NotScheduled, StagedTokens
<1>4. Live(r) /\ (sched[r].holes > 0 => sched[r].decoded)
  BY DEF CanSchedule
<1>5. sched[r].holes = LaunchedTokens(r) + DeliveredTokens(r)
  <2>1. LaunchedTokens(r) \in Nat /\ DeliveredTokens(r) \in Nat
    BY <1>2 DEF LaunchedTokens, DeliveredTokens, ExEntry, ResEntry
  <2> QED BY <1>1, <1>2, <1>3, <1>4, <2>1 DEF SchedulerInv, SchedEntry
<1>6. ex[r].in => res[r].cnt = 0
  <2>1. ex[r].in => exReady
    BY <1>1 DEF BuffersInv, NotLaunched
  <2> QED BY <1>1, <2>1 DEF BuffersInv, NoResult
<1>7. sched[r].holes = 0 => res[r].cnt = 0 /\ ~Samples(r)
  <2>1. ex[r].d \in Nat /\ res[r].d \in Nat /\ res[r].cnt \in Nat
    BY <1>2 DEF ExEntry, ResEntry
  <2> QED BY <1>5, <2>1 DEF LaunchedTokens, DeliveredTokens
<1>8. sched[r].holes >= 0
  BY <1>2, <1>5 DEF LaunchedTokens, DeliveredTokens, ExEntry, ResEntry
<1>9. ~sched[r].decoded => sched[r].holes = 0
  BY <1>2, <1>4, <1>8 DEF SchedEntry
<1>10. CASE sched[r].status = "waiting"
  <2>1. sched[r].holes = 0
    BY <1>1, <1>9, <1>10 DEF SchedulerInv
  <2> QED BY <1>1, <1>3, <1>10, <2>1 DEF SchedulerInv
<1>11. CASE sched[r].status = "preempted"
  <2>1. ~ex[r].in /\ sched[r].computed = 0 /\ ~sched[r].decoded
    BY <1>1, <1>11 DEF SchedulerInv
  <2>2. sched[r].holes = 0 /\ res[r].cnt = 0
    BY <1>7, <1>9, <2>1
  <2>3. sched[r].tokens = len[r]
    BY <1>1, <1>2, <1>3, <1>4, <1>11, <2>2 DEF SchedulerInv, SchedEntry
  <2> QED BY <1>3, <1>11, <2>1, <2>2, <2>3
<1>12. CASE sched[r].status = "running"
  <2>1. /\ sched[r].computed = Reached(r) + Rejections(r)
        /\ sched[r].tokens + res[r].cnt = len[r]
        /\ sched[r].decoded => InRow(r)
        /\ Reached(r) \in Int /\ Rejections(r) \in Int
    <3>1. Reached(r) \in Int /\ Rejections(r) \in Int
      BY <1>2 DEF Reached, Rejections, ExEntry, ResEntry
    <3> QED BY <1>1, <1>2, <1>3, <1>4, <1>12, <3>1 DEF SchedulerInv
  <2>2. ~InRow(r) => sched[r].holes = 0 /\ res[r].cnt = 0
    BY <1>7, <1>9, <2>1
  <2>3. ~InRow(r) \/ st[r].draftLen = 0 => Rejections(r) = 0
    <3>1. CASE ex[r].in \/ ~InRow(r)
      BY <1>6, <2>2, <3>1 DEF Rejections
    <3>2. CASE ~ex[r].in /\ InRow(r)
      <4>1. st[r].draftLen = 0 /\ res[r].cnt > 0 => res[r].cnt = 1 /\ res[r].d = 0
        BY <1>1, <1>2, <3>2 DEF SampledInv, ResEntry
      <4> QED BY <3>2, <4>1 DEF Rejections
    <3> QED BY <3>1, <3>2
  <2>4. ~InRow(r) => sched[r].tokens = len[r]
    BY <1>2, <2>1, <2>2 DEF SchedEntry
  <2>5. Uncomputed(r) = IF Samples(r) THEN 1 ELSE len[r] - Reached(r)
    <3>0. /\ sched[r].tokens \in Int /\ sched[r].holes \in Int /\ sched[r].computed \in Int
          /\ res[r].cnt \in Nat /\ res[r].d \in Nat
      BY <1>2 DEF SchedEntry, ResEntry
    <3>1. CASE ex[r].in
      <4>1. /\ ex[r].n \in Nat /\ ex[r].pos \in Int /\ ex[r].d \in Nat
            /\ res[r].cnt = 0 /\ Rejections(r) = 0 /\ DeliveredTokens(r) = 0
        BY <1>2, <1>6, <3>1 DEF ExEntry, Rejections, DeliveredTokens
      <4>2. sched[r].computed = ex[r].pos + ex[r].n
        BY <2>1, <3>1, <4>1 DEF Reached
      <4>3. CASE Samples(r)
        <5>1. sched[r].holes = 1 + ex[r].d /\ ex[r].pos + ex[r].n - ex[r].d = len[r]
          BY <1>1, <1>5, <4>1, <4>3 DEF LaunchedTokens, LaunchedInv, Samples
        <5> QED BY <1>2, <2>1, <3>0, <4>1, <4>2, <4>3, <5>1 DEF Uncomputed
      <4>4. CASE ~Samples(r)
        <5>1. sched[r].holes = 0
          BY <1>5, <4>1, <4>4 DEF LaunchedTokens
        <5> QED BY <1>2, <2>1, <3>0, <3>1, <4>1, <4>2, <4>4, <5>1 DEF Uncomputed, Reached
      <4> QED BY <4>3, <4>4
    <3>2. CASE ~ex[r].in
      <4>1. ~Samples(r) /\ LaunchedTokens(r) = 0 /\ Reached(r) = kv[r]
        BY <3>2 DEF Samples, LaunchedTokens, Reached
      <4>2. sched[r].tokens + sched[r].holes = len[r] + Rejections(r)
        BY <1>2, <1>5, <2>1, <3>0, <4>1 DEF DeliveredTokens, Rejections
      <4> QED BY <1>2, <2>1, <3>0, <4>1, <4>2 DEF Uncomputed
    <3> QED BY <3>1, <3>2
  <2> QED BY <1>3, <1>12, <2>3, <2>4, <2>5
<1> QED BY <1>3, <1>4, <1>10, <1>11, <1>12 DEF Live

LEMMA InvSchedule == TypeOK /\ Inv /\ Schedule => Inv'
<1> SUFFICES ASSUME TypeOK, Inv, Schedule PROVE Inv'
  OBVIOUS
<1> USE SpecAssumption
<1>1. /\ UNCHANGED <<st, prevReqIdToIndex, prevSampled, validCount, sampledOnce, text,
                     exReady, ex, gpuComputed, resReady, res, kv, len>>
      /\ soReady' = TRUE /\ soFinished' = finishedIds /\ finishedIds' = {}
      /\ ~soReady /\ ~(exReady /\ resReady)
  BY DEF Schedule, batchVars, exVars, resVars, ghostVars
<1>2. BuffersInv'
  BY <1>1 DEF BuffersInv, Inv
<1>3. RowsInv'
  BY <1>1 DEF RowsInv, Inv, InRow, HasPrev
<1>4. ASSUME NEW r \in Req
      PROVE (LaunchedInv(r) /\ SampledInv(r) /\ StagedInv(r) /\ SchedulerInv(r))'
  <2>1. LaunchedInv(r)'
    BY <1>1 DEF LaunchedInv, Inv
  <2>2. SampledInv(r)'
    BY <1>1 DEF SampledInv, Inv, InRow, HasPrev
  <2>3. SchedulerInv(r) /\ SampledInv(r) /\ LaunchedInv(r) /\ BuffersInv
    BY DEF Inv
  <2>4. /\ LaunchedTokens(r)' = LaunchedTokens(r) /\ DeliveredTokens(r)' = DeliveredTokens(r)
        /\ Rejections(r)' = Rejections(r) /\ Reached(r)' = Reached(r)
        /\ Samples(r)' = Samples(r) /\ InRow(r)' = InRow(r)
        /\ ex'[r] = ex[r] /\ res'[r] = res[r] /\ st'[r] = st[r] /\ len'[r] = len[r] /\ kv'[r] = kv[r]
    BY <1>1 DEF LaunchedTokens, DeliveredTokens, Rejections, Reached, Samples, InRow
  <2>5. /\ sched[r] \in SchedEntry /\ res[r] \in ResEntry
        /\ st[r] \in StEntry /\ ex[r] \in ExEntry /\ len[r] \in Int /\ kv[r] \in Int
        /\ PromptLen[r] \in Nat
    BY DEF TypeOK
  <2>6. /\ LaunchedTokens(r) \in Nat /\ DeliveredTokens(r) \in Nat
        /\ Rejections(r) \in Int /\ Reached(r) \in Int
    BY <2>5 DEF LaunchedTokens, DeliveredTokens, Rejections, Reached, ExEntry, ResEntry
  <2>7. ~Staged(r) /\ StagedTokens(r) = 0 /\ so[r].n = 0 /\ so[r].kind = "out"
    BY <1>1, <2>3 DEF BuffersInv, Staged, StagedTokens, NotScheduled
  <2>8. CASE LeavesOut(r)
    <3>1. ~Staged(r)' /\ StagedTokens(r)' = 0 /\ so'[r] = NotScheduled /\ so'[r].kind = "out" /\ so'[r].n = 0
      BY <2>8 DEF LeavesOut, Staged, StagedTokens, NotScheduled
    <3>2. StagedInv(r)'
      BY <3>1 DEF StagedInv
    <3>3. SchedulerInv(r)'
      <4>1. CASE sched[r].status = "running" /\ sched'[r].status = "preempted" /\ sched'[r].computed = 0
        BY <1>1, <2>3, <2>4, <2>5, <2>6, <2>7, <2>8, <3>1, <4>1 DEF SchedulerInv, LeavesOut, Live
      <4>2. CASE sched'[r].status = sched[r].status /\ sched'[r].computed = sched[r].computed
        BY <1>1, <2>3, <2>4, <2>5, <2>6, <2>7, <2>8, <3>1, <4>2 DEF SchedulerInv, LeavesOut, Live
      <4> QED BY <2>8, <4>1, <4>2 DEF LeavesOut
    <3> QED BY <2>1, <2>2, <3>2, <3>3
  <2>9. ASSUME NEW amount \in Amounts(r), Stages(r, amount)
        PROVE StagedInv(r)' /\ SchedulerInv(r)'
    <3>1. /\ amount.n \in Nat /\ amount.d \in Nat /\ Uncomputed(r) \in Int
          /\ amount.n >= 1 + amount.d /\ amount.n - amount.d <= Uncomputed(r)
          /\ amount.d > 0 => amount.n = 1 + amount.d /\ amount.n = Uncomputed(r) + amount.d
      BY AmountBounds
    <3>2. /\ so'[r].kind = Kind(r) /\ so'[r].n = amount.n /\ so'[r].d = amount.d
          /\ so'[r].computed = sched[r].computed /\ so'[r].known = sched[r].tokens
          /\ so'[r].nout = sched[r].tokens + sched[r].holes - PromptLen[r]
      BY <2>9 DEF Stages, Entry
    <3>3. Uncomputed(r) = sched[r].tokens + sched[r].holes - sched[r].computed
      BY DEF Uncomputed
    <3>4. CanSchedule(r) /\ Live(r) /\ sched[r].status \in {"waiting", "running", "preempted"}
      BY <2>9 DEF Stages, CanSchedule, Live
    <3>5. /\ sched[r].tokens \in Int /\ sched[r].holes \in Int /\ sched[r].computed \in Int
          /\ sched[r].tokens >= PromptLen[r] /\ sched[r].holes = LaunchedTokens(r) + DeliveredTokens(r)
      BY <2>3, <2>5, <2>6, <2>7, <3>4 DEF SchedulerInv, SchedEntry
    <3>6. Staged(r)' /\ (ReachesEnd(r)' <=> amount.n = Uncomputed(r) + amount.d)
      BY <3>1, <3>2, <3>3, <3>5, <2>5 DEF Staged, ReachesEnd, Kind
    <3>7. /\ sched[r].status = "waiting" =>
              /\ sched[r].computed = 0 /\ sched[r].holes = 0 /\ sched[r].tokens = PromptLen[r]
              /\ ~ex[r].in /\ res[r].cnt = 0
          /\ sched[r].status = "preempted" =>
              /\ sched[r].computed = 0 /\ sched[r].holes = 0 /\ sched[r].tokens = len[r]
              /\ ~ex[r].in /\ res[r].cnt = 0
          /\ sched[r].status = "running" =>
              /\ Uncomputed(r) = IF Samples(r) THEN 1 ELSE len[r] - Reached(r)
              /\ ~InRow(r) \/ st[r].draftLen = 0 => Rejections(r) = 0
              /\ ~InRow(r) => sched[r].tokens = len[r]
      BY <1>1, <3>4, Lacks
    <3>8. /\ Kind(r) \in {"new", "resumed", "cached"}
          /\ Kind(r) = "new" <=> sched[r].status = "waiting"
          /\ Kind(r) = "resumed" <=> sched[r].status = "preempted"
          /\ Kind(r) = "cached" <=> sched[r].status = "running"
      BY <3>4 DEF Kind
    <3>9. Gap(r)' = Uncomputed(r)
      BY <2>4, <2>5, <3>2, <3>3, <3>5, <3>7, <3>8 DEF Gap
    <3>10. sched[r].status = "running" => sched[r].computed = Reached(r) + Rejections(r)
                                            /\ Reached(r) > 0
      BY <2>3, <2>6, <2>7 DEF SchedulerInv
    <3>11. ~(r \in finishedIds /\ so'[r].kind # "new")
      BY <2>3, <3>2, <3>4, <3>8 DEF SchedulerInv
    <3>12. StagedInv(r)'
      <4>1. /\ so'[r].n >= 1 + so'[r].d /\ so'[r].nout >= 0
            /\ so'[r].d > 0 => so'[r].n = 1 + so'[r].d
            /\ so'[r].n - so'[r].d <= Gap(r)'
            /\ ReachesEnd(r)' <=> so'[r].n - so'[r].d = Gap(r)'
            /\ ~ReachesEnd(r)' => so'[r].d = 0 /\ so'[r].computed + so'[r].n < PromptLen[r] + so'[r].nout
        BY <2>5, <2>6, <3>1, <3>2, <3>3, <3>5, <3>6, <3>9
      <4>2. /\ so'[r].kind = "new" => so'[r].computed = 0 /\ so'[r].nout = 0 /\ ~ex'[r].in /\ res'[r].cnt = 0
            /\ so'[r].kind = "resumed" => so'[r].computed = 0 /\ ~ex'[r].in /\ res'[r].cnt = 0
                                            /\ so'[r].known = len'[r]
        BY <2>4, <2>5, <3>2, <3>5, <3>7, <3>8
      <4>3. so'[r].kind = "cached" =>
              /\ ~InRow(r)' \/ st'[r].draftLen = 0 => so'[r].computed = Reached(r)'
              /\ ~InRow(r)' => so'[r].known = len'[r]
              /\ InRow(r)' => so'[r].nout <= st'[r].out + (IF Samples(r)' THEN 1 ELSE 0) + st'[r].draftLen
        <5> SUFFICES ASSUME so'[r].kind = "cached"
                     PROVE /\ ~InRow(r)' \/ st'[r].draftLen = 0 => so'[r].computed = Reached(r)'
                           /\ ~InRow(r)' => so'[r].known = len'[r]
                           /\ InRow(r)' => so'[r].nout <= st'[r].out + (IF Samples(r)' THEN 1 ELSE 0)
                                                            + st'[r].draftLen
          OBVIOUS
        <5>1. sched[r].status = "running"
          BY <3>2, <3>8
        <5>2. ~InRow(r) \/ st[r].draftLen = 0 => so'[r].computed = Reached(r)
          BY <2>6, <3>2, <3>7, <3>10, <5>1
        <5>3. InRow(r) => so'[r].nout <= st[r].out + (IF Samples(r) THEN 1 ELSE 0) + st[r].draftLen
          <6>1. InRow(r) => sched[r].tokens + sched[r].holes
                      <= PromptLen[r] + st[r].out + (IF Samples(r) THEN 1 ELSE 0) + st[r].draftLen
            BY <2>3, <2>7, <3>4, <5>1 DEF SchedulerInv
          <6> QED BY <2>5, <3>2, <3>5, <6>1 DEF StEntry
        <5> QED BY <2>4, <3>2, <3>7, <5>1, <5>2, <5>3
      <4> QED BY <1>1, <3>6, <3>11, <4>1, <4>2, <4>3 DEF StagedInv
    <3>13. SchedulerInv(r)'
      <4>1. sched'[r].status = "running" /\ Live(r)' /\ r \notin finishedIds'
        BY <1>1, <2>9 DEF Stages, Live
      <4>2. /\ sched'[r].computed = sched[r].computed + so'[r].n
            /\ sched'[r].tokens = sched[r].tokens
            /\ sched'[r].decoded <=> ReachesEnd(r)'
            /\ sched'[r].holes = IF ReachesEnd(r)' THEN sched[r].holes + 1 + so'[r].d ELSE sched[r].holes
        BY <2>9, <3>2, <3>6 DEF Stages
      <4>3. StagedTokens(r)' = IF ReachesEnd(r)' THEN 1 + so'[r].d ELSE 0
        BY <3>6 DEF StagedTokens
      <4>4. so'[r].n \in Nat /\ so'[r].d \in Nat
        BY <3>1, <3>2
      <4>5. IF so'[r].kind \in {"new", "resumed"} THEN sched'[r].computed = so'[r].n
            ELSE Reached(r)' > 0 /\ sched'[r].computed = Reached(r)' + so'[r].n + Rejections(r)'
        BY <2>4, <2>6, <3>2, <3>5, <3>7, <3>8, <3>10, <4>2, <4>4
      <4>6. /\ sched'[r].holes = StagedTokens(r)' + LaunchedTokens(r)' + DeliveredTokens(r)'
            /\ sched'[r].tokens >= PromptLen[r]
            /\ sched'[r].tokens + sched'[r].holes <= PromptLen[r] + so'[r].nout + StagedTokens(r)'
        BY <2>4, <2>5, <2>6, <3>2, <3>5, <4>2, <4>3, <4>4
      <4>7. IF so'[r].kind = "new" THEN sched'[r].tokens = PromptLen[r]
            ELSE sched'[r].tokens + res'[r].cnt = len'[r]
        <5>1. CASE sched[r].status = "waiting"
          BY <3>2, <3>7, <3>8, <4>2, <5>1
        <5>2. CASE sched[r].status # "waiting"
          BY <2>3, <2>4, <2>7, <3>2, <3>4, <3>8, <4>2, <5>2 DEF SchedulerInv
        <5> QED BY <5>1, <5>2
      <4> QED BY <3>6, <4>1, <4>2, <4>5, <4>6, <4>7 DEF SchedulerInv
    <3> QED BY <3>12, <3>13
  <2> QED BY <2>1, <2>2, <2>8, <2>9, ScheduleCases
<1> QED BY <1>2, <1>3, <1>4 DEF Inv

\* What SampleTokens does to one request: a of its drafts are accepted, or its
\* sample is discarded (or it was not launched).
Sampled(r, a) ==
  /\ Samples(r) /\ a \in 0 .. ex[r].d
  /\ res'[r].in /\ res'[r].cnt = a + 1 /\ res'[r].d = ex[r].d
  /\ res'[r].first = ex[r].pos + ex[r].n - ex[r].d
  /\ res'[r].ok <=> RightInputs(r)
  /\ kv'[r] = ex[r].pos + ex[r].n - ex[r].d + a /\ len'[r] = kv'[r] + 1
  /\ prevReqIdToIndex'[r] = ex[r].row /\ validCount'[ex[r].row] = a + 1
  /\ RightInputs(r) => prevSampled'[ex[r].row] = Token(r, kv'[r])
  /\ st'[r].row = st[r].row /\ st'[r].draftLen = st[r].draftLen /\ st'[r].real = st[r].real
  /\ st'[r].out = st[r].out + 1
PassedOver(r) ==
  /\ ~Samples(r) /\ res'[r].cnt = 0 /\ ~res'[r].in = ~ex[r].in
  /\ kv'[r] = (IF ex[r].in THEN ex[r].pos + ex[r].n ELSE kv[r]) /\ len'[r] = len[r]
  /\ prevReqIdToIndex'[r] = NoRow /\ st'[r] = st[r]

LEMMA SampleCases ==
  ASSUME TypeOK, Inv, SampleTokens, NEW r \in Req
  PROVE  PassedOver(r) \/ \E a \in Nat : Sampled(r, a)
<1> USE SpecAssumption
<1> DEFINE Last(accepted, q) == ex[q].pos + ex[q].n - ex[q].d + accepted[q]
           At(i)   == CHOOSE q \in Req : Samples(q) /\ ex[q].row = i
           Used(i) == \E q \in Req : Samples(q) /\ ex[q].row = i
<1>1. PICK accepted \in [Req -> 0 .. NumSpec] :
           /\ \A q \in Req : accepted[q] <= (IF Samples(q) THEN ex[q].d ELSE 0)
           /\ validCount' = [i \in Rows |-> IF Used(i) THEN accepted[At(i)] + 1 ELSE 0]
           /\ prevSampled' = [i \in Rows |->
                IF Used(i) /\ RightInputs(At(i)) THEN Token(At(i), Last(accepted, At(i))) ELSE Junk]
           /\ res' = [q \in Req |->
                IF Samples(q)
                THEN [in |-> TRUE, first |-> Last(accepted, q) - accepted[q], cnt |-> accepted[q] + 1,
                      d |-> ex[q].d, ok |-> RightInputs(q)]
                ELSE [NoResult EXCEPT !.in = ex[q].in]]
           /\ kv' = [q \in Req |-> IF Samples(q) THEN Last(accepted, q)
                                   ELSE IF ex[q].in THEN ex[q].pos + ex[q].n ELSE kv[q]]
           /\ len' = [q \in Req |-> IF Samples(q) THEN Last(accepted, q) + 1 ELSE len[q]]
  BY DEF SampleTokens
<1>2. /\ prevReqIdToIndex' = [q \in Req |-> IF Samples(q) THEN ex[q].row ELSE NoRow]
      /\ st' = [q \in Req |-> IF Samples(q) THEN [st[q] EXCEPT !.out = @ + 1, !.noSpec = @ + 1]
                                            ELSE st[q]]
  BY DEF SampleTokens
<1>3. /\ ex[r] \in ExEntry /\ st[r] \in StEntry /\ accepted[r] \in Nat
      /\ accepted[r] <= (IF Samples(r) THEN ex[r].d ELSE 0)
  BY <1>1 DEF TypeOK
<1>4. CASE ~Samples(r)
  <2>1. res'[r] = [NoResult EXCEPT !.in = ex[r].in]
    BY <1>1, <1>4
  <2>2. res'[r].cnt = 0 /\ res'[r].in = ex[r].in
    BY <2>1 DEF NoResult
  <2> QED BY <1>1, <1>2, <1>4, <2>2 DEF PassedOver
<1>5. CASE Samples(r)
  <2>1. ex[r].row \in Rows /\ Used(ex[r].row) /\ At(ex[r].row) = r
    <3>1. ex[r].row \in Rows
      BY <1>3, <1>5 DEF Inv, LaunchedInv, RowsInv, InRow, Samples, ExEntry
    <3>2. \A q \in Req : Samples(q) /\ ex[q].row = ex[r].row => q = r
      BY <1>5 DEF Inv, RowsInv, Samples
    <3> QED BY <1>5, <3>1, <3>2
  <2>2. /\ validCount'[ex[r].row] = accepted[r] + 1
        /\ RightInputs(r) => prevSampled'[ex[r].row] = Token(r, Last(accepted, r))
    BY <1>1, <2>1
  <2>3. /\ kv'[r] = Last(accepted, r) /\ len'[r] = Last(accepted, r) + 1
        /\ res'[r] = [in |-> TRUE, first |-> Last(accepted, r) - accepted[r], cnt |-> accepted[r] + 1,
                      d |-> ex[r].d, ok |-> RightInputs(r)]
    BY <1>1, <1>5
  <2>4. st'[r] = [st[r] EXCEPT !.out = st[r].out + 1, !.noSpec = st[r].noSpec + 1]
        /\ prevReqIdToIndex'[r] = ex[r].row
    BY <1>2, <1>5
  <2>5. /\ st'[r].row = st[r].row /\ st'[r].draftLen = st[r].draftLen /\ st'[r].real = st[r].real
        /\ st'[r].out = st[r].out + 1
    BY <1>3, <2>4, Zenon DEF StEntry
  <2>6. /\ res'[r].in /\ res'[r].cnt = accepted[r] + 1 /\ res'[r].d = ex[r].d
        /\ res'[r].first = Last(accepted, r) - accepted[r] /\ (res'[r].ok <=> RightInputs(r))
    <3>1. PICK ok \in BOOLEAN : ok <=> RightInputs(r)
      OBVIOUS
    <3>2. RightInputs(r) = ok
      BY <3>1 DEF RightInputs
    <3> QED BY <2>3, <3>1, <3>2
  <2>7. /\ Last(accepted, r) - accepted[r] = ex[r].pos + ex[r].n - ex[r].d
        /\ accepted[r] \in 0 .. ex[r].d
    BY <1>3, <1>5 DEF ExEntry
  <2>8. Sampled(r, accepted[r])
    BY <1>5, <2>2, <2>3, <2>4, <2>5, <2>6, <2>7 DEF Sampled
  <2> QED BY <1>3, <2>8
<1> QED BY <1>4, <1>5

LEMMA InvSampleTokens == TypeOK /\ Inv /\ SampleTokens => Inv'
<1> SUFFICES ASSUME TypeOK, Inv, SampleTokens PROVE Inv'
  OBVIOUS
<1> USE SpecAssumption
<1>1. /\ UNCHANGED <<sched, finishedIds, text, soReady, so, soFinished, gpuComputed>>
      /\ exReady /\ ~resReady /\ exReady' = FALSE /\ ex' = [r \in Req |-> NotLaunched]
      /\ resReady' = TRUE /\ sampledOnce' = TRUE
  BY DEF SampleTokens, schedVars, soVars
<1>2. BuffersInv'
  BY <1>1 DEF BuffersInv, Inv
<1>3. RowsInv'
  <2>1. /\ \A r \in Req : ~ex'[r].in
        /\ prevReqIdToIndex' = [r \in Req |-> IF Samples(r) THEN ex[r].row ELSE NoRow]
    <3>1. \A r \in Req : ~ex'[r].in
      BY <1>1 DEF NotLaunched
    <3>2. prevReqIdToIndex' = [r \in Req |-> IF Samples(r) THEN ex[r].row ELSE NoRow]
      BY DEF SampleTokens
    <3> QED BY <3>1, <3>2
  <2> QED BY <1>1, <2>1 DEF RowsInv, Inv, HasPrev, Samples
<1>4. ASSUME NEW r \in Req
      PROVE (LaunchedInv(r) /\ SampledInv(r) /\ StagedInv(r) /\ SchedulerInv(r))'
  <2>1. /\ LaunchedInv(r) /\ SampledInv(r) /\ StagedInv(r) /\ SchedulerInv(r) /\ BuffersInv
        /\ ex[r].in <=> InRow(r)
    BY <1>1 DEF Inv, RowsInv
  <2>2. /\ so'[r] = so[r] /\ sched'[r] = sched[r] /\ ex'[r] = NotLaunched /\ ~ex'[r].in
        /\ ~Samples(r)' /\ LaunchedTokens(r)' = 0 /\ Reached(r)' = kv'[r]
        /\ res[r].cnt = 0 /\ DeliveredTokens(r) = 0 /\ Rejections(r) = 0
        /\ Staged(r)' = Staged(r) /\ ReachesEnd(r)' = ReachesEnd(r) /\ StagedTokens(r)' = StagedTokens(r)
        /\ Live(r)' = Live(r)
    BY <1>1, <2>1 DEF BuffersInv, NoResult, NotLaunched, Samples, LaunchedTokens, Reached,
                      DeliveredTokens, Rejections, Staged, ReachesEnd, StagedTokens, Live
  <2>3. LaunchedInv(r)'
    BY <2>2 DEF LaunchedInv
  <2>4. /\ sched[r] \in SchedEntry /\ so[r] \in SoEntry
        /\ st[r] \in StEntry /\ ex[r] \in ExEntry /\ len[r] \in Int /\ kv[r] \in Int
        /\ PromptLen[r] \in Nat /\ StagedTokens(r) \in Int
    BY DEF TypeOK, StagedTokens, SoEntry
  <2>5. CASE PassedOver(r)
    <3>1. /\ res'[r].cnt = 0 /\ DeliveredTokens(r)' = 0 /\ Rejections(r)' = 0 /\ LaunchedTokens(r) = 0
          /\ st'[r] = st[r] /\ InRow(r)' = InRow(r) /\ ~HasPrev(r)' /\ ~Samples(r)
          /\ kv'[r] = Reached(r) /\ len'[r] = len[r]
      BY <2>5 DEF PassedOver, DeliveredTokens, Rejections, LaunchedTokens, InRow, HasPrev, Reached
    <3>2. Gap(r)' = Gap(r)
      BY <2>2, <3>1 DEF Gap
    <3>3. SampledInv(r)'
      <4>1. ex[r].in => ex[r].discard /\ ex[r].d = 0 /\ ex[r].pos + ex[r].n < len[r] /\ ex[r].pos = kv[r]
        BY <2>1, <3>1 DEF Samples, LaunchedInv
      <4>2. 0 <= kv'[r] /\ kv'[r] < len'[r]
        BY <2>1, <2>4, <3>1, <4>1 DEF SampledInv, Reached, ExEntry
      <4>3. InRow(r) => st[r].draftLen = 0 /\ st[r].real = len[r]
        BY <2>1, <4>1 DEF LaunchedInv, SampledInv
      <4>4. res'[r] \in ResEntry
        BY TypeSampleTokens DEF TypeOK
      <4> QED BY <2>1, <2>2, <2>4, <3>1, <4>2, <4>3, <4>4 DEF SampledInv, ResEntry
    <3>4. StagedInv(r)'
      BY <1>1, <2>1, <2>2, <3>1, <3>2 DEF StagedInv
    <3>5. SchedulerInv(r)'
      <4>1. Reached(r) \in Int
        BY <2>4 DEF Reached, ExEntry
      <4> QED BY <1>1, <2>1, <2>2, <2>4, <3>1, <4>1 DEF SchedulerInv
    <3> QED BY <2>3, <3>3, <3>4, <3>5
  <2>6. ASSUME NEW a \in Nat, Sampled(r, a)
        PROVE (SampledInv(r) /\ StagedInv(r) /\ SchedulerInv(r))'
    <3>1. /\ Samples(r) /\ ex[r].in /\ ~ex[r].discard /\ a <= ex[r].d
          /\ res'[r].cnt = a + 1 /\ res'[r].d = ex[r].d /\ res'[r].in
          /\ DeliveredTokens(r)' = 1 + ex[r].d /\ Rejections(r)' = ex[r].d - a
          /\ LaunchedTokens(r) = 1 + ex[r].d
          /\ st'[r].row = st[r].row /\ st'[r].draftLen = st[r].draftLen
          /\ st'[r].real = st[r].real /\ st'[r].out = st[r].out + 1
          /\ InRow(r)' = InRow(r) /\ InRow(r)
          /\ prevReqIdToIndex'[r] = ex[r].row /\ validCount'[ex[r].row] = a + 1
          /\ ex[r].d \in Nat /\ ex[r].n \in Nat /\ ex[r].pos \in Int
      BY <2>1, <2>4, <2>6 DEF Sampled, DeliveredTokens, Rejections, LaunchedTokens, InRow, Samples, ExEntry
    <3>2. /\ kv'[r] = ex[r].pos + ex[r].n - ex[r].d + a /\ len'[r] = kv'[r] + 1
          /\ ex[r].pos + ex[r].n - ex[r].d = len[r]
          /\ ex[r].row = st[r].row /\ st[r].draftLen = ex[r].d
          /\ gpuComputed[ex[r].row] = ex[r].pos /\ ex[r].pos = kv[r] /\ kv[r] >= 0
          /\ ex[r].n >= 1 + ex[r].d /\ (ex[r].d > 0 => ex[r].n = 1 + ex[r].d)
      BY <2>1, <2>6, <3>1 DEF Sampled, LaunchedInv, SampledInv
    <3>3. kv'[r] \in Int /\ len'[r] \in Int /\ kv'[r] > 0 /\ len'[r] = len[r] + a + 1
      BY <2>4, <3>1, <3>2
    <3>4. SampledInv(r)'
      <4>1. HasPrev(r)'
        BY <3>1, <3>2 DEF HasPrev, InRow
      <4>2. st[r].draftLen > 0 => gpuComputed[ex[r].row] + validCount'[ex[r].row] = kv'[r]
        BY <2>4, <3>1, <3>2
      <4>3. res'[r].cnt <= 1 + res'[r].d /\ st'[r].out >= 0
        BY <2>1, <2>4, <3>1 DEF SampledInv, StEntry
      <4> QED BY <1>1, <2>2, <3>1, <3>2, <3>3, <4>1, <4>2, <4>3 DEF SampledInv
    <3>5. so[r].kind \notin {"new", "resumed"}
      BY <2>1, <3>1 DEF StagedInv
    <3>6. Gap(r)' = Gap(r)
      BY <2>2, <3>1, <3>2, <3>3, <3>5 DEF Gap
    <3>7. StagedInv(r)'
      <4>1. st[r].draftLen = 0 => kv'[r] = Reached(r)
        BY <3>1, <3>2 DEF Reached
      <4>2. st[r].out + 1 + st[r].draftLen = st'[r].out + 0 + st'[r].draftLen
        BY <2>4, <3>1 DEF StEntry
      <4> QED BY <1>1, <2>1, <2>2, <3>1, <3>5, <3>6, <4>1, <4>2 DEF StagedInv
    <3>8. SchedulerInv(r)'
      <4>1. Reached(r) = Reached(r)' + Rejections(r)' /\ Reached(r)' > 0 /\ Reached(r) \in Int
        BY SMTT(30), <2>2, <3>1, <3>2, <3>3 DEF Reached
      <4>2. /\ LaunchedTokens(r) + 0 = 0 + DeliveredTokens(r)'
            /\ sched[r].tokens + 0 = len[r] => sched[r].tokens + res'[r].cnt = len'[r]
        BY <2>4, <3>1, <3>3 DEF SchedEntry
      <4>3. sched[r].status # "waiting" /\ so[r].kind # "new"
        BY <2>1, <3>1, <3>5 DEF SchedulerInv
      <4>4. st[r].out + 1 + st[r].draftLen = st'[r].out + 0 + st'[r].draftLen
        BY <2>4, <3>1 DEF StEntry
      <4>5. sched[r].status = "preempted" =>
              /\ so'[r].kind = "out" /\ (soReady' \/ ~ex'[r].in)
              /\ sched'[r].computed = 0 /\ ~sched'[r].decoded
        BY <1>1, <2>1, <2>2 DEF SchedulerInv
      <4>6. sched[r].status = "running" =>
              Reached(r)' > 0 /\ sched'[r].computed = Reached(r)' + so'[r].n + Rejections(r)'
        <5>1. sched[r].status = "running" => sched[r].computed = Reached(r) + so[r].n + 0
          BY <2>1, <2>2, <3>5 DEF SchedulerInv
        <5>2. Reached(r)' \in Int /\ Rejections(r)' \in Int /\ so[r].n \in Int
          BY <2>2, <2>4, <3>1, <3>3 DEF SoEntry
        <5> QED BY <2>2, <4>1, <5>1, <5>2
      <4>7. Live(r) =>
              /\ sched'[r].holes = StagedTokens(r)' + LaunchedTokens(r)' + DeliveredTokens(r)'
              /\ sched'[r].tokens >= PromptLen[r]
              /\ sched'[r].tokens + res'[r].cnt = len'[r]
        BY <2>1, <2>2, <2>4, <4>2, <4>3, <3>1 DEF SchedulerInv, SchedEntry
      <4>8. Live(r) =>
         IF Staged(r)
          THEN /\ sched[r].decoded <=> ReachesEnd(r)
               /\ sched[r].tokens + sched[r].holes <= PromptLen[r] + so[r].nout + StagedTokens(r)
          ELSE /\ sched[r].decoded => ~soReady /\ InRow(r)
               /\ sched[r].status = "running" /\ InRow(r) =>
                    sched[r].tokens + sched[r].holes
                      <= PromptLen[r] + st'[r].out + 0 + st'[r].draftLen
        <5>1. PromptLen[r] + st[r].out + 1 + st[r].draftLen = PromptLen[r] + st'[r].out + 0 + st'[r].draftLen
          BY <2>4, <4>4, <3>1 DEF StEntry
        <5> QED BY <2>1, <3>1, <5>1 DEF SchedulerInv
      <4>9. r \in finishedIds => sched[r].status \in {"finished", "waiting"}
        BY <2>1 DEF SchedulerInv
      <4> QED
        BY <1>1, <2>2, <3>1, <3>5, <4>3, <4>5, <4>6, <4>7, <4>8, <4>9 DEF SchedulerInv
    <3> QED BY <3>4, <3>7, <3>8
  <2> QED BY <2>3, <2>5, <2>6, SampleCases
<1> QED BY <1>2, <1>3, <1>4 DEF Inv

\* Only the request's own drafts move its row's count.
LEMMA ParticipatesOwn ==
  ASSUME TypeOK, Inv, NEW r \in Req
  PROVE  /\ StaysInBatch(r) <=> InRow(r) /\ so[r].kind = "cached"
         /\ StaysInBatch(r) => PrevIndex(r) = prevReqIdToIndex[r]
         /\ PrevIndex(r) # NoRow => PrevIndex(r) = prevReqIdToIndex[r]
         /\ HasPrev(r) => sampledOnce
         /\ Participates(r) => IsOptimistic(r)
         /\ IsOptimistic(r) /\ HasPrev(r) => Participates(r)
<1>1. /\ StaysInBatch(r) <=> InRow(r) /\ so[r].kind = "cached"
      /\ \A q \in Req : /\ StaysInBatch(q) => PrevIndex(q) = prevReqIdToIndex[q]
                        /\ PrevIndex(q) # NoRow => PrevIndex(q) = prevReqIdToIndex[q]
  BY DEF Inv, StagedInv, Staged, StaysInBatch, InRow, PrevIndex
<1>2. HasPrev(r) => sampledOnce
  BY DEF Inv, RowsInv
<1>3. ASSUME PrevIndex(r) # NoRow
      PROVE \A q \in Req : PrevIndex(q) = PrevIndex(r) => q = r
  <2> SUFFICES ASSUME NEW q \in Req, PrevIndex(q) = PrevIndex(r) PROVE q = r
    OBVIOUS
  <2>1. prevReqIdToIndex[q] = prevReqIdToIndex[r] /\ HasPrev(r)
    <3>1. PrevIndex(r) = prevReqIdToIndex[r]
      BY <1>1, <1>3
    <3>2. PrevIndex(q) # NoRow
      BY <1>3
    <3>3. PrevIndex(q) = prevReqIdToIndex[q]
      BY <1>1, <3>2
    <3> QED BY <1>3, <3>1, <3>3 DEF HasPrev
  <2> QED BY <2>1, Zenon DEF Inv, RowsInv
<1>4. ASSUME Participates(r) PROVE IsOptimistic(r)
  <2>1. PrevIndex(r) # NoRow /\ PrevNumDrafts(PrevIndex(r)) > 0
    BY <1>4 DEF Participates
  <2>2. \E q \in Req : IsOptimistic(q) /\ PrevIndex(q) = PrevIndex(r)
    BY <2>1 DEF PrevNumDrafts
  <2> QED BY <1>3, <2>1, <2>2
<1>5. ASSUME IsOptimistic(r), HasPrev(r) PROVE Participates(r)
  <2>1. PrevIndex(r) # NoRow /\ sampledOnce
    BY <1>1, <1>2, <1>5, Zenon DEF IsOptimistic, HasPrev
  <2>2. \A q \in Req : IsOptimistic(q) /\ PrevIndex(q) = PrevIndex(r) => q = r
    BY <1>3, <2>1
  <2>3. PrevNumDrafts(PrevIndex(r)) = st[r].draftLen
    BY <1>5, <2>2 DEF PrevNumDrafts
  <2>4. PrevNumDrafts(PrevIndex(r)) > 0
    BY <1>5, <2>3, Zenon DEF IsOptimistic
  <2> QED BY <2>1, <2>4, Zenon DEF Participates
<1> QED BY <1>1, <1>2, <1>4, <1>5

\* The launch position is where the request's KV ends.
LEMMA StartsAtKv ==
  ASSUME TypeOK, Inv, ~exReady, NEW r \in Req, Staged(r)
  PROVE  /\ StartPosition(r) = IF so[r].kind \in {"new", "resumed"} THEN so[r].computed ELSE kv[r]
         /\ ~IsOptimistic(r) => StartPosition(r) = so[r].computed
         /\ IsOptimistic(r) => /\ HasPrev(r) /\ sampledOnce /\ PrevIndex(r) = prevReqIdToIndex[r]
                               /\ kv[r] = gpuComputed[prevReqIdToIndex[r]]
                                            + validCount[prevReqIdToIndex[r]]
<1>1. LaunchedInv(r) /\ SampledInv(r) /\ StagedInv(r) /\ ~ex[r].in
  BY DEF Inv, BuffersInv, NotLaunched
<1>2. IsOptimistic(r) => InRow(r) /\ so[r].kind = "cached" /\ st[r].draftLen > 0
  BY ParticipatesOwn DEF IsOptimistic
<1>3. IsOptimistic(r) => /\ HasPrev(r) /\ sampledOnce /\ PrevIndex(r) = prevReqIdToIndex[r]
                         /\ kv[r] = gpuComputed[prevReqIdToIndex[r]]
                                            + validCount[prevReqIdToIndex[r]]
  BY <1>1, <1>2, ParticipatesOwn DEF SampledInv, IsOptimistic
<1>4. CASE IsOptimistic(r)
  <2>1. Participates(r)
    BY <1>3, <1>4, ParticipatesOwn
  <2>2. StartPosition(r) = kv[r]
    BY <1>3, <1>4, <2>1 DEF StartPosition
  <2> QED BY <1>2, <1>3, <1>4, <2>2
<1>5. CASE ~IsOptimistic(r)
  <2>1. StartPosition(r) = so[r].computed
    BY <1>5, ParticipatesOwn DEF StartPosition
  <2>2. so[r].kind = "cached" => ~InRow(r) \/ st[r].draftLen = 0
    <3>1. st[r].draftLen \in Nat
      BY DEF TypeOK, StEntry
    <3>2. so[r].kind = "cached" => ~InRow(r) \/ ~(st[r].draftLen > 0)
      BY <1>5, ParticipatesOwn, Zenon DEF IsOptimistic
    <3> QED BY <3>1, <3>2
  <2>3. so[r].kind = "cached" => so[r].computed = kv[r]
    BY <1>1, <2>2 DEF StagedInv, Reached
  <2>4. so[r].kind \in {"new", "cached", "resumed"}
    BY DEF Staged, TypeOK, SoEntry
  <2> QED BY <1>5, <2>1, <2>3, <2>4
<1> QED BY <1>4, <1>5

\* The updated state of a staged request.
LEMMA UpdatedFields ==
  ASSUME TypeOK, Inv, ~exReady, NEW r \in Req, Staged(r), NEW row \in Rows
  PROVE  LET s == UpdatedState(r, row)
         IN  /\ s \in StEntry /\ s.row = row /\ s.draftLen = so[r].d /\ s.out = so[r].nout
             /\ s.computed = so[r].computed /\ s.cpu = so[r].computed
             /\ s.real = IF so[r].kind = "new" THEN PromptLen[r]
                         ELSE IF StaysInBatch(r) THEN st[r].real ELSE so[r].known
<1> USE SpecAssumption
<1>1. /\ LaunchedInv(r) /\ SampledInv(r) /\ StagedInv(r) /\ ~ex[r].in /\ ~Samples(r)
      /\ so[r].kind \in {"new", "cached", "resumed"}
  BY DEF Inv, BuffersInv, NotLaunched, Samples, Staged, TypeOK, SoEntry
<1>2. st[r] \in StEntry /\ so[r] \in SoEntry
  BY DEF TypeOK
<1>3. UpdatedState(r, row) \in StEntry
  BY StateType
<1>4. CASE so[r].kind = "new"
  <2>1. UpdatedState(r, row) = NewState(r, row)
    BY <1>4, Zenon DEF UpdatedState
  <2>2. so[r].nout = 0
    BY <1>1, <1>4 DEF StagedInv
  <2> QED BY <1>3, <1>4, <2>1, <2>2 DEF NewState
<1>5. CASE so[r].kind \in {"cached", "resumed"}
  <2> DEFINE extended == st[r].out + (IF IsOptimistic(r) THEN st[r].draftLen ELSE 0)
             trimmed  == Trimmed(r, extended)
             restored == IF so[r].nout > 0 THEN so[r].nout ELSE trimmed
             noSpec   == IF so[r].nout < extended THEN PromptLen[r] + so[r].nout ELSE st[r].noSpec
  <2>1. UpdatedState(r, row) = CachedState(r, row)
    <3>1. so[r].kind # "new"
      BY <1>5
    <3> QED BY <1>5, <3>1, Zenon DEF UpdatedState
  <2>2. StaysInBatch(r) => trimmed = so[r].nout
    <3> SUFFICES ASSUME StaysInBatch(r) PROVE trimmed = so[r].nout
      OBVIOUS
    <3>1. so[r].nout <= st[r].out + 0 + st[r].draftLen
      BY <1>1, ParticipatesOwn DEF StagedInv
    <3>2. extended = st[r].out + st[r].draftLen
      BY <1>2 DEF IsOptimistic, StEntry
    <3> HIDE DEF extended
    <3> QED BY <1>2, <3>1, <3>2 DEF Trimmed, Min2, StEntry, SoEntry
  <2>3. ~StaysInBatch(r) => restored = so[r].nout
    <3>1. so[r].nout >= 0 /\ st[r].out >= 0 /\ st[r].draftLen >= 0
      BY <1>1, <1>2 DEF StagedInv, SampledInv, StEntry
    <3>2. extended >= 0 /\ extended \in Int
      BY <1>2, <3>1 DEF StEntry
    <3> HIDE DEF extended
    <3> QED BY <1>2, <3>1, <3>2 DEF Trimmed, Min2, SoEntry
  <2> HIDE DEF extended, trimmed, restored, noSpec
  <2>4. CASE StaysInBatch(r)
    <3>1. UpdatedState(r, row) =
            [st[r] EXCEPT !.row = row, !.computed = so[r].computed, !.cpu = so[r].computed,
                          !.draftLen = so[r].d, !.out = trimmed, !.noSpec = noSpec]
      BY <2>1, <2>4, Zenon DEF CachedState, extended, trimmed, noSpec
    <3>2. LET s == UpdatedState(r, row)
          IN  /\ s.row = row /\ s.draftLen = so[r].d /\ s.out = trimmed
              /\ s.computed = so[r].computed /\ s.cpu = so[r].computed /\ s.real = st[r].real
      BY <1>2, <3>1, Zenon DEF StEntry
    <3> QED BY <1>3, <1>5, <2>2, <2>4, <3>2
  <2>5. CASE ~StaysInBatch(r)
    <3>1. UpdatedState(r, row) =
            [st[r] EXCEPT !.row = row, !.computed = so[r].computed, !.cpu = so[r].computed,
                          !.draftLen = so[r].d, !.out = restored,
                          !.noSpec = PromptLen[r] + restored, !.real = so[r].known]
      BY <2>1, <2>5, Zenon DEF CachedState, extended, trimmed, restored
    <3>2. LET s == UpdatedState(r, row)
          IN  /\ s.row = row /\ s.draftLen = so[r].d /\ s.out = restored
              /\ s.computed = so[r].computed /\ s.cpu = so[r].computed /\ s.real = so[r].known
      BY <1>2, <3>1, Zenon DEF StEntry
    <3> QED BY <1>3, <1>5, <2>3, <2>5, <3>2
  <2> QED BY <2>4, <2>5
<1> QED BY <1>1, <1>4, <1>5

\* What ExecuteModel does to one request: it is launched in a row, or it has
\* no row any more.
Launched(r, row) ==
  /\ Staged(r)
  /\ st'[r].row = row /\ st'[r].draftLen = so[r].d /\ st'[r].out = so[r].nout
  /\ st'[r].computed = so[r].computed - Correction(r)
  /\ st'[r].cpu = so[r].computed - Correction(r)
  /\ st'[r].real = IF so[r].kind = "new" THEN PromptLen[r]
                   ELSE IF StaysInBatch(r) THEN st[r].real ELSE so[r].known
  /\ ex'[r].in /\ ex'[r].row = row /\ ex'[r].pos = StartPosition(r)
  /\ ex'[r].n = so[r].n /\ ex'[r].d = so[r].d
  /\ ex'[r].tok = LastInputToken(r, [real |-> st'[r].real])
  /\ ex'[r].discard <=> ~ReachesEnd(r)
  /\ gpuComputed'[row] = StartPosition(r)
NotInStep(r) ==
  /\ ~Staged(r) /\ ex'[r] = NotLaunched
  /\ st'[r].row = NoRow /\ (st'[r].out = 0 \/ st'[r].out = st[r].out)

LEMMA ExecuteCases ==
  ASSUME TypeOK, Inv, ExecuteModel
  PROVE  \E p \in Placements(Scheduled) :
           \A r \in Req : IF Staged(r) THEN Launched(r, p[r]) /\ p[r] \in Rows ELSE NotInStep(r)
<1> USE SpecAssumption
<1> DEFINE updated(p, r) == UpdatedState(r, IF r \in Scheduled THEN p[r] ELSE NoRow)
<1>1. PICK p \in Placements(Scheduled) :
        /\ st' = [r \in Req |-> Corrected(r, updated(p, r))]
        /\ ex' = [r \in Req |-> IF r \in Scheduled THEN Launch(r, updated(p, r)) ELSE NotLaunched]
        /\ gpuComputed' = [i \in Rows |->
             IF \E r \in Scheduled : p[r] = i
             THEN StartPosition(CHOOSE r \in Scheduled : p[r] = i) ELSE gpuComputed[i]]
  <2>1. PICK p \in Placements(Scheduled) :
          LET up == [r \in Req |-> UpdatedState(r, IF r \in Scheduled THEN p[r] ELSE NoRow)]
          IN  /\ st' = [r \in Req |-> Corrected(r, up[r])]
              /\ ex' = [r \in Req |-> IF r \in Scheduled THEN Launch(r, up[r]) ELSE NotLaunched]
              /\ gpuComputed' = [i \in Rows |->
                   IF \E r \in Scheduled : p[r] = i
                   THEN StartPosition(CHOOSE r \in Scheduled : p[r] = i) ELSE gpuComputed[i]]
    BY DEF ExecuteModel
  <2> QED BY <2>1
<1>2. ~exReady
  BY DEF ExecuteModel
<1>3. \A r \in Req : r \in Scheduled <=> Staged(r)
  BY DEF Scheduled, Staged
<1>4. /\ \A r \in Scheduled : p[r] \in Rows
      /\ \A r, q \in Scheduled : p[r] = p[q] => r = q
  BY DEF Placements
<1>5. ASSUME NEW r \in Req, Staged(r) PROVE Launched(r, p[r]) /\ p[r] \in Rows
  <2>1. p[r] \in Rows /\ r \in Scheduled
    BY <1>3, <1>4, <1>5
  <2>2. PICK s \in StEntry : s = UpdatedState(r, p[r])
    BY <2>1, <1>5, <1>2, UpdatedFields
  <2>3. /\ s.row = p[r] /\ s.draftLen = so[r].d /\ s.out = so[r].nout
        /\ s.computed = so[r].computed /\ s.cpu = so[r].computed
        /\ s.real = IF so[r].kind = "new" THEN PromptLen[r]
                    ELSE IF StaysInBatch(r) THEN st[r].real ELSE so[r].known
    BY <1>2, <1>5, <2>1, <2>2, UpdatedFields
  <2>4. st'[r] = Corrected(r, s) /\ ex'[r] = Launch(r, s)
    BY <1>1, <2>1, <2>2
  <2>5. /\ st'[r].row = s.row /\ st'[r].draftLen = s.draftLen /\ st'[r].out = s.out
        /\ st'[r].computed = s.computed - Correction(r) /\ st'[r].cpu = s.cpu - Correction(r)
        /\ st'[r].real = s.real
    <3>1. st'[r] = [s EXCEPT !.computed = s.computed - Correction(r), !.cpu = s.cpu - Correction(r)]
      BY <2>4, Zenon DEF Corrected
    <3> QED BY <3>1, Zenon DEF StEntry
  <2>6. /\ ex'[r].in /\ ex'[r].row = s.row /\ ex'[r].pos = StartPosition(r)
        /\ ex'[r].n = so[r].n /\ ex'[r].d = so[r].d /\ ex'[r].tok = LastInputToken(r, s)
        /\ ex'[r].discard <=> Discards(r, s)
    <3>1. PICK discard \in BOOLEAN : discard <=> Discards(r, s)
      OBVIOUS
    <3>2. Discards(r, s) = discard
      BY <3>1 DEF Discards
    <3>3. ex'[r] = [in |-> TRUE, row |-> s.row, pos |-> StartPosition(r), n |-> so[r].n,
                    d |-> so[r].d, tok |-> LastInputToken(r, s), discard |-> discard]
      BY <2>4, <3>2, Zenon DEF Launch
    <3> QED BY <3>1, <3>3
  <2>7. Discards(r, s) <=> ~ReachesEnd(r)
    <3>1. Discards(r, s) <=> so[r].computed + so[r].n < PromptLen[r] + so[r].nout
      BY <2>3 DEF Discards
    <3>2. /\ so[r].n \in Int /\ so[r].computed \in Int /\ so[r].nout \in Int /\ PromptLen[r] \in Int
          /\ so[r].d \in Nat
      BY DEF TypeOK, SoEntry
    <3> QED BY <1>5, <3>1, <3>2 DEF Inv, StagedInv, ReachesEnd
  <2>8. LastInputToken(r, s) = LastInputToken(r, [real |-> st'[r].real])
    BY <2>5 DEF LastInputToken
  <2>9. gpuComputed'[p[r]] = StartPosition(r)
    <3>1. (CHOOSE q \in Scheduled : p[q] = p[r]) = r
      BY <1>4, <2>1
    <3> QED BY <1>1, <2>1, <3>1
  <2> QED BY <1>5, <2>1, <2>3, <2>5, <2>6, <2>7, <2>8, <2>9, Zenon DEF Launched
<1>6. ASSUME NEW r \in Req, ~Staged(r) PROVE NotInStep(r)
  <2>1. so[r].kind = "out" /\ r \notin Scheduled /\ st[r] \in StEntry
    BY <1>3, <1>6 DEF Staged, TypeOK
  <2>2. ex'[r] = NotLaunched /\ st'[r] = Corrected(r, UpdatedState(r, NoRow))
    BY <1>1, <2>1
  <2>3. PICK s \in StEntry : s = UpdatedState(r, NoRow)
    BY StateType
  <2>4. st'[r].row = s.row /\ st'[r].out = s.out
    <3>1. st'[r] = [s EXCEPT !.computed = s.computed - Correction(r), !.cpu = s.cpu - Correction(r)]
      BY <2>2, <2>3, Zenon DEF Corrected
    <3> QED BY <3>1, Zenon DEF StEntry
  <2>5. s.row = NoRow /\ (s.out = 0 \/ s.out = st[r].out)
    <3>1. s = Absent \/ s = [st[r] EXCEPT !.row = NoRow]
      BY <2>1, <2>3 DEF UpdatedState
    <3>2. Absent.row = NoRow /\ Absent.out = 0
      BY DEF Absent
    <3>3. [st[r] EXCEPT !.row = NoRow].row = NoRow /\ [st[r] EXCEPT !.row = NoRow].out = st[r].out
      BY <2>1, Zenon DEF StEntry
    <3> QED BY <3>1, <3>2, <3>3
  <2> QED BY <1>6, <2>2, <2>4, <2>5 DEF NotInStep
<1> QED BY <1>5, <1>6

LEMMA InvExecuteModel == TypeOK /\ Inv /\ ExecuteModel => Inv'
<1> SUFFICES ASSUME TypeOK, Inv, ExecuteModel PROVE Inv'
  OBVIOUS
<1> USE SpecAssumption
<1>1. /\ UNCHANGED <<sched, finishedIds, text, prevSampled, validCount, sampledOnce, resReady, res>>
      /\ soReady /\ ~exReady /\ soReady' = FALSE /\ so' = [r \in Req |-> NotScheduled] /\ soFinished' = {}
      /\ exReady' = (Scheduled # {})
      /\ prevReqIdToIndex' = [r \in Req |-> PrevIndex(r)]
      /\ kv' = [r \in Req |-> IF so[r].kind \in {"new", "resumed"} THEN so[r].computed ELSE kv[r]]
      /\ len' = [r \in Req |-> IF so[r].kind = "new" THEN PromptLen[r] ELSE len[r]]
  BY DEF ExecuteModel, schedVars, resVars
<1>2. PICK p \in Placements(Scheduled) :
        \A r \in Req : IF Staged(r) THEN Launched(r, p[r]) /\ p[r] \in Rows ELSE NotInStep(r)
  BY ExecuteCases
<1>3. BuffersInv'
  <2>1. ~exReady' => ex' = [r \in Req |-> NotLaunched]
    <3> SUFFICES ASSUME Scheduled = {} PROVE ex' = [r \in Req |-> NotLaunched]
      BY <1>1
    <3>1. \A r \in Req : ex'[r] = NotLaunched
      BY <1>2 DEF NotInStep, Staged, Scheduled
    <3>2. ex' \in [Req -> ExEntry]
      BY TypeExecuteModel DEF TypeOK
    <3> QED BY <3>1, <3>2
  <2> QED BY <1>1, <2>1 DEF BuffersInv, Inv
<1>4. RowsInv'
  <2>1. \A r \in Req : /\ ex'[r].in <=> Staged(r)
                       /\ InRow(r)' <=> Staged(r)
                       /\ Staged(r) => ex'[r].row = p[r]
    <3> SUFFICES ASSUME NEW r \in Req
                 PROVE /\ ex'[r].in <=> Staged(r)
                       /\ InRow(r)' <=> Staged(r)
                       /\ Staged(r) => ex'[r].row = p[r]
      OBVIOUS
    <3>1. CASE Staged(r)
      <4>1. ex'[r].in /\ ex'[r].row = p[r] /\ st'[r].row = p[r] /\ p[r] \in Rows
        BY <1>2, <3>1 DEF Launched
      <4>2. p[r] # NoRow
        BY <4>1 DEF Rows, NoRow
      <4> QED BY <3>1, <4>1, <4>2 DEF InRow
    <3>2. CASE ~Staged(r)
      BY <1>2, <3>2 DEF NotInStep, NotLaunched, InRow
    <3> QED BY <3>1, <3>2
  <2>2. \A r, q \in Req : Staged(r) /\ Staged(q) /\ p[r] = p[q] => r = q
    BY DEF Placements, Scheduled, Staged
  <2>3. \A r \in Req : HasPrev(r)' => HasPrev(r) /\ prevReqIdToIndex'[r] = prevReqIdToIndex[r]
    BY <1>1, ParticipatesOwn DEF HasPrev
  <2>4. \A r, q \in Req : HasPrev(r) /\ prevReqIdToIndex[r] = prevReqIdToIndex[q] => r = q
    BY DEF RowsInv, Inv
  <2>5. \A r, q \in Req : HasPrev(r)' /\ prevReqIdToIndex'[r] = prevReqIdToIndex'[q] => r = q
    <3> SUFFICES ASSUME NEW r \in Req, NEW q \in Req, HasPrev(r)',
                        prevReqIdToIndex'[r] = prevReqIdToIndex'[q]
                 PROVE r = q
      OBVIOUS
    <3>1. HasPrev(q)'
      BY DEF HasPrev
    <3> QED BY <2>3, <2>4, <3>1
  <2>6. \A r \in Req : HasPrev(r)' => sampledOnce'
    BY <1>1, <2>3 DEF RowsInv, Inv
  <2>7. /\ \A r \in Req : ex'[r].in => InRow(r)'
        /\ exReady' => \A r \in Req : InRow(r)' => ex'[r].in
        /\ \A r, q \in Req : ex'[r].in /\ ex'[q].in /\ ex'[r].row = ex'[q].row => r = q
    BY <2>1, <2>2
  <2> QED BY <2>5, <2>6, <2>7 DEF RowsInv
<1>5. ASSUME NEW r \in Req
      PROVE (LaunchedInv(r) /\ SampledInv(r) /\ StagedInv(r) /\ SchedulerInv(r))'
  <2>1. LaunchedInv(r) /\ SampledInv(r) /\ StagedInv(r) /\ SchedulerInv(r) /\ ~ex[r].in
    BY <1>1 DEF Inv, BuffersInv, NotLaunched
  <2>2. /\ so'[r] = NotScheduled /\ sched'[r] = sched[r] /\ res'[r] = res[r]
        /\ ~Samples(r) /\ Reached(r) = kv[r] /\ LaunchedTokens(r) = 0
        /\ ~Staged(r)' /\ StagedTokens(r)' = 0 /\ so'[r].kind = "out" /\ so'[r].n = 0
        /\ DeliveredTokens(r)' = DeliveredTokens(r) /\ Rejections(r)' = Rejections(r)
        /\ Live(r)' = Live(r)
    BY <1>1, <2>1 DEF NotScheduled, Samples, Reached, LaunchedTokens, Staged, StagedTokens,
                      DeliveredTokens, Rejections, Live
  <2>3. /\ sched[r] \in SchedEntry /\ so[r] \in SoEntry /\ res[r] \in ResEntry
        /\ st[r] \in StEntry /\ len[r] \in Int /\ kv[r] \in Int
        /\ PromptLen[r] \in Nat \ {0} /\ StagedTokens(r) \in Nat /\ DeliveredTokens(r) \in Nat
        /\ Rejections(r) \in Int
    BY SMTT(30) DEF TypeOK, StagedTokens, DeliveredTokens, Rejections, SoEntry, ResEntry
  <2>4. StagedInv(r)'
    BY <2>2 DEF StagedInv
  <2>5. CASE ~Staged(r)
    <3>1. /\ ex'[r] = NotLaunched /\ ~ex'[r].in /\ ~InRow(r)' /\ ~Samples(r)' /\ LaunchedTokens(r)' = 0
          /\ (st'[r].out = 0 \/ st'[r].out = st[r].out)
          /\ kv'[r] = kv[r] /\ len'[r] = len[r] /\ Reached(r)' = kv[r]
          /\ StagedTokens(r) = 0 /\ so[r].kind = "out" /\ so[r].n = 0
      <4>1. /\ ex'[r] = NotLaunched /\ st'[r].row = NoRow
            /\ st'[r].out = 0 \/ st'[r].out = st[r].out
        BY <1>2, <2>5 DEF NotInStep
      <4>2. ~ex'[r].in
        BY <4>1 DEF NotLaunched
      <4>3. so[r] = NotScheduled /\ so[r].kind = "out" /\ so[r].n = 0 /\ StagedTokens(r) = 0
        BY <2>1, <2>5 DEF StagedInv, NotScheduled, StagedTokens
      <4>4. kv'[r] = kv[r] /\ len'[r] = len[r]
        BY <1>1, <4>3
      <4> QED
        BY <4>1, <4>2, <4>3, <4>4 DEF InRow, Samples, LaunchedTokens, Reached
    <3>2. LaunchedInv(r)'
      BY <3>1 DEF LaunchedInv
    <3>3. SampledInv(r)'
      BY <2>1, <2>2, <3>1 DEF SampledInv
    <3>4. SchedulerInv(r)'
      BY <1>1, <2>1, <2>2, <2>3, <2>5, <3>1 DEF SchedulerInv
    <3> QED BY <2>4, <3>2, <3>3, <3>4
  <2>6. CASE Staged(r)
    <3>1. Launched(r, p[r]) /\ p[r] \in Rows
      BY <1>2, <2>6
    <3>2. /\ ex'[r].in /\ ex'[r].row = p[r] /\ ex'[r].pos = kv'[r]
          /\ ex'[r].n = so[r].n /\ ex'[r].d = so[r].d
          /\ Samples(r)' <=> ReachesEnd(r)
          /\ ex'[r].discard <=> ~ReachesEnd(r)
          /\ gpuComputed'[p[r]] = kv'[r]
          /\ st'[r].row = p[r] /\ st'[r].draftLen = so[r].d /\ st'[r].out = so[r].nout
          /\ InRow(r)' /\ LaunchedTokens(r)' = StagedTokens(r)
          /\ Reached(r)' = kv'[r] + so[r].n
      <4>1. StartPosition(r) = kv'[r]
        BY <1>1, <2>6, StartsAtKv
      <4> QED BY <2>6, <3>1, <4>1 DEF Launched, Samples, InRow, LaunchedTokens, StagedTokens, Reached, Rows, NoRow
    <3>3. /\ so[r].kind \in {"new", "cached", "resumed"}
          /\ so[r].kind = "new" => kv'[r] = 0 /\ len'[r] = PromptLen[r]
          /\ so[r].kind = "resumed" => kv'[r] = 0 /\ len'[r] = len[r]
          /\ so[r].kind = "cached" => kv'[r] = kv[r] /\ len'[r] = len[r]
      BY <1>1, <2>1, <2>3, <2>6 DEF Staged, StagedInv, SoEntry
    <3>4. /\ Gap(r) = len'[r] - kv'[r] /\ kv'[r] >= 0 /\ kv'[r] < len'[r]
          /\ kv'[r] \in Int /\ len'[r] \in Int
      BY <2>1, <2>2, <2>3, <3>3 DEF Gap, SampledInv
    <3>5. /\ so[r].n \in Nat /\ so[r].d \in Nat /\ so[r].n >= 1 + so[r].d /\ so[r].nout >= 0
          /\ so[r].d > 0 => so[r].n = 1 + so[r].d
          /\ so[r].n - so[r].d <= Gap(r)
          /\ ReachesEnd(r) <=> so[r].n - so[r].d = Gap(r)
          /\ ~ReachesEnd(r) => so[r].d = 0
      BY <2>1, <2>3, <2>6 DEF StagedInv, SoEntry
    <3>6. LaunchedInv(r)'
      BY <3>2, <3>4, <3>5 DEF LaunchedInv
    <3>7. SampledInv(r)'
      <4>1. ex'[r].discard => st'[r].real = len'[r]
        <5> SUFFICES ASSUME ~ReachesEnd(r) PROVE st'[r].real = len'[r]
          BY <3>2
        <5>1. CASE so[r].kind = "new"
          BY <3>1, <3>3, <5>1 DEF Launched
        <5>2. CASE so[r].kind = "resumed"
          BY <2>1, <3>1, <3>3, <5>2, ParticipatesOwn DEF Launched, StagedInv
        <5>3. CASE so[r].kind = "cached" /\ ~InRow(r)
          BY <2>1, <3>1, <3>3, <5>3, ParticipatesOwn DEF Launched, StagedInv
        <5>4. CASE so[r].kind = "cached" /\ InRow(r)
          <6>1. ~HasPrev(r)
            <7>1. HasPrev(r) => len[r] = kv[r] + 1
              BY <2>1, <5>4 DEF SampledInv
            <7> QED BY <2>3, <3>3, <3>4, <3>5, <5>4, <7>1
          <6>2. st[r].real = len[r]
            BY <2>1, <5>4, <6>1 DEF SampledInv
          <6> QED BY <3>1, <3>3, <5>4, <6>2, ParticipatesOwn DEF Launched
        <5> QED BY <3>3, <5>1, <5>2, <5>3, <5>4
      <4> QED BY <2>1, <2>2, <3>2, <3>4, <3>5, <4>1 DEF SampledInv
    <3>8. SchedulerInv(r)'
      <4>1. sched[r].status \notin {"waiting", "preempted"}
        BY <2>1, <2>6 DEF SchedulerInv, Staged
      <4>2. sched[r].status = "running" =>
              Reached(r)' > 0 /\ sched[r].computed = Reached(r)' + 0 + Rejections(r)
        <5> SUFFICES ASSUME sched[r].status = "running"
                     PROVE Reached(r)' > 0 /\ sched[r].computed = Reached(r)' + 0 + Rejections(r)
          OBVIOUS
        <5>1. Reached(r)' > 0
          BY <3>2, <3>4, <3>5
        <5>2. CASE so[r].kind \in {"new", "resumed"}
          <6>1. sched[r].computed = so[r].n /\ Rejections(r) = 0
            BY <2>1, <2>3, <5>2 DEF SchedulerInv, StagedInv, Rejections
          <6> QED BY <3>2, <3>3, <3>5, <5>1, <5>2, <6>1
        <5>3. CASE so[r].kind = "cached"
          <6>1. sched[r].computed = kv[r] + so[r].n + Rejections(r)
            BY <2>1, <2>2, <5>3 DEF SchedulerInv
          <6> QED BY <2>3, <3>2, <3>3, <3>5, <5>1, <5>3, <6>1
        <5> QED BY <3>3, <5>2, <5>3
      <4>3. Live(r) => /\ sched[r].holes = 0 + LaunchedTokens(r)' + DeliveredTokens(r)
                       /\ sched[r].tokens >= PromptLen[r]
                       /\ sched[r].tokens + res[r].cnt = len'[r]
        <5> SUFFICES ASSUME Live(r)
                     PROVE /\ sched[r].holes = 0 + LaunchedTokens(r)' + DeliveredTokens(r)
                           /\ sched[r].tokens >= PromptLen[r]
                           /\ sched[r].tokens + res[r].cnt = len'[r]
          OBVIOUS
        <5>1. sched[r].holes = StagedTokens(r) + 0 + DeliveredTokens(r) /\ sched[r].tokens >= PromptLen[r]
          BY <2>1, <2>2 DEF SchedulerInv
        <5>2. sched[r].tokens + res[r].cnt = len'[r]
          <6>1. CASE so[r].kind = "new"
            <7>1. sched[r].tokens = PromptLen[r] /\ res[r].cnt = 0
              BY <2>1, <6>1 DEF SchedulerInv, StagedInv
            <7> QED BY <2>3, <3>3, <6>1, <7>1
          <6>2. CASE so[r].kind # "new"
            BY <2>1, <3>3, <4>1, <6>2 DEF SchedulerInv
          <6> QED BY <6>1, <6>2
        <5> QED BY <2>3, <3>2, <5>1, <5>2
      <4>4. Live(r) =>
              sched[r].tokens + sched[r].holes
                      <= PromptLen[r] + st'[r].out + (IF Samples(r)' THEN 1 ELSE 0) + st'[r].draftLen
        <5> SUFFICES ASSUME Live(r)
                     PROVE sched[r].tokens + sched[r].holes
                      <= PromptLen[r] + st'[r].out + (IF Samples(r)' THEN 1 ELSE 0) + st'[r].draftLen
          OBVIOUS
        <5>1. sched[r].tokens + sched[r].holes <= PromptLen[r] + so[r].nout + StagedTokens(r)
          BY <2>1, <2>6 DEF SchedulerInv
        <5>2. StagedTokens(r) = IF ReachesEnd(r) THEN 1 + so[r].d ELSE 0
          BY <2>6 DEF StagedTokens
        <5>3. so[r].nout \in Int /\ sched[r].tokens \in Int /\ sched[r].holes \in Int
          BY <2>3 DEF SoEntry, SchedEntry
        <5> QED BY <2>3, <3>2, <3>5, <5>1, <5>2, <5>3
      <4>5. r \in finishedIds' => sched[r].status \in {"finished", "waiting"}
        BY <1>1, <2>1 DEF SchedulerInv
      <4> QED BY <1>1, <2>2, <3>2, <4>1, <4>2, <4>3, <4>4, <4>5 DEF SchedulerInv
    <3> QED BY <2>4, <3>6, <3>7, <3>8
  <2> QED BY <2>5, <2>6
<1> QED BY <1>3, <1>4, <1>5 DEF Inv

LEMMA InvNext == TypeOK /\ Inv /\ [Next]_vars => Inv'
<1> SUFFICES ASSUME TypeOK, Inv, [Next]_vars PROVE Inv'
  OBVIOUS
<1>1. CASE Schedule
  BY <1>1, InvSchedule
<1>2. CASE UpdateFromOutput
  BY <1>2, InvUpdateFromOutput
<1>3. CASE ExecuteModel
  BY <1>3, InvExecuteModel
<1>4. CASE SampleTokens
  BY <1>4, InvSampleTokens
<1>5. CASE \E r \in Req : Abort(r) \/ Resubmit(r)
  BY <1>5, InvAbort, InvResubmit
<1>6. CASE UNCHANGED vars
  BY <1>6 DEF vars, schedVars, soVars, batchVars, exVars, resVars, ghostVars, Inv, BuffersInv, RowsInv,
      LaunchedInv, SampledInv, StagedInv, SchedulerInv, Staged, ReachesEnd, Samples, Reached, Gap,
      StagedTokens, LaunchedTokens, DeliveredTokens, Rejections, InRow, HasPrev, Live
<1> QED
  BY <1>1, <1>2, <1>3, <1>4, <1>5, <1>6 DEF Next, Done

\* The relations between the three steps under way and every copy of the
\* counts hold in every reachable state, for any scheduler behaviour.
THEOREM CountsRelated == Spec => []Inv
  BY TypeCorrect, InvInit, InvNext, PTL DEF Spec

\* Every launched row starts exactly where the request's own KV ends, for any
\* batch size, number of drafts, prompt lengths and order of the steps, outputs
\* taken early or late (update_num_computed_tokens_for_batch_change).
THEOREM PositionsCorrect == Spec => []PositionsExact
<1>1. Inv => PositionsExact
  BY DEF Inv, LaunchedInv, PositionsExact
<1> QED BY CountsRelated, <1>1, PTL

\* A sample is kept exactly when the row's input reaches the request's last
\* token, although both sides of the comparison in discard_request_mask are
\* optimistic counts.
THEOREM DiscardCorrect == Spec => []DiscardExact
<1>1. TypeOK /\ Inv => DiscardExact
  <2> SUFFICES ASSUME TypeOK, Inv, NEW r \in Req, ex[r].in
               PROVE ex[r].discard <=> ex[r].pos + ex[r].n - ex[r].d < len[r]
    BY DEF DiscardExact
  <2>1. /\ ex[r].discard \in BOOLEAN /\ ex[r].pos \in Int /\ ex[r].n \in Nat /\ ex[r].d \in Nat
        /\ len[r] \in Int
    BY DEF TypeOK, ExEntry
  <2>2. /\ ex[r].discard  => ex[r].d = 0 /\ ex[r].pos + ex[r].n < len[r]
        /\ ~ex[r].discard => ex[r].pos + ex[r].n - ex[r].d = len[r]
    BY DEF Inv, LaunchedInv
  <2> QED BY <2>1, <2>2
<1> QED BY TypeCorrect, CountsRelated, <1>1, PTL

-----------------------------------------------------------------------------
LEMMA StrictInit == Init => StrictInv /\ CpuCountsExact
<1> SUFFICES ASSUME Init, NEW r \in Req PROVE ~InRow(r) /\ ~ex[r].in
  BY DEF StrictInv, CpuCountsExact
<1> QED BY DEF Init, InRow, Absent, NotLaunched

LEMMA StrictSchedule ==
  TypeOK /\ Inv /\ StrictInv /\ CpuCountsExact /\ Schedule => (StrictInv /\ CpuCountsExact)'
<1> SUFFICES ASSUME TypeOK, Inv, StrictInv, CpuCountsExact, Schedule
             PROVE (StrictInv /\ CpuCountsExact)'
  OBVIOUS
<1>1. /\ UNCHANGED <<st, prevReqIdToIndex, validCount, exReady, ex, gpuComputed, resReady, res, kv>>
      /\ soReady' = TRUE /\ ~soReady /\ ~(exReady /\ resReady)
  BY DEF Schedule, batchVars, exVars, resVars, ghostVars
<1>2. CpuCountsExact'
  BY <1>1 DEF CpuCountsExact
<1>3. ASSUME NEW r \in Req, so'[r].kind = "cached", InRow(r), st[r].draftLen > 0
      PROVE so'[r].computed = IF ex[r].in THEN ex[r].pos + ex[r].n
                              ELSE gpuComputed[prevReqIdToIndex[r]] + 1 + st[r].draftLen
  <2>1. PICK amount \in Amounts(r) : Stages(r, amount)
    BY <1>3, ScheduleCases DEF LeavesOut, NotScheduled
  <2>2. sched[r].status = "running" /\ so'[r].computed = sched[r].computed
    <3>1. so'[r].kind = Kind(r) /\ so'[r].computed = sched[r].computed
      BY <2>1 DEF Stages, Entry
    <3>2. sched[r].status \in {"waiting", "running", "preempted"}
      BY <2>1 DEF Stages, CanSchedule, Live
    <3> QED BY <1>3, <3>1, <3>2 DEF Kind
  <2>3. /\ LaunchedInv(r) /\ SampledInv(r) /\ SchedulerInv(r)
        /\ so[r].kind = "out" /\ so[r].n = 0
        /\ ex[r].in => res[r].cnt = 0
    BY <1>1 DEF Inv, BuffersInv, NotScheduled, NotLaunched, NoResult
  <2>4. /\ sched[r].computed \in Int /\ ex[r].pos \in Int /\ ex[r].n \in Nat /\ kv[r] \in Int
        /\ st[r].draftLen \in Nat /\ res[r].cnt \in Nat /\ res[r].d \in Nat
    BY DEF TypeOK, SchedEntry, ExEntry, StEntry, ResEntry
  <2>5. sched[r].computed = Reached(r) + Rejections(r)
    <3>1. Reached(r) \in Int /\ Rejections(r) \in Int
      BY <2>4 DEF Reached, Rejections
    <3> QED BY <2>2, <2>3, <3>1 DEF SchedulerInv
  <2>6. CASE ex[r].in
    BY <2>2, <2>3, <2>4, <2>5, <2>6 DEF Reached, Rejections
  <2>7. CASE ~ex[r].in
    <3>1. res[r].cnt > 0
      BY <1>1, <1>3, <2>2, <2>7 DEF StrictInv
    <3>2. /\ HasPrev(r) /\ res[r].cnt = validCount[prevReqIdToIndex[r]] /\ res[r].d = st[r].draftLen
          /\ gpuComputed[prevReqIdToIndex[r]] + validCount[prevReqIdToIndex[r]] = kv[r]
      BY <1>3, <2>3, <2>7, <3>1 DEF SampledInv
    <3>3. gpuComputed[prevReqIdToIndex[r]] \in Int
      BY <3>2 DEF TypeOK, HasPrev
    <3> QED BY <2>2, <2>4, <2>5, <2>7, <3>1, <3>2, <3>3 DEF Reached, Rejections
  <2> QED BY <2>6, <2>7
<1>4. StrictInv'
  BY <1>1, <1>3 DEF StrictInv, InRow
<1> QED BY <1>2, <1>4

LEMMA StrictUpdate ==
  ~EarlyOutput /\ TypeOK /\ Inv /\ StrictInv /\ CpuCountsExact /\ UpdateFromOutput
    => (StrictInv /\ CpuCountsExact)'
<1> SUFFICES ASSUME ~EarlyOutput, TypeOK, Inv, StrictInv, CpuCountsExact, UpdateFromOutput
             PROVE (StrictInv /\ CpuCountsExact)'
  OBVIOUS
<1>1. /\ UNCHANGED <<soReady, so, st, prevReqIdToIndex, exReady, ex, gpuComputed>>
      /\ soReady \/ exReady \/ ~\E r \in Req : CanSchedule(r)
  BY DEF UpdateFromOutput, soVars, batchVars, exVars
<1>2. CpuCountsExact'
  BY <1>1 DEF CpuCountsExact
<1>3. ASSUME NEW r \in Req, sched'[r].status = "running", ~soReady, InRow(r), st[r].draftLen > 0
      PROVE sched'[r].decoded /\ ex[r].in
  <2>1. /\ sched[r].status = "running" /\ sched'[r].decoded = sched[r].decoded
        /\ (Unmoved(r) /\ ~(Live(r) /\ res[r].in /\ res[r].cnt > 0)) \/ Advanced(r)
    BY <1>3, UpdateCases DEF Unmoved, Ended, Advanced
  <2>2. sched[r].decoded /\ (ex[r].in \/ res[r].cnt > 0) /\ Live(r)
    BY <1>3, <2>1 DEF StrictInv, Live
  <2>3. ASSUME ~ex[r].in PROVE FALSE
    <3>1. res[r].cnt > 0 /\ res[r].in
      BY <2>2, <2>3 DEF Inv, SampledInv
    <3>2. sched[r].tokens + res[r].cnt < MaxTokens[r]
      BY <2>1, <2>2, <3>1 DEF Advanced
    <3>3. CanSchedule(r)
      <4>1. sched[r].tokens \in Nat /\ res[r].cnt \in Nat /\ MaxTokens[r] \in Nat
        BY SpecAssumption DEF TypeOK, SchedEntry, ResEntry
      <4>2. sched[r].tokens + (IF sched[r].holes > 0 THEN 1 ELSE 0) < MaxTokens[r]
        BY <3>1, <3>2, <4>1
      <4> QED BY <2>2, <4>2 DEF CanSchedule
    <3>4. ~exReady
      BY <1>3, <2>3 DEF Inv, RowsInv
    <3> QED BY <1>1, <1>3, <3>3, <3>4
  <2> QED BY <2>1, <2>2, <2>3
<1>4. StrictInv'
  BY <1>1, <1>3 DEF StrictInv, InRow
<1> QED BY <1>2, <1>4

LEMMA StrictExecute ==
  TypeOK /\ Inv /\ StrictInv /\ ExecuteModel => (StrictInv /\ CpuCountsExact)'
<1> SUFFICES ASSUME TypeOK, Inv, StrictInv, ExecuteModel PROVE (StrictInv /\ CpuCountsExact)'
  OBVIOUS
<1> SUFFICES ASSUME NEW r \in Req
             PROVE /\ sched[r].status = "running" /\ InRow(r)' /\ st'[r].draftLen > 0 =>
                        sched[r].decoded /\ ex'[r].in
                   /\ ex'[r].in => st'[r].computed = ex'[r].pos /\ st'[r].cpu = ex'[r].pos
  <2>1. sched' = sched /\ so' = [q \in Req |-> NotScheduled] /\ NotScheduled.kind = "out"
    <3>1. sched' = sched
      BY DEF ExecuteModel, schedVars
    <3>2. so' = [q \in Req |-> NotScheduled]
      BY DEF ExecuteModel
    <3> QED BY <3>1, <3>2 DEF NotScheduled
  <2> QED BY <2>1 DEF StrictInv, CpuCountsExact
<1>1. ~exReady /\ ~ex[r].in /\ StagedInv(r) /\ SchedulerInv(r)
  BY DEF ExecuteModel, Inv, BuffersInv, NotLaunched
<1>2. CASE ~Staged(r)
  BY <1>2, ExecuteCases DEF NotInStep, NotLaunched, InRow
<1>3. CASE Staged(r)
  <2>1. PICK row \in Rows : Launched(r, row)
    BY <1>3, ExecuteCases
  <2>2. /\ ex'[r].in /\ ex'[r].pos = StartPosition(r) /\ st'[r].draftLen = so[r].d
        /\ st'[r].computed = so[r].computed - Correction(r)
        /\ st'[r].cpu = so[r].computed - Correction(r)
    BY <2>1 DEF Launched
  <2>3. sched[r].status = "running" /\ so[r].d > 0 => sched[r].decoded
    <3>1. so[r].d > 0 => ReachesEnd(r)
      BY <1>1, <1>3 DEF StagedInv, TypeOK, SoEntry
    <3> QED BY <1>1, <1>3, <3>1 DEF SchedulerInv, Live
  <2>4. so[r].computed - Correction(r) = StartPosition(r)
    <3>1. so[r].computed \in Int /\ st[r].draftLen \in Nat /\ kv[r] \in Int
      BY DEF TypeOK, SoEntry, StEntry
    <3>2. CASE ~IsOptimistic(r)
      <4>1. Correction(r) = 0
        BY <3>2 DEF Correction
      <4> QED BY <1>1, <1>3, <3>1, <3>2, <4>1, StartsAtKv
    <3>3. CASE IsOptimistic(r)
      <4> DEFINE prev == prevReqIdToIndex[r]
      <4>1. /\ HasPrev(r) /\ sampledOnce /\ PrevIndex(r) = prev
            /\ kv[r] = gpuComputed[prev] + validCount[prev]
            /\ InRow(r) /\ so[r].kind = "cached" /\ st[r].draftLen > 0
        BY <1>1, <1>3, <3>3, StartsAtKv, ParticipatesOwn DEF IsOptimistic
      <4>2. StartPosition(r) = kv[r]
        BY <1>1, <1>3, <4>1, StartsAtKv
      <4>3. so[r].computed = gpuComputed[prev] + 1 + st[r].draftLen
        BY <1>1, <4>1 DEF StrictInv
      <4>4. Correction(r) = st[r].draftLen - (validCount[prev] - 1)
        BY <3>3, <4>1 DEF Correction, HasPrev
      <4>5. gpuComputed[prev] \in Int /\ validCount[prev] \in Nat
        BY <4>1 DEF TypeOK, HasPrev
      <4> QED BY <3>1, <4>1, <4>2, <4>3, <4>4, <4>5
    <3> QED BY <3>2, <3>3
  <2> QED BY <2>2, <2>3, <2>4
<1> QED BY <1>2, <1>3

LEMMA StrictSample ==
  TypeOK /\ Inv /\ StrictInv /\ SampleTokens => (StrictInv /\ CpuCountsExact)'
<1> SUFFICES ASSUME TypeOK, Inv, StrictInv, SampleTokens PROVE (StrictInv /\ CpuCountsExact)'
  OBVIOUS
<1> SUFFICES ASSUME NEW r \in Req, InRow(r)', st'[r].draftLen > 0
             PROVE /\ sched[r].status = "running" /\ ~soReady => sched[r].decoded /\ res'[r].cnt > 0
                   /\ so[r].kind = "cached" =>
                        so[r].computed = gpuComputed[prevReqIdToIndex'[r]] + 1 + st'[r].draftLen
  <2>1. /\ UNCHANGED <<sched, soReady, so, gpuComputed>>
        /\ \A q \in Req : ~ex'[q].in
    <3>1. UNCHANGED <<sched, soReady, so, gpuComputed>>
      BY DEF SampleTokens, schedVars, soVars
    <3>2. ex' = [q \in Req |-> NotLaunched]
      BY DEF SampleTokens
    <3> QED BY <3>1, <3>2 DEF NotLaunched
  <2> QED BY <2>1 DEF StrictInv, CpuCountsExact
<1>1. InRow(r) /\ st[r].draftLen > 0
  BY SampleCases DEF Sampled, PassedOver, InRow
<1>2. LaunchedInv(r) /\ ex[r].in
  BY <1>1 DEF Inv, RowsInv, SampleTokens
<1>3. /\ ex[r].d > 0 /\ st[r].draftLen = ex[r].d /\ ex[r].n = 1 + ex[r].d
      /\ gpuComputed[ex[r].row] = ex[r].pos /\ ex[r].pos \in Int /\ ex[r].d \in Nat
  BY <1>1, <1>2 DEF LaunchedInv, TypeOK, ExEntry
<1>4. Samples(r)
  BY <1>2, <1>3 DEF LaunchedInv, Samples
<1>5. PICK a \in Nat : Sampled(r, a)
  BY <1>4, SampleCases DEF PassedOver
<1>6. res'[r].cnt > 0 /\ prevReqIdToIndex'[r] = ex[r].row /\ st'[r].draftLen = st[r].draftLen
  BY <1>5 DEF Sampled
<1> QED BY <1>1, <1>2, <1>3, <1>6 DEF StrictInv

\* When outputs are never taken in before the next step is scheduled, both CPU
\* copies of num_computed_tokens equal the position the GPU used once the
\* deferred correction has run (correct_spec_decode_token_counts).
THEOREM CpuCountsCorrect == ASSUME ~EarlyOutput PROVE Spec => []CpuCountsExact
<1>1. TypeOK /\ Inv /\ StrictInv /\ CpuCountsExact /\ [Next]_vars => (StrictInv /\ CpuCountsExact)'
  <2> SUFFICES ASSUME TypeOK, Inv, StrictInv, CpuCountsExact, [Next]_vars
               PROVE (StrictInv /\ CpuCountsExact)'
    OBVIOUS
  <2>1. CASE Schedule
    BY <2>1, StrictSchedule
  <2>2. CASE UpdateFromOutput
    BY <2>2, StrictUpdate
  <2>3. CASE ExecuteModel
    BY <2>3, StrictExecute
  <2>4. CASE SampleTokens
    BY <2>4, StrictSample
  <2>5. ASSUME NEW q \in Req, Abort(q) \/ Resubmit(q) PROVE (StrictInv /\ CpuCountsExact)'
    <3>1. /\ UNCHANGED <<soReady, so, st, prevReqIdToIndex, ex, gpuComputed, res>>
          /\ \A r \in Req : sched'[r].status = "running" => sched'[r] = sched[r]
      <4>1. CASE Abort(q)
        <5>1. UNCHANGED <<soReady, so, st, prevReqIdToIndex, ex, gpuComputed, res>>
          BY <4>1 DEF Abort, soVars, batchVars, exVars, resVars
        <5>2. /\ sched'[q].status = "finished"
              /\ \A r \in Req : r # q => sched'[r] = sched[r]
          BY <4>1 DEF Abort, TypeOK, SchedEntry
        <5> QED BY <5>1, <5>2
      <4>2. CASE Resubmit(q)
        <5>1. UNCHANGED <<soReady, so, st, prevReqIdToIndex, ex, gpuComputed, res>>
          BY <4>2 DEF Resubmit, soVars, batchVars, exVars, resVars
        <5>2. /\ sched'[q].status = "waiting"
              /\ \A r \in Req : r # q => sched'[r] = sched[r]
          BY <4>2 DEF Resubmit, TypeOK, SchedEntry
        <5> QED BY <5>1, <5>2
      <4> QED BY <2>5, <4>1, <4>2
    <3> QED BY <3>1 DEF StrictInv, CpuCountsExact, InRow
  <2>6. CASE UNCHANGED vars
    BY <2>6 DEF StrictInv, CpuCountsExact, InRow, vars, schedVars, soVars, batchVars, exVars, resVars
  <2> QED
    BY <2>1, <2>2, <2>3, <2>4, <2>5, <2>6 DEF Next, Done
<1> QED BY TypeCorrect, CountsRelated, StrictInit, <1>1, PTL DEF Spec

-----------------------------------------------------------------------------
LEMMA TokensInit == Init => TokensInv
<1> SUFFICES ASSUME Init PROVE TokensInv
  OBVIOUS
<1>1. ASSUME NEW r \in Req PROVE ~HasPrev(r) /\ ~ex[r].in /\ res[r].cnt = 0
  BY DEF Init, HasPrev, NotLaunched, NoResult
<1> QED BY <1>1 DEF TokensInv, FeedsOwnToken

\* Actions that touch neither the batch nor what is launched.
LEMMA TokensKept ==
  ASSUME TokensInv,
         UNCHANGED <<st, prevReqIdToIndex, prevSampled, ex, kv>>,
         \A r \in Req : /\ sched'[r].gen = sched[r].gen \/ (~ex[r].in /\ ~Continues(r)')
                        /\ Continues(r)' => Continues(r)
                        /\ res'[r] = res[r] \/ res'[r].cnt = 0
  PROVE  TokensInv'
<1>1. FeedsOwnToken'
  BY DEF TokensInv, FeedsOwnToken, Token
<1>2. ASSUME NEW r \in Req
      PROVE (/\ HasPrev(r) => InRow(r)
             /\ Continues(r) /\ InRow(r) /\ ~ex[r].in /\ HasPrev(r) =>
                  prevSampled[prevReqIdToIndex[r]] = Token(r, kv[r])
             /\ res[r].cnt > 0 => res[r].ok)'
  <2>1. (InRow(r)' <=> InRow(r)) /\ (HasPrev(r)' <=> HasPrev(r))
    BY DEF InRow, HasPrev
  <2>2. Continues(r)' => Token(r, kv[r])' = Token(r, kv[r])
    BY DEF Token
  <2>3. /\ HasPrev(r) => InRow(r)
        /\ Continues(r) /\ InRow(r) /\ ~ex[r].in /\ HasPrev(r) =>
             prevSampled[prevReqIdToIndex[r]] = Token(r, kv[r])
        /\ res[r].cnt > 0 => res[r].ok
    BY DEF TokensInv
  <2>4. res'[r].cnt > 0 => res'[r].ok
    <3>1. CASE res'[r] = res[r]
      BY <2>3, <3>1
    <3>2. CASE res'[r].cnt = 0
      BY <3>2
    <3> QED BY <3>1, <3>2
  <2>5. Continues(r)' => Continues(r)
    OBVIOUS
  <2>6. ASSUME Continues(r)', InRow(r)', ~ex'[r].in, HasPrev(r)'
        PROVE prevSampled'[prevReqIdToIndex'[r]] = Token(r, kv[r])'
    <3>1. prevSampled[prevReqIdToIndex[r]] = Token(r, kv[r])
      BY <2>1, <2>3, <2>5, <2>6
    <3> QED BY <2>2, <2>6, <3>1
  <2> QED BY <2>1, <2>3, <2>4, <2>6
<1> QED BY <1>1, <1>2 DEF TokensInv

LEMMA TokensScheduler ==
  ASSUME TypeOK, Inv, TokensInv,
         Schedule \/ UpdateFromOutput \/ \E r \in Req : Abort(r) \/ Resubmit(r)
  PROVE  TokensInv'
<1>1. CASE Schedule
  <2>1. UNCHANGED <<st, prevReqIdToIndex, prevSampled, ex, kv, res>>
    BY <1>1 DEF Schedule, batchVars, exVars, resVars, ghostVars
  <2>2. ASSUME NEW r \in Req PROVE Continues(r)' => Continues(r)
    <3>1. so[r].kind = "out"
      <4>1. so[r] = NotScheduled
        BY <1>1 DEF Schedule, Inv, BuffersInv
      <4> QED BY <4>1 DEF NotScheduled
    <3>2. CASE LeavesOut(r)
      BY <3>1, <3>2 DEF LeavesOut, Continues, NotScheduled
    <3>3. ASSUME NEW amount \in Amounts(r), Stages(r, amount)
          PROVE so'[r].kind = "out" \/ so'[r].kind = "cached" => sched[r].status = "running"
      <4>1. so'[r].kind = Kind(r) /\ sched[r].status \in {"waiting", "running", "preempted"}
        BY <3>3 DEF Stages, Entry, CanSchedule, Live
      <4> QED BY <4>1 DEF Kind
    <3> QED BY <1>1, <3>1, <3>2, <3>3, ScheduleCases DEF Continues
  <2>3. \A r \in Req : sched'[r].gen = sched[r].gen
    BY <1>1, ScheduleCases
  <2> QED BY <2>1, <2>2, <2>3, TokensKept
<1>2. CASE UpdateFromOutput
  <2>1. /\ UNCHANGED <<so, st, prevReqIdToIndex, prevSampled, ex, kv>>
        /\ \A r \in Req : res'[r].cnt = 0
    <3>1. UNCHANGED <<so, st, prevReqIdToIndex, prevSampled, ex, kv>>
      BY <1>2 DEF UpdateFromOutput, soVars, batchVars, exVars, ghostVars
    <3>2. res' = [r \in Req |-> NoResult]
      BY <1>2 DEF UpdateFromOutput
    <3> QED BY <3>1, <3>2 DEF NoResult
  <2>2. ASSUME NEW r \in Req
        PROVE sched'[r].gen = sched[r].gen /\ (Continues(r)' => Continues(r))
    BY <1>2, <2>1, UpdateCases DEF Continues, Unmoved, Ended, Advanced
  <2> QED BY <2>1, <2>2, TokensKept
<1>3. ASSUME NEW q \in Req, Abort(q) PROVE TokensInv'
  <2>1. UNCHANGED <<so, st, prevReqIdToIndex, prevSampled, ex, kv, res>>
    BY <1>3 DEF Abort, soVars, batchVars, exVars, resVars, ghostVars
  <2>2. \A r \in Req : /\ sched'[r].gen = sched[r].gen
                       /\ sched'[r].status \in {sched[r].status, "finished"}
    BY <1>3 DEF Abort, TypeOK, SchedEntry
  <2> QED BY <2>1, <2>2, TokensKept DEF Continues
<1>4. ASSUME NEW q \in Req, Resubmit(q) PROVE TokensInv'
  <2>1. UNCHANGED <<so, st, prevReqIdToIndex, prevSampled, ex, kv, res>>
    BY <1>4 DEF Resubmit, soVars, batchVars, exVars, resVars, ghostVars
  <2>2. /\ \A r \in Req : r # q => sched'[r] = sched[r]
        /\ sched'[q].status = "waiting"
    BY <1>4 DEF Resubmit, TypeOK, SchedEntry
  <2>3. ~ex[q].in /\ ~Staged(q)
    <3>1. /\ ~Staged(q) \/ ~soReady
          /\ ~ex[q].in \/ ~exReady
      BY <1>4 DEF Resubmit, InFlight, Staged
    <3> QED BY <3>1 DEF Inv, BuffersInv, Staged, NotScheduled, NotLaunched
  <2>4. ~Continues(q)'
    BY <2>1, <2>2, <2>3 DEF Continues, Staged
  <2>5. \A r \in Req : r # q => (Continues(r)' => Continues(r))
    BY <2>1, <2>2 DEF Continues
  <2>6. ASSUME NEW r \in Req
        PROVE /\ sched'[r].gen = sched[r].gen \/ (~ex[r].in /\ ~Continues(r)')
              /\ Continues(r)' => Continues(r)
              /\ res'[r] = res[r] \/ res'[r].cnt = 0
    BY <2>1, <2>2, <2>3, <2>4, <2>5
  <2> QED BY <2>1, <2>6, TokensKept
<1> QED BY <1>1, <1>2, <1>3, <1>4

LEMMA TokensSample == TypeOK /\ Inv /\ TokensInv /\ SampleTokens => TokensInv'
<1> SUFFICES ASSUME TypeOK, Inv, TokensInv, SampleTokens PROVE TokensInv'
  OBVIOUS
<1>1. sched' = sched /\ \A q \in Req : ~ex'[q].in
  <2>1. ex' = [q \in Req |-> NotLaunched]
    BY DEF SampleTokens
  <2>2. sched' = sched
    BY DEF SampleTokens, schedVars
  <2> QED BY <2>1, <2>2 DEF NotLaunched
<1>2. FeedsOwnToken'
  BY <1>1 DEF FeedsOwnToken
<1>3. ASSUME NEW r \in Req
      PROVE (/\ HasPrev(r) => InRow(r)
             /\ Continues(r) /\ InRow(r) /\ ~ex[r].in /\ HasPrev(r) =>
                  prevSampled[prevReqIdToIndex[r]] = Token(r, kv[r])
             /\ res[r].cnt > 0 => res[r].ok)'
  <2>1. CASE PassedOver(r)
    BY <2>1 DEF PassedOver, HasPrev
  <2>2. ASSUME NEW a \in Nat, Sampled(r, a)
        PROVE /\ InRow(r)' /\ prevSampled'[prevReqIdToIndex'[r]] = Token(r, kv'[r]) /\ res'[r].ok
    <3>1. ex[r].in /\ LaunchedInv(r) /\ InRow(r)
      BY <2>2 DEF Sampled, Samples, Inv, RowsInv
    <3>2. RightInputs(r)
      BY <3>1 DEF RightInputs, LaunchedInv, TokensInv, FeedsOwnToken
    <3> QED BY <2>2, <3>1, <3>2 DEF Sampled, InRow
  <2>3. Token(r, kv[r])' = Token(r, kv'[r])
    BY <1>1 DEF Token
  <2> QED BY <2>1, <2>2, <2>3, SampleCases
<1> QED BY <1>2, <1>3 DEF TokensInv

LEMMA TokensExecute ==
  ForgetRemoved /\ TypeOK /\ Inv /\ TokensInv /\ ExecuteModel => TokensInv'
<1> SUFFICES ASSUME ForgetRemoved, TypeOK, Inv, TokensInv, ExecuteModel PROVE TokensInv'
  OBVIOUS
<1> USE SpecAssumption
<1>1. /\ sched' = sched /\ res' = res /\ ~exReady
      /\ prevReqIdToIndex' = [r \in Req |-> PrevIndex(r)]
      /\ kv' = [r \in Req |-> IF so[r].kind \in {"new", "resumed"} THEN so[r].computed ELSE kv[r]]
  BY DEF ExecuteModel, schedVars, resVars
<1>2. ASSUME NEW r \in Req
      PROVE (/\ ex[r].in => ex[r].tok = Token(r, ex[r].pos + ex[r].n - ex[r].d - 1)
             /\ HasPrev(r) => InRow(r)
             /\ InRow(r) => ex[r].in
             /\ res[r].cnt > 0 => res[r].ok)'
  <2>1. /\ LaunchedInv(r) /\ SampledInv(r) /\ StagedInv(r) /\ ~ex[r].in
        /\ ~Samples(r) /\ Reached(r) = kv[r]
        /\ HasPrev(r) => InRow(r)
        /\ Continues(r) /\ InRow(r) /\ HasPrev(r) => prevSampled[prevReqIdToIndex[r]] = Token(r, kv[r])
        /\ res[r].cnt > 0 => res[r].ok
    BY <1>1 DEF Inv, BuffersInv, NotLaunched, TokensInv, Samples, Reached
  <2>2. PrevIndex(r) # NoRow => HasPrev(r) /\ StaysInBatch(r) /\ InRow(r) /\ so[r].kind = "cached"
    <3>1. PrevIndex(r) # NoRow => HasPrev(r) /\ PrevIndex(r) = prevReqIdToIndex[r]
      BY ParticipatesOwn DEF HasPrev
    <3>2. PrevIndex(r) # NoRow => StaysInBatch(r)
      BY <2>1, <3>1 DEF PrevIndex, InRow
    <3> QED BY <3>1, <3>2, ParticipatesOwn
  <2>3. res'[r].cnt > 0 => res'[r].ok
    BY <1>1, <2>1
  <2>4. CASE ~Staged(r)
    <3>1. ex'[r] = NotLaunched /\ ~InRow(r)'
      BY <2>4, ExecuteCases DEF NotInStep, InRow
    <3>2. ~HasPrev(r)'
      BY <1>1, <2>2, <2>4 DEF HasPrev, Staged
    <3> QED BY <2>3, <3>1, <3>2 DEF NotLaunched
  <2>5. CASE Staged(r)
    <3>1. PICK row \in Rows : Launched(r, row)
      BY <2>5, ExecuteCases
    <3>2. /\ ex'[r].in /\ ex'[r].pos = StartPosition(r) /\ ex'[r].n = so[r].n /\ ex'[r].d = so[r].d
          /\ ex'[r].tok = LastInputToken(r, [real |-> st'[r].real])
          /\ st'[r].real = IF so[r].kind = "new" THEN PromptLen[r]
                   ELSE IF StaysInBatch(r) THEN st[r].real ELSE so[r].known
          /\ st'[r].row = row
      BY <3>1 DEF Launched
    <3>3. InRow(r)'
      BY <3>2 DEF InRow, Rows, NoRow
    <3>4. /\ so[r].n \in Nat /\ so[r].d \in Nat /\ so[r].computed \in Int /\ kv[r] \in Int /\ len[r] \in Int
          /\ so[r].kind \in {"new", "cached", "resumed"} /\ PromptLen[r] \in Nat
      BY <2>5 DEF TypeOK, SoEntry, Staged
    <3>5. so[r].n >= 1 + so[r].d /\ so[r].n - so[r].d <= Gap(r)
      BY <2>1, <2>5 DEF StagedInv
    <3> DEFINE i == so[r].computed + so[r].n - so[r].d - 1
    <3>6. LastInputToken(r, [real |-> st'[r].real]) = Token(r, StartPosition(r) + so[r].n - so[r].d - 1)
      <4>1. CASE PrevIndex(r) # NoRow
        <5>1. /\ HasPrev(r) /\ sampledOnce /\ InRow(r) /\ so[r].kind = "cached"
              /\ PrevIndex(r) = prevReqIdToIndex[r]
          BY <2>2, <4>1, ParticipatesOwn
        <5>2. LastInputToken(r, [real |-> st'[r].real]) = prevSampled[prevReqIdToIndex[r]]
          BY <4>1, <5>1 DEF LastInputToken
        <5>3. prevSampled[prevReqIdToIndex[r]] = Token(r, kv[r])
          BY <2>1, <5>1 DEF Continues
        <5>4. StartPosition(r) = kv[r]
          BY <1>1, <2>5, <5>1, StartsAtKv
        <5>5. so[r].n - so[r].d = 1
          <6>1. Gap(r) = len[r] - kv[r]
            BY <2>1, <5>1 DEF Gap
          <6>2. len[r] = kv[r] + 1
            BY <2>1, <5>1 DEF SampledInv
          <6> QED BY <3>4, <3>5, <6>1, <6>2
        <5>6. StartPosition(r) + so[r].n - so[r].d - 1 = kv[r]
          BY <3>4, <5>4, <5>5
        <5> QED BY <5>2, <5>3, <5>6
      <4>2. CASE PrevIndex(r) = NoRow
        <5>1. ~IsOptimistic(r)
          BY <1>1, <2>5, <4>2, StartsAtKv DEF HasPrev
        <5>2. StartPosition(r) = so[r].computed
          BY <1>1, <2>5, <5>1, StartsAtKv
        <5>3. i < st'[r].real
          <6>1. CASE so[r].kind = "new"
            <7>1. so[r].computed = 0 /\ Gap(r) = PromptLen[r] /\ st'[r].real = PromptLen[r]
              BY <2>1, <3>2, <6>1 DEF StagedInv, Gap
            <7> QED BY <3>4, <3>5, <7>1
          <6>2. CASE so[r].kind = "resumed"
            <7>1. so[r].computed = 0 /\ Gap(r) = len[r] /\ so[r].known = len[r]
              BY <2>1, <6>2 DEF StagedInv, Gap
            <7>2. st'[r].real = so[r].known
              BY <3>2, <6>2, ParticipatesOwn
            <7> QED BY <3>4, <3>5, <7>1, <7>2
          <6>3. CASE so[r].kind = "cached"
            <7>1. Gap(r) = len[r] - kv[r]
              BY <2>1, <6>3 DEF Gap
            <7>2. so[r].computed = kv[r]
              BY <1>1, <2>5, <5>2, <6>3, StartsAtKv
            <7>3. st'[r].real = len[r]
              <8>1. CASE InRow(r)
                <9>1. ~HasPrev(r)
                  BY <4>2, <6>3, <8>1, ParticipatesOwn DEF HasPrev
                <9> QED BY <2>1, <3>2, <6>3, <8>1, <9>1, ParticipatesOwn DEF SampledInv
              <8>2. CASE ~InRow(r)
                BY <2>1, <3>2, <6>3, <8>2, ParticipatesOwn DEF StagedInv
              <8> QED BY <8>1, <8>2
            <7> QED BY <3>4, <3>5, <7>1, <7>2, <7>3
          <6> QED BY <3>4, <6>1, <6>2, <6>3
        <5> QED BY <4>2, <5>2, <5>3 DEF LastInputToken
      <4> QED BY <4>1, <4>2
    <3>7. Token(r, ex[r].pos + ex[r].n - ex[r].d - 1)'
            = Token(r, StartPosition(r) + so[r].n - so[r].d - 1)
      BY <1>1, <3>2 DEF Token
    <3> QED BY <2>3, <3>2, <3>3, <3>6, <3>7
  <2> QED BY <2>4, <2>5
<1> QED BY <1>2 DEF TokensInv, FeedsOwnToken

LEMMA TokensNext == ForgetRemoved /\ TypeOK /\ Inv /\ TokensInv /\ [Next]_vars => TokensInv'
<1> SUFFICES ASSUME ForgetRemoved, TypeOK, Inv, TokensInv, [Next]_vars PROVE TokensInv'
  OBVIOUS
<1>1. CASE UNCHANGED vars
  BY <1>1 DEF TokensInv, FeedsOwnToken, Token, Continues, HasPrev, InRow, vars, schedVars, soVars,
              batchVars, exVars, resVars, ghostVars
<1> QED
  BY <1>1, TokensScheduler, TokensSample, TokensExecute DEF Next, Done

\* When removed requests are forgotten, every launched row is fed the request's
\* own last verified token: never one that another request, or an earlier
\* request of the same id, left in a row, and never a placeholder
\* (_prepare_input_ids).
THEOREM OwnTokenFed == ASSUME ForgetRemoved PROVE Spec => []FeedsOwnToken
<1>1. TokensInv => FeedsOwnToken
  BY DEF TokensInv
<1>2. Spec => []TokensInv
  BY TypeCorrect, CountsRelated, TokensInit, TokensNext, PTL DEF Spec
<1> QED BY <1>1, <1>2, PTL

-----------------------------------------------------------------------------
\* What UpdateFromOutput delivers: keep[r] of the tokens of each request.
Delivered(r, k) == [j \in 1 .. k |-> IF res[r].ok THEN res[r].first + j - 1 ELSE NoRow]

LEMMA UpdateText ==
  ASSUME TypeOK, UpdateFromOutput
  PROVE  \E keep \in [Req -> 0 .. NumSpec + 1] :
           /\ text' = [r \in Req |-> text[r] \o Delivered(r, keep[r])]
           /\ \A r \in Req : /\ keep[r] > 0 => Live(r) /\ res[r].cnt > 0
                             /\ sched'[r].tokens = sched[r].tokens + keep[r]
                             /\ Live(r)' => Live(r)
<1> USE SpecAssumption
<1> DEFINE Takes(q) == res[q].in /\ res[q].cnt > 0 /\ Live(q)
           Ends(q, stop, keep)  == Takes(q) /\ (q \in stop \/ keep[q] < res[q].cnt
                                      \/ sched[q].tokens + keep[q] >= MaxTokens[q])
<1>1. PICK stop \in SUBSET Req, keep \in [Req -> 0 .. NumSpec + 1] :
           /\ \A q \in Req :
                IF Takes(q) THEN keep[q] \in 1 .. Min2(res[q].cnt, MaxTokens[q] - sched[q].tokens)
                            ELSE keep[q] = 0 /\ q \notin stop
           /\ sched' = [q \in Req |->
                IF ~Takes(q) THEN sched[q]
                ELSE [sched[q] EXCEPT
                        !.status   = IF Ends(q, stop, keep) THEN "finished" ELSE @,
                        !.tokens   = @ + keep[q],
                        !.holes    = @ - (res[q].d + 1),
                        !.computed = IF @ > 0 THEN @ - (res[q].d + 1 - res[q].cnt) ELSE 0]]
           /\ text' = [q \in Req |->
                text[q] \o [j \in 1 .. keep[q] |-> IF res[q].ok THEN res[q].first + j - 1 ELSE NoRow]]
  BY DEF UpdateFromOutput
<1>2. text' = [r \in Req |-> text[r] \o Delivered(r, keep[r])]
  BY <1>1 DEF Delivered
<1>3. ASSUME NEW r \in Req
      PROVE /\ keep[r] > 0 => Live(r) /\ res[r].cnt > 0
            /\ sched'[r].tokens = sched[r].tokens + keep[r]
            /\ Live(r)' => Live(r)
  <2>1. sched[r] \in SchedEntry /\ keep[r] \in Nat /\ sched[r].tokens \in Nat
    BY DEF TypeOK, SchedEntry
  <2>2. CASE ~Takes(r)
    <3>1. sched'[r] = sched[r] /\ keep[r] = 0
      BY <1>1, <2>2
    <3> QED BY <2>1, <3>1 DEF Live
  <2>3. CASE Takes(r)
    <3> DEFINE status   == IF Ends(r, stop, keep) THEN "finished" ELSE sched[r].status
               computed == IF sched[r].computed > 0
                           THEN sched[r].computed - (res[r].d + 1 - res[r].cnt) ELSE 0
    <3>1. sched'[r] = [sched[r] EXCEPT !.status = status, !.tokens = sched[r].tokens + keep[r],
                                       !.holes = sched[r].holes - (res[r].d + 1),
                                       !.computed = computed]
      BY <1>1, <2>3, Zenon
    <3> HIDE DEF status, computed
    <3>2. sched'[r].tokens = sched[r].tokens + keep[r]
      BY <2>1, <3>1, Zenon DEF SchedEntry
    <3> QED BY <2>3, <3>2
  <2> QED BY <2>2, <2>3
<1> QED BY <1>2, <1>3

LEMMA DeliveredLen == ASSUME NEW r \in Req, NEW k \in Nat PROVE Len(Delivered(r, k)) = k
BY DEF Delivered

LEMMA TextInit == Init => TextInv
<1> SUFFICES ASSUME Init PROVE TextInv
  OBVIOUS
<1>1. ASSUME NEW r \in Req
      PROVE sched[r].tokens = PromptLen[r] /\ text[r] = <<>> /\ res[r].cnt = 0
  BY DEF Init, NoResult
<1> QED BY <1>1, SpecAssumption DEF TextInv

LEMMA TextNext == TypeOK /\ Inv /\ TextInv /\ [Next]_vars => TextInv'
<1> SUFFICES ASSUME TypeOK, Inv, TextInv, [Next]_vars, NEW r \in Req, Live(r)'
             PROVE (/\ sched[r].tokens = PromptLen[r] + Len(text[r])
                    /\ res[r].cnt > 0 => res[r].first = sched[r].tokens)'
  BY DEF TextInv
<1> USE SpecAssumption
<1>1. CASE Schedule
  <2>1. text' = text /\ res' = res
    BY <1>1 DEF Schedule, resVars
  <2>2. Live(r) /\ sched'[r].tokens = sched[r].tokens
    BY <1>1, ScheduleCases DEF LeavesOut, Stages, CanSchedule, Live
  <2> QED BY <2>1, <2>2 DEF TextInv
<1>2. CASE UpdateFromOutput
  <2>1. PICK keep \in [Req -> 0 .. NumSpec + 1] :
           /\ text' = [q \in Req |-> text[q] \o Delivered(q, keep[q])]
           /\ \A q \in Req : /\ sched'[q].tokens = sched[q].tokens + keep[q]
                             /\ Live(q)' => Live(q)
    BY <1>2, UpdateText
  <2>2. res'[r].cnt = 0
    BY <1>2 DEF UpdateFromOutput, NoResult
  <2>3. sched[r].tokens = PromptLen[r] + Len(text[r])
    BY <2>1 DEF TextInv
  <2>4. Len(text'[r]) = Len(text[r]) + keep[r]
    <3>1. Delivered(r, keep[r]) \in Seq(Int)
      <4>1. res[r].first \in Int
        BY DEF TypeOK, ResEntry
      <4>2. \A j \in 1 .. keep[r] : (IF res[r].ok THEN res[r].first + j - 1 ELSE NoRow) \in Int
        BY <4>1 DEF NoRow
      <4> QED BY <4>2 DEF Delivered
    <3> QED BY <2>1, <3>1, DeliveredLen DEF TypeOK
  <2> QED BY <2>1, <2>2, <2>3, <2>4 DEF TypeOK
<1>3. CASE ExecuteModel
  <2>1. sched' = sched /\ text' = text /\ res' = res
    BY <1>3 DEF ExecuteModel, schedVars, resVars
  <2> QED BY <2>1 DEF TextInv, Live
<1>4. CASE SampleTokens
  <2>1. sched' = sched /\ text' = text
    BY <1>4 DEF SampleTokens, schedVars
  <2>2. sched[r].tokens = PromptLen[r] + Len(text[r]) /\ Live(r)
    BY <2>1 DEF TextInv, Live
  <2>3. CASE PassedOver(r)
    BY <2>1, <2>2, <2>3 DEF PassedOver
  <2>4. ASSUME NEW a \in Nat, Sampled(r, a) PROVE res'[r].first = sched[r].tokens
    <3>1. ex[r].in /\ ~ex[r].discard
      BY <2>4 DEF Sampled, Samples
    <3>2. ex[r].pos + ex[r].n - ex[r].d = len[r]
      BY <3>1 DEF Inv, LaunchedInv
    <3>3. res[r].cnt = 0
      <4>1. ~resReady
        BY <1>4 DEF SampleTokens
      <4>2. res[r] = NoResult
        BY <4>1 DEF Inv, BuffersInv
      <4> QED BY <4>2 DEF NoResult
    <3>4. sched[r].status # "waiting" /\ so[r].kind # "new"
      BY <3>1 DEF Inv, SchedulerInv, StagedInv
    <3>5. sched[r].tokens + res[r].cnt = len[r] /\ sched[r].tokens \in Nat
      BY <2>2, <3>4 DEF Inv, SchedulerInv, TypeOK, SchedEntry
    <3> QED BY <2>4, <3>2, <3>3, <3>5 DEF Sampled
  <2> QED BY <1>4, <2>1, <2>2, <2>3, <2>4, SampleCases
<1>5. ASSUME NEW q \in Req, Abort(q)
      PROVE (/\ sched[r].tokens = PromptLen[r] + Len(text[r])
             /\ res[r].cnt > 0 => res[r].first = sched[r].tokens)'
  <2>1. text' = text /\ res' = res /\ sched' = [sched EXCEPT ![q].status = "finished"]
    BY <1>5 DEF Abort, resVars
  <2>2. r # q /\ sched'[r] = sched[r]
    BY <2>1 DEF Live, TypeOK, SchedEntry
  <2> QED BY <2>1, <2>2 DEF TextInv, Live
<1>6. ASSUME NEW q \in Req, Resubmit(q)
      PROVE (/\ sched[r].tokens = PromptLen[r] + Len(text[r])
             /\ res[r].cnt > 0 => res[r].first = sched[r].tokens)'
  <2>1. res' = res /\ text' = [text EXCEPT ![q] = <<>>] /\ ~InFlight(q)
    BY <1>6 DEF Resubmit, resVars
  <2>2. CASE r = q
    <3>1. sched'[q].tokens = PromptLen[q] /\ text'[q] = <<>>
      BY <1>6, <2>1 DEF Resubmit, TypeOK
    <3>2. res[q].cnt = 0
      <4>1. CASE resReady
        BY <2>1, <4>1 DEF InFlight, Inv, SampledInv, TypeOK, ResEntry
      <4>2. CASE ~resReady
        BY <4>2 DEF Inv, BuffersInv, NoResult
      <4> QED BY <4>1, <4>2
    <3> QED BY <2>1, <2>2, <3>1, <3>2
  <2>3. CASE r # q
    <3>1. sched'[r] = sched[r] /\ text'[r] = text[r]
      BY <1>6, <2>1, <2>3 DEF Resubmit, TypeOK
    <3> QED BY <2>1, <3>1 DEF TextInv, Live
  <2> QED BY <2>2, <2>3
<1>7. CASE UNCHANGED vars
  BY <1>7 DEF TextInv, Live, vars, schedVars, resVars
<1> QED BY <1>1, <1>2, <1>3, <1>4, <1>5, <1>6, <1>7 DEF Next, Done

\* A delivery appends the request's next tokens.
LEMMA UpdateDelivers ==
  TypeOK /\ TokensInv /\ TextInv /\ UpdateFromOutput => Stream!Deliver
<1> SUFFICES ASSUME TypeOK, TokensInv, TextInv, UpdateFromOutput PROVE Stream!Deliver
  OBVIOUS
<1>1. PICK keep \in [Req -> 0 .. NumSpec + 1] :
         /\ text' = [r \in Req |-> text[r] \o Delivered(r, keep[r])]
         /\ \A r \in Req : keep[r] > 0 => Live(r) /\ res[r].cnt > 0
  BY UpdateText
<1>2. ASSUME NEW r \in Req PROVE Delivered(r, keep[r]) = Stream!NextTokens(r, keep[r])
  <2>1. CASE keep[r] > 0
    <3>1. res[r].ok /\ res[r].first = PromptLen[r] + Len(text[r])
      BY <1>1, <2>1 DEF TokensInv, TextInv
    <3> QED BY <3>1 DEF Delivered, Stream!NextTokens
  <2>2. CASE keep[r] = 0
    <3>1. ~ \E j \in 1 .. keep[r] : TRUE
      BY <2>2
    <3> QED BY <3>1 DEF Delivered, Stream!NextTokens
  <2> QED BY <1>1, <2>1, <2>2, SpecAssumption
<1>3. text' = [r \in Req |-> text[r] \o Stream!NextTokens(r, keep[r])]
  BY <1>1, <1>2
<1> QED BY <1>3 DEF Stream!Deliver

LEMMA StreamStep ==
  TypeOK /\ TokensInv /\ TextInv /\ [Next]_vars => [Stream!Next]_text
<1> SUFFICES ASSUME TypeOK, TokensInv, TextInv, [Next]_vars PROVE [Stream!Next]_text
  OBVIOUS
<1>1. CASE UpdateFromOutput
  BY <1>1, UpdateDelivers DEF Stream!Next
<1>2. ASSUME NEW r \in Req, Resubmit(r) PROVE [Stream!Next]_text
  BY <1>2 DEF Resubmit, Stream!Next, Stream!StartOver
<1>3. ASSUME NEW r \in Req, Abort(r) PROVE UNCHANGED text
  BY <1>3 DEF Abort
<1>4. CASE Schedule \/ ExecuteModel \/ SampleTokens \/ Done \/ UNCHANGED vars
  BY <1>4 DEF Schedule, ExecuteModel, SampleTokens, Done, vars, schedVars
<1> QED BY <1>1, <1>2, <1>3, <1>4 DEF Next

\* The decode loop implements the stream: whatever is scheduled early, accepted
\* or rejected, preempted, aborted or submitted again, the tokens of every
\* request are delivered in order, each once, and are its own (sample_tokens to
\* update_from_output, when removed requests are forgotten).
THEOREM ImplementsStream == ASSUME ForgetRemoved PROVE Spec => StreamSpec
<1>1. Init => Stream!Init
  BY DEF Init, Stream!Init
<1>2. Spec => []TokensInv
  BY TypeCorrect, CountsRelated, TokensInit, TokensNext, PTL DEF Spec
<1>3. Spec => []TextInv
  BY TypeCorrect, CountsRelated, TextInit, TextNext, PTL DEF Spec
<1> QED
  BY <1>1, <1>2, <1>3, TypeCorrect, StreamStep, PTL DEF Spec, StreamSpec, Stream!Spec
=============================================================================

-------------------------- MODULE HillclimbIter_proofs --------------------------
(***************************************************************************)
(* Theorems about HillclimbIter, for any processes, queue and bounds.      *)
(***************************************************************************)
EXTENDS HillclimbIter, TLAPS

-----------------------------------------------------------------------------
(* Mutual exclusion, when no invocation overlaps another's lock handling.  *)

LockType == lock \in [held : BOOLEAN, by : Proc, stale : BOOLEAN]
Inner    == {"locked", "picked", "removed", "started", "waiting", "single", "concurrent",
             "reporting", "marking", "writing"}
PcType   == pc \in [Proc -> {"off", "checked"} \cup Inner]

\* Whoever is inside owns a fresh lock.
InsideOwns == \A p \in Proc : Inside(p) => lock.held /\ ~lock.stale /\ lock.by = p

\* Between a check and its write nobody else checks or is inside.
CheckedAlone ==
  \A p, q \in Proc : pc[p] = "checked" /\ pc[q] # "off" => p = q

Exclusion == LockType /\ PcType /\ InsideOwns /\ CheckedAlone

\* Leaving is safe: the leaver was alone, so nobody is inside a lock that is gone.
LEMMA ExitKeeps ==
  ASSUME HillclimbAssumption, Exclusion, NEW p \in Proc, Inside(p), Exit(p)
  PROVE  Exclusion'
<1>1. /\ lock' = [held |-> FALSE, by |-> Cron, stale |-> FALSE]
      /\ pc' = [pc EXCEPT ![p] = "off"]
  BY DEF Exit, Free
<1>2. LockType' /\ PcType'
  BY <1>1 DEF Exclusion, LockType, PcType, HillclimbAssumption
<1>3. \A q \in Proc : q # p => pc[q] = "off" \/ pc[q] = "checked"
  BY DEF Exclusion, InsideOwns, Inside
<1>4. \A q \in Proc : pc[q] # "checked"
  BY DEF Exclusion, CheckedAlone, Inside
<1>5. \A q \in Proc : pc'[q] = "off"
  BY <1>1, <1>3, <1>4 DEF Exclusion, PcType
<1> QED
  BY <1>2, <1>5 DEF Exclusion, InsideOwns, CheckedAlone, Inside

\* A step of an invocation that stays inside touches neither.
LEMMA StayKeeps ==
  ASSUME Exclusion, NEW p \in Proc, Inside(p), lock' = lock,
         NEW s \in Inner, pc' = [pc EXCEPT ![p] = s]
  PROVE  Exclusion'
<1>1. \A q \in Proc : pc'[q] = IF q = p THEN s ELSE pc[q]
  BY DEF Exclusion, PcType
<1>2. LockType' /\ PcType'
  BY DEF Exclusion, LockType, PcType
<1>3. InsideOwns'
  BY <1>1 DEF Exclusion, InsideOwns, Inside
<1>4. CheckedAlone'
  BY <1>1 DEF Exclusion, CheckedAlone, Inside, Inner
<1> QED
  BY <1>2, <1>3, <1>4 DEF Exclusion

LEMMA ExclusionStep ==
  ASSUME HillclimbAssumption, ~Overlap, Exclusion, [Next]_vars
  PROVE  Exclusion'
<1>1. CASE LockAges
  <2>1. lock' = [lock EXCEPT !.stale = TRUE] /\ pc' = pc
    BY <1>1 DEF LockAges
  <2>2. \A q \in Proc : ~Inside(q)
    BY <1>1 DEF LockAges, Exclusion, InsideOwns, Inside
  <2> QED
    BY <2>1, <2>2 DEF Exclusion, LockType, PcType, InsideOwns, CheckedAlone, Inside
<1>2. CASE Stopped \/ UNCHANGED vars
  BY <1>2 DEF Stopped, vars, Exclusion, LockType, PcType, InsideOwns, CheckedAlone, Inside
<1>3. ASSUME NEW p \in Proc, CheckLock(p)
      PROVE  Exclusion'
  <2>1. lock' = lock /\ pc' = [pc EXCEPT ![p] = "checked"] /\ pc[p] = "off"
    BY <1>3 DEF CheckLock
  <2>2. \A q \in Proc : pc[q] = "off"
    BY <1>3 DEF CheckLock, MayTake, Exclusion, InsideOwns, Inside
  <2> QED
    BY <2>1, <2>2 DEF Exclusion, LockType, PcType, InsideOwns, CheckedAlone, Inside
<1>4. ASSUME NEW p \in Proc, WriteLock(p)
      PROVE  Exclusion'
  <2>1. /\ lock' = [held |-> TRUE, by |-> p, stale |-> FALSE]
        /\ pc' = [pc EXCEPT ![p] = "locked"] /\ pc[p] = "checked"
    BY <1>4 DEF WriteLock
  <2>2. \A q \in Proc : q # p => pc[q] = "off"
    BY <2>1 DEF Exclusion, CheckedAlone
  <2>3. \A q \in Proc : pc'[q] = IF q = p THEN "locked" ELSE "off"
    BY <2>1, <2>2 DEF Exclusion, PcType
  <2>4. LockType' /\ PcType'
    BY <2>1 DEF Exclusion, LockType, PcType, Inner
  <2> QED
    BY <2>1, <2>3, <2>4 DEF Exclusion, InsideOwns, CheckedAlone, Inside
<1>5. ASSUME NEW p \in Proc, Step(p), ~WriteLock(p)
      PROVE  Exclusion'
  <2>1. Inside(p)
    BY <1>5 DEF Step, Inside, PickKnob, RemoveContainer, RunContainer, InspectContainer,
                StartFails, StartSucceeds, SingleStream, Concurrent, WriteRow, ReadQueue,
                TruncateQueue, WriteQueue, Finish
  <2>2. CASE Exit(p)
    BY <2>1, <2>2, ExitKeeps
  <2>3. CASE lock' = lock /\ pc' = pc
    BY <2>3 DEF Exclusion, LockType, PcType, InsideOwns, CheckedAlone, Inside
  <2>4. CASE lock' = lock /\ \E s \in Inner : pc' = [pc EXCEPT ![p] = s]
    BY <2>1, <2>4, StayKeeps
  <2>5. \/ Exit(p)
        \/ lock' = lock /\ pc' = pc
        \/ lock' = lock /\ \E s \in Inner : pc' = [pc EXCEPT ![p] = s]
    <3>1. CASE PickKnob(p) \/ RemoveContainer(p)
      BY <3>1 DEF PickKnob, RemoveContainer, Inner
    <3>2. CASE RunContainer(p) \/ InspectContainer(p)
      BY <3>2 DEF RunContainer, InspectContainer, Inner
    <3>3. CASE StartFails(p) \/ StartSucceeds(p)
      BY <3>3 DEF StartFails, StartSucceeds, Report, Inner
    <3>4. CASE SingleStream(p) \/ Concurrent(p)
      BY <3>4 DEF SingleStream, Concurrent, Report, Inner
    <3>5. CASE WriteRow(p) \/ ReadQueue(p) \/ TruncateQueue(p) \/ WriteQueue(p) \/ Finish(p)
      BY <3>5 DEF WriteRow, ReadQueue, TruncateQueue, WriteQueue, Finish, Inner
    <3> QED
      BY <1>5, <3>1, <3>2, <3>3, <3>4, <3>5 DEF Step
  <2> QED
    BY <2>2, <2>3, <2>4, <2>5
<1>6. ASSUME NEW p \in Proc, Kill(p)
      PROVE  Exclusion'
  <2>1. lock' = lock /\ pc' = [pc EXCEPT ![p] = "off"]
    BY <1>6 DEF Kill
  <2>2. \A q \in Proc : pc'[q] = IF q = p THEN "off" ELSE pc[q]
    BY <2>1 DEF Exclusion, PcType
  <2>3. LockType' /\ PcType'
    BY <2>1 DEF Exclusion, LockType, PcType
  <2> QED
    BY <2>1, <2>2, <2>3 DEF Exclusion, InsideOwns, CheckedAlone, Inside
<1> QED
  BY <1>1, <1>2, <1>3, <1>4, <1>5, <1>6 DEF Next

\* The lock does what its comment promises as long as no invocation starts
\* between another's check and write and none outlives the 900 s.
THEOREM Excludes == ~Overlap => (Spec => []MutualExclusion)
<1> SUFFICES ASSUME ~Overlap PROVE Spec => []MutualExclusion
  OBVIOUS
<1>1. Init => Exclusion
  <2> SUFFICES ASSUME Init PROVE Exclusion
    OBVIOUS
  <2>1. LockType /\ PcType
    BY HillclimbAssumption DEF Init, Free, LockType, PcType
  <2>2. \A p \in Proc : pc[p] = "off"
    BY DEF Init
  <2> QED
    BY <2>1, <2>2 DEF Exclusion, InsideOwns, CheckedAlone, Inside
<1>2. Exclusion /\ [Next]_vars => Exclusion'
  BY HillclimbAssumption, ExclusionStep
<1>3. Exclusion => MutualExclusion
  BY DEF Exclusion, InsideOwns, MutualExclusion
<1> QED
  BY <1>1, <1>2, <1>3, PTL DEF Spec

-----------------------------------------------------------------------------
(* A knob marked DONE has its row, however invocations overlap or end.     *)

HasRow(k) == \E i \in 1 .. Len(history) : history[i].knob = k /\ history[i].verdict = "DONE"

Verdicts == {"", "DONE", "FAIL"}
Lines    == {"", "DONE", "FAIL", "gone"}
Plans    == {<<"row", "mark">>, <<"mark", "row">>, <<"mark">>, <<"row">>, <<>>}
Runs     == [knob : Knobs, line : {""}, attempt : {1, 2}, own : BOOLEAN,
             fresh : BOOLEAN, verdict : Verdicts, todo : Plans,
             copy : {<<>>} \cup [Knobs -> Lines]]
Rows     == [knob : Knobs, verdict : Verdicts, own : BOOLEAN, fresh : BOOLEAN]

FilesType == queue \in [Knobs -> Lines] /\ history \in Seq(Rows)
RunsType  == run \in [Proc -> Runs]

\* The row of a result comes before its mark; a copy of the queue about to be
\* written back has a row for every DONE.
ReportPcs      == {"reporting", "marking", "writing"}
EarlyPcs       == ({"off", "checked"} \cup Inner) \ ReportPcs
Reports(p)     == pc[p] \in ReportPcs
RowFirst(p)    ==
  Reports(p) =>
    /\ run[p].verdict \in Marks
    /\ run[p].verdict = "DONE" =>
         \/ run[p].todo = <<"row", "mark">> /\ pc[p] = "reporting"
         \/ run[p].todo \in {<<"mark">>, <<>>} /\ HasRow(run[p].knob)
CopyHasRows(p) ==
  pc[p] \in {"marking", "writing"} =>
    /\ run[p].todo \in {<<"mark">>, <<"mark", "row">>}
    /\ run[p].copy \in [Knobs -> Lines]
    /\ \A k \in Knobs : run[p].copy[k] = "DONE" => HasRow(k)

RowsInv ==
  /\ FilesType /\ RunsType /\ PcType
  /\ DoneHasRow
  /\ \A p \in Proc : RowFirst(p) /\ CopyHasRows(p)

\* What an assignment to fields of one invocation's variables leaves.
LEMMA SetTodo ==
  ASSUME NEW r \in Runs, NEW t \in Plans, NEW x, x = [r EXCEPT !.todo = t]
  PROVE  x \in Runs /\ x.todo = t /\ x.knob = r.knob /\ x.verdict = r.verdict /\ x.copy = r.copy
  BY DEF Runs

LEMMA SetCopy ==
  ASSUME NEW r \in Runs, NEW c \in [Knobs -> Lines], NEW x, x = [r EXCEPT !.copy = c]
  PROVE  x \in Runs /\ x.todo = r.todo /\ x.knob = r.knob /\ x.verdict = r.verdict /\ x.copy = c
  BY DEF Runs

LEMMA SetFailed ==
  ASSUME NEW r \in Runs, NEW v \in Verdicts, NEW x, x = [r EXCEPT !.verdict = v]
  PROVE  x \in Runs /\ x.verdict = v
  BY DEF Runs

LEMMA SetKnob ==
  ASSUME NEW r \in Runs, NEW k \in Knobs, NEW x, x = [r EXCEPT !.knob = k, !.line = ""]
  PROVE  x \in Runs
  BY DEF Runs

LEMMA SetOwn ==
  ASSUME NEW r \in Runs, NEW o \in BOOLEAN, NEW x, x = [r EXCEPT !.own = o]
  PROVE  x \in Runs
  BY DEF Runs

LEMMA SetAttempt ==
  ASSUME NEW r \in Runs, NEW x, x = [r EXCEPT !.attempt = 2]
  PROVE  x \in Runs
  BY DEF Runs

\* Rows are only ever appended.
LEMMA RowsStay ==
  ASSUME FilesType, NEW row \in Rows, history' = Append(history, row)
  PROVE  /\ history' \in Seq(Rows)
         /\ \A k \in Knobs : HasRow(k) => HasRow(k)'
         /\ \A k \in Knobs : k = row.knob /\ row.verdict = "DONE" => HasRow(k)'
<1>1. /\ Len(history) \in Nat /\ Len(history') = Len(history) + 1
      /\ \A i \in 1 .. Len(history) : history'[i] = history[i]
      /\ history'[Len(history) + 1] = row
      /\ history' \in Seq(Rows)
  BY DEF FilesType
<1> QED
  BY <1>1 DEF HasRow

\* Nothing but the acting invocation and its files has to be looked at.
LEMMA RowsInvAfter ==
  ASSUME RowsInv, NEW p \in Proc, FilesType',
         \A k \in Knobs : HasRow(k) => HasRow(k)',
         \A k \in Knobs : queue'[k] = "DONE" => HasRow(k)',
         NEW s \in {"off", "checked"} \cup Inner, pc' = [pc EXCEPT ![p] = s],
         NEW x \in Runs, run' = [run EXCEPT ![p] = x],
         RowFirst(p)', CopyHasRows(p)'
  PROVE  RowsInv'
<1>1. PcType' /\ RunsType'
  BY DEF RowsInv, PcType, RunsType
<1>2. DoneHasRow'
  BY DEF DoneHasRow, HasRow
<1>3. ASSUME NEW q \in Proc, q # p
      PROVE  (RowFirst(q) /\ CopyHasRows(q))'
  <2>1. pc'[q] = pc[q] /\ run'[q] = run[q] /\ run[q].knob \in Knobs
    BY <1>3 DEF RowsInv, PcType, RunsType, Runs
  <2>2. RowFirst(q) /\ CopyHasRows(q)
    BY DEF RowsInv
  <2> QED
    BY <2>1, <2>2 DEF RowFirst, CopyHasRows, Reports, ReportPcs
<1> QED
  BY <1>1, <1>2, <1>3 DEF RowsInv

\* A step before the report writes no file and can claim no row.
LEMMA EarlyStep ==
  ASSUME RowsInv, NEW p \in Proc, UNCHANGED <<queue, history>>,
         NEW s \in EarlyPcs,
         pc' = [pc EXCEPT ![p] = s],
         NEW x \in Runs, run' = [run EXCEPT ![p] = x]
  PROVE  RowsInv'
<1>1. FilesType' /\ \A k \in Knobs : HasRow(k) => HasRow(k)'
  BY DEF RowsInv, FilesType, HasRow
<1>2. \A k \in Knobs : queue'[k] = "DONE" => HasRow(k)'
  BY DEF RowsInv, DoneHasRow, HasRow
<1>3. pc'[p] = s
  BY DEF RowsInv, PcType
<1>4. RowFirst(p)' /\ CopyHasRows(p)'
  BY <1>3 DEF RowFirst, CopyHasRows, Reports, ReportPcs, EarlyPcs
<1>5. s \in {"off", "checked"} \cup Inner
  BY DEF EarlyPcs
<1> QED
  BY <1>1, <1>2, <1>4, <1>5, RowsInvAfter

\* The same for a step that leaves its variables alone.
LEMMA EarlyMove ==
  ASSUME RowsInv, NEW p \in Proc, UNCHANGED <<queue, history, run>>,
         NEW s \in EarlyPcs,
         pc' = [pc EXCEPT ![p] = s]
  PROVE  RowsInv'
<1>1. run[p] \in Runs /\ run' = [run EXCEPT ![p] = run[p]]
  BY DEF RowsInv, RunsType
<1> QED
  BY <1>1, EarlyStep

\* A report starts with its row, if it is one of a result.
LEMMA ReportStep ==
  ASSUME RowsInv, NEW p \in Proc, UNCHANGED <<queue, history>>,
         NEW r \in Runs, r.verdict \in Marks, Report(p, r)
  PROVE  RowsInv'
<1> DEFINE x == [r EXCEPT !.todo = ReportSteps(r.verdict)]
<1>1. ReportSteps(r.verdict) \in Plans
  BY DEF ReportSteps, Plans
<1>2. x \in Runs /\ x.todo = ReportSteps(r.verdict) /\ x.verdict = r.verdict
  BY <1>1, SetTodo
<1>3. run' = [run EXCEPT ![p] = x] /\ pc' = [pc EXCEPT ![p] = "reporting"]
  BY DEF Report
<1> HIDE DEF x
<1>4. run'[p] = x /\ pc'[p] = "reporting"
  BY <1>3 DEF RowsInv, RunsType, PcType
<1>5. FilesType' /\ \A k \in Knobs : HasRow(k) => HasRow(k)'
  BY DEF RowsInv, FilesType, HasRow
<1>6. \A k \in Knobs : queue'[k] = "DONE" => HasRow(k)'
  BY DEF RowsInv, DoneHasRow, HasRow
<1>7. RowFirst(p)' /\ CopyHasRows(p)'
  BY <1>2, <1>4 DEF RowFirst, CopyHasRows, Reports, ReportPcs, ReportSteps
<1>8. "reporting" \in {"off", "checked"} \cup Inner
  BY DEF Inner
<1> QED
  BY <1>2, <1>3, <1>5, <1>6, <1>7, <1>8, RowsInvAfter

\* The sequences of a plan, step by step.
LEMMA PlanSteps ==
  /\ \A t \in Plans : t # <<>> =>
       /\ Head(t) = "row" => t \in {<<"row", "mark">>, <<"row">>}
       /\ Head(t) = "mark" => t \in {<<"mark", "row">>, <<"mark">>}
  /\ Tail(<<"row", "mark">>) = <<"mark">> /\ Tail(<<"mark", "row">>) = <<"row">>
  /\ Tail(<<"row">>) = <<>> /\ Tail(<<"mark">>) = <<>>
  /\ <<"mark", "row">> \notin {<<"row", "mark">>, <<"mark">>, <<>>}
  /\ <<"row">> \notin {<<"row", "mark">>, <<"mark">>, <<>>}
  /\ <<"mark">> # <<"row", "mark">>
<1>1. /\ Head(<<"row", "mark">>) = "row" /\ Head(<<"row">>) = "row"
      /\ Head(<<"mark", "row">>) = "mark" /\ Head(<<"mark">>) = "mark"
  OBVIOUS
<1>2. \A t \in Plans : t # <<>> =>
       /\ Head(t) = "row" => t \in {<<"row", "mark">>, <<"row">>}
       /\ Head(t) = "mark" => t \in {<<"mark", "row">>, <<"mark">>}
  <2> SUFFICES ASSUME NEW t \in Plans, t # <<>>
               PROVE  /\ Head(t) = "row" => t \in {<<"row", "mark">>, <<"row">>}
                      /\ Head(t) = "mark" => t \in {<<"mark", "row">>, <<"mark">>}
    OBVIOUS
  <2>1. \/ t = <<"row", "mark">> \/ t = <<"row">>
        \/ t = <<"mark", "row">> \/ t = <<"mark">>
    BY DEF Plans
  <2> QED
    BY <1>1, <2>1
<1>3. Tail(<<"row", "mark">>) = <<"mark">> /\ Tail(<<"mark", "row">>) = <<"row">>
  OBVIOUS
<1>4. Tail(<<"row">>) = <<>> /\ Tail(<<"mark">>) = <<>>
  OBVIOUS
<1>5. <<"mark", "row">> # <<"row", "mark">> /\ <<"mark", "row">> # <<"mark">>
      /\ <<"mark", "row">> # <<>>
  OBVIOUS
<1>6. <<"row">> # <<"row", "mark">> /\ <<"row">> # <<"mark">> /\ <<"row">> # <<>>
  OBVIOUS
<1>7. <<"mark">> # <<"row", "mark">>
  OBVIOUS
<1> QED
  BY <1>2, <1>3, <1>4, <1>5, <1>6, <1>7

LEMMA WriteRowKeeps ==
  ASSUME RowsInv, NEW p \in Proc, WriteRow(p)
  PROVE  RowsInv'
<1> DEFINE row == [knob |-> run[p].knob, verdict |-> run[p].verdict, own |-> run[p].own,
                    fresh |-> run[p].fresh]
           x   == [run[p] EXCEPT !.todo = Tail(run[p].todo)]
<1>1. run[p] \in Runs /\ run[p].todo \in Plans /\ run[p].knob \in Knobs /\ row \in Rows
      /\ row.knob = run[p].knob /\ row.verdict = run[p].verdict
  BY DEF RowsInv, RunsType, Runs, Rows
<1>2. /\ history' = Append(history, row) /\ queue' = queue /\ pc' = pc /\ pc[p] = "reporting"
      /\ run' = [run EXCEPT ![p] = x]
      /\ run[p].todo # <<>> /\ Head(run[p].todo) = "row"
  BY DEF WriteRow, NextStep
<1> HIDE DEF row
<1>3. Tail(run[p].todo) \in Plans /\ run[p].todo \in {<<"row", "mark">>, <<"row">>}
  <2>1. run[p].todo \in {<<"row", "mark">>, <<"row">>}
    BY <1>1, <1>2, PlanSteps
  <2> QED
    BY <2>1, PlanSteps DEF Plans
<1>4. x \in Runs /\ x.todo = Tail(run[p].todo) /\ x.knob = run[p].knob
      /\ x.verdict = run[p].verdict
  BY ZenonT(60), <1>1, <1>3, SetTodo
<1> HIDE DEF x
<1>5. /\ history' \in Seq(Rows) /\ \A k \in Knobs : HasRow(k) => HasRow(k)'
      /\ \A k \in Knobs : k = run[p].knob /\ run[p].verdict = "DONE" => HasRow(k)'
  BY <1>1, <1>2, RowsStay DEF RowsInv
<1>6. FilesType' /\ \A k \in Knobs : queue'[k] = "DONE" => HasRow(k)'
  BY <1>2, <1>5 DEF RowsInv, FilesType, DoneHasRow, HasRow
<1>7. run'[p] = x /\ pc'[p] = "reporting"
  BY <1>2 DEF RowsInv, RunsType, PcType
<1>8. RowFirst(p)'
  <2>1. run[p].verdict = "DONE" => run[p].todo = <<"row", "mark">>
    BY <1>2, <1>3, PlanSteps DEF RowsInv, RowFirst, Reports, ReportPcs
  <2>2. run[p].verdict = "DONE" => x.todo = <<"mark">>
    BY <1>4, <2>1, PlanSteps
  <2>3. \A k \in Knobs : k = x.knob /\ x.verdict = "DONE" => HasRow(k)'
    BY <1>4, <1>5
  <2>4. x.verdict \in Marks
    BY <1>2, <1>4 DEF RowsInv, RowFirst, Reports, ReportPcs
  <2> QED
    BY <1>1, <1>4, <1>7, <2>2, <2>3, <2>4 DEF RowFirst, Reports, ReportPcs, HasRow
<1>9. CopyHasRows(p)'
  BY <1>7 DEF CopyHasRows
<1>10. pc' = [pc EXCEPT ![p] = "reporting"] /\ "reporting" \in {"off", "checked"} \cup Inner
  BY <1>2 DEF RowsInv, PcType, Inner
<1> QED
  BY <1>2, <1>4, <1>5, <1>6, <1>8, <1>9, <1>10, RowsInvAfter

LEMMA ReadQueueKeeps ==
  ASSUME RowsInv, NEW p \in Proc, ReadQueue(p)
  PROVE  RowsInv'
<1> DEFINE x == [run[p] EXCEPT !.copy = queue]
<1>1. run[p] \in Runs /\ run[p].todo \in Plans /\ queue \in [Knobs -> Lines]
  BY DEF RowsInv, RunsType, Runs, FilesType
<1>2. /\ UNCHANGED <<queue, history>> /\ pc[p] = "reporting"
      /\ pc' = [pc EXCEPT ![p] = "marking"] /\ run' = [run EXCEPT ![p] = x]
      /\ run[p].todo # <<>> /\ Head(run[p].todo) = "mark"
  BY DEF ReadQueue, NextStep
<1>3. run[p].todo \in {<<"mark", "row">>, <<"mark">>}
  BY <1>1, <1>2, PlanSteps
<1>4. x \in Runs /\ x.todo = run[p].todo /\ x.knob = run[p].knob
      /\ x.verdict = run[p].verdict /\ x.copy = queue
  BY <1>1, SetCopy
<1> HIDE DEF x
<1>5. FilesType' /\ \A k \in Knobs : HasRow(k) => HasRow(k)'
  BY <1>2 DEF RowsInv, FilesType, HasRow
<1>6. \A k \in Knobs : queue[k] = "DONE" => HasRow(k)'
  BY <1>2 DEF RowsInv, DoneHasRow, HasRow
<1>7. run'[p] = x /\ pc'[p] = "marking"
  BY <1>2 DEF RowsInv, RunsType, PcType
<1>8. RowFirst(p)'
  <2>1. /\ run[p].verdict \in Marks
        /\ run[p].verdict = "DONE" => run[p].todo = <<"mark">> /\ HasRow(run[p].knob)
    BY <1>2, <1>3, PlanSteps DEF RowsInv, RowFirst, Reports, ReportPcs
  <2>2. run[p].knob \in Knobs
    BY <1>1 DEF Runs
  <2>3. \A k \in Knobs : k = run[p].knob /\ run[p].verdict = "DONE" => HasRow(k)'
    BY <1>5, <2>1, <2>2
  <2> QED
    BY <1>4, <1>7, <2>1, <2>2, <2>3 DEF RowFirst, Reports, ReportPcs, HasRow
<1>9. CopyHasRows(p)'
  BY <1>1, <1>3, <1>4, <1>6, <1>7 DEF CopyHasRows, HasRow
<1>10. "marking" \in {"off", "checked"} \cup Inner
  BY DEF Inner
<1> QED
  BY <1>2, <1>4, <1>5, <1>6, <1>8, <1>9, <1>10, RowsInvAfter

\* What is written back has a row for every DONE, and so has any part of it.
LEMMA NewLinesHaveRows ==
  ASSUME RowsInv, NEW p \in Proc, pc[p] \in {"marking", "writing"}
  PROVE  /\ NewLines(p) \in [Knobs -> Lines]
         /\ \A k \in Knobs : NewLines(p)[k] = "DONE" => HasRow(k)
         /\ \A n \in Nat : Written(p, n) \in [Knobs -> Lines]
         /\ \A n \in Nat, k \in Knobs : Written(p, n)[k] = "DONE" => HasRow(k)
<1>1. run[p].todo \in Plans /\ run[p].knob \in Knobs
  BY DEF RowsInv, RunsType, Runs
<1>2. /\ run[p].todo \in {<<"mark", "row">>, <<"mark">>} /\ run[p].copy \in [Knobs -> Lines]
      /\ \A k \in Knobs : run[p].copy[k] = "DONE" => HasRow(k)
  BY DEF RowsInv, CopyHasRows
<1>3. /\ run[p].verdict \in Marks
      /\ run[p].verdict = "DONE" => HasRow(run[p].knob)
  BY <1>2, PlanSteps DEF RowsInv, RowFirst, Reports, ReportPcs
<1>4. run[p].verdict \in Lines /\ "gone" \in Lines
  BY <1>3 DEF Marks, Lines
<1>5. \A k \in Knobs : NewLines(p)[k] \in Lines /\ (NewLines(p)[k] = "DONE" => HasRow(k))
  BY <1>2, <1>3, <1>4 DEF NewLines
<1>6. NewLines(p) \in [Knobs -> Lines]
  BY <1>2, <1>4 DEF NewLines
<1>7. ASSUME NEW n \in Nat
      PROVE  /\ Written(p, n) \in [Knobs -> Lines]
             /\ \A k \in Knobs : Written(p, n)[k] = "DONE" => HasRow(k)
  BY <1>4, <1>5 DEF Written
<1> QED
  BY <1>5, <1>6, <1>7

LEMMA TruncateQueueKeeps ==
  ASSUME RowsInv, NEW p \in Proc, TruncateQueue(p)
  PROVE  RowsInv'
<1>1. /\ pc[p] = "marking" /\ pc' = [pc EXCEPT ![p] = "writing"]
      /\ UNCHANGED <<history, run>> /\ queue' = [k \in Knobs |-> "gone"]
  BY DEF TruncateQueue
<1>2. run[p] \in Runs /\ run' = [run EXCEPT ![p] = run[p]] /\ pc'[p] = "writing"
  BY <1>1 DEF RowsInv, RunsType, PcType
<1>3. FilesType' /\ \A k \in Knobs : HasRow(k) => HasRow(k)'
  BY <1>1 DEF RowsInv, FilesType, HasRow, Lines
<1>4. \A k \in Knobs : queue'[k] = "DONE" => HasRow(k)'
  BY <1>1
<1>5. RowFirst(p)' /\ CopyHasRows(p)'
  <2>1. RowFirst(p) /\ CopyHasRows(p) /\ run[p].knob \in Knobs /\ run'[p] = run[p]
    BY <1>1, <1>2 DEF RowsInv, Runs
  <2> QED
    BY <1>1, <1>2, <1>3, <2>1 DEF RowFirst, CopyHasRows, Reports, ReportPcs
<1>6. "writing" \in {"off", "checked"} \cup Inner
  BY DEF Inner
<1> QED
  BY <1>1, <1>2, <1>3, <1>4, <1>5, <1>6, RowsInvAfter

LEMMA WriteQueueKeeps ==
  ASSUME RowsInv, NEW p \in Proc, WriteQueue(p)
  PROVE  RowsInv'
<1> DEFINE t == Tail(run[p].todo)
           x == [run[p] EXCEPT !.todo = t]
<1>1. run[p] \in Runs /\ run[p].todo \in Plans /\ run[p].knob \in Knobs
  BY DEF RowsInv, RunsType, Runs
<1>2. /\ pc[p] = "writing" /\ pc' = [pc EXCEPT ![p] = "reporting"]
      /\ history' = history /\ run' = [run EXCEPT ![p] = x]
      /\ queue' = NewLines(p)
  BY DEF WriteQueue
<1>3. run[p].todo \in {<<"mark", "row">>, <<"mark">>}
  BY <1>2 DEF RowsInv, CopyHasRows
<1>4. run[p].todo = <<"mark">> => t = <<>>
  BY PlanSteps
<1>5. t \in Plans
  BY <1>3, PlanSteps DEF Plans
<1> HIDE DEF t
<1>6. x \in Runs /\ x.todo = t /\ x.knob = run[p].knob
      /\ x.verdict = run[p].verdict
  BY <1>1, <1>5, SetTodo
<1> HIDE DEF x
<1>7. /\ run[p].verdict \in Marks
      /\ run[p].verdict = "DONE" => run[p].todo = <<"mark">> /\ HasRow(run[p].knob)
  BY <1>1, <1>2, <1>3, PlanSteps DEF RowsInv, RowFirst, Reports, ReportPcs
<1>8. FilesType' /\ \A k \in Knobs : HasRow(k) => HasRow(k)'
  BY <1>2, NewLinesHaveRows DEF RowsInv, FilesType, HasRow
<1>9. \A k \in Knobs : queue'[k] = "DONE" => HasRow(k)'
  BY <1>2, <1>8, NewLinesHaveRows
<1>10. run'[p] = x /\ pc'[p] = "reporting"
  BY <1>2 DEF RowsInv, RunsType, PcType
<1>11. RowFirst(p)' /\ CopyHasRows(p)'
  BY <1>1, <1>4, <1>6, <1>7, <1>8, <1>10 DEF RowFirst, CopyHasRows, Reports, ReportPcs, HasRow
<1>12. "reporting" \in {"off", "checked"} \cup Inner
  BY DEF Inner
<1> QED
  BY <1>2, <1>6, <1>8, <1>9, <1>11, <1>12, RowsInvAfter

\* A kill leaves the queue as it is or, in the middle of its write, a part of it.
LEMMA KillLeaves ==
  ASSUME NEW p \in Proc, Kill(p)
  PROVE  \/ pc[p] # "writing" /\ queue' = queue
         \/ pc[p] = "writing" /\ \E n \in Nat : queue' = Written(p, n)
<1>1. 0 .. NumKnobs \subseteq Nat
  BY SMT
<1> QED
  BY <1>1 DEF Kill

LEMMA KillKeeps ==
  ASSUME RowsInv, NEW p \in Proc, Kill(p)
  PROVE  RowsInv'
<1>1. pc' = [pc EXCEPT ![p] = "off"] /\ UNCHANGED <<history, run>>
  BY DEF Kill
<1>2. run[p] \in Runs /\ run' = [run EXCEPT ![p] = run[p]] /\ pc'[p] = "off"
  BY <1>1 DEF RowsInv, RunsType, PcType
<1>3. queue' \in [Knobs -> Lines] /\ \A k \in Knobs : queue'[k] = "DONE" => HasRow(k)
  <2>1. CASE queue' = queue
    BY <2>1 DEF RowsInv, FilesType, DoneHasRow, HasRow
  <2>2. ASSUME pc[p] = "writing", NEW n \in Nat, queue' = Written(p, n)
        PROVE  queue' \in [Knobs -> Lines] /\ \A k \in Knobs : queue'[k] = "DONE" => HasRow(k)
    BY <2>2, NewLinesHaveRows
  <2> QED
    BY <2>1, <2>2, KillLeaves
<1>4. FilesType' /\ \A k \in Knobs : HasRow(k) <=> HasRow(k)'
  BY <1>1, <1>3 DEF RowsInv, FilesType, HasRow
<1>5. \A k \in Knobs : queue'[k] = "DONE" => HasRow(k)'
  BY <1>3, <1>4
<1>6. RowFirst(p)' /\ CopyHasRows(p)'
  BY <1>2 DEF RowFirst, CopyHasRows, Reports, ReportPcs
<1> QED
  BY <1>1, <1>2, <1>4, <1>5, <1>6, RowsInvAfter

\* The steps that leave queue, history and the invocation's variables alone.
LEMMA MoveKeeps ==
  ASSUME RowsInv, NEW p \in Proc, UNCHANGED <<queue, history, run>>,
         \/ pc' = [pc EXCEPT ![p] = "off"]
         \/ pc' = [pc EXCEPT ![p] = "checked"]
         \/ \E s \in Inner \ ReportPcs : pc' = [pc EXCEPT ![p] = s]
  PROVE  RowsInv'
<1>1. PICK s \in EarlyPcs :
        pc' = [pc EXCEPT ![p] = s]
  BY DEF EarlyPcs, ReportPcs
<1> QED
  BY <1>1, EarlyMove

LEMMA RunsFacts ==
  ASSUME RowsInv, NEW p \in Proc
  PROVE  run[p] \in Runs /\ run[p].own \in BOOLEAN /\ run[p].knob \in Knobs
  BY DEF RowsInv, RunsType, Runs

\* The concurrent benchmark ends in the report of a result: own if it and the
\* container in use are, fresh if nothing left over was counted.
LEMMA ConcurrentReports ==
  ASSUME RowsInv, NEW p \in Proc, Concurrent(p)
  PROVE  /\ \E r \in Runs :
              /\ r.verdict = "DONE" /\ r.knob = run[p].knob /\ r.line = run[p].line
              /\ run[p].own /\ container = Me(p) => r.own
              /\ r.fresh \/ run[p].knob \in answers
              /\ Report(p, r)
         /\ answers' \subseteq answers \cup {run[p].knob}
<1>1. PICK some \in BOOLEAN, all \in BOOLEAN :
        /\ Report(p, [run[p] EXCEPT !.own = @ /\ (some => container = Me(p)),
                                     !.fresh = all \/ ~LeftOver(p), !.verdict = "DONE"])
        /\ answers' = IF some THEN answers \cup {run[p].knob} ELSE answers
  BY DEF Concurrent
<1>2. PICK o \in BOOLEAN : o = (run[p].own /\ (some => container = Me(p)))
  BY RunsFacts
<1>3. PICK f \in BOOLEAN : f = (all \/ ~LeftOver(p))
  BY <1>1
<1> DEFINE r == [run[p] EXCEPT !.own = o, !.fresh = f, !.verdict = "DONE"]
<1>4. Report(p, r)
  BY <1>1, <1>2, <1>3, Zenon
<1>5. r \in Runs /\ r.verdict = "DONE" /\ r.own = o /\ r.fresh = f
      /\ r.knob = run[p].knob /\ r.line = run[p].line
  <2>1. "DONE" \in Verdicts /\ run[p] \in Runs /\ o \in BOOLEAN /\ f \in BOOLEAN
    BY <1>2, <1>3, RunsFacts DEF Verdicts
  <2> QED
    BY <2>1 DEF Runs
<1>6. /\ run[p].own /\ container = Me(p) => o
      /\ f \/ run[p].knob \in answers
  BY <1>2, <1>3 DEF LeftOver
<1> HIDE DEF r
<1>7. /\ run[p].own /\ container = Me(p) => r.own
      /\ r.fresh \/ run[p].knob \in answers
  BY <1>5, <1>6
<1> QED
  BY <1>1, <1>4, <1>5, <1>7

LEMMA RowsStep ==
  ASSUME HillclimbAssumption, RowsInv, [Next]_vars
  PROVE  RowsInv'
<1>1. CASE LockAges \/ Stopped \/ UNCHANGED vars
  <2>1. UNCHANGED <<queue, history, run, pc>>
    BY <1>1 DEF LockAges, Stopped, vars
  <2> QED
    BY <2>1 DEF RowsInv, FilesType, RunsType, PcType, DoneHasRow, RowFirst, CopyHasRows,
                Reports, ReportPcs, HasRow
<1>2. ASSUME NEW p \in Proc, CheckLock(p) \/ Kill(p)
      PROVE  RowsInv'
  BY <1>2, MoveKeeps, KillKeeps DEF CheckLock
<1>3. ASSUME NEW p \in Proc, WriteLock(p)
      PROVE  RowsInv'
  <2>1. NewRun \in Runs
    BY DEF NewRun, Runs, Verdicts, Plans, Knobs, HillclimbAssumption
  <2>2. "locked" \in EarlyPcs
    BY DEF Inner, EarlyPcs, ReportPcs
  <2> QED
    BY <1>3, <2>1, <2>2, EarlyStep DEF WriteLock
<1>4. ASSUME NEW p \in Proc, PickKnob(p)
      PROVE  RowsInv'
  <2>1. CASE Exit(p) /\ UNCHANGED run
    BY <1>4, <2>1, MoveKeeps DEF PickKnob, Exit
  <2>2. ASSUME NEW k \in Unmarked(queue),
               run' = [run EXCEPT ![p].knob = k, ![p].line = queue[k]],
               pc' = [pc EXCEPT ![p] = "picked"]
        PROVE  RowsInv'
    <3> DEFINE x == [run[p] EXCEPT !.knob = k, !.line = ""]
    <3>1. k \in Knobs /\ queue[k] = ""
      BY DEF Unmarked
    <3>2. x \in Runs
      BY <3>1, RunsFacts, SetKnob
    <3>3. run' = [run EXCEPT ![p] = x]
      BY <2>2, <3>1 DEF RowsInv, RunsType
    <3>4. "picked" \in EarlyPcs
      BY DEF Inner, EarlyPcs, ReportPcs
    <3>5. UNCHANGED <<queue, history>>
      BY <1>4 DEF PickKnob
    <3> HIDE DEF x
    <3> QED
      BY <2>2, <3>2, <3>3, <3>4, <3>5, EarlyStep
  <2> QED
    BY <1>4, <2>1, <2>2 DEF PickKnob
<1>5. ASSUME NEW p \in Proc,
             RemoveContainer(p) \/ RunContainer(p) \/ InspectContainer(p) \/ StartSucceeds(p)
      PROVE  RowsInv'
  BY <1>5, MoveKeeps
  DEF RemoveContainer, RunContainer, InspectContainer, StartSucceeds, Exit, Inner, ReportPcs
<1>6. ASSUME NEW p \in Proc, StartFails(p)
      PROVE  RowsInv'
  <2>1. CASE run[p].attempt = 1
    <3> DEFINE x == [run[p] EXCEPT !.attempt = 2]
    <3>1. x \in Runs
      BY RunsFacts, SetAttempt
    <3>2. /\ run' = [run EXCEPT ![p] = x] /\ pc' = [pc EXCEPT ![p] = "picked"]
          /\ UNCHANGED <<queue, history>>
      BY <1>6, <2>1 DEF StartFails
    <3>3. "picked" \in EarlyPcs
      BY DEF Inner, EarlyPcs, ReportPcs
    <3> HIDE DEF x
    <3> QED
      BY <3>1, <3>2, <3>3, EarlyStep
  <2>2. CASE run[p].attempt # 1
    <3> DEFINE r == [run[p] EXCEPT !.verdict = "FAIL"]
    <3>1. r \in Runs /\ r.verdict = "FAIL" /\ "FAIL" \in Marks
      BY ZenonT(40), RunsFacts, SetFailed DEF Verdicts, Marks
    <3>2. Report(p, r) /\ UNCHANGED <<queue, history>>
      BY <1>6, <2>2 DEF StartFails
    <3> HIDE DEF r
    <3> QED
      BY <3>1, <3>2, ReportStep
  <2> QED
    BY <2>1, <2>2
<1>7. ASSUME NEW p \in Proc, SingleStream(p)
      PROVE  RowsInv'
  <2>1. CASE Exit(p) /\ UNCHANGED run
    BY <1>7, <2>1, MoveKeeps DEF SingleStream, Exit
  <2>2. CASE /\ run' = [run EXCEPT ![p].own = (container = Me(p))]
             /\ pc' = [pc EXCEPT ![p] = "concurrent"]
    <3> DEFINE o == (container = Me(p))
               x == [run[p] EXCEPT !.own = o]
    <3>1. o \in BOOLEAN
      OBVIOUS
    <3>2. run' = [run EXCEPT ![p] = x] /\ UNCHANGED <<queue, history>>
      BY <1>7, <2>2 DEF SingleStream
    <3> HIDE DEF o
    <3>3. x \in Runs
      BY <3>1, RunsFacts, SetOwn
    <3>4. "concurrent" \in EarlyPcs
      BY DEF Inner, EarlyPcs, ReportPcs
    <3> HIDE DEF x
    <3> QED
      BY <2>2, <3>2, <3>3, <3>4, EarlyStep
  <2> QED
    BY <1>7, <2>1, <2>2 DEF SingleStream
<1>8. ASSUME NEW p \in Proc, Concurrent(p)
      PROVE  RowsInv'
  <2>1. PICK r \in Runs : r.verdict = "DONE" /\ Report(p, r)
    BY <1>8, ConcurrentReports
  <2>2. UNCHANGED <<queue, history>> /\ "DONE" \in Marks
    BY <1>8 DEF Concurrent, Marks
  <2> QED
    BY <2>1, <2>2, ReportStep
<1>9. ASSUME NEW p \in Proc,
             WriteRow(p) \/ ReadQueue(p) \/ TruncateQueue(p) \/ WriteQueue(p)
      PROVE  RowsInv'
  BY <1>9, WriteRowKeeps, ReadQueueKeeps, TruncateQueueKeeps, WriteQueueKeeps
<1>10. ASSUME NEW p \in Proc, Finish(p)
       PROVE  RowsInv'
  BY <1>10, MoveKeeps DEF Finish, Exit
<1> QED
  BY <1>1, <1>2, <1>3, <1>4, <1>5, <1>6, <1>7, <1>8, <1>9, <1>10 DEF Next, Step

LEMMA RowsInvariant == Spec => []RowsInv
<1>1. Init => RowsInv
  <2> SUFFICES ASSUME Init PROVE RowsInv
    OBVIOUS
  <2>1. NewRun \in Runs
    BY HillclimbAssumption DEF NewRun, Runs, Verdicts, Plans, Knobs
  <2>2. FilesType
    <3>1. queue \in [Knobs -> Lines]
      BY DEF Init, Lines
    <3>2. history = <<>>
      BY DEF Init
    <3>3. history \in Seq(Rows)
      BY <3>2
    <3> QED
      BY <3>1, <3>3 DEF FilesType
  <2>3. RunsType /\ PcType
    BY <2>1 DEF Init, RunsType, PcType
  <2>4. \A k \in Knobs : queue[k] = ""
    BY DEF Init
  <2>5. \A p \in Proc : pc[p] = "off"
    BY DEF Init
  <2> QED
    BY <2>2, <2>3, <2>4, <2>5 DEF RowsInv, DoneHasRow, RowFirst, CopyHasRows, Reports, ReportPcs
<1>2. RowsInv /\ [Next]_vars => RowsInv'
  BY HillclimbAssumption, RowsStep
<1> QED
  BY <1>1, <1>2, PTL DEF Spec

\* Wherever invocations are killed, and even if the lock lets two in, no knob
\* is marked DONE without its row.
THEOREM DoneIsRecorded == Spec => []DoneHasRow
<1>1. RowsInv => DoneHasRow
  BY DEF RowsInv
<1> QED
  BY <1>1, RowsInvariant, PTL

-----------------------------------------------------------------------------
(* Lines and marks stay, when no invocation overlaps another's lock        *)
(* handling, but for those a kill cuts off.                                *)

\* The copy about to be written back is the queue as it is, or was before the
\* writer emptied it.
CopyCurrent ==
  \A p \in Proc :
    /\ pc[p] = "marking" => run[p].copy = queue
    /\ pc[p] = "writing" => \A k \in Knobs : queue[k] = "gone"

\* The action property, as a formula of two states.
LinesKept ==
  \A k \in Knobs, m \in Marks \cup {""} : Holds(k, m) =>
    \/ Holds(k, m)'
    \/ m = "" /\ \E n \in Marks : Holds(k, n)'
    \/ queue'[k] = "gone" /\ \E p \in Proc : pc[p] = "writing" /\ pc'[p] = "off"

\* Whoever acts inside is alone there.
LEMMA InsideAlone ==
  ASSUME MutualExclusion, NEW p \in Proc, Inside(p), NEW q \in Proc, q # p
  PROVE  ~Inside(q)
  BY DEF MutualExclusion

\* A step that neither writes the queue nor reads it.
LEMMA OtherKeepsCopy ==
  ASSUME CopyCurrent, PcType, NEW p \in Proc, queue' = queue, pc[p] # "writing",
         NEW s \in ({"off", "checked"} \cup Inner) \ {"marking", "writing"},
         pc' = [pc EXCEPT ![p] = s] \/ (pc' = pc /\ pc[p] # "marking"),
         \A q \in Proc \ {p} : run'[q] = run[q]
  PROVE  CopyCurrent' /\ LinesKept
<1>1. \A q \in Proc \ {p} : pc'[q] = pc[q]
  BY DEF PcType
<1>2. pc'[p] \notin {"marking", "writing"}
  BY DEF PcType
<1>3. CopyCurrent'
  BY <1>1, <1>2 DEF CopyCurrent
<1>4. ASSUME NEW k \in Knobs, NEW m \in Marks \cup {""}, Holds(k, m)
      PROVE  Holds(k, m)'
  <2>1. CASE queue[k] = m
    BY <2>1 DEF Holds
  <2>2. ASSUME NEW q \in Proc, pc[q] = "writing", NewLines(q)[k] = m
        PROVE  Holds(k, m)'
    <3>1. q # p
      BY <2>2
    <3>2. pc'[q] = "writing" /\ run'[q] = run[q]
      BY <1>1, <2>2, <3>1
    <3>3. NewLines(q)'[k] = m
      BY <2>2, <3>2 DEF NewLines
    <3> QED
      BY <3>2, <3>3 DEF Holds
  <2> QED
    BY <1>4, <2>1, <2>2 DEF Holds
<1> QED
  BY <1>3, <1>4 DEF LinesKept

\* The lines an invocation is about to write are those it has read, with its mark.
LEMMA NewLinesKeep ==
  ASSUME RowsInv, NEW p \in Proc, pc[p] \in {"marking", "writing"}, NEW k \in Knobs
  PROVE  \/ NewLines(p)[k] = run[p].copy[k]
         \/ run[p].copy[k] = "" /\ NewLines(p)[k] \in Marks
<1>1. run[p].line = "" /\ run[p].verdict \in Marks
  BY DEF RowsInv, RunsType, Runs, RowFirst, Reports, ReportPcs
<1> QED
  BY <1>1 DEF NewLines

LEMMA TruncateKeepsLines ==
  ASSUME MutualExclusion, RowsInv, CopyCurrent, NEW p \in Proc, TruncateQueue(p)
  PROVE  CopyCurrent' /\ LinesKept
<1>1. /\ pc[p] = "marking" /\ pc' = [pc EXCEPT ![p] = "writing"] /\ run' = run
      /\ queue' = [k \in Knobs |-> "gone"] /\ run[p].copy = queue
  BY DEF TruncateQueue, CopyCurrent
<1>2. \A q \in Proc \ {p} : ~Inside(q)
  BY <1>1, InsideAlone DEF Inside
<1>3. pc'[p] = "writing" /\ \A q \in Proc \ {p} : pc'[q] = pc[q] /\ pc[q] \in {"off", "checked"}
  BY <1>1, <1>2 DEF RowsInv, PcType, Inside
<1>4. CopyCurrent'
  BY <1>1, <1>3 DEF CopyCurrent
<1>5. ASSUME NEW k \in Knobs, NEW m \in Marks \cup {""}, Holds(k, m)
      PROVE  Holds(k, m)' \/ (m = "" /\ \E n \in Marks : Holds(k, n)')
  <2>1. queue[k] = m
    BY <1>1, <1>3, <1>5 DEF Holds
  <2>2. NewLines(p)' = NewLines(p)
    BY <1>1 DEF NewLines
  <2>3. NewLines(p)[k] = m \/ (m = "" /\ NewLines(p)[k] \in Marks)
    BY <1>1, <2>1, NewLinesKeep
  <2>4. \A n \in Marks \cup {""} : NewLines(p)[k] = n => Holds(k, n)'
    BY <1>3, <2>2 DEF Holds
  <2> QED
    BY <2>3, <2>4
<1> QED
  BY <1>4, <1>5 DEF LinesKept

\* What is held while a file is being written is held by its writer.
LEMMA WriterHolds ==
  ASSUME MutualExclusion, RowsInv, CopyCurrent, NEW p \in Proc, pc[p] = "writing",
         NEW k \in Knobs, NEW m \in Marks \cup {""}, Holds(k, m)
  PROVE  NewLines(p)[k] = m
<1>1. queue[k] # m
  BY DEF CopyCurrent, Marks
<1>2. PICK q \in Proc : pc[q] = "writing" /\ NewLines(q)[k] = m
  BY <1>1 DEF Holds
<1>3. q = p
  BY <1>2, InsideAlone DEF Inside
<1> QED
  BY <1>2, <1>3

LEMMA WriteKeepsLines ==
  ASSUME MutualExclusion, RowsInv, CopyCurrent, NEW p \in Proc, WriteQueue(p)
  PROVE  CopyCurrent' /\ LinesKept
<1>1. /\ pc[p] = "writing" /\ pc' = [pc EXCEPT ![p] = "reporting"] /\ queue' = NewLines(p)
  BY DEF WriteQueue
<1>2. \A q \in Proc : pc'[q] \notin {"marking", "writing"}
  BY <1>1, InsideAlone DEF RowsInv, PcType, Inside
<1>3. \A k \in Knobs, m \in Marks \cup {""} : Holds(k, m) => queue'[k] = m
  BY <1>1, WriterHolds
<1> QED
  BY <1>2, <1>3 DEF CopyCurrent, LinesKept, Holds

LEMMA KillKeepsLines ==
  ASSUME MutualExclusion, RowsInv, CopyCurrent, NEW p \in Proc, Kill(p)
  PROVE  CopyCurrent' /\ LinesKept
<1>1. pc' = [pc EXCEPT ![p] = "off"] /\ run' = run
  BY DEF Kill
<1>2. CASE pc[p] # "writing"
  <2>1. "off" \in ({"off", "checked"} \cup Inner) \ {"marking", "writing"}
    OBVIOUS
  <2>2. queue' = queue
    BY <1>2, KillLeaves
  <2> QED
    BY <1>1, <1>2, <2>1, <2>2, OtherKeepsCopy DEF RowsInv
<1>3. CASE pc[p] = "writing"
  <2>1. PICK n \in Nat : queue' = Written(p, n)
    BY <1>3, KillLeaves
  <2>2. pc'[p] = "off" /\ \A q \in Proc : pc'[q] \notin {"marking", "writing"}
    BY <1>1, <1>3, InsideAlone DEF RowsInv, PcType, Inside
  <2>3. ASSUME NEW k \in Knobs, NEW m \in Marks \cup {""}, Holds(k, m)
        PROVE  queue'[k] = m \/ queue'[k] = "gone"
    BY <1>3, <2>1, <2>3, WriterHolds DEF Written
  <2> QED
    BY <1>3, <2>2, <2>3 DEF CopyCurrent, LinesKept, Holds
<1> QED
  BY <1>2, <1>3

LEMMA LinesStep ==
  ASSUME MutualExclusion, RowsInv, CopyCurrent, [Next]_vars
  PROVE  CopyCurrent' /\ LinesKept
<1>1. CASE LockAges \/ Stopped \/ UNCHANGED vars
  <2>1. UNCHANGED <<queue, pc, run>>
    BY <1>1 DEF LockAges, Stopped, vars
  <2>2. CopyCurrent'
    BY <2>1 DEF CopyCurrent
  <2>3. \A k \in Knobs, m \in Marks \cup {""} : Holds(k, m) => Holds(k, m)'
    BY <2>1 DEF Holds, NewLines
  <2> QED
    BY <2>2, <2>3 DEF LinesKept
<1>2. ASSUME NEW p \in Proc,
             \/ CheckLock(p) \/ WriteLock(p) \/ PickKnob(p) \/ RemoveContainer(p)
             \/ RunContainer(p) \/ InspectContainer(p) \/ StartFails(p) \/ StartSucceeds(p)
             \/ SingleStream(p) \/ Concurrent(p) \/ WriteRow(p) \/ Finish(p)
      PROVE  CopyCurrent' /\ LinesKept
  <2>1. queue' = queue /\ pc[p] # "writing"
    BY <1>2 DEF CheckLock, WriteLock, PickKnob, RemoveContainer, RunContainer,
                InspectContainer, StartFails, StartSucceeds, SingleStream, Concurrent,
                WriteRow, Finish
  <2>2. \A q \in Proc \ {p} : run'[q] = run[q]
    BY <1>2 DEF RowsInv, RunsType, CheckLock, WriteLock, PickKnob, RemoveContainer,
                RunContainer, InspectContainer, StartFails, StartSucceeds, SingleStream,
                Concurrent, WriteRow, Finish, Report
  <2>3. \/ \E s \in ({"off", "checked"} \cup Inner) \ {"marking", "writing"} :
             pc' = [pc EXCEPT ![p] = s]
        \/ pc' = pc /\ pc[p] # "marking"
    <3>1. CASE CheckLock(p) \/ WriteLock(p) \/ PickKnob(p) \/ RemoveContainer(p)
      BY <3>1 DEF CheckLock, WriteLock, PickKnob, RemoveContainer, Exit, Inner
    <3>2. CASE RunContainer(p) \/ InspectContainer(p)
      BY <3>2 DEF RunContainer, InspectContainer, Exit, Inner
    <3>3. CASE StartFails(p) \/ StartSucceeds(p)
      BY <3>3 DEF StartFails, StartSucceeds, Report, Inner
    <3>4. CASE SingleStream(p) \/ Concurrent(p)
      BY <3>4 DEF SingleStream, Concurrent, Report, Exit, Inner
    <3>5. CASE WriteRow(p) \/ Finish(p)
      BY <3>5 DEF WriteRow, Finish, Exit, Inner
    <3> QED
      BY <1>2, <3>1, <3>2, <3>3, <3>4, <3>5
  <2>4. "off" \in ({"off", "checked"} \cup Inner) \ {"marking", "writing"}
    OBVIOUS
  <2>5. PcType
    BY DEF RowsInv
  <2> QED
    BY <2>1, <2>2, <2>3, <2>4, <2>5, OtherKeepsCopy
<1>3. ASSUME NEW p \in Proc, ReadQueue(p)
      PROVE  CopyCurrent' /\ LinesKept
  <2>1. /\ queue' = queue /\ run' = [run EXCEPT ![p].copy = queue] /\ pc[p] = "reporting"
        /\ pc' = [pc EXCEPT ![p] = "marking"] /\ Inside(p)
    BY <1>3 DEF ReadQueue, Inside
  <2>2. run'[p].copy = queue
    BY <2>1 DEF RowsInv, RunsType, Runs
  <2>3. \A q \in Proc : q # p => pc[q] \notin {"marking", "writing"} /\ pc'[q] = pc[q]
    BY <2>1, InsideAlone DEF RowsInv, PcType, Inside
  <2>4. pc'[p] = "marking"
    BY <2>1 DEF RowsInv, PcType
  <2>5. CopyCurrent'
    BY <2>1, <2>2, <2>3, <2>4 DEF CopyCurrent
  <2>6. \A k \in Knobs, m \in Marks \cup {""} : Holds(k, m) => Holds(k, m)'
    BY <2>1, <2>3 DEF Holds
  <2> QED
    BY <2>5, <2>6 DEF LinesKept
<1>4. ASSUME NEW p \in Proc, TruncateQueue(p) \/ WriteQueue(p) \/ Kill(p)
      PROVE  CopyCurrent' /\ LinesKept
  BY <1>4, TruncateKeepsLines, WriteKeepsLines, KillKeepsLines
<1> QED
  BY <1>1, <1>2, <1>3, <1>4 DEF Next, Step

LEMMA CopiesAreCurrent == ~Overlap => (Spec => []CopyCurrent)
<1> SUFFICES ASSUME ~Overlap PROVE Spec => []CopyCurrent
  OBVIOUS
<1>1. Init => CopyCurrent
  BY DEF Init, CopyCurrent
<1>2. MutualExclusion /\ RowsInv /\ CopyCurrent /\ [Next]_vars => CopyCurrent'
  BY LinesStep
<1>3. Spec => []MutualExclusion
  BY Excludes
<1> QED
  BY <1>1, <1>2, <1>3, RowsInvariant, PTL DEF Spec

\* The file is read as a whole, emptied and written; while the lock excludes, no
\* invocation writes back a copy that lacks a line or another's mark, and a kill
\* in the middle of a write is the only way to lose one.
THEOREM MarksStay == ~Overlap => (Spec => MarksArePermanent)
<1> SUFFICES ASSUME ~Overlap PROVE Spec => MarksArePermanent
  OBVIOUS
<1>1. MutualExclusion /\ RowsInv /\ CopyCurrent /\ [Next]_vars => [LinesKept]_vars
  BY LinesStep
<1>2. Spec => []MutualExclusion
  BY Excludes
<1>3. Spec => []CopyCurrent
  BY CopiesAreCurrent
<1>4. [LinesKept]_vars
        <=> [\A k \in Knobs, m \in Marks \cup {""} : Holds(k, m) =>
               \/ Holds(k, m)'
               \/ m = "" /\ \E n \in Marks : Holds(k, n)'
               \/ queue'[k] = "gone" /\ \E p \in Proc : pc[p] = "writing" /\ pc'[p] = "off"]_vars
  BY DEF LinesKept
<1> QED
  BY <1>1, <1>2, <1>3, <1>4, RowsInvariant, PTL DEF Spec, MarksArePermanent

-----------------------------------------------------------------------------
(* Results are measured on the invocation's own container, when none       *)
(* overlaps, whether requests are answered or not.                         *)

StartsType == starts \in [Proc -> Nat]

\* From its start to the report an invocation's container is the one with the
\* name, and every answer of a result came from it.
OwnRows ==
  \A i \in 1 .. Len(history) : history[i].verdict = "DONE" => history[i].own

Owns(p) ==
  /\ Inside(p) => starts[p] > 0
  /\ pc[p] \in {"started", "waiting", "single", "concurrent"} => container = Me(p)
  /\ pc[p] = "concurrent" => run[p].own
  /\ Reports(p) /\ run[p].verdict = "DONE" => run[p].own

OwnInv == StartsType /\ OwnRows /\ \A p \in Proc : Owns(p)

\* Only the acting invocation has to be looked at: the others are not inside.
LEMMA OwnAfter ==
  ASSUME MutualExclusion, OwnInv, PcType, NEW p \in Proc, Inside(p), starts' = starts,
         OwnRows', Owns(p)', \A q \in Proc \ {p} : pc'[q] = pc[q]
  PROVE  OwnInv'
<1>1. \A q \in Proc \ {p} : pc'[q] \in {"off", "checked"}
  BY DEF MutualExclusion, Inside
<1>2. \A q \in Proc \ {p} : Owns(q)'
  BY <1>1 DEF Owns, Inside, Reports, ReportPcs
<1> QED
  BY <1>2 DEF OwnInv, StartsType

\* Steps outside of the benchmark that do not report.
LEMMA OwnMove ==
  ASSUME MutualExclusion, OwnInv, PcType, NEW p \in Proc, Inside(p), starts' = starts, history' = history,
         NEW s \in {"off", "picked", "removed"}, pc' = [pc EXCEPT ![p] = s]
  PROVE  OwnInv'
<1>1. pc'[p] = s /\ \A q \in Proc \ {p} : pc'[q] = pc[q]
  BY DEF PcType
<1>2. OwnRows' /\ Owns(p)'
  BY <1>1 DEF OwnInv, OwnRows, Owns, Inside, Reports, ReportPcs
<1> QED
  BY <1>1, <1>2, OwnAfter

LEMMA OwnStep ==
  ASSUME HillclimbAssumption, MutualExclusion, RowsInv, OwnInv, [Next]_vars
  PROVE  OwnInv'
<1> USE DEF RowsInv
<1>1. CASE LockAges \/ Stopped \/ UNCHANGED vars
  BY <1>1 DEF LockAges, Stopped, vars, OwnInv, StartsType, OwnRows, Owns, Inside, Reports, ReportPcs, Me
<1>2. ASSUME NEW p \in Proc, CheckLock(p) \/ Kill(p)
      PROVE  OwnInv'
  <2>1. UNCHANGED <<history, container, run, starts>>
    BY <1>2 DEF CheckLock, Kill
  <2>2. \A q \in Proc : pc'[q] = pc[q] \/ ~Inside(q)'
    BY <1>2 DEF CheckLock, Kill, PcType, Inside
  <2>3. ASSUME NEW q \in Proc PROVE Owns(q)'
    BY <2>1, <2>2 DEF OwnInv, Owns, Inside, Reports, ReportPcs, Me
  <2> QED
    BY <2>1, <2>3 DEF OwnInv, StartsType, OwnRows
<1>3. ASSUME NEW p \in Proc, WriteLock(p)
      PROVE  OwnInv'
  <2>1. /\ starts' = [starts EXCEPT ![p] = @ + 1] /\ pc' = [pc EXCEPT ![p] = "locked"]
        /\ run' = [run EXCEPT ![p] = NewRun] /\ UNCHANGED <<history, container>>
    BY <1>3 DEF WriteLock
  <2>2. starts' \in [Proc -> Nat] /\ starts'[p] > 0
    BY <2>1 DEF OwnInv, StartsType
  <2>3. Owns(p)'
    BY <2>1, <2>2 DEF PcType, Owns, Reports, ReportPcs
  <2>4. ASSUME NEW q \in Proc, q # p PROVE Owns(q)'
    <3>1. pc'[q] = pc[q] /\ run'[q] = run[q] /\ starts'[q] = starts[q]
      BY <2>1, <2>4 DEF PcType, RunsType, OwnInv, StartsType
    <3> QED
      BY <2>1, <2>4, <3>1 DEF OwnInv, Owns, Inside, Reports, ReportPcs, Me
  <2> QED
    BY <2>1, <2>2, <2>3, <2>4 DEF OwnInv, StartsType, OwnRows
<1>4. ASSUME NEW p \in Proc, PickKnob(p) \/ RemoveContainer(p) \/ Finish(p)
      PROVE  OwnInv'
  BY <1>4, OwnMove DEF PickKnob, RemoveContainer, Finish, Exit, Inside
<1>5. ASSUME NEW p \in Proc, RunContainer(p)
      PROVE  OwnInv'
  <2>1. CASE Exit(p)
    BY <1>5, <2>1, OwnMove DEF RunContainer, Exit, Inside
  <2>2. CASE container' = Me(p) /\ pc' = [pc EXCEPT ![p] = "started"]
    <3>1. pc[p] = "removed" /\ UNCHANGED <<history, run, starts>>
      BY <1>5 DEF RunContainer
    <3>2. Inside(p) /\ pc'[p] = "started" /\ \A q \in Proc \ {p} : pc'[q] = pc[q]
      BY <2>2, <3>1 DEF PcType, Inside
    <3>3. Owns(p)' /\ OwnRows'
      BY <2>2, <3>1, <3>2 DEF OwnInv, OwnRows, Owns, Inside, Reports, ReportPcs, Me
    <3> QED
      BY <3>1, <3>2, <3>3, OwnAfter
  <2> QED
    BY <1>5, <2>1, <2>2 DEF RunContainer
<1>6. ASSUME NEW p \in Proc, InspectContainer(p) \/ StartSucceeds(p)
      PROVE  OwnInv'
  <2>1. CASE Exit(p)
    BY <1>6, <2>1, OwnMove DEF InspectContainer, StartSucceeds, Exit, Inside
  <2>2. ASSUME NEW s \in {"waiting", "single"}, pc' = [pc EXCEPT ![p] = s]
        PROVE  OwnInv'
    <3>1. pc[p] \in {"started", "waiting"} /\ UNCHANGED <<history, container, run, starts>>
      BY <1>6 DEF InspectContainer, StartSucceeds
    <3>2. Inside(p) /\ pc'[p] = s /\ \A q \in Proc \ {p} : pc'[q] = pc[q]
      BY <2>2, <3>1 DEF PcType, Inside
    <3>3. Owns(p)' /\ OwnRows'
      BY <3>1, <3>2 DEF OwnInv, OwnRows, Owns, Inside, Reports, ReportPcs, Me
    <3> QED
      BY <3>1, <3>2, <3>3, OwnAfter
  <2> QED
    BY <1>6, <2>1, <2>2 DEF InspectContainer, StartSucceeds
<1>7. ASSUME NEW p \in Proc, StartFails(p)
      PROVE  OwnInv'
  <2>1. pc[p] = "waiting" /\ UNCHANGED <<history, container, starts>>
    BY <1>7 DEF StartFails
  <2>2. CASE pc' = [pc EXCEPT ![p] = "picked"]
    BY <2>1, <2>2, OwnMove DEF Inside
  <2>3. CASE Report(p, [run[p] EXCEPT !.verdict = "FAIL"])
    <3> DEFINE r == [run[p] EXCEPT !.verdict = "FAIL"]
    <3>1. r \in Runs /\ r.verdict = "FAIL"
      BY ZenonT(40), RunsFacts, SetFailed DEF Verdicts
    <3>2. run'[p] = [r EXCEPT !.todo = ReportSteps(r.verdict)] /\ pc' = [pc EXCEPT ![p] = "reporting"]
      <4>1. Report(p, r)
        BY <2>3
      <4> HIDE DEF r
      <4> QED
        BY <4>1 DEF Report, RunsType
    <3> HIDE DEF r
    <3>3. run'[p].verdict = "FAIL"
      BY <3>1, <3>2 DEF Runs
    <3>4. Inside(p) /\ pc'[p] = "reporting" /\ \A q \in Proc \ {p} : pc'[q] = pc[q]
      BY <2>1, <3>2 DEF PcType, Inside
    <3>5. Owns(p)' /\ OwnRows'
      BY <2>1, <3>3, <3>4 DEF OwnInv, OwnRows, Owns, Inside, Reports, ReportPcs, Me
    <3> QED
      BY <2>1, <3>4, <3>5, OwnAfter
  <2> QED
    BY <1>7, <2>2, <2>3 DEF StartFails
<1>8. ASSUME NEW p \in Proc, SingleStream(p)
      PROVE  OwnInv'
  <2>1. /\ pc[p] = "single" /\ container = Me(p) /\ UNCHANGED <<history, container, starts>>
    BY <1>8 DEF SingleStream, OwnInv, Owns
  <2>2. CASE Exit(p)
    BY <2>1, <2>2, OwnMove DEF Exit, Inside
  <2>3. CASE run' = [run EXCEPT ![p].own = (container = Me(p))] /\ pc' = [pc EXCEPT ![p] = "concurrent"]
    <3>1. PICK o \in BOOLEAN : o = (container = Me(p))
      OBVIOUS
    <3>2. run' = [run EXCEPT ![p].own = o]
      BY <2>3, <3>1, Zenon
    <3>3. run'[p].own = o /\ o = TRUE
      BY <2>1, <3>1, <3>2 DEF RunsType, Runs
    <3>4. Inside(p) /\ pc'[p] = "concurrent" /\ \A q \in Proc \ {p} : pc'[q] = pc[q]
      BY <2>1, <2>3 DEF PcType, Inside
    <3>5. Owns(p)' /\ OwnRows'
      BY <2>1, <3>3, <3>4 DEF OwnInv, OwnRows, Owns, Inside, Reports, ReportPcs, Me
    <3> QED
      BY <2>1, <3>4, <3>5, OwnAfter
  <2> QED
    BY <1>8, <2>2, <2>3 DEF SingleStream
<1>9. ASSUME NEW p \in Proc, Concurrent(p)
      PROVE  OwnInv'
  <2>1. /\ pc[p] = "concurrent" /\ container = Me(p) /\ run[p].own
        /\ UNCHANGED <<history, container, starts>>
    BY <1>9 DEF Concurrent, OwnInv, Owns
  <2>2. PICK r \in Runs : r.own /\ Report(p, r)
    BY <1>9, <2>1, ConcurrentReports
  <2>3. run'[p] = [r EXCEPT !.todo = ReportSteps(r.verdict)] /\ pc' = [pc EXCEPT ![p] = "reporting"]
    BY <2>2 DEF Report, RunsType
  <2>4. run'[p].own = r.own
    BY <2>3 DEF Runs
  <2>5. Inside(p) /\ pc'[p] = "reporting" /\ \A q \in Proc \ {p} : pc'[q] = pc[q]
    BY <2>1, <2>3 DEF PcType, Inside
  <2>6. Owns(p)' /\ OwnRows'
    BY <2>1, <2>2, <2>4, <2>5 DEF OwnInv, OwnRows, Owns, Inside, Reports, ReportPcs, Me
  <2> QED
    BY <2>1, <2>5, <2>6, OwnAfter
<1>10. ASSUME NEW p \in Proc,
              WriteRow(p) \/ ReadQueue(p) \/ TruncateQueue(p) \/ WriteQueue(p)
       PROVE  OwnInv'
  <2>1. /\ Reports(p) /\ UNCHANGED <<container, starts>>
        /\ pc' = pc \/ \E s \in ReportPcs : pc' = [pc EXCEPT ![p] = s]
    BY <1>10 DEF WriteRow, ReadQueue, TruncateQueue, WriteQueue, Reports, ReportPcs
  <2>2. run'[p].own = run[p].own /\ run'[p].verdict = run[p].verdict
    BY <1>10 DEF WriteRow, ReadQueue, TruncateQueue, WriteQueue, RunsType, Runs
  <2>3. Inside(p) /\ Reports(p)' /\ \A q \in Proc \ {p} : pc'[q] = pc[q]
    BY <2>1 DEF PcType, Inside, Reports, ReportPcs
  <2>4. Owns(p)'
    BY <2>1, <2>2, <2>3 DEF OwnInv, Owns, Inside, Reports, ReportPcs
  <2>5. OwnRows'
    <3>1. CASE WriteRow(p)
      <4> DEFINE row == [knob |-> run[p].knob, verdict |-> run[p].verdict,
                          own |-> run[p].own, fresh |-> run[p].fresh]
      <4>1. history' = Append(history, row)
        BY <3>1 DEF WriteRow
      <4>2. row.verdict = "DONE" => row.own
        BY <2>1, Zenon DEF OwnInv, Owns
      <4> HIDE DEF row
      <4>3. /\ Len(history) \in Nat /\ Len(history') = Len(history) + 1
            /\ \A i \in 1 .. Len(history) : history'[i] = history[i]
            /\ history'[Len(history) + 1] = row
        BY <4>1 DEF FilesType
      <4> QED
        BY <4>2, <4>3 DEF OwnInv, OwnRows
    <3>2. CASE UNCHANGED history
      BY <3>2 DEF OwnInv, OwnRows
    <3> QED
      BY <1>10, <3>1, <3>2 DEF ReadQueue, TruncateQueue, WriteQueue
  <2> QED
    BY <2>1, <2>3, <2>4, <2>5, OwnAfter
<1> QED
  BY <1>1, <1>2, <1>3, <1>4, <1>5, <1>6, <1>7, <1>8, <1>9, <1>10 DEF Next, Step

LEMMA OwnInvariant == ~Overlap => (Spec => []OwnInv)
<1> SUFFICES ASSUME ~Overlap PROVE Spec => []OwnInv
  OBVIOUS
<1>1. Init => OwnInv
  <2> SUFFICES ASSUME Init PROVE OwnInv
    OBVIOUS
  <2>1. StartsType /\ \A p \in Proc : pc[p] = "off"
    BY DEF Init, StartsType
  <2>2. Len(history) = 0
    BY DEF Init
  <2> QED
    BY <2>1, <2>2 DEF OwnInv, OwnRows, Owns, Inside, Reports, ReportPcs
<1>2. MutualExclusion /\ RowsInv /\ OwnInv /\ [Next]_vars => OwnInv'
  BY HillclimbAssumption, OwnStep
<1>3. Spec => []MutualExclusion
  BY Excludes
<1> QED
  BY <1>1, <1>2, <1>3, RowsInvariant, PTL DEF Spec

-----------------------------------------------------------------------------
(* What is left over comes from an invocation that was killed.             *)

Trying     == {"picked", "removed", "started", "waiting", "single", "concurrent"}
Unfinished == {<<"row", "mark">>, <<"mark", "row">>, <<"mark">>}

\* A knob that has answers in /tmp is not picked again: it has lost its blank
\* line, its invocation still has its mark to write, or that one was killed.
Answered(k) ==
  \/ CutShort(k)
  \/ queue[k] # ""
  \/ \E p \in Proc : Reports(p) /\ run[p].knob = k /\ run[p].todo \in Unfinished

FreshRows ==
  \A i \in 1 .. Len(history) :
    history[i].verdict = "DONE" => history[i].fresh \/ CutShort(history[i].knob)

Fresh(p) ==
  /\ pc[p] \in Trying /\ run[p].knob \in answers => CutShort(run[p].knob)
  /\ Reports(p) /\ run[p].verdict = "DONE" => run[p].fresh \/ CutShort(run[p].knob)
  /\ pc[p] \in {"marking", "writing"} =>
       \A k \in answers : k = run[p].knob \/ CutShort(k) \/ run[p].copy[k] # ""

FreshInv ==
  /\ answers \subseteq Knobs /\ FreshRows
  /\ \A k \in answers : Answered(k)
  /\ \A p \in Proc : Fresh(p)

LEMMA RowIsFinished == <<"row">> \notin Unfinished /\ <<>> \notin Unfinished
<1>1. <<"row">> # <<"mark", "row">> /\ <<"row">> # <<"row", "mark">> /\ <<"row">> # <<"mark">>
  OBVIOUS
<1> QED
  BY <1>1 DEF Unfinished

\* Who was killed stays killed.
LEMMA CutStays ==
  ASSUME cut \subseteq cut'
  PROVE  \A k \in Knobs : CutShort(k) => CutShort(k)'
  BY DEF CutShort

LEMMA CutSame ==
  ASSUME cut' = cut
  PROVE  \A k : CutShort(k)' <=> CutShort(k)
  BY DEF CutShort

\* Only the acting invocation has to be looked at: the others are not inside.
LEMMA FreshAfter ==
  ASSUME MutualExclusion, FreshInv, PcType, NEW p \in Proc, Inside(p),
         \A q \in Proc \ {p} : pc'[q] = pc[q],
         answers' \subseteq Knobs, FreshRows', \A k \in answers' : Answered(k)', Fresh(p)'
  PROVE  FreshInv'
<1>1. \A q \in Proc \ {p} : pc'[q] \in {"off", "checked"}
  BY DEF MutualExclusion, Inside
<1>2. \A q \in Proc \ {p} : Fresh(q)'
  BY <1>1 DEF Fresh, Trying, Reports, ReportPcs
<1> QED
  BY <1>2 DEF FreshInv

\* Nobody but the acting invocation has a mark to write.
LEMMA OnlyOwnMark ==
  ASSUME MutualExclusion, FreshInv, NEW p \in Proc, Inside(p), NEW k \in answers
  PROVE  \/ CutShort(k) \/ queue[k] # ""
         \/ Reports(p) /\ run[p].knob = k /\ run[p].todo \in Unfinished
<1>1. \A q \in Proc : Reports(q) => Inside(q)
  BY DEF Reports, ReportPcs, Inside
<1> QED
  BY <1>1 DEF FreshInv, Answered, MutualExclusion

\* The steps of an invocation that has not come to its report.
LEMMA FreshMove ==
  ASSUME MutualExclusion, RowsInv, FreshInv, NEW p \in Proc, Inside(p), ~Reports(p),
         UNCHANGED <<queue, history, answers, cut>>,
         NEW s \in {"off"} \cup Trying, pc' = [pc EXCEPT ![p] = s],
         s # "off" => CutShort(run'[p].knob) \/ run'[p].knob \notin answers
  PROVE  FreshInv'
<1>1. pc'[p] = s /\ \A q \in Proc \ {p} : pc'[q] = pc[q]
  BY DEF RowsInv, PcType
<1>2. answers' \subseteq Knobs /\ FreshRows'
  BY DEF FreshInv, FreshRows, CutShort
<1>3. \A k \in answers' : Answered(k)'
  BY OnlyOwnMark DEF Answered, CutShort
<1>4. Fresh(p)'
  BY <1>1 DEF Fresh, Trying, Reports, ReportPcs, CutShort
<1> QED
  BY <1>1, <1>2, <1>3, <1>4, FreshAfter DEF RowsInv

\* The step to the report.
LEMMA FreshReport ==
  ASSUME MutualExclusion, RowsInv, FreshInv, NEW p \in Proc, Inside(p), ~Reports(p),
         UNCHANGED <<queue, history, cut>>,
         NEW r \in Runs, r.verdict \in Marks, r.knob = run[p].knob, Report(p, r),
         r.verdict = "DONE" => r.fresh \/ CutShort(r.knob),
         answers' \subseteq answers \cup {run[p].knob}
  PROVE  FreshInv'
<1>1. run'[p] = [r EXCEPT !.todo = ReportSteps(r.verdict)] /\ pc' = [pc EXCEPT ![p] = "reporting"]
  BY DEF Report, RowsInv, RunsType
<1>2. /\ run'[p].verdict = r.verdict /\ run'[p].knob = r.knob /\ run'[p].fresh = r.fresh
      /\ run'[p].todo = ReportSteps(r.verdict)
  BY <1>1 DEF Runs
<1>3. run'[p].todo \in Unfinished
  BY <1>2 DEF ReportSteps, Unfinished
<1>4. pc'[p] = "reporting" /\ \A q \in Proc \ {p} : pc'[q] = pc[q]
  BY <1>1 DEF RowsInv, PcType
<1>5. answers' \subseteq Knobs /\ FreshRows'
  BY RunsFacts DEF FreshInv, FreshRows, CutShort
<1>6. \A k \in answers : CutShort(k) \/ queue[k] # ""
  BY OnlyOwnMark
<1>7. \A k \in answers' : Answered(k)'
  BY <1>2, <1>3, <1>4, <1>6 DEF Answered, CutShort, Reports, ReportPcs
<1>8. Fresh(p)'
  BY <1>2, <1>4 DEF Fresh, Trying, Reports, ReportPcs, CutShort
<1> QED
  BY <1>4, <1>5, <1>7, <1>8, FreshAfter DEF RowsInv

\* A step inside the report changes neither the verdict nor what was counted.
LEMMA StillFresh ==
  ASSUME NEW p \in Proc, Fresh(p), Reports(p), Reports(p)', cut' = cut,
         run'[p].verdict = run[p].verdict, run'[p].knob = run[p].knob,
         run'[p].fresh = run[p].fresh,
         pc'[p] \in {"marking", "writing"} =>
           \A k \in answers' : k = run[p].knob \/ CutShort(k) \/ run'[p].copy[k] # ""
  PROVE  Fresh(p)'
<1>1. \A k : CutShort(k)' <=> CutShort(k)
  BY CutSame
<1>2. \A k : k = run[p].knob /\ run[p].verdict = "DONE" => run[p].fresh \/ CutShort(k)
  BY Zenon DEF Fresh
<1>3. (run[p].verdict = "DONE" => run[p].fresh \/ CutShort(run[p].knob))'
  BY <1>1, <1>2, Zenon
<1>4. pc'[p] \notin Trying
  BY DEF Reports, ReportPcs, Trying
<1>5. pc'[p] \in {"marking", "writing"} =>
        \A k \in answers' : k = run'[p].knob \/ CutShort(k)' \/ run'[p].copy[k] # ""
  BY <1>1, Zenon
<1> QED
  BY <1>3, <1>4, <1>5, Zenon DEF Fresh

LEMMA FreshWriteRow ==
  ASSUME MutualExclusion, RowsInv, FreshInv, NEW p \in Proc, WriteRow(p)
  PROVE  FreshInv'
<1> DEFINE row == [knob |-> run[p].knob, verdict |-> run[p].verdict,
                   own |-> run[p].own, fresh |-> run[p].fresh]
<1>1. /\ pc[p] = "reporting" /\ NextStep(p) = "row" /\ UNCHANGED <<pc, queue, answers, cut>>
      /\ history' = Append(history, row) /\ run' = [run EXCEPT ![p].todo = Tail(@)]
  BY DEF WriteRow
<1>2. /\ run'[p].verdict = run[p].verdict /\ run'[p].knob = run[p].knob
      /\ run'[p].fresh = run[p].fresh /\ run'[p].todo = Tail(run[p].todo)
  BY <1>1 DEF RowsInv, RunsType, Runs
<1>3. Inside(p) /\ Reports(p) /\ Fresh(p)
  BY <1>1 DEF Inside, Reports, ReportPcs, FreshInv
<1>4. row.verdict = "DONE" => row.fresh \/ CutShort(row.knob)
  BY <1>3, Zenon DEF Fresh
<1> HIDE DEF row
<1>5. FreshRows'
  <2>1. /\ Len(history) \in Nat /\ Len(history') = Len(history) + 1
        /\ \A i \in 1 .. Len(history) : history'[i] = history[i]
        /\ history'[Len(history) + 1] = row
    BY <1>1 DEF RowsInv, FilesType
  <2>2. \A k : CutShort(k)' <=> CutShort(k)
    BY <1>1 DEF CutShort
  <2> QED
    BY <1>4, <2>1, <2>2 DEF FreshInv, FreshRows
<1>6. run[p].todo \in Unfinished => run'[p].todo \in Unfinished
  <2>1. run[p].todo \in Plans /\ run[p].todo # <<>> /\ Head(run[p].todo) = "row"
    BY <1>1 DEF NextStep, RowsInv, RunsType, Runs
  <2>2. run[p].todo \in {<<"row", "mark">>, <<"row">>}
    BY <2>1, PlanSteps
  <2>3. <<"row">> \notin Unfinished
    BY RowIsFinished
  <2> QED
    BY <1>2, <2>2, <2>3, PlanSteps, Zenon DEF Unfinished
<1>7. \A k \in answers' : Answered(k)'
  BY <1>1, <1>2, <1>3, <1>6, OnlyOwnMark DEF Answered, CutShort, Reports, ReportPcs
<1>8. Fresh(p)'
  <2>1. Reports(p)' /\ pc'[p] \notin {"marking", "writing"}
    BY <1>1 DEF Reports, ReportPcs
  <2> QED
    BY <1>1, <1>2, <1>3, <2>1, StillFresh
<1>9. answers' \subseteq Knobs
  BY <1>1 DEF FreshInv
<1> QED
  BY <1>1, <1>3, <1>5, <1>7, <1>8, <1>9, FreshAfter DEF RowsInv

LEMMA FreshReadQueue ==
  ASSUME MutualExclusion, RowsInv, FreshInv, NEW p \in Proc, ReadQueue(p)
  PROVE  FreshInv'
<1>1. /\ pc[p] = "reporting" /\ pc' = [pc EXCEPT ![p] = "marking"]
      /\ UNCHANGED <<queue, history, answers, cut>> /\ run' = [run EXCEPT ![p].copy = queue]
  BY DEF ReadQueue
<1>2. /\ run'[p].verdict = run[p].verdict /\ run'[p].knob = run[p].knob
      /\ run'[p].fresh = run[p].fresh /\ run'[p].todo = run[p].todo /\ run'[p].copy = queue
  BY <1>1 DEF RowsInv, RunsType, Runs
<1>3. Inside(p) /\ Reports(p) /\ Fresh(p)
  BY <1>1 DEF Inside, Reports, ReportPcs, FreshInv
<1>4. pc'[p] = "marking" /\ \A q \in Proc \ {p} : pc'[q] = pc[q]
  BY <1>1 DEF RowsInv, PcType
<1>5. FreshRows' /\ answers' \subseteq Knobs
  BY <1>1 DEF FreshInv, FreshRows, CutShort
<1>6. \A k \in answers' : Answered(k)'
  <2>1. Reports(p)'
    BY <1>4 DEF Reports, ReportPcs
  <2> SUFFICES ASSUME NEW k \in answers' PROVE Answered(k)'
    OBVIOUS
  <2>2. \/ CutShort(k) \/ queue[k] # ""
        \/ run[p].knob = k /\ run[p].todo \in Unfinished
    BY <1>1, <1>3, OnlyOwnMark
  <2> QED
    BY <1>1, <1>2, <2>1, <2>2, CutSame DEF Answered
<1>7. Fresh(p)'
  <2>1. Reports(p)'
    BY <1>4 DEF Reports, ReportPcs
  <2>2. \A k \in answers' : k = run[p].knob \/ CutShort(k) \/ run'[p].copy[k] # ""
    BY <1>1, <1>2, <1>3, OnlyOwnMark
  <2> QED
    BY <1>1, <1>2, <1>3, <2>1, <2>2, StillFresh
<1> QED
  BY <1>3, <1>4, <1>5, <1>6, <1>7, FreshAfter DEF RowsInv

LEMMA FreshTruncate ==
  ASSUME MutualExclusion, RowsInv, FreshInv, NEW p \in Proc, TruncateQueue(p)
  PROVE  FreshInv'
<1>1. /\ pc[p] = "marking" /\ pc' = [pc EXCEPT ![p] = "writing"]
      /\ UNCHANGED <<history, answers, run, cut>> /\ queue' = [k \in Knobs |-> "gone"]
  BY DEF TruncateQueue
<1>2. Inside(p) /\ Reports(p) /\ Fresh(p)
  BY <1>1 DEF Inside, Reports, ReportPcs, FreshInv
<1>3. pc'[p] = "writing" /\ \A q \in Proc \ {p} : pc'[q] = pc[q]
  BY <1>1 DEF RowsInv, PcType
<1>4. FreshRows' /\ answers' \subseteq Knobs
  BY <1>1 DEF FreshInv, FreshRows, CutShort
<1>5. \A k \in answers' : Answered(k)'
  BY <1>1, <1>4 DEF Answered
<1>6. Fresh(p)'
  BY <1>1, <1>2, <1>3 DEF Fresh, Trying, Reports, ReportPcs, CutShort
<1> QED
  BY <1>2, <1>3, <1>4, <1>5, <1>6, FreshAfter DEF RowsInv

\* The mark is in its line, and every other line is as it was read.
LEMMA NewLineOf ==
  ASSUME RowsInv, NEW p \in Proc, pc[p] \in {"marking", "writing"}, NEW k \in Knobs,
         k = run[p].knob \/ run[p].copy[k] # ""
  PROVE  NewLines(p)[k] # ""
<1>1. run[p].line = "" /\ run[p].verdict \in Marks
  BY DEF RowsInv, RunsType, Runs, RowFirst, Reports, ReportPcs
<1> QED
  BY <1>1 DEF NewLines, Marks

LEMMA FreshWriteQueue ==
  ASSUME MutualExclusion, RowsInv, FreshInv, NEW p \in Proc, WriteQueue(p)
  PROVE  FreshInv'
<1>1. /\ pc[p] = "writing" /\ pc' = [pc EXCEPT ![p] = "reporting"]
      /\ UNCHANGED <<history, answers, cut>> /\ queue' = NewLines(p)
      /\ run' = [run EXCEPT ![p].todo = Tail(@)]
  BY DEF WriteQueue
<1>2. /\ run'[p].verdict = run[p].verdict /\ run'[p].knob = run[p].knob
      /\ run'[p].fresh = run[p].fresh
  BY <1>1 DEF RowsInv, RunsType, Runs
<1>3. Inside(p) /\ Reports(p) /\ Fresh(p)
  BY <1>1 DEF Inside, Reports, ReportPcs, FreshInv
<1>4. pc'[p] = "reporting" /\ \A q \in Proc \ {p} : pc'[q] = pc[q]
  BY <1>1 DEF RowsInv, PcType
<1>5. FreshRows' /\ answers' \subseteq Knobs
  BY <1>1 DEF FreshInv, FreshRows, CutShort
<1>6. \A k \in answers' : CutShort(k) \/ queue'[k] # ""
  BY <1>1, <1>3, <1>5, NewLineOf DEF Fresh
<1>7. \A k \in answers' : Answered(k)'
  BY <1>1, <1>6 DEF Answered, CutShort
<1>8. Fresh(p)'
  <2>1. Reports(p)' /\ pc'[p] \notin {"marking", "writing"}
    BY <1>4 DEF Reports, ReportPcs
  <2> QED
    BY <1>1, <1>2, <1>3, <2>1, StillFresh
<1> QED
  BY <1>3, <1>4, <1>5, <1>7, <1>8, FreshAfter DEF RowsInv

\* A kill from the concurrent benchmark on is noted; before, there is nothing of
\* its own that it could leave.
LEMMA FreshKill ==
  ASSUME MutualExclusion, RowsInv, FreshInv, NEW p \in Proc, Kill(p)
  PROVE  FreshInv'
<1>1. pc[p] # "off" /\ pc' = [pc EXCEPT ![p] = "off"] /\ UNCHANGED <<history, run>>
  BY DEF Kill
<1>2. pc'[p] = "off" /\ \A q \in Proc \ {p} : pc'[q] = pc[q]
  BY <1>1 DEF RowsInv, PcType
<1>3. run[p].knob \in Knobs
  BY RunsFacts
<1>4. /\ cut \subseteq cut'
      /\ \A k : pc[p] \in Recording /\ k = run[p].knob => CutShort(k)'
      /\ answers' \subseteq answers \cup {run[p].knob}
      /\ pc[p] # "concurrent" => answers' = answers
  BY DEF Kill, CutShort
<1>5. \A k \in Knobs : CutShort(k) => CutShort(k)'
  BY <1>4, CutStays
<1>6. FreshRows' /\ answers' \subseteq Knobs
  <2>1. \A i \in 1 .. Len(history) : history[i].knob \in Knobs
    <3>1. history \in Seq(Rows) /\ \A row \in Rows : row.knob \in Knobs
      BY DEF RowsInv, FilesType, Rows
    <3> QED
      BY <3>1
  <2> QED
    BY <1>1, <1>3, <1>4, <1>5, <2>1 DEF FreshInv, FreshRows
<1>7. CASE ~Inside(p)
  <2>1. pc[p] = "checked" /\ queue' = queue /\ answers' = answers
    BY <1>1, <1>4, <1>7, KillLeaves DEF Inside
  <2>2. ASSUME NEW q \in Proc PROVE Fresh(q)'
    <3>1. CASE q = p
      BY <1>2, <3>1 DEF Fresh, Trying, Reports, ReportPcs
    <3>2. CASE q # p
      <4>1. pc'[q] = pc[q] /\ Fresh(q) /\ run[q].knob \in Knobs
        BY <1>2, <3>2, RunsFacts DEF FreshInv
      <4> QED
        BY <1>1, <1>5, <1>6, <2>1, <4>1 DEF Fresh, Trying, Reports, ReportPcs
    <3> QED
      BY <3>1, <3>2
  <2>3. ASSUME NEW k \in answers' PROVE Answered(k)'
    <3>1. Answered(k) /\ k \in Knobs
      BY <1>6, <2>1 DEF FreshInv
    <3>2. \A q \in Proc : Reports(q) => Reports(q)'
      BY <1>2, <2>1 DEF Reports, ReportPcs
    <3> QED
      BY <1>1, <1>5, <2>1, <3>1, <3>2 DEF Answered
  <2> QED
    BY <1>6, <2>2, <2>3 DEF FreshInv
<1>8. CASE Inside(p)
  <2>1. Fresh(p)'
    BY <1>2 DEF Fresh, Trying, Reports, ReportPcs
  <2>2. ASSUME NEW k \in answers' PROVE CutShort(k)' \/ queue'[k] # ""
    <3>1. CASE pc[p] \in Recording /\ k = run[p].knob
      BY <1>4, <3>1
    <3>2. CASE k \in answers /\ pc[p] # "writing"
      <4>1. queue' = queue
        BY <3>2, KillLeaves
      <4>2. Reports(p) => pc[p] \in Recording
        BY DEF Reports, ReportPcs, Recording
      <4> QED
        <5>1. CutShort(k) \/ queue[k] # "" \/ (Reports(p) /\ run[p].knob = k)
          BY <1>8, <3>2, OnlyOwnMark
        <5> QED
          BY <1>4, <1>5, <1>6, <4>1, <4>2, <5>1
    <3>3. CASE k \in answers /\ pc[p] = "writing"
      <4>1. PICK n \in Nat : queue' = Written(p, n)
        BY <3>3, KillLeaves
      <4>2. k \in Knobs /\ (k = run[p].knob \/ CutShort(k) \/ run[p].copy[k] # "")
        BY <1>6, <3>3 DEF FreshInv, Fresh
      <4>3. CutShort(k) \/ NewLines(p)[k] # ""
        BY <3>3, <4>2, NewLineOf
      <4> QED
        BY <1>5, <4>1, <4>2, <4>3 DEF Written
    <3>4. k \in answers \/ (k = run[p].knob /\ pc[p] = "concurrent")
      BY <1>4
    <3> QED
      BY <3>1, <3>2, <3>3, <3>4 DEF Recording
  <2>3. \A k \in answers' : Answered(k)'
    BY <2>2 DEF Answered
  <2> QED
    BY <1>2, <1>6, <1>8, <2>1, <2>3, FreshAfter DEF RowsInv
<1> QED
  BY <1>7, <1>8

LEMMA FreshStep ==
  ASSUME MutualExclusion, RowsInv, FreshInv, [Next]_vars
  PROVE  FreshInv'
<1>1. CASE LockAges \/ Stopped \/ UNCHANGED vars
  <2>1. UNCHANGED <<queue, history, answers, pc, run, cut>>
    BY <1>1 DEF LockAges, Stopped, vars
  <2>2. \A k : CutShort(k)' <=> CutShort(k)
    BY <2>1, CutSame
  <2>3. answers' \subseteq Knobs /\ FreshRows'
    BY <2>1, <2>2 DEF FreshInv, FreshRows
  <2>4. \A k \in answers' : Answered(k)'
    BY <2>1, <2>2 DEF FreshInv, Answered, Reports
  <2>5. \A p \in Proc : Fresh(p)'
    BY <2>1, <2>2 DEF FreshInv, Fresh, Reports
  <2> QED
    BY <2>3, <2>4, <2>5 DEF FreshInv
<1>2. ASSUME NEW p \in Proc, CheckLock(p) \/ WriteLock(p)
      PROVE  FreshInv'
  <2>1. /\ pc[p] \in {"off", "checked"} /\ UNCHANGED <<queue, history, answers, cut>>
        /\ \E s \in {"checked", "locked"} : pc' = [pc EXCEPT ![p] = s]
        /\ \A q \in Proc \ {p} : run'[q] = run[q]
    BY <1>2 DEF CheckLock, WriteLock, RowsInv, RunsType
  <2>2. pc'[p] \in {"checked", "locked"} /\ \A q \in Proc \ {p} : pc'[q] = pc[q]
    BY <2>1 DEF RowsInv, PcType
  <2>3. FreshRows' /\ answers' \subseteq Knobs
    BY <2>1 DEF FreshInv, FreshRows, CutShort
  <2>4. ASSUME NEW q \in Proc PROVE Fresh(q)'
    <3>1. CASE q = p
      BY <2>2, <3>1 DEF Fresh, Trying, Reports, ReportPcs
    <3>2. CASE q # p
      <4>1. pc'[q] = pc[q] /\ run'[q] = run[q] /\ Fresh(q)
        BY <2>1, <2>2, <3>2 DEF FreshInv
      <4> QED
        BY <2>1, <4>1, CutSame DEF Fresh, Reports
    <3> QED
      BY <3>1, <3>2
  <2>5. ASSUME NEW k \in answers' PROVE Answered(k)'
    <3>1. Answered(k)
      BY <2>1 DEF FreshInv
    <3>2. \A q \in Proc : Reports(q) => q # p
      BY <2>1 DEF Reports, ReportPcs
    <3> QED
      BY <2>1, <2>2, <3>1, <3>2 DEF Answered, Reports, CutShort
  <2> QED
    BY <2>3, <2>4, <2>5 DEF FreshInv
<1>3. ASSUME NEW p \in Proc, PickKnob(p)
      PROVE  FreshInv'
  <2>1. pc[p] = "locked" /\ UNCHANGED <<queue, history, answers, cut>>
    BY <1>3 DEF PickKnob
  <2>2. Inside(p) /\ ~Reports(p)
    BY <2>1 DEF Inside, Reports, ReportPcs
  <2>3. CASE Exit(p)
    BY <2>1, <2>2, <2>3, FreshMove DEF Exit
  <2>4. ASSUME NEW k \in Unmarked(queue), pc' = [pc EXCEPT ![p] = "picked"],
               run' = [run EXCEPT ![p].knob = k, ![p].line = queue[k]]
        PROVE  FreshInv'
    <3>1. run'[p].knob = k /\ queue[k] = ""
      BY <2>4 DEF RowsInv, RunsType, Runs, Unmarked
    <3>2. k \in answers => CutShort(k)
      BY <2>2, <3>1, OnlyOwnMark
    <3> QED
      BY <2>1, <2>2, <2>4, <3>1, <3>2, FreshMove DEF Trying
  <2> QED
    BY <1>3, <2>3, <2>4 DEF PickKnob
<1>4. ASSUME NEW p \in Proc,
             \/ RemoveContainer(p) \/ RunContainer(p) \/ InspectContainer(p)
             \/ StartSucceeds(p) \/ SingleStream(p) \/ (StartFails(p) /\ run[p].attempt = 1)
      PROVE  FreshInv'
  <2>1. pc[p] \in Trying \ {"concurrent"} /\ UNCHANGED <<queue, history, answers, cut>>
    BY <1>4 DEF RemoveContainer, RunContainer, InspectContainer, StartSucceeds,
                SingleStream, StartFails, Trying
  <2>2. Inside(p) /\ ~Reports(p)
    BY <2>1 DEF Inside, Reports, ReportPcs, Trying
  <2>3. PICK s \in {"off"} \cup Trying : pc' = [pc EXCEPT ![p] = s]
    <3>1. CASE RemoveContainer(p) \/ RunContainer(p) \/ InspectContainer(p)
      BY <3>1 DEF RemoveContainer, RunContainer, InspectContainer, Exit, Trying
    <3>2. CASE StartSucceeds(p) \/ SingleStream(p) \/ (StartFails(p) /\ run[p].attempt = 1)
      BY <3>2 DEF StartSucceeds, SingleStream, StartFails, Exit, Trying
    <3> QED
      BY <1>4, <3>1, <3>2
  <2>4. run'[p].knob = run[p].knob
    <3>1. CASE UNCHANGED run
      BY <3>1
    <3>2. CASE SingleStream(p)
      BY <3>2 DEF SingleStream, RowsInv, RunsType, Runs
    <3>3. CASE StartFails(p) /\ run[p].attempt = 1
      BY <3>3 DEF StartFails, RowsInv, RunsType, Runs
    <3> QED
      BY <1>4, <3>1, <3>2, <3>3 DEF RemoveContainer, RunContainer, InspectContainer, StartSucceeds
  <2>5. CutShort(run'[p].knob) \/ run'[p].knob \notin answers
    BY <2>1, <2>4 DEF FreshInv, Fresh
  <2> QED
    BY <2>1, <2>2, <2>3, <2>5, FreshMove
<1>5. ASSUME NEW p \in Proc, StartFails(p), run[p].attempt # 1
      PROVE  FreshInv'
  <2> DEFINE r == [run[p] EXCEPT !.verdict = "FAIL"]
  <2>1. pc[p] = "waiting" /\ UNCHANGED <<queue, history, answers, cut>> /\ Report(p, r)
    BY <1>5 DEF StartFails
  <2>2. r \in Runs /\ r.verdict = "FAIL"
    BY ZenonT(40), RunsFacts, SetFailed DEF Verdicts
  <2>3. r.knob = run[p].knob
    BY RunsFacts DEF Runs
  <2>4. Inside(p) /\ ~Reports(p)
    BY <2>1 DEF Inside, Reports, ReportPcs
  <2>5. r.verdict \in Marks /\ r.verdict # "DONE"
    BY <2>2 DEF Marks
  <2> HIDE DEF r
  <2> QED
    BY <2>1, <2>2, <2>3, <2>4, <2>5, FreshReport
<1>6. ASSUME NEW p \in Proc, Concurrent(p)
      PROVE  FreshInv'
  <2>1. pc[p] = "concurrent" /\ UNCHANGED <<queue, history, cut>>
    BY <1>6 DEF Concurrent
  <2>2. Inside(p) /\ ~Reports(p) /\ "DONE" \in Marks
    BY <2>1 DEF Inside, Reports, ReportPcs, Marks
  <2>3. PICK r \in Runs : /\ r.verdict = "DONE" /\ r.knob = run[p].knob
                          /\ r.fresh \/ run[p].knob \in answers
                          /\ Report(p, r)
    BY <1>6, ConcurrentReports
  <2>4. answers' \subseteq answers \cup {run[p].knob}
    BY <1>6, ConcurrentReports
  <2>5. r.fresh \/ CutShort(r.knob)
    BY <2>1, <2>3 DEF FreshInv, Fresh, Trying
  <2> QED
    BY <2>1, <2>2, <2>3, <2>4, <2>5, FreshReport
<1>7. ASSUME NEW p \in Proc,
             WriteRow(p) \/ ReadQueue(p) \/ TruncateQueue(p) \/ WriteQueue(p) \/ Kill(p)
      PROVE  FreshInv'
  BY <1>7, FreshWriteRow, FreshReadQueue, FreshTruncate, FreshWriteQueue, FreshKill
<1>8. ASSUME NEW p \in Proc, Finish(p)
      PROVE  FreshInv'
  <2>1. /\ pc[p] = "reporting" /\ NextStep(p) = "none" /\ pc' = [pc EXCEPT ![p] = "off"]
        /\ UNCHANGED <<queue, history, run, answers, cut>>
    BY <1>8 DEF Finish, Exit
  <2>2. Inside(p) /\ pc'[p] = "off" /\ \A q \in Proc \ {p} : pc'[q] = pc[q]
    BY <2>1 DEF RowsInv, PcType, Inside
  <2>3. run[p].todo \notin Unfinished
    BY <2>1 DEF NextStep, Unfinished
  <2>4. FreshRows' /\ answers' \subseteq Knobs
    BY <2>1 DEF FreshInv, FreshRows, CutShort
  <2>5. \A k \in answers' : Answered(k)'
    BY <2>1, <2>2, <2>3, OnlyOwnMark DEF Answered, CutShort
  <2>6. Fresh(p)'
    BY <2>2 DEF Fresh, Trying, Reports, ReportPcs
  <2> QED
    BY <2>2, <2>4, <2>5, <2>6, FreshAfter DEF RowsInv
<1> QED
  BY <1>1, <1>2, <1>3, <1>4, <1>5, <1>6, <1>7, <1>8 DEF Next, Step

LEMMA FreshInvariant == ~Overlap => (Spec => []FreshInv)
<1> SUFFICES ASSUME ~Overlap PROVE Spec => []FreshInv
  OBVIOUS
<1>1. Init => FreshInv
  <2> SUFFICES ASSUME Init PROVE FreshInv
    OBVIOUS
  <2>1. answers = {} /\ Len(history) = 0 /\ \A p \in Proc : pc[p] = "off"
    BY DEF Init
  <2> QED
    BY <2>1 DEF FreshInv, FreshRows, Fresh, Trying, Reports, ReportPcs
<1>2. MutualExclusion /\ RowsInv /\ FreshInv /\ [Next]_vars => FreshInv'
  BY FreshStep
<1>3. Spec => []MutualExclusion
  BY Excludes
<1> QED
  BY <1>1, <1>2, <1>3, RowsInvariant, PTL DEF Spec

\* The container's name and the answer files in /tmp are shared by all
\* invocations, and any request may go unanswered; while the lock excludes, what a
\* row counts that is not its own was left by an invocation killed in its
\* benchmark or report of the same knob.
THEOREM MeasuresOwn == ~Overlap => (Spec => []OwnMeasurement)
<1> SUFFICES ASSUME ~Overlap PROVE Spec => []OwnMeasurement
  OBVIOUS
<1>1. OwnInv /\ FreshInv => OwnMeasurement
  BY DEF OwnInv, OwnRows, FreshInv, FreshRows, OwnMeasurement
<1>2. Spec => []OwnInv
  BY OwnInvariant
<1>3. Spec => []FreshInv
  BY FreshInvariant
<1> QED
  BY <1>1, <1>2, <1>3, PTL

-----------------------------------------------------------------------------
(* Who has tried a knob and ends by itself has marked it.                  *)

\* The line of the knob in hand is without a mark until the invocation has
\* written it, and marked from then on.
Marked(p) ==
  /\ pc[p] \in Trying => queue[run[p].knob] = ""
  /\ pc[p] = "reporting" =>
       IF run[p].todo \in Unfinished THEN queue[run[p].knob] = ""
       ELSE queue[run[p].knob] \in Marks
  /\ pc[p] \in {"marking", "writing"} => run[p].copy[run[p].knob] = ""

MarkedInv == kills \in Nat /\ unanswered \in Nat /\ \A p \in Proc : Marked(p)

\* The action property, as a formula of two states.
LeavesMarked ==
  \A p \in Proc :
    Tried(p) /\ pc'[p] = "off" /\ kills' = kills /\ unanswered' = unanswered =>
      queue'[run[p].knob] \in Marks

\* Again only the acting invocation has to be looked at.
LEMMA MarkedAfter ==
  ASSUME MutualExclusion, MarkedInv, PcType, NEW p \in Proc, Inside(p),
         UNCHANGED <<kills, unanswered>>, Marked(p)',
         \/ pc'[p] # "off" \/ queue'[run[p].knob] \in Marks
         \/ pc[p] \in {"locked", "picked", "removed"},
         \A q \in Proc \ {p} : pc'[q] = pc[q]
  PROVE  MarkedInv' /\ LeavesMarked
<1>1. \A q \in Proc \ {p} : pc[q] \in {"off", "checked"}
  BY DEF MutualExclusion, Inside
<1>2. \A q \in Proc \ {p} : Marked(q)'
  BY <1>1 DEF Marked, Trying
<1> QED
  BY <1>1, <1>2 DEF MarkedInv, LeavesMarked, Tried

\* A step before the report, of an invocation that has a container or ends
\* before it starts one.
LEMMA MarkedMove ==
  ASSUME MutualExclusion, RowsInv, MarkedInv, NEW p \in Proc, Inside(p),
         UNCHANGED <<queue, kills, unanswered>>,
         NEW s \in {"off"} \cup Trying, pc' = [pc EXCEPT ![p] = s],
         s = "off" => pc[p] \in {"locked", "picked", "removed"},
         s # "off" => queue[run'[p].knob] = ""
  PROVE  MarkedInv' /\ LeavesMarked
<1>1. pc'[p] = s /\ \A q \in Proc \ {p} : pc'[q] = pc[q]
  BY DEF RowsInv, PcType
<1>2. Marked(p)'
  BY <1>1 DEF Marked, Trying
<1> QED
  BY <1>1, <1>2, MarkedAfter DEF RowsInv

\* A report starts with its mark to write.
LEMMA MarkedReport ==
  ASSUME MutualExclusion, RowsInv, MarkedInv, NEW p \in Proc, pc[p] \in Trying,
         UNCHANGED <<queue, kills, unanswered>>, NEW r \in Runs, r.knob = run[p].knob, Report(p, r)
  PROVE  MarkedInv' /\ LeavesMarked
<1>1. run'[p] = [r EXCEPT !.todo = ReportSteps(r.verdict)] /\ pc' = [pc EXCEPT ![p] = "reporting"]
  BY DEF Report, RowsInv, RunsType
<1>2. run'[p].knob = run[p].knob /\ run'[p].todo = ReportSteps(r.verdict)
  BY <1>1 DEF Runs
<1>3. run'[p].todo \in Unfinished
  BY <1>2 DEF ReportSteps, Unfinished
<1>4. Inside(p) /\ pc'[p] = "reporting" /\ \A q \in Proc \ {p} : pc'[q] = pc[q]
  BY <1>1 DEF RowsInv, PcType, Inside, Trying
<1>5. Marked(p)'
  BY <1>2, <1>3, <1>4 DEF MarkedInv, Marked, Trying
<1> QED
  BY <1>4, <1>5, MarkedAfter DEF RowsInv

LEMMA MarkedWriteRow ==
  ASSUME MutualExclusion, RowsInv, MarkedInv, NEW p \in Proc, WriteRow(p)
  PROVE  MarkedInv' /\ LeavesMarked
<1>1. /\ pc[p] = "reporting" /\ NextStep(p) = "row" /\ UNCHANGED <<pc, queue, kills, unanswered>>
      /\ run' = [run EXCEPT ![p].todo = Tail(@)]
  BY DEF WriteRow
<1>2. run'[p].knob = run[p].knob /\ run'[p].todo = Tail(run[p].todo)
  BY <1>1 DEF RowsInv, RunsType, Runs
<1>3. run[p].todo \in Unfinished <=> Tail(run[p].todo) \in Unfinished
  <2>1. run[p].todo \in Plans /\ run[p].todo # <<>> /\ Head(run[p].todo) = "row"
    BY <1>1 DEF NextStep, RowsInv, RunsType, Runs
  <2>2. run[p].todo \in {<<"row", "mark">>, <<"row">>}
    BY <2>1, PlanSteps
  <2>3. CASE run[p].todo = <<"row", "mark">>
    BY <2>3, PlanSteps, Zenon DEF Unfinished
  <2>4. CASE run[p].todo = <<"row">>
    BY <2>4, PlanSteps, RowIsFinished, Zenon
  <2> QED
    BY <2>2, <2>3, <2>4
<1>4. Marked(p)'
  BY <1>1, <1>2, <1>3 DEF MarkedInv, Marked, Trying
<1>5. Inside(p)
  BY <1>1 DEF Inside
<1> QED
  BY <1>1, <1>4, <1>5, MarkedAfter DEF RowsInv

LEMMA MarkedReadQueue ==
  ASSUME MutualExclusion, RowsInv, MarkedInv, NEW p \in Proc, ReadQueue(p)
  PROVE  MarkedInv' /\ LeavesMarked
<1>1. /\ pc[p] = "reporting" /\ pc' = [pc EXCEPT ![p] = "marking"] /\ UNCHANGED <<kills, unanswered>>
      /\ NextStep(p) = "mark" /\ run' = [run EXCEPT ![p].copy = queue]
  BY DEF ReadQueue
<1>2. run'[p].knob = run[p].knob /\ run'[p].copy = queue
  BY <1>1 DEF RowsInv, RunsType, Runs
<1>3. run[p].todo \in Unfinished
  <2>1. run[p].todo \in Plans /\ run[p].todo # <<>> /\ Head(run[p].todo) = "mark"
    BY <1>1 DEF NextStep, RowsInv, RunsType, Runs
  <2> QED
    BY <2>1, PlanSteps DEF Unfinished
<1>4. Inside(p) /\ pc'[p] = "marking" /\ \A q \in Proc \ {p} : pc'[q] = pc[q]
  BY <1>1 DEF RowsInv, PcType, Inside
<1>5. queue[run[p].knob] = ""
  BY <1>1, <1>3 DEF MarkedInv, Marked
<1>6. Marked(p)'
  BY <1>2, <1>4, <1>5 DEF Marked, Trying
<1> QED
  BY <1>1, <1>4, <1>6, MarkedAfter DEF RowsInv

LEMMA MarkedTruncate ==
  ASSUME MutualExclusion, RowsInv, MarkedInv, NEW p \in Proc, TruncateQueue(p)
  PROVE  MarkedInv' /\ LeavesMarked
<1>1. pc[p] = "marking" /\ pc' = [pc EXCEPT ![p] = "writing"] /\ UNCHANGED <<run, kills, unanswered>>
  BY DEF TruncateQueue
<1>2. Inside(p) /\ pc'[p] = "writing" /\ \A q \in Proc \ {p} : pc'[q] = pc[q]
  BY <1>1 DEF RowsInv, PcType, Inside
<1>3. Marked(p)'
  BY <1>1, <1>2 DEF MarkedInv, Marked, Trying
<1> QED
  BY <1>1, <1>2, <1>3, MarkedAfter DEF RowsInv

LEMMA MarkedWriteQueue ==
  ASSUME MutualExclusion, RowsInv, MarkedInv, NEW p \in Proc, WriteQueue(p)
  PROVE  MarkedInv' /\ LeavesMarked
<1>1. /\ pc[p] = "writing" /\ pc' = [pc EXCEPT ![p] = "reporting"] /\ UNCHANGED <<kills, unanswered>>
      /\ queue' = NewLines(p) /\ run' = [run EXCEPT ![p].todo = Tail(@)]
  BY DEF WriteQueue
<1>2. run'[p].knob = run[p].knob /\ run'[p].todo = Tail(run[p].todo) /\ run[p].knob \in Knobs
  BY <1>1 DEF RowsInv, RunsType, Runs
<1>3. run[p].line = "" /\ run[p].verdict \in Marks /\ run[p].copy[run[p].knob] = ""
  BY <1>1 DEF RowsInv, RunsType, Runs, RowFirst, Reports, ReportPcs, MarkedInv, Marked
<1>4. queue'[run[p].knob] \in Marks
  BY <1>1, <1>2, <1>3 DEF NewLines
<1>5. Tail(run[p].todo) \notin Unfinished
  <2>1. run[p].todo \in {<<"mark">>, <<"mark", "row">>}
    BY <1>1 DEF RowsInv, CopyHasRows
  <2> QED
    BY <2>1, PlanSteps, RowIsFinished
<1>6. Inside(p) /\ pc'[p] = "reporting" /\ \A q \in Proc \ {p} : pc'[q] = pc[q]
  BY <1>1 DEF RowsInv, PcType, Inside
<1>7. Marked(p)'
  BY <1>2, <1>4, <1>5, <1>6 DEF Marked, Trying
<1> QED
  BY <1>1, <1>6, <1>7, MarkedAfter DEF RowsInv

LEMMA MarkedFinish ==
  ASSUME MutualExclusion, RowsInv, MarkedInv, NEW p \in Proc, Finish(p)
  PROVE  MarkedInv' /\ LeavesMarked
<1>1. /\ pc[p] = "reporting" /\ NextStep(p) = "none" /\ pc' = [pc EXCEPT ![p] = "off"]
      /\ UNCHANGED <<queue, run, kills, unanswered>>
  BY DEF Finish, Exit
<1>2. run[p].todo \notin Unfinished
  BY <1>1 DEF NextStep, Unfinished
<1>3. queue'[run[p].knob] \in Marks
  BY <1>1, <1>2 DEF MarkedInv, Marked
<1>4. Inside(p) /\ pc'[p] = "off" /\ \A q \in Proc \ {p} : pc'[q] = pc[q]
  BY <1>1 DEF RowsInv, PcType, Inside
<1>5. Marked(p)'
  BY <1>4 DEF Marked, Trying
<1> QED
  BY <1>1, <1>3, <1>4, <1>5, MarkedAfter DEF RowsInv

\* A kill ends one invocation and is not an end of its own; the queue changes
\* only if the killed one was writing, and then nobody else has a knob in hand.
LEMMA MarkedKill ==
  ASSUME HillclimbAssumption, MutualExclusion, RowsInv, MarkedInv, NEW p \in Proc, Kill(p)
  PROVE  MarkedInv' /\ LeavesMarked
<1>1. pc' = [pc EXCEPT ![p] = "off"] /\ kills' = kills + 1
      /\ UNCHANGED <<run, unanswered>>
  BY DEF Kill
<1>2. kills' \in Nat /\ kills' # kills /\ unanswered' \in Nat
  BY <1>1 DEF MarkedInv
<1>3. pc'[p] = "off" /\ \A q \in Proc \ {p} : pc'[q] = pc[q]
  BY <1>1 DEF RowsInv, PcType
<1>4. ASSUME NEW q \in Proc PROVE Marked(q)'
  <2>1. CASE q = p \/ ~Inside(q)
    BY <1>3, <2>1 DEF Marked, Trying, Inside
  <2>2. CASE q # p /\ Inside(q)
    <3>1. pc[p] # "writing"
      BY <2>2, InsideAlone DEF Inside
    <3>2. queue' = queue
      BY <3>1, KillLeaves
    <3> QED
      BY <1>1, <1>3, <2>2, <3>2 DEF MarkedInv, Marked
  <2> QED
    BY <2>1, <2>2
<1> QED
  BY <1>2, <1>4 DEF MarkedInv, LeavesMarked

\* The single-stream benchmark moves on, or ends the invocation over a request
\* without an answer.
LEMMA MarkedSingle ==
  ASSUME MutualExclusion, RowsInv, MarkedInv, NEW p \in Proc, SingleStream(p)
  PROVE  MarkedInv' /\ LeavesMarked
<1>1. pc[p] = "single" /\ UNCHANGED <<queue, kills>>
  BY DEF SingleStream
<1>2. Inside(p) /\ queue[run[p].knob] = ""
  BY <1>1 DEF Inside, MarkedInv, Marked, Trying
<1>3. CASE UNCHANGED unanswered
  <2>1. /\ pc' = [pc EXCEPT ![p] = "concurrent"]
        /\ run' = [run EXCEPT ![p].own = (container = Me(p))]
    BY <1>3 DEF SingleStream, MarkedInv
  <2>2. run'[p].knob = run[p].knob
    BY <2>1 DEF RowsInv, RunsType, Runs
  <2> QED
    BY <1>1, <1>2, <1>3, <2>1, <2>2, MarkedMove DEF Trying
<1>4. CASE unanswered' # unanswered
  <2>1. unanswered' = unanswered + 1 /\ pc' = [pc EXCEPT ![p] = "off"] /\ run' = run
    BY <1>4 DEF SingleStream, Exit
  <2>2. pc'[p] = "off" /\ \A q \in Proc \ {p} : pc'[q] = pc[q]
    BY <2>1 DEF RowsInv, PcType
  <2>3. \A q \in Proc : Marked(q)'
    BY <1>1, <2>1, <2>2 DEF MarkedInv, Marked, Trying
  <2> QED
    BY <1>1, <1>4, <2>1, <2>3 DEF MarkedInv, LeavesMarked
<1> QED
  BY <1>3, <1>4

LEMMA MarkedStep ==
  ASSUME HillclimbAssumption, MutualExclusion, RowsInv, OwnInv, MarkedInv, [Next]_vars
  PROVE  MarkedInv' /\ LeavesMarked
<1>1. CASE LockAges \/ Stopped \/ UNCHANGED vars
  BY <1>1 DEF LockAges, Stopped, vars, MarkedInv, Marked, LeavesMarked, Tried
<1>2. ASSUME NEW p \in Proc, CheckLock(p) \/ WriteLock(p)
      PROVE  MarkedInv' /\ LeavesMarked
  <2>1. /\ UNCHANGED <<queue, kills, unanswered>> /\ \A q \in Proc \ {p} : run'[q] = run[q]
        /\ \E s \in {"checked", "locked"} : pc' = [pc EXCEPT ![p] = s]
    BY <1>2 DEF CheckLock, WriteLock, RowsInv, RunsType
  <2>2. pc'[p] \in {"checked", "locked"} /\ \A q \in Proc \ {p} : pc'[q] = pc[q]
    BY <2>1 DEF RowsInv, PcType
  <2>3. ASSUME NEW q \in Proc PROVE Marked(q)' /\ (pc'[q] = "off" => pc[q] = "off")
    BY <2>1, <2>2 DEF MarkedInv, Marked, Trying
  <2> QED
    BY <2>1, <2>3 DEF MarkedInv, LeavesMarked, Tried
<1>3. ASSUME NEW p \in Proc, PickKnob(p)
      PROVE  MarkedInv' /\ LeavesMarked
  <2>1. pc[p] = "locked" /\ UNCHANGED <<queue, kills, unanswered>> /\ Inside(p)
    BY <1>3 DEF PickKnob, Inside
  <2>2. CASE Exit(p)
    BY <2>1, <2>2, MarkedMove DEF Exit
  <2>3. ASSUME NEW k \in Unmarked(queue), pc' = [pc EXCEPT ![p] = "picked"],
               run' = [run EXCEPT ![p].knob = k, ![p].line = queue[k]]
        PROVE  MarkedInv' /\ LeavesMarked
    <3>1. run'[p].knob = k /\ queue[k] = ""
      BY <2>3 DEF RowsInv, RunsType, Runs, Unmarked
    <3> QED
      BY <2>1, <2>3, <3>1, MarkedMove DEF Trying
  <2> QED
    BY <1>3, <2>2, <2>3 DEF PickKnob
<1>4. ASSUME NEW p \in Proc, RemoveContainer(p) \/ RunContainer(p)
      PROVE  MarkedInv' /\ LeavesMarked
  <2>1. pc[p] \in {"picked", "removed"} /\ UNCHANGED <<queue, kills, unanswered, run>>
    BY <1>4 DEF RemoveContainer, RunContainer
  <2>2. Inside(p) /\ queue[run[p].knob] = ""
    BY <2>1 DEF Inside, MarkedInv, Marked, Trying
  <2>3. PICK s \in {"off"} \cup Trying : pc' = [pc EXCEPT ![p] = s]
    BY <1>4 DEF RemoveContainer, RunContainer, Exit, Trying
  <2> QED
    BY <2>1, <2>2, <2>3, MarkedMove
<1>5. ASSUME NEW p \in Proc, InspectContainer(p) \/ StartSucceeds(p)
      PROVE  MarkedInv' /\ LeavesMarked
  <2>1. pc[p] \in {"started", "waiting"} /\ UNCHANGED <<queue, kills, unanswered, run>>
    BY <1>5 DEF InspectContainer, StartSucceeds
  <2>2. Inside(p) /\ queue[run[p].knob] = ""
    BY <2>1 DEF Inside, MarkedInv, Marked, Trying
  <2>3. container # Nobody
    <3>1. container = Me(p) /\ starts[p] > 0
      BY <2>1, <2>2 DEF OwnInv, Owns
    <3> QED
      BY <3>1 DEF Me, Nobody
  <2>4. PICK s \in {"waiting", "single"} : pc' = [pc EXCEPT ![p] = s]
    BY <1>5, <2>3 DEF InspectContainer, StartSucceeds
  <2> QED
    BY <2>1, <2>2, <2>4, MarkedMove DEF Trying
<1>6. ASSUME NEW p \in Proc, StartFails(p)
      PROVE  MarkedInv' /\ LeavesMarked
  <2>1. pc[p] = "waiting" /\ pc[p] \in Trying /\ UNCHANGED <<queue, kills, unanswered>>
    BY <1>6 DEF StartFails, Trying
  <2>2. Inside(p) /\ queue[run[p].knob] = ""
    BY <2>1 DEF Inside, MarkedInv, Marked
  <2>3. CASE run[p].attempt = 1
    <3>1. pc' = [pc EXCEPT ![p] = "picked"] /\ run' = [run EXCEPT ![p].attempt = 2]
      BY <1>6, <2>3 DEF StartFails
    <3>2. run'[p].knob = run[p].knob
      BY <3>1 DEF RowsInv, RunsType, Runs
    <3> QED
      BY <2>1, <2>2, <3>1, <3>2, MarkedMove DEF Trying
  <2>4. CASE run[p].attempt # 1
    <3> DEFINE r == [run[p] EXCEPT !.verdict = "FAIL"]
    <3>1. r \in Runs
      BY ZenonT(40), RunsFacts, SetFailed DEF Verdicts
    <3>2. r.knob = run[p].knob
      BY RunsFacts DEF Runs
    <3>3. Report(p, r)
      BY <1>6, <2>4 DEF StartFails
    <3> HIDE DEF r
    <3> QED
      BY <2>1, <3>1, <3>2, <3>3, MarkedReport
  <2> QED
    BY <2>3, <2>4
<1>7. ASSUME NEW p \in Proc, Concurrent(p)
      PROVE  MarkedInv' /\ LeavesMarked
  <2>1. pc[p] \in Trying /\ UNCHANGED <<queue, kills, unanswered>>
    BY <1>7 DEF Concurrent, Trying
  <2>2. PICK r \in Runs : r.knob = run[p].knob /\ Report(p, r)
    BY <1>7, ConcurrentReports
  <2> QED
    BY <2>1, <2>2, MarkedReport
<1>8. ASSUME NEW p \in Proc,
             \/ WriteRow(p) \/ ReadQueue(p) \/ TruncateQueue(p) \/ WriteQueue(p)
             \/ Finish(p) \/ Kill(p)
      PROVE  MarkedInv' /\ LeavesMarked
  BY <1>8, MarkedWriteRow, MarkedReadQueue, MarkedTruncate, MarkedWriteQueue, MarkedFinish,
     MarkedKill
<1>9. ASSUME NEW p \in Proc, SingleStream(p)
      PROVE  MarkedInv' /\ LeavesMarked
  BY <1>9, MarkedSingle
<1> QED
  BY <1>1, <1>2, <1>3, <1>4, <1>5, <1>6, <1>7, <1>8, <1>9 DEF Next, Step

\* While the lock excludes, whoever has started a container and ends by itself
\* leaves its knob marked, but for an end over a single-stream request without an
\* answer (the run hill_unmarked shows that one).
THEOREM TriedKnobsAreMarked == ~Overlap => (Spec => EndsMarked)
<1> SUFFICES ASSUME ~Overlap PROVE Spec => EndsMarked
  OBVIOUS
<1>1. Init => MarkedInv
  <2> SUFFICES ASSUME Init PROVE MarkedInv
    OBVIOUS
  <2>1. kills \in Nat /\ unanswered \in Nat /\ \A p \in Proc : pc[p] = "off"
    BY DEF Init
  <2> QED
    BY <2>1 DEF MarkedInv, Marked, Trying
<1>2. MutualExclusion /\ RowsInv /\ OwnInv /\ MarkedInv /\ [Next]_vars
        => MarkedInv' /\ [LeavesMarked]_vars
  BY HillclimbAssumption, MarkedStep
<1>3. Spec => []MutualExclusion
  BY Excludes
<1>4. Spec => []OwnInv
  BY OwnInvariant
<1>5. [LeavesMarked]_vars
        <=> [\A p \in Proc :
              Tried(p) /\ pc'[p] = "off" /\ kills' = kills /\ unanswered' = unanswered =>
                queue'[run[p].knob] \in Marks]_vars
  BY DEF LeavesMarked
<1> QED
  BY <1>1, <1>2, <1>3, <1>4, <1>5, RowsInvariant, PTL DEF Spec, EndsMarked
=============================================================================

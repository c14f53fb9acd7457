----------------------------- MODULE HillclimbIter -----------------------------
(***************************************************************************)
(* hillclimb_iter.sh: one tuning iteration per invocation.  It takes a     *)
(* lock file, picks the first unmarked knob of the queue, relaunches the   *)
(* one container with that knob, benchmarks it and records the result: a   *)
(* row in HILLCLIMB.md and a mark in knob_queue.txt.                       *)
(*                                                                         *)
(* Invocations come from cron and by hand.  The script runs under set -e,  *)
(* so a failing command ends it through its EXIT trap; a kill -9 or a      *)
(* reboot ends it without, wherever it is.  The queue is written in place: *)
(* open(.., 'w') empties the file, then its lines are written.             *)
(***************************************************************************)
EXTENDS Integers, Sequences

CONSTANTS
  Proc,         \* who starts invocations
  Cron,         \* the one that keeps doing so
  NumKnobs,     \* lines of the queue
  MaxStarts,    \* bound: invocations of each process
  MaxKills,     \* bound: invocations killed without their trap
  MaxUnanswered,\* bound: invocations that end over a request without an answer
  Overlap       \* may an invocation start between another's check and write of
                \* the lock, or outlive the 900 s after which a lock is stale?

ASSUME HillclimbAssumption ==
  /\ Cron \in Proc /\ NumKnobs \in Nat \ {0} /\ Overlap \in BOOLEAN
  /\ MaxStarts \in Nat /\ MaxKills \in Nat /\ MaxUnanswered \in Nat

VARIABLES
  lock,      \* hillclimb.lock: whether it exists, who wrote it, older than 900 s
  queue,     \* knob_queue.txt: the mark of each line, "" if it has none and
             \* "gone" if the line is not in the file
  history,   \* HILLCLIMB.md: the result rows, in order
  container, \* the container named $CONTAINER: who started it, or nobody
  answers,   \* knobs whose /tmp/resp_<knob>_* files exist
  pc,        \* where each invocation is
  run,       \* its variables
  starts, kills, unanswered,
  cut        \* history variable: for the invocations killed from the concurrent
             \* benchmark to the report, their knob and where they were

vars == <<lock, queue, history, container, answers, pc, run, starts, kills, unanswered, cut>>

Knobs  == 1 .. NumKnobs
Marks  == {"DONE", "FAIL"}
Nobody == [by |-> Cron, start |-> 0]
Free   == [held |-> FALSE, by |-> Cron, stale |-> FALSE]
NewRun == [knob |-> 1, line |-> "", attempt |-> 1, own |-> TRUE, fresh |-> TRUE,
           verdict |-> "", todo |-> <<>>, copy |-> <<>>]

Init ==
  /\ lock = Free /\ queue = [k \in Knobs |-> ""] /\ history = <<>>
  /\ container = Nobody /\ answers = {}
  /\ pc = [p \in Proc |-> "off"] /\ run = [p \in Proc |-> NewRun]
  /\ starts = [p \in Proc |-> 0] /\ kills = 0 /\ unanswered = 0 /\ cut = {}

Me(p) == [by |-> p, start |-> starts[p]]

\* The trap removes the lock, whoever wrote it.
Exit(p) == lock' = Free /\ pc' = [pc EXCEPT ![p] = "off"]

-----------------------------------------------------------------------------
(* The lock: a test of the file and its age, then a write.                 *)
MayTakeFreeOnly == ~lock.held   \* mutant: a stale lock is respected for ever
MayTakeAlways   == TRUE         \* mutant: the lock is not looked at
MayTake         == ~lock.held \/ lock.stale

CheckLock(p) ==
  /\ pc[p] = "off" /\ starts[p] < MaxStarts
  /\ Overlap \/ \A q \in Proc : pc[q] # "checked"
  /\ MayTake
  /\ pc' = [pc EXCEPT ![p] = "checked"]
  /\ UNCHANGED <<lock, queue, history, container, answers, run, starts, kills, unanswered, cut>>

WriteLock(p) ==
  /\ pc[p] = "checked"
  /\ lock' = [held |-> TRUE, by |-> p, stale |-> FALSE]
  /\ pc' = [pc EXCEPT ![p] = "locked"]
  /\ starts' = [starts EXCEPT ![p] = @ + 1]
  /\ run' = [run EXCEPT ![p] = NewRun]
  /\ UNCHANGED <<queue, history, container, answers, kills, unanswered, cut>>

LockAges ==
  /\ lock.held /\ ~lock.stale
  /\ Overlap \/ pc[lock.by] = "off"
  /\ lock' = [lock EXCEPT !.stale = TRUE]
  /\ UNCHANGED <<queue, history, container, answers, pc, run, starts, kills, unanswered, cut>>

-----------------------------------------------------------------------------
(* The queue: the first line without a mark.                               *)
UnmarkedUnlessDone(q) == {k \in Knobs : q[k] \in {"", "FAIL"}}   \* mutant: FAIL is no mark
Unmarked(q)           == {k \in Knobs : q[k] = ""}

PickKnob(p) ==
  /\ pc[p] = "locked"
  /\ IF Unmarked(queue) = {} THEN Exit(p) /\ UNCHANGED run
     ELSE \E k \in Unmarked(queue) :
            /\ \A j \in Unmarked(queue) : k <= j
            /\ run' = [run EXCEPT ![p].knob = k, ![p].line = queue[k]]
            /\ pc' = [pc EXCEPT ![p] = "picked"] /\ UNCHANGED lock
  /\ UNCHANGED <<queue, history, container, answers, starts, kills, unanswered, cut>>

-----------------------------------------------------------------------------
(* The container: at most two attempts.                                    *)
RemoveContainer(p) ==
  /\ pc[p] = "picked"
  /\ container' = Nobody /\ pc' = [pc EXCEPT ![p] = "removed"]
  /\ UNCHANGED <<lock, queue, history, answers, run, starts, kills, unanswered, cut>>

\* docker run --name fails when the name is taken.
RunContainer(p) ==
  /\ pc[p] = "removed"
  /\ IF container # Nobody THEN Exit(p) /\ UNCHANGED container
     ELSE container' = Me(p) /\ pc' = [pc EXCEPT ![p] = "started"] /\ UNCHANGED lock
  /\ UNCHANGED <<queue, history, answers, run, starts, kills, unanswered, cut>>

\* docker inspect fails when the container is gone.
InspectContainer(p) ==
  /\ pc[p] = "started"
  /\ IF container = Nobody THEN Exit(p)
     ELSE pc' = [pc EXCEPT ![p] = "waiting"] /\ UNCHANGED lock
  /\ UNCHANGED <<queue, history, container, answers, run, starts, kills, unanswered, cut>>

\* How an invocation reports: a failure is marked first, a result is written
\* to the history first.
MarkFirst(verdict)  == <<"mark", "row">>   \* mutant: always the mark first
FailureUnmarked(verdict) ==                \* mutant: a failure only gets its row
  IF verdict = "DONE" THEN <<"row", "mark">> ELSE <<"row">>
ReportSteps(verdict) == IF verdict = "DONE" THEN <<"row", "mark">> ELSE <<"mark", "row">>

Report(p, r) ==
  /\ run' = [run EXCEPT ![p] = [r EXCEPT !.todo = ReportSteps(r.verdict)]]
  /\ pc' = [pc EXCEPT ![p] = "reporting"]

\* Not healthy within ten minutes, dead, or no answer to the warm-up request.
StartFails(p) ==
  /\ pc[p] = "waiting"
  /\ IF run[p].attempt = 1
     THEN run' = [run EXCEPT ![p].attempt = 2] /\ pc' = [pc EXCEPT ![p] = "picked"]
     ELSE Report(p, [run[p] EXCEPT !.verdict = "FAIL"])
  /\ UNCHANGED <<lock, queue, history, container, answers, starts, kills, unanswered, cut>>

StartSucceeds(p) ==
  /\ pc[p] = "waiting" /\ container # Nobody
  /\ pc' = [pc EXCEPT ![p] = "single"]
  /\ UNCHANGED <<lock, queue, history, container, answers, run, starts, kills, unanswered, cut>>

-----------------------------------------------------------------------------
(* The benchmark, on whatever container has the name by now.               *)

\* A request goes unanswered if the engine is dead, or a live one takes longer
\* than the 120 s of --max-time.

\* Single stream and coherence.  An answer with an error counts as no token;
\* no answer to a single-stream request makes the arithmetic fail, which ends
\* the script.
SingleStream(p) ==
  /\ pc[p] = "single"
  /\ \/ /\ container # Nobody
        /\ run' = [run EXCEPT ![p].own = (container = Me(p))]
        /\ pc' = [pc EXCEPT ![p] = "concurrent"] /\ UNCHANGED <<lock, unanswered>>
     \/ /\ container = Nobody \/ unanswered < MaxUnanswered
        /\ unanswered' = unanswered + 1 /\ Exit(p) /\ UNCHANGED run
  /\ UNCHANGED <<queue, history, container, answers, starts, kills, cut>>

\* Concurrent requests: their tokens are counted from files.  A request without
\* an answer leaves its file as an earlier invocation of the same knob left it.
LeftOverAnyKnob(p) == answers # {}   \* mutant: file names without the knob
LeftOver(p)        == run[p].knob \in answers

Concurrent(p) ==
  /\ pc[p] = "concurrent"
  /\ \E some, all \in BOOLEAN :
       /\ all => some
       /\ some => container # Nobody
       /\ Report(p, [run[p] EXCEPT !.own = @ /\ (some => container = Me(p)),
                                    !.fresh = all \/ ~LeftOver(p), !.verdict = "DONE"])
       /\ answers' = IF some THEN answers \cup {run[p].knob} ELSE answers
  /\ UNCHANGED <<lock, queue, history, container, starts, kills, unanswered, cut>>

-----------------------------------------------------------------------------
(* The report.                                                             *)
NextStep(p) == IF run[p].todo = <<>> THEN "none" ELSE Head(run[p].todo)

WriteRow(p) ==
  /\ pc[p] = "reporting" /\ NextStep(p) = "row"
  /\ history' = Append(history, [knob |-> run[p].knob, verdict |-> run[p].verdict,
                                 own |-> run[p].own, fresh |-> run[p].fresh])
  /\ run' = [run EXCEPT ![p].todo = Tail(@)]
  /\ UNCHANGED <<lock, queue, container, answers, pc, starts, kills, unanswered, cut>>

\* The whole queue is read, the file emptied, and written with the mark.
ReadQueue(p) ==
  /\ pc[p] = "reporting" /\ NextStep(p) = "mark"
  /\ run' = [run EXCEPT ![p].copy = queue]
  /\ pc' = [pc EXCEPT ![p] = "marking"]
  /\ UNCHANGED <<lock, queue, history, container, answers, starts, kills, unanswered, cut>>

TruncateQueue(p) ==
  /\ pc[p] = "marking"
  /\ queue' = [k \in Knobs |-> "gone"]
  /\ pc' = [pc EXCEPT ![p] = "writing"]
  /\ UNCHANGED <<lock, history, container, answers, run, starts, kills, unanswered, cut>>

NewLines(p) ==
  [k \in Knobs |-> IF k = run[p].knob /\ run[p].copy[k] = run[p].line
                    THEN run[p].verdict ELSE run[p].copy[k]]

WriteQueue(p) ==
  /\ pc[p] = "writing"
  /\ queue' = NewLines(p)
  /\ run' = [run EXCEPT ![p].todo = Tail(@)]
  /\ pc' = [pc EXCEPT ![p] = "reporting"]
  /\ UNCHANGED <<lock, history, container, answers, starts, kills, unanswered, cut>>

Finish(p) ==
  /\ pc[p] = "reporting" /\ NextStep(p) = "none" /\ Exit(p)
  /\ UNCHANGED <<queue, history, container, answers, run, starts, kills, unanswered, cut>>

\* A kill leaves the lock and the container.  In the concurrent benchmark some
\* answers may have come; in the write of the queue any number of its lines may
\* have reached the file (a line without its end is not read, so it is gone).
Written(p, n) == [k \in Knobs |-> IF k <= n THEN NewLines(p)[k] ELSE "gone"]
Recording     == {"concurrent", "reporting", "marking", "writing"}

Kill(p) ==
  /\ pc[p] # "off" /\ kills < MaxKills
  /\ kills' = kills + 1 /\ pc' = [pc EXCEPT ![p] = "off"]
  /\ IF pc[p] = "writing" THEN \E n \in 0 .. NumKnobs : queue' = Written(p, n)
     ELSE UNCHANGED queue
  /\ \/ UNCHANGED answers
     \/ /\ pc[p] = "concurrent" /\ container # Nobody
        /\ answers' = answers \cup {run[p].knob}
  /\ cut' = IF pc[p] \in Recording THEN cut \cup {<<run[p].knob, pc[p]>>} ELSE cut
  /\ UNCHANGED <<lock, history, container, run, starts, unanswered>>

Stopped ==
  /\ \A p \in Proc : pc[p] = "off" /\ starts[p] = MaxStarts
  /\ UNCHANGED vars

Step(p) ==
  \/ WriteLock(p) \/ PickKnob(p) \/ RemoveContainer(p) \/ RunContainer(p)
  \/ InspectContainer(p) \/ StartFails(p) \/ StartSucceeds(p) \/ SingleStream(p)
  \/ Concurrent(p) \/ WriteRow(p) \/ ReadQueue(p) \/ TruncateQueue(p)
  \/ WriteQueue(p) \/ Finish(p)

Next == LockAges \/ Stopped \/ \E p \in Proc : CheckLock(p) \/ Step(p) \/ Kill(p)

\* Every loop and request of the script is bounded by a count or a time limit,
\* cron keeps firing, and time passes.
Fairness == WF_vars(LockAges) /\ WF_vars(CheckLock(Cron)) /\ \A p \in Proc : WF_vars(Step(p))

Spec == Init /\ [][Next]_vars /\ Fairness

-----------------------------------------------------------------------------
(* Properties                                                              *)

\* Past its lock, an invocation is alone: "Prevent concurrent runs (cron +
\* manual can collide)".
Inside(p) == pc[p] \notin {"off", "checked"}
MutualExclusion == \A p, q \in Proc : Inside(p) /\ Inside(q) => p = q

\* Line k has mark m, in the file or among the lines about to be written to it.
Holds(k, m) == queue[k] = m \/ \E p \in Proc : pc[p] = "writing" /\ NewLines(p)[k] = m

\* No line of the queue is lost, and no mark lost or changed, by an invocation
\* that empties the file and writes back what it had read; a kill between the two
\* may lose lines, but leaves none of the marked ones without its mark.
MarksArePermanent ==
  [][\A k \in Knobs, m \in Marks \cup {""} : Holds(k, m) =>
       \/ Holds(k, m)'
       \/ m = "" /\ \E n \in Marks : Holds(k, n)'
       \/ queue'[k] = "gone" /\ \E p \in Proc : pc[p] = "writing" /\ pc'[p] = "off"]_vars

\* A result row holds what this invocation measured on the container it had
\* started.  Answers of an earlier invocation are counted only if that one was
\* killed from its concurrent benchmark on; no request that goes unanswered, and
\* no other knob, brings them in.
CutShort(k) == \E s \in Recording : <<k, s>> \in cut
OwnMeasurement ==
  \A i \in 1 .. Len(history) : history[i].verdict = "DONE" =>
    history[i].own /\ (history[i].fresh \/ CutShort(history[i].knob))

\* A knob marked DONE has its row, wherever an invocation was killed.
DoneHasRow ==
  \A k \in Knobs : queue[k] = "DONE" =>
    \E i \in 1 .. Len(history) : history[i].knob = k /\ history[i].verdict = "DONE"

\* An invocation that started a container and ends by itself leaves its knob
\* marked, so that the next invocation moves on: "reads the first un-marked line,
\* runs it, and marks it".  A request without an answer refutes it.
Tried(p) == pc[p] \in {"started", "waiting", "single", "concurrent", "reporting"}
TriedIsMarked ==
  [][\A p \in Proc : Tried(p) /\ pc'[p] = "off" /\ kills' = kills =>
       queue'[run[p].knob] \in Marks]_vars

\* Nothing but a single-stream request without an answer does so: not a failing
\* start, not a request that goes unanswered in the warm-up or the concurrent
\* benchmark, and not the report.
EndsMarked ==
  [][\A p \in Proc :
       Tried(p) /\ pc'[p] = "off" /\ kills' = kills /\ unanswered' = unanswered =>
         queue'[run[p].knob] \in Marks]_vars

\* The queue is worked off, wherever an invocation is killed and whichever request
\* ends one: in the end every line is marked, but for those lost to a kill in the
\* middle of a write, and the lines such a kill has spared are worked off too.
Torn == \E k \in Knobs : <<k, "writing">> \in cut
QueueDrains == <>[](\A k \in Knobs : queue[k] \in Marks \/ (Torn /\ queue[k] = "gone"))
=============================================================================

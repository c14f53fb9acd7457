------------------------------- MODULE TpForward -------------------------------
(***************************************************************************)
(* Tensor-parallel ranks running the same forward passes: the profile run  *)
(* with redirected collectives, one capture per graph, then serving, where *)
(* a pass replays its graph or runs eagerly.  Composes BreakableCapture    *)
(* (what a capture keeps and a replay runs) with XpuCollectives (where a   *)
(* rank meets the others).                                                 *)
(*                                                                         *)
(* Program is one forward pass: kernels, collectives and break operators   *)
(* (attention and the recurrent layers), which read the metadata of the    *)
(* step.  Passes are numbered; what a break operator reads is the number   *)
(* of the pass its metadata was built for.                                 *)
(***************************************************************************)
EXTENDS BreakableCapture, XpuCollectives, FiniteSets

CONSTANTS
  Program,   \* sequence of operators: "kernel", "break" or a collective
  GraphModes,\* the graphs captured at start-up: [descriptor -> "PIECEWISE" or "FULL"]
  MaxServed  \* bound: passes after start-up

ASSUME ForwardAssumption ==
  /\ Program \in Seq(Collectives \cup {"kernel", "break"}) \ {<<>>}
  /\ \A d \in DOMAIN GraphModes : GraphModes[d] \in {"PIECEWISE", "FULL"}
  /\ MaxServed \in Nat

VARIABLES
  calls,     \* the passes issued so far, the same for every rank
  index,     \* the pass a rank is in, or has ended
  how,       \* idle, barrier, eager, capture, replay or dead
  todo,      \* steps of the pass that are left
  inBreak,   \* a break operator of a capture is running outside the graph
  ran,       \* what the pass has executed: operator, metadata read, result
  capture,   \* BreakableCUDAGraphCapture of the pass
  entries,   \* steps of each captured graph, <<>> before its capture
  bufferOf   \* the pass whose metadata is in the buffers full graphs read

vars == <<calls, index, how, todo, inBreak, ran, capture, entries, bufferOf, collectiveVars>>

Desc      == DOMAIN GraphModes
CollectiveOps == {i \in 1 .. Len(Program) : Program[i] \in Collectives}
AllSteps  == [i \in 1 .. Len(Program) |-> StepOf(i, FALSE)]
Eager     == [phase |-> "serve", desc |-> "eager", mode |-> "NONE", fails |-> {}]

Init ==
  /\ CollectivesInit
  /\ calls = <<>> /\ index = [r \in Rank |-> 0] /\ how = [r \in Rank |-> "idle"]
  /\ todo = [r \in Rank |-> <<>>] /\ inBreak = [r \in Rank |-> FALSE] /\ ran = [r \in Rank |-> <<>>]
  /\ capture = [r \in Rank |-> NoCapture]
  /\ entries = [r \in Rank |-> [d \in Desc |-> <<>>]]
  /\ bufferOf = [r \in Rank |-> 0]

-----------------------------------------------------------------------------
(* The passes the engine issues.  Start-up: a profile run, then a capture  *)
(* of every graph.  In a large eager pass XCCL may run out of resources in *)
(* one collective, on some or all of the ranks.                            *)

Captured == {calls[i].desc : i \in {j \in 1 .. Len(calls) : calls[j].phase = "capture"}}

NextCalls ==
  IF calls = <<>> THEN {[Eager EXCEPT !.phase = "profile"]}
  ELSE IF Captured # Desc
  THEN {[phase |-> "capture", desc |-> d, mode |-> GraphModes[d], fails |-> {}] : d \in Desc \ Captured}
  ELSE IF Len(calls) > Cardinality(Desc) + MaxServed THEN {}
  ELSE {[phase |-> "serve", desc |-> d, mode |-> GraphModes[d], fails |-> {}] : d \in Desc}
         \cup {[Eager EXCEPT !.fails = S \X {i}] : S \in SUBSET Rank, i \in CollectiveOps}

Call(r) == calls[index[r]]

\* The wrapper: eager without a mode, a replay when the graph is there, and a
\* capture otherwise, which is refused once serving.
HowToRun(r, c) ==
  IF c.mode = "NONE" THEN "eager"
  ELSE IF entries[r][c.desc] # <<>> THEN "replay"
  ELSE IF c.phase = "capture" THEN "capture" ELSE "dead"

\* The metadata builder fills the buffers of full graphs for a full pass only.
Start(r) ==
  /\ how[r] = "idle"
  /\ \E c \in IF index[r] < Len(calls) THEN {calls[index[r] + 1]} ELSE NextCalls :
       /\ calls' = IF index[r] < Len(calls) THEN calls ELSE Append(calls, c)
       /\ how' = [how EXCEPT ![r] = IF c.phase = "profile" THEN "barrier" ELSE HowToRun(r, c)]
       /\ redirect' = [redirect EXCEPT ![r] = @ \/ c.phase = "profile"]
       /\ capture' = [capture EXCEPT ![r] = IF HowToRun(r, c) = "capture" THEN Enter ELSE NoCapture]
       /\ todo' = [todo EXCEPT ![r] = IF HowToRun(r, c) = "replay" THEN entries[r][c.desc] ELSE AllSteps]
       /\ bufferOf' = [bufferOf EXCEPT ![r] = IF c.mode = "FULL" THEN index[r] + 1 ELSE @]
       /\ waiting' = [waiting EXCEPT ![r] = IF c.phase = "profile" THEN "barrier" ELSE "none"]
  /\ index' = [index EXCEPT ![r] = @ + 1]
  /\ ran' = [ran EXCEPT ![r] = <<>>] /\ inBreak' = [inBreak EXCEPT ![r] = FALSE]
  /\ UNCHANGED entries

Barrier ==
  /\ MeetAt("barrier")
  /\ how' = [r \in Rank |-> "eager"]
  /\ UNCHANGED <<calls, index, todo, inBreak, ran, capture, entries, bufferOf, redirect>>

-----------------------------------------------------------------------------
(* One operator of the pass.                                               *)

Op(r)      == Program[Head(todo[r]).op]
Launching(r) == how[r] \in {"eager", "replay"} /\ todo[r] # <<>> /\ waiting[r] = "none"
Ran(r, meta, result) ==
  ran' = [ran EXCEPT ![r] = Append(@, [op |-> Head(todo[r]).op, meta |-> meta, result |-> result])]
Advance(r) == todo' = [todo EXCEPT ![r] = Tail(@)]

\* A break operator inside a graph reads the buffers, outside the context.
Metadata(r) == IF Head(todo[r]).graph THEN bufferOf[r] ELSE index[r]

RunKernel(r) ==
  /\ Launching(r) /\ Op(r) \in {"kernel", "break"}
  /\ Ran(r, IF Op(r) = "break" THEN Metadata(r) ELSE index[r], "done")
  /\ Advance(r)
  /\ UNCHANGED <<calls, index, how, inBreak, capture, entries, bufferOf, collectiveVars>>

Fails(r) == <<r, Head(todo[r]).op>> \in Call(r).fails /\ Backend(r, Op(r)) = "xccl"

\* A call that goes nowhere returns at once; the others wait.
EnterCollective(r) ==
  /\ Launching(r) /\ Op(r) \in Collectives
  /\ CASE Fails(r) /\ AfterFailure(Op(r)) = "raise" ->
            how' = [how EXCEPT ![r] = "dead"] /\ UNCHANGED <<waiting, ran, todo>>
       [] Fails(r) /\ AfterFailure(Op(r)) = "gloo" ->
            waiting' = [waiting EXCEPT ![r] = "gloo"] /\ UNCHANGED <<how, ran, todo>>
       [] Backend(r, Op(r)) = "none" \/ (Fails(r) /\ AfterFailure(Op(r)) = "ignore") ->
            Ran(r, index[r], "own part") /\ Advance(r) /\ UNCHANGED <<how, waiting>>
       [] OTHER ->
            waiting' = [waiting EXCEPT ![r] = Backend(r, Op(r))] /\ UNCHANGED <<how, ran, todo>>
  /\ UNCHANGED <<calls, index, inBreak, capture, entries, bufferOf, redirect>>

SameCollective == \A r, q \in Rank : index[r] = index[q] /\ Head(todo[r]).op = Head(todo[q]).op

Communicate(backend) ==
  /\ MeetAt(backend)
  /\ ran' = [r \in Rank |-> Append(ran[r], [op |-> Head(todo[r]).op, meta |-> index[r],
                result |-> IF SameCollective THEN "combined" ELSE "mixed"])]
  /\ todo' = [r \in Rank |-> Tail(todo[r])]
  /\ UNCHANGED <<calls, index, how, inBreak, capture, entries, bufferOf, redirect>>

\* A rank whose peers will not come is ended by the distributed timeout.
GivesUpOnSplit(r) ==   \* mutant: only a peer in another back end is noticed
  \E q \in Rank : waiting[q] \notin {"none", waiting[r]}
GivesUp(r) ==
  \E q \in Rank :
    \/ how[q] = "dead" \/ waiting[q] \notin {"none", waiting[r]}
    \/ index[q] > index[r] \/ (index[q] = index[r] /\ how[q] = "idle")

Timeout(r) ==
  /\ waiting[r] # "none" /\ GivesUp(r)
  /\ how' = [how EXCEPT ![r] = "dead"] /\ waiting' = [waiting EXCEPT ![r] = "none"]
  /\ UNCHANGED <<calls, index, todo, inBreak, ran, capture, entries, bufferOf, redirect>>

-----------------------------------------------------------------------------
(* Capturing.                                                              *)

Capturing(r) == how[r] = "capture" /\ todo[r] # <<>> /\ ~inBreak[r]

CaptureKernel(r) ==
  /\ Capturing(r)
  /\ Op(r) \in {"kernel", "break"}
  /\ Op(r) = "break" => ~BreaksOut(capture[r], Call(r).mode)
  /\ capture' = [capture EXCEPT ![r] = Record(@, Head(todo[r]).op)]
  /\ Advance(r)
  /\ UNCHANGED <<calls, index, how, inBreak, ran, entries, bufferOf, collectiveVars>>

CaptureCollective(r) ==
  /\ Capturing(r) /\ Op(r) \in Collectives
  /\ LET outcome == CaptureOutcome(r, Op(r))
     IN  /\ capture' = [capture EXCEPT ![r] =
              CASE outcome = "record" -> Record(@, Head(todo[r]).op)
                [] outcome = "raise"  -> Leave(@)
                [] OTHER              -> @]
         /\ how' = [how EXCEPT ![r] = IF outcome = "raise" THEN "dead" ELSE @]
  /\ Advance(r)
  /\ UNCHANGED <<calls, index, inBreak, ran, entries, bufferOf, collectiveVars>>

\* The break runs between two segments.
BeginBreak(r) ==
  /\ Capturing(r) /\ Op(r) = "break" /\ BreaksOut(capture[r], Call(r).mode)
  /\ capture' = [capture EXCEPT ![r] = BeforeEager(@)]
  /\ inBreak' = [inBreak EXCEPT ![r] = TRUE]
  /\ UNCHANGED <<calls, index, how, todo, ran, entries, bufferOf, collectiveVars>>

EndBreak(r) ==
  /\ inBreak[r]
  /\ Ran(r, index[r], "done")
  /\ capture' = [capture EXCEPT ![r] = AfterEager(@, Head(todo[r]).op)]
  /\ inBreak' = [inBreak EXCEPT ![r] = FALSE]
  /\ Advance(r)
  /\ UNCHANGED <<calls, index, how, entries, bufferOf, collectiveVars>>

\* The pass returns: a capture keeps its steps, the profile run takes the
\* redirection back.
StillRedirected(r) == redirect[r]   \* mutant: the variable stays for the captures
AfterPass(r)       == redirect[r] /\ Call(r).phase # "profile"

Finish(r) ==
  /\ how[r] \in {"eager", "replay", "capture"} /\ todo[r] = <<>>
  /\ how' = [how EXCEPT ![r] = "idle"]
  /\ redirect' = [redirect EXCEPT ![r] = AfterPass(r)]
  /\ capture' = [capture EXCEPT ![r] = IF how[r] = "capture" THEN Leave(@) ELSE @]
  /\ entries' = IF how[r] # "capture" THEN entries
                ELSE [entries EXCEPT ![r][Call(r).desc] = Leave(capture[r]).steps]
  /\ UNCHANGED <<calls, index, todo, inBreak, ran, bufferOf, waiting>>

\* All passes are done, or the engine is down.
Stopped ==
  /\ \/ NextCalls = {} /\ \A r \in Rank : how[r] = "idle" /\ index[r] = Len(calls)
     \/ \E r \in Rank : how[r] = "dead"
  /\ UNCHANGED vars

Step(r) ==
  \/ Start(r) \/ RunKernel(r) \/ EnterCollective(r) \/ Timeout(r)
  \/ CaptureKernel(r) \/ CaptureCollective(r) \/ BeginBreak(r) \/ EndBreak(r) \/ Finish(r)

Meeting == Barrier \/ Communicate("xccl") \/ Communicate("gloo")

Next == Meeting \/ Stopped \/ \E r \in Rank : Step(r)

\* Every rank is a process of its own, and its timeout is running.
Fairness == WF_vars(Meeting) /\ \A r \in Rank : WF_vars(Step(r))

Spec == Init /\ [][Next]_vars /\ Fairness
-----------------------------------------------------------------------------
(* Properties                                                              *)

Returned(r) == index[r] > 0 /\ how[r] = "idle"

\* The abstract pass: every operator once, in order, on the metadata of this
\* very pass, every collective combined over the same call of all ranks.
ExactPass(r) ==
  [i \in 1 .. Len(Program) |->
     [op |-> i, meta |-> index[r],
      result |-> IF Program[i] \in Collectives THEN "combined" ELSE "done"]]

\* A served pass that returns has done exactly what an eager pass on working
\* ranks does, whether it ran eagerly, replayed a graph with breaks or a full
\* graph, or fell back to the CPU, and although the profile run left most
\* collectives out (eager_break_during_capture, replay, _should_redirect).
PassExact == \A r \in Rank : Returned(r) /\ Call(r).phase = "serve" => ran[r] = ExactPass(r)

\* Ranks that meet in a back end are in the same call of the same pass: no
\* rank's data is combined with another collective's, even when a rank loses a
\* call to exhausted resources (AfterFailure, _safe_wait).
NeverMixed ==
  \A backend \in Backends \ {"none", "barrier"} :
    (\A r \in Rank : waiting[r] = backend) => SameCollective

\* A rank ends, or waits in vain for another, only if resources have run out.
\* Refused captures, collectives that a capture cannot hold and ranks that
\* choose different back ends would all end one (Backend, CaptureOutcome).
DiesOfFailuresOnly ==
  (\E r \in Rank : how[r] = "dead") => \E i \in 1 .. Len(calls) : calls[i].fails # {}

\* With fair steps every pass a rank has started ends: a rank whose peers have
\* gone to another back end is ended by the timeout.
PassesEnd == \A r \in Rank : how[r] # "idle" ~> how[r] \in {"idle", "dead"}
=============================================================================

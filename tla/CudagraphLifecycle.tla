--------------------------- MODULE CudagraphLifecycle ---------------------------
(***************************************************************************)
(* The life of the captured graphs (vllm_src/gpu_model_runner.py,          *)
(* cuda_graph.py, breakable_cudagraph.py): the runner may first capture    *)
(* throw-away graphs on a minimal KV cache to measure them, then builds    *)
(* the real cache, resolves the mode again, captures every key, forbids    *)
(* capturing and serves.  The wrappers trust the dispatched key blindly:   *)
(* they replay the entry of that key, or capture one when there is none.   *)
(***************************************************************************)
EXTENDS CudagraphKeys

CONSTANT MaxTokens   \* bound: tokens of a served batch

ASSUME LifecycleAssumption == MaxTokens \in Nat

VARIABLES
  breakable,   \* VLLM_USE_BREAKABLE_CUDAGRAPH: one wrapper, entries by descriptor
  phase,       \* loaded, profiling, profiled, ready, capturing, serving
  mode,        \* dispatcher.cudagraph_mode
  initialized, \* dispatcher.keys_initialized
  keys,        \* dispatcher.cudagraph_keys
  todo,        \* keys still to be captured in this pass
  enabled,     \* cudagraph_capturing_enabled
  entries,     \* graphs the wrappers hold: the key, and the KV cache they recorded
  cache,       \* the KV cache in use: "none", "minimal" or "real"
  last,        \* the last forward pass
  failed       \* an assertion or the capture check has killed the process

vars == <<breakable, phase, mode, initialized, keys, todo, enabled, entries, cache, last, failed>>

NoRun == [kind |-> "none", n |-> 0, reqs |-> 0, uniform |-> FALSE, loras |-> 0,
          full |-> FALSE, key |-> Key("NONE", Unpadded(0)), graph |-> {}]

Init ==
  /\ breakable \in BOOLEAN
  /\ phase = "loaded" /\ mode = "NONE" /\ initialized = FALSE /\ keys = {} /\ todo = {}
  /\ enabled \in BOOLEAN /\ entries = {} /\ cache = "none" /\ last = NoRun /\ failed = FALSE

-----------------------------------------------------------------------------
(* The wrappers.                                                           *)

\* A CUDAGraphWrapper serves one mode; the breakable one serves every mode.
Held(key) == {g \in entries : g.key.desc = key.desc /\ (breakable \/ g.key.mode = key.mode)}

\* One call of the model: eager, replay, or capture if that is still allowed.
\* The run remembers the batch, so that it can be compared with the graph.
Call(run, key) ==
  CASE key.mode = "NONE" ->
         last' = [run EXCEPT !.kind = "eager", !.key = key] /\ UNCHANGED <<entries, failed>>
    [] key.mode # "NONE" /\ Held(key) # {} ->
         last' = [run EXCEPT !.kind = "replay", !.key = key, !.graph = Held(key)]
           /\ UNCHANGED <<entries, failed>>
    [] OTHER ->
         /\ last' = [run EXCEPT !.kind = "capture", !.key = key]
         /\ entries' = entries \cup (IF enabled THEN {[key |-> key, cache |-> cache]} ELSE {})
         /\ failed' = ~enabled

Run(n, reqs, uniform, loras, full) ==
  [NoRun EXCEPT !.n = n, !.reqs = reqs, !.uniform = uniform, !.loras = loras, !.full = full]

\* _dummy_run with a requested mode: one query of QueryLen tokens per request
\* when uniform; the dispatched mode must be the requested one.
DummyReqs(n, uniform) ==
  Smaller(MaxNumSeqs, IF uniform THEN (n + QueryLen - 1) \div QueryLen ELSE n)

CaptureOf(key) ==
  LET desc == key.desc
      got  == Dispatch(mode, initialized, keys, desc.tokens, desc.uniform, desc.loras, RuntimeModes)
  IN  IF Divisible(mode, desc.tokens, NormalizedUniform(mode, desc.uniform)) /\ got.mode = key.mode
      THEN Call(Run(desc.tokens, DummyReqs(desc.tokens, desc.uniform), desc.uniform, desc.loras, TRUE), got)
      ELSE failed' = TRUE /\ UNCHANGED <<entries, last>>

-----------------------------------------------------------------------------
(* Start-up.                                                               *)

\* get_capture_descs: nothing unless the keys are initialised.
CaptureDescs == IF ~initialized' \/ mode' = "NONE" THEN {} ELSE keys'

\* profile_cudagraph_memory takes the two largest descriptors of each mode.
Before(a, b) ==
  a.desc.tokens > b.desc.tokens \/ (a.desc.tokens = b.desc.tokens /\ a.desc.loras > b.desc.loras)
Largest(S) == {k \in S : Cardinality({j \in S : j.mode = k.mode /\ Before(j, k)}) < 2}

\* initialize_kv_cache resolves the mode and adds its keys.
InitializeKvCache(name) ==
  \E m \in Modes :
    /\ cache' = name /\ mode' = m /\ initialized' = TRUE
    /\ keys' = keys \cup KeysOf(m)

Profile ==
  /\ phase = "loaded" /\ ~failed
  /\ InitializeKvCache("minimal")
  /\ phase' = "profiling" /\ todo' = Largest(CaptureDescs)
  /\ enabled' = IF CaptureDescs = {} THEN enabled ELSE TRUE
  /\ UNCHANGED <<entries, last, failed>>

\* PIECEWISE before FULL, the largest descriptor of a mode first.
Precedes(a, b) == IF a.mode = b.mode THEN Before(a, b) ELSE a.mode = "PIECEWISE"

CaptureNext ==
  /\ phase \in {"profiling", "capturing"} /\ ~failed
  /\ \E key \in todo :
       /\ \A other \in todo : ~Precedes(other, key)
       /\ CaptureOf(key) /\ todo' = todo \ {key}
  /\ UNCHANGED <<phase, mode, initialized, keys, enabled, cache>>

\* The finally block: everything the profiling pass has left is thrown away.
KeptGraphs == entries    \* mutant: clear_all_graphs forgotten
LeftGraphs == {}
KeptKeys   == keys       \* mutant: the key sets are not cleared
LeftKeys   == {}

ProfileCleanup ==
  /\ phase = "profiling" /\ todo = {} /\ ~failed
  /\ phase' = "profiled" /\ cache' = "none"
  /\ IF keys = {} THEN UNCHANGED <<enabled, entries, keys, initialized>>
     ELSE /\ enabled' = FALSE /\ entries' = LeftGraphs
          /\ keys' = LeftKeys /\ initialized' = FALSE
  /\ UNCHANGED <<mode, todo, last, failed>>

\* Profiling is optional.
BuildCache ==
  /\ phase \in {"loaded", "profiled"} /\ ~failed
  /\ InitializeKvCache("real") /\ phase' = "ready"
  /\ UNCHANGED <<todo, enabled, entries, last, failed>>

CaptureModel ==
  /\ phase = "ready" /\ ~failed
  /\ IF mode = "NONE" THEN phase' = "serving" /\ UNCHANGED <<todo, enabled>>
     ELSE phase' = "capturing" /\ enabled' = TRUE /\ todo' = keys
  /\ UNCHANGED <<mode, initialized, keys, entries, cache, last, failed>>

CaptureDone ==
  /\ phase = "capturing" /\ todo = {} /\ ~failed
  /\ phase' = "serving" /\ enabled' = FALSE
  /\ UNCHANGED <<mode, initialized, keys, todo, entries, cache, last, failed>>

-----------------------------------------------------------------------------
(* Serving.                                                                *)

\* _is_uniform_decode: every request has exactly one uniform query.
IsUniform(n, reqs, longest) == longest = QueryLen /\ n = longest * reqs

\* _determine_batch_execution_and_padding: a cascade-attention step may not
\* run in a full graph.
Batch(n, reqs, uniform, loras, cascade) ==
  LET allowed == IF cascade THEN RuntimeModes \ {"FULL"} ELSE RuntimeModes
      key     == Dispatch(mode, initialized, keys, n, uniform, loras, allowed)
  IN  IF RunsEager(mode, initialized, n, allowed)
           \/ Divisible(mode, n, NormalizedUniform(mode, uniform))
      THEN Call(Run(n, reqs, uniform, loras, ~cascade), key)
      ELSE failed' = TRUE /\ UNCHANGED <<entries, last>>

ExecuteModel ==
  /\ phase = "serving" /\ ~failed
  /\ \E reqs \in 1 .. MaxNumSeqs, n \in 1 .. MaxTokens, longest \in 1 .. MaxTokens,
        loras \in 0 .. MaxLoras, cascade \in BOOLEAN :
       /\ n <= reqs * longest /\ longest + reqs - 1 <= n
       /\ Batch(n, reqs, IsUniform(n, reqs, longest), loras, cascade)
  /\ UNCHANGED <<phase, mode, initialized, keys, todo, enabled, cache>>

\* An idle rank runs one dummy token, sometimes as a uniform decode.
DummyRun ==
  /\ phase = "serving" /\ ~failed
  /\ \E uniform \in BOOLEAN : Batch(1, DummyReqs(1, uniform), uniform, 0, FALSE)
  /\ UNCHANGED <<phase, mode, initialized, keys, todo, enabled, cache>>

Next ==
  /\ \/ Profile \/ CaptureNext \/ ProfileCleanup \/ BuildCache \/ CaptureModel \/ CaptureDone
     \/ ExecuteModel \/ DummyRun
  /\ UNCHANGED breakable

Spec == Init /\ [][Next]_vars

-----------------------------------------------------------------------------
(* Properties                                                              *)

Served == phase = "serving" /\ last.kind \in {"eager", "replay"}

\* No assertion on the way fails: the dispatched mode of a capture run is the
\* one asked for, uniform sizes divide, and once serving no batch finds its
\* graph missing, which would be a capture in the middle of serving.
NoAssertionFails == ~failed

\* A replayed graph was recorded on the cache in use and in the mode that was
\* dispatched: no graph of the profiling pass survives it, and the breakable
\* wrapper, which looks up by descriptor only, never confuses the two modes.
ReplaysCurrentGraph ==
  last.kind = "replay" =>
    \A g \in last.graph : g.key = last.key /\ (phase = "serving" => g.cache = cache)

\* A served batch fits its graph: the size is the least captured one, there
\* are rows enough, and a uniform graph only ever runs a uniform batch.
FitsItsGraph ==
  Served /\ last.kind = "replay" =>
    LET desc == last.key.desc
    IN  /\ IsLeastCapture(last.n, desc.tokens)
        /\ desc.reqs = 0 \/ desc.reqs >= last.reqs
        /\ desc.uniform => last.uniform
        /\ desc.loras >= last.loras /\ (last.loras = 0 => desc.loras = 0)

\* A batch that fits a graph is not run eagerly, whatever its shape, when the
\* mode has graphs for mixed batches (and, with LoRA, for its adapters).
FittingBatchIsGraphed ==
  Served /\ last.n <= MaxCapture /\ MixedMode(mode) # "NONE"
      /\ (last.full \/ MixedMode(mode) = "PIECEWISE") /\ (last.loras > 0 \/ 0 \in LoraCases)
    => last.kind = "replay"
=============================================================================

------------------------------ MODULE DspBridge ------------------------------
(***************************************************************************)
(* The bridge to the DSP: FastRPC sessions and the buffers of the rpcmem   *)
(* heap that are issued by them (dsp_rpc.rs), the weights and the K/V      *)
(* cache that live there (dsp_model.rs, kv_cache.rs), and four programs:   *)
(* the daemon on a phone, whose every failure at boot leaves an endpoint   *)
(* that answers 501 (daemon.rs, routes.rs); a server of the echo alone     *)
(* (axum_server.rs); the loader's smoke test; and the test of two threads  *)
(* that share a session.                                                   *)
(*                                                                         *)
(* Weights are counted, not read; an allocation or a read may fail.  The   *)
(* device is external: a call on the echo handle while another runs there  *)
(* may answer with either's bytes.                                         *)
(***************************************************************************)
EXTENDS Integers, FiniteSets

CONSTANTS
  Layers,      \* layers of the model
  Caller,      \* clients of the daemon, each with one request
  Size,        \* sizes of bodies
  MaxPayload,  \* DSP_ECHO_MAX_PAYLOAD
  MaxNtt,      \* bound: dispatches of the registered backend
  MaxRounds,   \* bound: pairs of calls (the test makes 101)
  MaxTime      \* bound: instants of a pair

BridgeAssumption ==
  /\ {Layers, MaxPayload, MaxNtt, MaxRounds, MaxTime} \subseteq Nat /\ Size \subseteq Nat
  /\ Caller \intersect {"load", "reload", "kv", "model"} = {}

Thread == {"A", "B"}

VARIABLES
  prog,      \* the program: daemon, server, full_load or dual
  step,      \* where its main thread is
  tied,      \* the model has no output projection of its own
  sess,      \* each FastRPC session: none, failed, open or closed
  heap,      \* live buffers: the session that issued them, the owner, a number
  call,      \* the requests
  refs,      \* references to the compute backend
  l1,        \* the memory session holds a pointer to it: none, idle or in a call
  counts,    \* the dispatch counter
  fails, exit,
  pair,      \* the two threads
  now, together, rounds

vars == <<prog, step, tied, sess, heap, call, refs, l1, counts, fails, exit, pair, now, together, rounds>>
nttVars  == <<refs, l1, counts>>
pairVars == <<pair, now, together, rounds>>

NoCall == [at |-> "idle", n |-> 0, answer |-> <<0, "none">>, conn |-> TRUE]
NoPair == [t \in Thread |-> [at |-> "ready", start |-> 0, end |-> 0]]

Init ==
  /\ prog \in {"daemon", "server", "full_load", "dual"}
  /\ step = (CASE prog \in {"daemon", "server"} -> "echo" [] prog = "full_load" -> "model"
                [] prog = "dual" -> "compute")
  /\ tied \in BOOLEAN
  /\ sess = [s \in {"echo", "model", "compute"} |-> "none"]
  /\ heap = {} /\ call = [c \in Caller |-> NoCall]
  /\ refs = 0 /\ l1 = "none" /\ counts = 0 /\ fails = 0 /\ exit = -1
  /\ pair = NoPair /\ now = 0 /\ together = 0 /\ rounds = 0

Of(owner) == {b \in heap : b[2] = owner}
Ends(code) == exit' = code /\ step' = "gone"
\* Leaving main, or unwinding, closes what is open; process::exit does not.
CloseAll == sess' = [s \in DOMAIN sess |-> IF sess[s] = "open" THEN "closed" ELSE sess[s]]

-----------------------------------------------------------------------------
(***************************************************************************)
(* FastRpcSession::new: the library, its symbols, the unsigned process     *)
(* domain and the handle; a failure of any drops the library.              *)
(***************************************************************************)
New(s) ==
  /\ step = s /\ sess[s] = "none"
  /\ \/ /\ sess' = [sess EXCEPT ![s] = "open"]
        /\ step' = (CASE s = "echo" -> (IF prog = "daemon" THEN "model" ELSE "serve")
                      [] s = "model" -> "load_table"
                      [] s = "compute" -> IF prog = "daemon" THEN "register" ELSE "first")
        /\ refs' = IF s = "compute" /\ prog = "daemon" THEN 1 ELSE refs
        /\ UNCHANGED exit
     \/ /\ sess' = [sess EXCEPT ![s] = "failed"] /\ UNCHANGED refs
        /\ IF prog # "daemon" THEN Ends(IF prog = "server" THEN 101 ELSE 1)
           ELSE /\ step' = (CASE s = "echo" -> "model" [] s = "model" -> "compute" [] s = "compute" -> "serve")
                /\ UNCHANGED exit
  /\ UNCHANGED <<prog, tied, heap, call, l1, counts, fails, pairVars>>

\* Without the switch or a memory model there is no compute backend.
NoBackend ==
  /\ step = "compute" /\ prog = "daemon" /\ step' = "serve"
  /\ UNCHANGED <<prog, tied, sess, heap, call, nttVars, fails, exit, pairVars>>

(***************************************************************************)
(* DspModel::load: embedding, output norm, output projection if there is   *)
(* one, nine tensors a layer.  A missing tensor, a wrong dtype, a NULL or a *)
(* short read returns with everything that was allocated dropped.          *)
(***************************************************************************)
FailedLoad(owner) ==
  CASE prog = "daemon" -> heap' = heap \ Of(owner) /\ step' = "compute" /\ UNCHANGED <<sess, exit>>
    [] prog # "daemon" /\ owner = "load" -> heap' = heap \ Of(owner) /\ Ends(1) /\ UNCHANGED sess
    [] OTHER           -> heap' = {} /\ CloseAll /\ Ends(101)      \* expect("re-load")

\* The file, its header and its table come before any buffer.
ReadTable(owner) ==
  /\ step = (IF owner = "load" THEN "load_table" ELSE "reload_table")
  /\ (step' = owner /\ UNCHANGED <<heap, sess, exit>>) \/ FailedLoad(owner)
  /\ UNCHANGED <<prog, tied, call, nttVars, fails, pairVars>>

NTensors == (IF tied THEN 2 ELSE 3) + 9 * Layers

LoadTensor(owner) ==
  LET n == Cardinality(Of(owner)) IN
  /\ step = owner /\ n < NTensors
  /\ \/ /\ heap' = heap \union {<<"model", owner, n + 1>>}     \* load_q8_weight or load_fp32_tensor
        /\ UNCHANGED <<step, sess, exit>>
     \/ FailedLoad(owner)
  /\ UNCHANGED <<prog, tied, call, nttVars, fails, pairVars>>

Loaded ==
  /\ step \in {"load", "reload"} /\ Cardinality(Of(step)) = NTensors
  /\ IF step = "load" THEN step' = "kv" /\ UNCHANGED heap
     ELSE step' = "drop_kv" /\ heap' = heap \ Of("reload")
  /\ UNCHANGED <<prog, tied, sess, call, nttVars, fails, exit, pairVars>>

\* KvCache::alloc: a K and a V buffer for each layer.
KvAlloc ==
  LET n == Cardinality(Of("kv")) IN
  /\ step = "kv"
  /\ \/ n < 2 * Layers /\ heap' = heap \union {<<"model", "kv", n + 1>>} /\ UNCHANGED <<step, sess, fails, exit>>
     \/ /\ n = 2 * Layers /\ step' = (IF prog = "daemon" THEN "compute" ELSE "matmul")
        /\ UNCHANGED <<heap, sess, fails, exit>>
     \/ /\ n < 2 * Layers
        /\ IF prog = "daemon"
           THEN heap' = heap \ Of("kv") /\ step' = "compute" /\ UNCHANGED <<sess, fails, exit>>
           ELSE heap' = {} /\ CloseAll /\ fails' = fails + 1 /\ Ends(0)     \* "return"
  /\ UNCHANGED <<prog, tied, call, nttVars, pairVars>>

-----------------------------------------------------------------------------
(***************************************************************************)
(* The rest of the loader's test: a tile of a layer against the scalar     *)
(* reference, a file that does not exist, a second load beside the first,  *)
(* and the drops, in the order main writes them.                           *)
(***************************************************************************)
Matmul ==
  /\ step = "matmul" /\ step' = "nofile"
  /\ fails' \in {fails, fails + 1}
  /\ UNCHANGED <<prog, tied, sess, heap, call, nttVars, exit, pairVars>>

NoFile ==
  /\ step = "nofile" /\ step' = "reload_table"
  /\ UNCHANGED <<prog, tied, sess, heap, call, nttVars, fails, exit, pairVars>>

DropLoaded ==
  /\ prog = "full_load"
  /\ \/ step = "drop_kv" /\ heap' = heap \ Of("kv") /\ step' = "drop_model" /\ UNCHANGED <<sess, exit>>
     \/ step = "drop_model" /\ heap' = heap \ Of("load") /\ step' = "drop_sess" /\ UNCHANGED <<sess, exit>>
     \/ step = "drop_sess" /\ CloseAll /\ Ends(IF fails = 0 THEN 0 ELSE 1) /\ UNCHANGED heap
  /\ UNCHANGED <<prog, tied, call, nttVars, fails, pairVars>>

-----------------------------------------------------------------------------
(***************************************************************************)
(* The daemon: the compute backend, whose raw pointer the memory session   *)
(* keeps, with a reference that is taken back if the registration fails.   *)
(***************************************************************************)
Register ==
  /\ step = "register" /\ step' = "serve"
  /\ \/ refs' = refs + 1 /\ l1' = "idle"
     \/ UNCHANGED <<refs, l1>>
  /\ UNCHANGED <<prog, tied, sess, heap, call, counts, fails, exit, pairVars>>

\* A trampoline: counted before the call, whose failure is the caller's -1.
Trampoline ==
  /\ step = "serve" /\ l1 = "idle" /\ counts < MaxNtt
  /\ l1' = "call" /\ counts' = counts + 1
  /\ UNCHANGED <<prog, step, tied, sess, heap, call, refs, fails, exit, pairVars>>

TrampolineReturns ==
  /\ l1 = "call" /\ l1' = "idle"
  /\ UNCHANGED <<prog, step, tied, sess, heap, call, refs, counts, fails, exit, pairVars>>

-----------------------------------------------------------------------------
(* POST /v1/dsp/echo.  The blocking closure runs on after its client left. *)
serveVars == <<prog, step, tied, nttVars, fails, exit, pairVars>>

Answer(c, status, who) ==
  call' = [call EXCEPT ![c].at = "done",
                       ![c].answer = IF call[c].conn THEN <<status, who>> ELSE call[c].answer]

Echo(c) ==
  /\ step = "serve" /\ call[c].at = "idle"
  /\ \E n \in Size :
       IF n = 0 THEN Answer(c, 400, "none")
       ELSE IF n > MaxPayload THEN Answer(c, 413, "none")
       ELSE IF sess["echo"] # "open" THEN Answer(c, 501, "none")
       ELSE call' = [call EXCEPT ![c].at = "lock", ![c].n = n]
  /\ UNCHANGED <<sess, heap, serveVars>>

ModelInfo(c) ==
  /\ step = "serve" /\ prog = "daemon" /\ call[c].at = "idle"
  /\ IF Of("load") = {} THEN Answer(c, 501, "model") ELSE Answer(c, 200, "model")
  /\ UNCHANGED <<sess, heap, serveVars>>

HandleAlways == TRUE                                                        \* mutant
\* The session's mutex.
HandleFree == \A c \in Caller : call[c].at \notin {"in", "out", "call"}

\* alloc_dma of the two buffers and the invocation; the error of any returns.
EchoIn(c) ==
  /\ call[c].at = "lock" /\ HandleFree
  /\ \/ heap' = heap \union {<<"echo", c, "in">>} /\ call' = [call EXCEPT ![c].at = "in"]
     \/ Answer(c, 500, "none") /\ UNCHANGED heap
  /\ UNCHANGED <<sess, serveVars>>

EchoOut(c) ==
  /\ call[c].at = "in"
  /\ \/ heap' = heap \union {<<"echo", c, "out">>} /\ call' = [call EXCEPT ![c].at = "out"]
     \/ heap' = heap \ Of(c) /\ Answer(c, 500, "none")
  /\ UNCHANGED <<sess, serveVars>>

EchoInvoke(c) ==
  /\ call[c].at = "out" /\ call' = [call EXCEPT ![c].at = "call"]
  /\ UNCHANGED <<sess, heap, serveVars>>

\* The device: its own bytes, or those of a call it overlaps with.
EchoReturns(c) ==
  /\ call[c].at = "call"
  /\ \/ \E d \in {d \in Caller : call[d].at = "call"} : Answer(c, 200, d)
     \/ Answer(c, 500, "none")
  /\ heap' = heap \ Of(c)
  /\ UNCHANGED <<sess, serveVars>>

Hangup(c) ==
  /\ call[c].at \in {"lock", "in", "out", "call"} /\ call[c].conn
  /\ call' = [call EXCEPT ![c].conn = FALSE]
  /\ UNCHANGED <<sess, heap, serveVars>>

(***************************************************************************)
(* Ctrl-C: open connections are served; the state goes with its last       *)
(* holder, field by field.  The model's session was leaked, and the        *)
(* reference that the memory session was given is never taken back.        *)
(***************************************************************************)
Stop ==
  /\ step = "serve" /\ step' = "stopping"
  /\ UNCHANGED <<prog, tied, sess, heap, call, nttVars, fails, exit, pairVars>>

ConnectionsOver == \A c \in Caller : call[c].at \in {"idle", "done"} \/ ~call[c].conn   \* mutant
TasksOver == l1 # "call" /\ \A c \in Caller : call[c].at \in {"idle", "done"}

DropState ==
  /\ prog \in {"daemon", "server"}
  /\ \/ /\ step = "stopping" /\ TasksOver
        /\ l1' = "none" /\ step' = "drop_echo" /\ UNCHANGED <<sess, heap, refs, exit>>
     \/ /\ step = "drop_echo" /\ step' = "drop_model"
        /\ sess' = [sess EXCEPT !["echo"] = IF @ = "open" THEN "closed" ELSE @]
        /\ UNCHANGED <<heap, refs, l1, exit>>
     \/ /\ step = "drop_model" /\ step' = "drop_kv"
        /\ heap' = heap \ Of("load") /\ UNCHANGED <<sess, refs, l1, exit>>
     \/ /\ step = "drop_kv" /\ step' = "drop_backend"
        /\ heap' = heap \ Of("kv") /\ UNCHANGED <<sess, refs, l1, exit>>
     \/ /\ step = "drop_backend" /\ Ends(0)
        /\ refs' = IF refs = 0 THEN 0 ELSE refs - 1
        /\ sess' = [sess EXCEPT !["compute"] = IF @ = "open" /\ refs = 1 THEN "closed" ELSE @]
        /\ UNCHANGED <<heap, l1>>
  /\ UNCHANGED <<prog, tied, call, counts, fails, pairVars>>

-----------------------------------------------------------------------------
(***************************************************************************)
(* Two calls in a row, then pairs of threads that share the session with   *)
(* no lock, timed.                                                         *)
(***************************************************************************)
Running(t) == pair[t].at = "run"
Elapse == /\ now' = now + 1
          /\ together' = IF \A t \in Thread : Running(t) THEN together + 1 ELSE together

InvokeOnce ==
  /\ step \in {"first", "second"}
  /\ \/ step' = (IF step = "first" THEN "second" ELSE "pair") /\ UNCHANGED <<sess, exit>>
     \/ CloseAll /\ Ends(101)                                 \* expect("bench-a invoke")
  /\ UNCHANGED <<prog, tied, heap, call, nttVars, fails, pairVars>>

Starts(t) ==
  /\ step = "pair" /\ pair[t].at = "ready" /\ now < MaxTime
  /\ pair' = [pair EXCEPT ![t].at = "run", ![t].start = now] /\ Elapse
  /\ UNCHANGED <<prog, step, tied, sess, heap, call, nttVars, fails, exit, rounds>>

Finishes(t) ==
  /\ step = "pair" /\ Running(t)
  /\ \E r \in {"ok", "err"} : pair' = [pair EXCEPT ![t].at = r, ![t].end = now]
  /\ Elapse
  /\ UNCHANGED <<prog, step, tied, sess, heap, call, nttVars, fails, exit, rounds>>

Earlier(a, b) == IF a <= b THEN a ELSE b
Later(a, b)   == IF a <= b THEN b ELSE a

\* OverlapMetrics::from.
wall_total == Later(pair["A"].end, pair["B"].end) - Earlier(pair["A"].start, pair["B"].start)
wall(t)    == pair[t].end - pair[t].start
overlap    == Later(0, Earlier(pair["A"].end, pair["B"].end) - Later(pair["A"].start, pair["B"].start))

\* Both threads joined: an error in the timed pair ends the test, one in the loop counts.
Joined == step = "pair" /\ \A t \in Thread : pair[t].at \in {"ok", "err"}

Join ==
  LET ok == \A t \in Thread : pair[t].at = "ok" IN
  /\ Joined
  /\ IF rounds = 0 /\ ~ok THEN Ends(1) /\ UNCHANGED <<fails, pair, now, together, rounds>>
     ELSE /\ fails' \in (IF rounds = 0 THEN {fails, fails + 1} ELSE IF ok THEN {fails} ELSE {fails + 1})
          /\ rounds' = rounds + 1 /\ pair' = NoPair /\ now' = 0 /\ together' = 0
          /\ step' = (IF ok /\ rounds + 1 < MaxRounds THEN "pair" ELSE "close") /\ UNCHANGED exit
  /\ UNCHANGED <<prog, tied, sess, heap, call, nttVars>>

Close ==
  /\ step = "close" /\ CloseAll /\ Ends(IF fails = 0 THEN 0 ELSE 1)
  /\ UNCHANGED <<prog, tied, heap, call, nttVars, fails, pairVars>>

-----------------------------------------------------------------------------
Load == (\E o \in {"load", "reload"} : ReadTable(o) \/ LoadTensor(o)) \/ Loaded \/ KvAlloc
Dual == InvokeOnce \/ (\E t \in Thread : Starts(t) \/ Finishes(t)) \/ Join \/ Close
EchoNext(c) == Echo(c) \/ ModelInfo(c) \/ EchoIn(c) \/ EchoOut(c) \/ EchoInvoke(c) \/ EchoReturns(c) \/ Hangup(c)

Next ==
  \/ \E s \in {"echo", "model", "compute"} : New(s)
  \/ NoBackend \/ Load \/ Matmul \/ NoFile \/ DropLoaded
  \/ Register \/ Trampoline \/ TrampolineReturns \/ Stop \/ DropState
  \/ \E c \in Caller : EchoNext(c)
  \/ Dual

Spec == Init /\ [][Next]_vars

-----------------------------------------------------------------------------
(***************************************************************************)
(* "The owning FastRpcSession's Library MUST outlive any DmaBuffer it      *)
(* issued" (dsp_rpc.rs), a load or a cache that fails half-way leaves      *)
(* nothing on the heap (T_PARTIAL_LOAD_CLEANUP, kv_cache.rs), a call in    *)
(* flight has its buffers, its client gone and the daemon stopping         *)
(* included, and the pointer that the memory session was given stays valid *)
(* past its last invocation (ntt_hex_dispatch.rs).                         *)
(***************************************************************************)
DmaOwned ==
  /\ \A b \in heap : sess[b[1]] = "open"
  /\ \A c \in Caller :
       /\ <<"echo", c, "in">> \in heap <=> call[c].at \in {"in", "out", "call"}
       /\ <<"echo", c, "out">> \in heap <=> call[c].at \in {"out", "call"}
  /\ step # "load" => Cardinality(Of("load")) \in {0, NTensors}
  /\ step # "kv"   => Cardinality(Of("kv")) \in {0, 2 * Layers}
  /\ step # "reload" => Of("reload") = {}
  /\ step = "gone" => heap = {}
  /\ l1 # "none" => refs >= 1 /\ sess["compute"] = "open"

(***************************************************************************)
(* An echo that succeeds returns the bytes of its own request, model_info  *)
(* answers for a model that is there whole, and the overlap that the test  *)
(* of two threads reports is the time both were in a call.                 *)
(***************************************************************************)
CallsExact ==
  /\ \A c \in Caller : call[c].answer[1] = 200 => call[c].answer[2] \in {c, "model"}
  /\ step = "serve" =>
       \A c \in Caller : call[c].answer = <<200, "model">> => Cardinality(Of("load")) = NTensors
  /\ Joined => overlap = together /\ wall_total >= Later(wall("A"), wall("B"))
                /\ overlap <= Earlier(wall("A"), wall("B"))
==============================================================================

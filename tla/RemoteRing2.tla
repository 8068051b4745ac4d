------------------------------ MODULE RemoteRing2 ------------------------------
(***************************************************************************)
(* A peer as the Ring-2 store (tools/sp_daemon/src/network/ring2_quic.rs): *)
(* the registered trampolines send each block over a stream of its own and *)
(* wait under the mutex of the client; the peer runs a task per stream     *)
(* over a map that all its connections share.  One decode thread calls.    *)
(*                                                                         *)
(* Nothing is resent and no connection is made again but by registering.   *)
(* A task whose request has arrived goes on when its connection is lost.   *)
(***************************************************************************)
EXTENDS Naturals, Sequences, FiniteSets

CONSTANTS
  Key,       \* stream (K or V) and offset of a block
  Data,      \* contents; all blocks of a stream have one length
  None,      \* no block
  MaxBatch,  \* bound: reads of a batch
  MaxCalls,  \* bound: calls that reach the peer
  MaxConn    \* bound: connections made

RemoteAssumption == None \notin Data /\ {MaxBatch, MaxCalls, MaxConn} \subseteq Nat

VARIABLES
  running,    \* the peer's process runs
  serving,    \* its accept loop runs
  kept,       \* the peer's map
  tasks,      \* its tasks: [id, req, at, found]
  forgotten,  \* connections it had before it crashed
  client,     \* the connection that CLIENT holds
  made,       \* connections made so far
  lost,       \* those of them that are closed
  registered, \* the C registry holds the trampolines; what was fetched stays
  calls,
  call,       \* the call in flight
  acked,      \* last block of each key whose write was answered 0
  doubt       \* blocks of each key whose write was not, and may land behind it

vars == <<running, serving, kept, tasks, forgotten, client, made, lost, registered, calls, call, acked, doubt>>

NoConn == 0
NoCall == [op |-> "none"]
Flying == call # NoCall

Init ==
  /\ running = TRUE /\ serving = TRUE
  /\ kept = [k \in Key |-> None] /\ tasks = {} /\ forgotten = {}
  /\ client = NoConn /\ made = 0 /\ lost = {} /\ registered = FALSE
  /\ calls = 0 /\ call = NoCall
  /\ acked = [k \in Key |-> None] /\ doubt = [k \in Key |-> {}]

peer  == <<running, serving, kept, tasks, forgotten>>
local == <<client, made, lost, registered>>
ghost == <<acked, doubt>>

-----------------------------------------------------------------------------
(***************************************************************************)
(* Registration.  A dial that fails leaves what was registered; the client *)
(* is replaced under the mutex, so no call is in flight.                   *)
(***************************************************************************)
Closing(c) == IF c = NoConn THEN lost ELSE lost \union {c}

Register ==
  /\ ~ Flying /\ serving /\ made < MaxConn
  /\ made' = made + 1 /\ client' = made + 1 /\ lost' = Closing(client)
  /\ registered' = TRUE
  /\ UNCHANGED <<peer, calls, call, ghost>>

Unregister ==
  /\ ~ Flying /\ registered
  /\ registered' = FALSE /\ client' = NoConn /\ lost' = Closing(client)
  /\ UNCHANGED <<peer, made, calls, call, ghost>>

(***************************************************************************)
(* A call opens a stream per block, which fails at once on a connection    *)
(* known to be closed.  Without a client it answers 1, which changes       *)
(* nothing.                                                                *)
(***************************************************************************)
Requests ==
  {[op |-> "write", reqs |-> <<[key |-> k, block |-> b]>>] : k \in Key, b \in Data} \union
  {[op |-> "read", reqs |-> [i \in 1 .. n |-> [key |-> ks[i], block |-> None]]] :
     n \in 1 .. MaxBatch, ks \in [1 .. MaxBatch -> Key]}

\* Writes whose answer was given up and whose task goes on.
Pending(k) == {t.req.block : t \in {u \in tasks : u.req.key = k}} \ {None}

Call ==
  /\ ~ Flying /\ client # NoConn /\ calls < MaxCalls
  /\ \E r \in Requests :
       call' = [op |-> r.op, reqs |-> r.reqs,
                stream |-> [i \in DOMAIN r.reqs |-> IF client \in lost THEN "failed" ELSE "out"],
                dst |-> [i \in DOMAIN r.reqs |-> None], ahead |-> Pending(r.reqs[1].key)]
  /\ calls' = calls + 1
  /\ UNCHANGED <<peer, local, ghost>>

Id(i) == <<calls, i>>
Open(i) == Flying /\ i \in DOMAIN call.stream /\ call.stream[i] \in {"out", "taken"}

\* join_all waits for every stream, and the first error is the answer.
AnyOk == \E i \in DOMAIN call.stream : call.stream[i] = "ok"          \* mutant of AllOk
AllOk == \A i \in DOMAIN call.stream : call.stream[i] = "ok"
Answered == Flying /\ \A i \in DOMAIN call.stream : ~ Open(i)

Return ==
  /\ Answered
  /\ IF call.op = "read" THEN UNCHANGED ghost
     ELSE LET r == call.reqs[1] IN
          IF AllOk
          THEN /\ acked' = [acked EXCEPT ![r.key] = r.block]
               /\ doubt' = [doubt EXCEPT ![r.key] = call.ahead]
          ELSE doubt' = [doubt EXCEPT ![r.key] = @ \union {r.block}] /\ UNCHANGED acked
  /\ call' = NoCall
  /\ UNCHANGED <<peer, local, calls>>

-----------------------------------------------------------------------------
(***************************************************************************)
(* The peer.  A request that has arrived whole is a task's; one that has   *)
(* no block of that key is answered with a miss.                           *)
(***************************************************************************)
Arrive(i) ==
  /\ Open(i) /\ call.stream[i] = "out" /\ client \notin lost \union forgotten
  /\ call' = [call EXCEPT !.stream[i] = "taken"]
  /\ tasks' = tasks \union {[id |-> Id(i), req |-> call.reqs[i], at |-> call.op, found |-> None]}
  /\ UNCHANGED <<running, serving, kept, forgotten, local, calls, ghost>>

Moved(t, to) == tasks' = (tasks \ {t}) \union {to}

Store(t) ==
  /\ t.at = "write"
  /\ kept' = [kept EXCEPT ![t.req.key] = t.req.block]
  /\ Moved(t, [t EXCEPT !.at = "reply", !.found = t.req.block])
  /\ UNCHANGED <<running, serving, forgotten, local, calls, call, ghost>>

LookUp(t) ==
  /\ t.at = "read"
  /\ Moved(t, [t EXCEPT !.at = "reply", !.found = kept[t.req.key]])
  /\ UNCHANGED <<running, serving, kept, forgotten, local, calls, call, ghost>>

\* Nobody hears the answer of a task whose call has ended or lost its connection.
Reply(t) ==
  /\ t.at = "reply"
  /\ tasks' = tasks \ {t}
  /\ call' = IF t.id[1] = calls /\ Open(t.id[2]) /\ client \notin lost
             THEN [call EXCEPT !.stream[t.id[2]] = IF t.found = None THEN "miss" ELSE "ok",
                               !.dst[t.id[2]] = t.found]
             ELSE call
  /\ UNCHANGED <<running, serving, kept, forgotten, local, calls, ghost>>

-----------------------------------------------------------------------------
FailingOne(c) == IF Flying /\ client = c                          \* mutant of Failing
                 THEN [call EXCEPT !.stream[1] = IF Open(1) THEN "failed" ELSE @]
                 ELSE call

\* An error of the connection fails every stream that waits.
Failing(c) == IF Flying /\ client = c
              THEN [call EXCEPT !.stream = [i \in DOMAIN @ |-> IF Open(i) THEN "failed" ELSE @[i]]]
              ELSE call

\* The connection breaks, or is idle for max_idle_timeout.
ConnLost ==
  /\ client # NoConn /\ client \notin lost
  /\ lost' = lost \union {client}
  /\ call' = Failing(client)
  /\ UNCHANGED <<peer, client, made, registered, calls, ghost>>

PeerCrash ==
  /\ running
  /\ running' = FALSE /\ serving' = FALSE /\ tasks' = {}
  /\ kept' = [k \in Key |-> None]
  /\ forgotten' = 1 .. made
  /\ UNCHANGED <<local, calls, call, ghost>>

PeerStart ==
  /\ ~ running
  /\ running' = TRUE /\ serving' = TRUE
  /\ UNCHANGED <<kept, tasks, forgotten, local, calls, call, ghost>>

\* `incoming.await?`: a handshake that fails ends the loop; tasks go on.
HandshakeFails ==
  /\ serving
  /\ serving' = FALSE
  /\ UNCHANGED <<running, kept, tasks, forgotten, local, calls, call, ghost>>

Streams == 1 .. MaxBatch
Serve == (\E i \in Streams : Arrive(i)) \/ (\E t \in tasks : Store(t) \/ LookUp(t) \/ Reply(t))

Next ==
  \/ Register \/ Unregister \/ Call \/ Return \/ Serve
  \/ ConnLost \/ PeerCrash \/ PeerStart \/ HandshakeFails

\* The peer's tasks run; a connection that it no longer has times out.
TimesOut == client \in forgotten /\ ConnLost
Spec == Init /\ [][Next]_vars /\ WF_vars(Serve \/ Return \/ TimesOut)

-----------------------------------------------------------------------------
(***************************************************************************)
(* A read that answers 0 has filled every buffer, each with the block of   *)
(* the last write of its key that was answered 0, or of one that was not   *)
(* and may have landed: neither a batch of which one stream failed nor a   *)
(* task that outlived its connection brings an older block back.           *)
(***************************************************************************)
ReadsWhatWasWritten ==
  Answered /\ call.op = "read" /\ AllOk =>
    \A i \in DOMAIN call.reqs :
      LET k == call.reqs[i].key IN call.dst[i] \in ({acked[k]} \ {None}) \union doubt[k]

(***************************************************************************)
(* A call returns, whatever becomes of the peer: the decode thread and the *)
(* mutex it holds are never left waiting.                                  *)
(***************************************************************************)
CallsReturn == Flying ~> ~ Flying
================================================================================

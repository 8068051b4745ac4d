----------------------------- MODULE GarnerLoop -----------------------------
(***************************************************************************)
(* The assembly loop of tools/sp_daemon/src/network/quic_shard.rs          *)
(* (run_garner_loop).  Shard workers connect and send residue blocks, each *)
(* on a stream and to a task of its own; two blocks of a sequence number,  *)
(* one per prime, are recombined into one result.  The tasks share a map   *)
(* of blocks that wait for their other half, and a map of the peers.       *)
(***************************************************************************)
EXTENDS Integers, Sequences

CONSTANTS
  Conn,     \* connections workers make
  Remote,   \* connection -> address of its worker
  Block,    \* blocks sent: [id, seq, half, whole], whole if of ntt_n residues
  Via,      \* block -> the connection it is sent on
  Absent,   \* no entry in a map
  Unknown   \* shard_id of a peer no block has come from

Entry == [q1 : Block \union {Absent}, q2 : Block \union {Absent}]

ASSUME GarnerAssumption ==
  /\ Via \in [Block -> Conn]
  /\ \A b \in Block : DOMAIN b = {"id", "seq", "half", "whole"} /\ b.half \in {"q1", "q2"}
  /\ Absent \notin Block /\ Absent \notin Entry /\ Unknown \notin {"q1", "q2"}

VARIABLES
  accepting,  \* the loop still accepts connections
  conn,       \* connection -> "new", "open" or "closed"
  watcher,    \* connection -> its close-watcher is to run
  streams,    \* connection -> its accept_uni loop is to end
  task,       \* block -> where its task is
  taken,      \* block -> the pair its task is to recombine
  pending,    \* sequence number -> halves that wait
  peer_map,   \* address -> shard
  results     \* recombined pairs, in the order they were sent on

maps == <<pending, peer_map>>
vars == <<accepting, conn, watcher, streams, task, taken, pending, peer_map, results>>

Seqs == {b.seq : b \in Block}
Addresses == {Remote[k] : k \in Conn}

Init ==
  /\ accepting = TRUE
  /\ conn = [k \in Conn |-> "new"]
  /\ watcher = [k \in Conn |-> FALSE] /\ streams = [k \in Conn |-> FALSE]
  /\ task = [b \in Block |-> "recv"]
  /\ taken = [b \in Block |-> Absent]
  /\ pending = [s \in Seqs |-> Absent]
  /\ peer_map = [r \in Addresses |-> Absent]
  /\ results = <<>>

-----------------------------------------------------------------------------
(***************************************************************************)
(* Connections.                                                            *)
(***************************************************************************)
Accept(k) ==
  /\ accepting /\ conn[k] = "new"
  /\ conn' = [conn EXCEPT ![k] = "open"]
  /\ peer_map' = [peer_map EXCEPT ![Remote[k]] = Unknown]
  /\ watcher' = [watcher EXCEPT ![k] = TRUE]
  /\ streams' = [streams EXCEPT ![k] = TRUE]
  /\ UNCHANGED <<accepting, task, taken, pending, results>>

\* A failed handshake is an Err of accept_connection, and ends the loop.
HandshakeFails(k) ==
  /\ accepting /\ conn[k] = "new"
  /\ conn' = [conn EXCEPT ![k] = "closed"]
  /\ accepting' = FALSE
  /\ UNCHANGED <<watcher, streams, task, taken, maps, results>>

\* The worker closes, or its connection times out.
Close(k) ==
  /\ conn[k] = "open"
  /\ conn' = [conn EXCEPT ![k] = "closed"]
  /\ UNCHANGED <<accepting, watcher, streams, task, taken, maps, results>>

Watched(k) ==
  /\ conn[k] = "closed" /\ watcher[k]
  /\ watcher' = [watcher EXCEPT ![k] = FALSE]
  /\ peer_map' = [peer_map EXCEPT ![Remote[k]] = Absent]
  /\ UNCHANGED <<accepting, conn, streams, task, taken, pending, results>>

\* accept_uni answers an error once the connection is closed.
StreamsEnd(k) ==
  /\ conn[k] = "closed" /\ streams[k]
  /\ streams' = [streams EXCEPT ![k] = FALSE]
  /\ peer_map' = [peer_map EXCEPT ![Remote[k]] = Absent]
  /\ UNCHANGED <<accepting, conn, watcher, task, taken, pending, results>>

-----------------------------------------------------------------------------
(***************************************************************************)
(* The task of a block.                                                    *)
(***************************************************************************)
Step(b, from, to) == task[b] = from /\ task' = [task EXCEPT ![b] = to]

Receive(b) ==
  /\ Step(b, "recv", "refine")
  /\ conn[Via[b]] = "open"
  /\ UNCHANGED <<accepting, conn, watcher, streams, taken, maps, results>>

\* The first block of a peer that is still there tells its shard.
Refine(b) ==
  /\ Step(b, "refine", "insert")
  /\ peer_map' = [peer_map EXCEPT ![Remote[Via[b]]] = IF @ = Unknown THEN b.half ELSE @]
  /\ UNCHANGED <<accepting, conn, watcher, streams, taken, pending, results>>

Both(entry) == entry.q1 # Absent /\ entry.q2 # Absent

Joined(b) ==
  LET entry == IF pending[b.seq] = Absent THEN [q1 |-> Absent, q2 |-> Absent]
               ELSE pending[b.seq]
  IN  IF b.half = "q1" THEN [entry EXCEPT !.q1 = b] ELSE [entry EXCEPT !.q2 = b]

InsertUnlocked(b) ==                                        \* mutant of Insert
  /\ pending' = [pending EXCEPT ![b.seq] = Joined(b)]
  /\ Step(b, "insert", IF pending[b.seq] # Absent /\ Both(pending[b.seq])
                       THEN "remove" ELSE "end")
  /\ UNCHANGED <<accepting, conn, watcher, streams, taken, peer_map, results>>

\* Under the entry's lock: the half is put in, both_arrived decided.
Insert(b) ==
  /\ pending' = [pending EXCEPT ![b.seq] = Joined(b)]
  /\ Step(b, "insert", IF Both(Joined(b)) THEN "remove" ELSE "end")
  /\ UNCHANGED <<accepting, conn, watcher, streams, taken, peer_map, results>>

Sendable(entry) == entry # Absent /\ Both(entry) /\ entry.q1.whole /\ entry.q2.whole

RemoveCopies(b) ==                                          \* mutant of Remove
  /\ Step(b, "remove", IF Sendable(pending[b.seq]) THEN "send" ELSE "end")
  /\ taken' = [taken EXCEPT ![b] = IF Sendable(pending[b.seq]) THEN pending[b.seq] ELSE Absent]
  /\ UNCHANGED <<accepting, conn, watcher, streams, maps, results>>

\* Whatever entry is there now is taken out; another task may have been
\* first, and a newer entry may hold one half only.
Remove(b) ==
  /\ Step(b, "remove", IF Sendable(pending[b.seq]) THEN "send" ELSE "end")
  /\ taken' = [taken EXCEPT ![b] = IF Sendable(pending[b.seq]) THEN pending[b.seq] ELSE Absent]
  /\ pending' = [pending EXCEPT ![b.seq] = Absent]
  /\ UNCHANGED <<accepting, conn, watcher, streams, peer_map, results>>

\* Recombine and send.
SendOn(b) ==
  /\ Step(b, "send", "end")
  /\ results' = Append(results, taken[b])
  /\ taken' = [taken EXCEPT ![b] = Absent]
  /\ UNCHANGED <<accepting, conn, watcher, streams, maps>>

Task(b) == Refine(b) \/ Insert(b) \/ Remove(b) \/ SendOn(b)

Next ==
  \/ \E k \in Conn : Accept(k) \/ HandshakeFails(k) \/ Close(k) \/ Watched(k) \/ StreamsEnd(k)
  \/ \E b \in Block : Receive(b) \/ Task(b)

\* The runtime polls every spawned task that can go on.
Fairness ==
  /\ \A b \in Block : WF_vars(Task(b))
  /\ \A k \in Conn : WF_vars(Watched(k)) /\ WF_vars(StreamsEnd(k))

Spec == Init /\ [][Next]_vars /\ Fairness

-----------------------------------------------------------------------------
(***************************************************************************)
(* Pending entries and results hold blocks, the peer map shards.           *)
(***************************************************************************)
TypeOK ==
  /\ accepting \in BOOLEAN
  /\ conn \in [Conn -> {"new", "open", "closed"}]
  /\ watcher \in [Conn -> BOOLEAN] /\ streams \in [Conn -> BOOLEAN]
  /\ task \in [Block -> {"recv", "refine", "insert", "remove", "send", "end"}]
  /\ taken \in [Block -> Entry \union {Absent}]
  /\ pending \in [Seqs -> Entry \union {Absent}]
  /\ peer_map \in [Addresses -> {Absent, Unknown, "q1", "q2"}]
  /\ results \in Seq(Entry)

(***************************************************************************)
(* A complete pair is never left in the map: a task that saw it complete   *)
(* is on its way to take it out.                                           *)
(***************************************************************************)
NoneStranded ==
  \A s \in Seqs : pending[s] # Absent /\ Both(pending[s])
    => \E b \in Block : b.seq = s /\ task[b] = "remove"

(***************************************************************************)
(* Each block goes into one result at most, whichever tasks race for the   *)
(* entry ("exactly one task wins if two race here").                       *)
(***************************************************************************)
UsedOnce ==
  \A i, j \in DOMAIN results :
    results[i].q1 = results[j].q1 \/ results[i].q2 = results[j].q2 => i = j

Received(b) == task[b] # "recv"

(***************************************************************************)
(* A sequence number both halves of which are received yields a result,    *)
(* duplicates and late removals notwithstanding; only a short block can    *)
(* prevent it.                                                             *)
(***************************************************************************)
Recombined ==
  \A b, d \in Block : b.seq = d.seq /\ b.half = "q1" /\ d.half = "q2" =>
    (Received(b) /\ Received(d)
       ~> \/ \E i \in DOMAIN results : results[i].q1.seq = b.seq /\ results[i].q2.seq = b.seq
          \/ \E f \in Block : f.seq = b.seq /\ ~ f.whole /\ Received(f))

(***************************************************************************)
(* A worker whose connection has ended leaves the peer map, and for good,  *)
(* whatever its last blocks' tasks still do ("no ghost nodes in the UI").  *)
(***************************************************************************)
NoGhosts ==
  \A k \in Conn : [](conn[k] = "closed" => <>[](peer_map[Remote[k]] = Absent))

(***************************************************************************)
(* Pairs and peers come to what they must (run_garner_loop).               *)
(***************************************************************************)
Settles == Recombined /\ NoGhosts
=============================================================================

-------------------------------- MODULE Network --------------------------------
(***************************************************************************)
(* The protocols that an engine speaks with other machines, each with a    *)
(* module: the residues of shard workers, assembled by the garner loop     *)
(* (quic_shard.rs), the replication of memories (sp_swarm) and a peer as   *)
(* the Ring-2 store of cold blocks (ring2_quic.rs); beside the peer, the   *)
(* disk that is the store where none is registered (ring2_arm_backend.c).  *)
(* They share no state; in a behaviour one of them is in play.             *)
(***************************************************************************)
EXTENDS GarnerLoop

CONSTANTS
  Protocols,   \* those that may be in play
  Node, Addr, Roster, Peers, NoText, Cut, Stored, Own, MaxFailures,   \* Swarm
  Key, Data, None, MaxBatch, MaxCalls, MaxConn,                       \* RemoteRing2
  Off, NoOff, Blank, Hash, nslot, hcap                                \* Ring2Cache

VARIABLES
  protocol,
  store, up, pull, failures,
  running, serving, kept, tasks, forgotten, client, made, lost, registered, calls, call, acked, doubt,
  dev, cache

S == INSTANCE Swarm
R == INSTANCE RemoteRing2
K == INSTANCE Ring2Cache

ASSUME NetworkAssumption ==
  /\ Protocols \subseteq {"garner", "swarm", "ring2", "disk"}
  /\ S!SwarmAssumption /\ R!RemoteAssumption /\ K!Ring2Assumption

swarmVars == <<store, up, pull, failures>>
ring2Vars == <<running, serving, kept, tasks, forgotten, client, made, lost, registered,
               calls, call, acked, doubt>>
diskVars == <<dev, cache>>
netVars == <<protocol, vars, swarmVars, ring2Vars, diskVars>>

\* The protocols that are not in play: no worker connects, no node has a file, no peer
\* is registered.
NetInit ==
  /\ protocol \in Protocols
  /\ Init /\ R!Init /\ K!Init
  /\ IF protocol = "swarm" THEN S!Init
     ELSE /\ store = [n \in Node |-> [a \in Addr |-> NoText]]
          /\ up = [n \in Node |-> FALSE]
          /\ pull = [n \in Node |-> S!Rest(1)]
          /\ failures = 0

Garner      == protocol = "garner" /\ UNCHANGED <<protocol, swarmVars, ring2Vars, diskVars>>
Replication == protocol = "swarm"  /\ UNCHANGED <<protocol, vars, ring2Vars, diskVars>>
Ring2       == protocol = "ring2"  /\ UNCHANGED <<protocol, vars, swarmVars, diskVars>>
Disk        == protocol = "disk"   /\ UNCHANGED <<protocol, vars, swarmVars, ring2Vars>>

NetNext ==
  \/ Garner /\ Next
  \/ Replication /\ S!Next
  \/ Ring2 /\ R!Next
  \/ Disk /\ K!Next

\* The runtimes go on while a task can: every block's task and every watcher comes to
\* its end, a stopped node is started again, and a call to the peer is served, returns or
\* has its connection time out.  These steps are finitely many between two that are not
\* theirs, so none is left out for ever.
Going ==
  \/ Garner /\ \/ \E b \in Block : Task(b)
               \/ \E k \in Conn : Watched(k) \/ StreamsEnd(k)
  \/ Replication /\ \E n \in Node : S!Restart(n)
  \/ Ring2 /\ (R!Serve \/ R!Return \/ R!TimesOut)

\* The nodes, whose loops never end, are each treated fairly.
NetFairness ==
  /\ WF_netVars(Going)
  /\ \A n \in Node : WF_netVars(Replication /\ S!Loop(n))

NetSpec == NetInit /\ [][NetNext]_netVars /\ NetFairness
-----------------------------------------------------------------------------
(* The garner loop's properties are those of its module.                   *)

(***************************************************************************)
(* A node holds nothing that did not pass its checks but what it had       *)
(* (accept, transport.rs).                                                 *)
(***************************************************************************)
OnlyAccepted == S!OnlyAccepted

(***************************************************************************)
(* Nothing held is replaced or lost, and what comes is a copy of what a    *)
(* peer has (pull_from, transport.rs).                                     *)
(***************************************************************************)
Replicates == S!Replicates

(***************************************************************************)
(* A node obtains what the peers it trusts hold ("both nodes must converge *)
(* to the union").                                                         *)
(***************************************************************************)
Obtains == S!Obtains

(***************************************************************************)
(* A read that a peer answers with 0 fills every buffer with the block of  *)
(* the last acknowledged write or a later one (RemoteRing2, ring2_quic.rs).*)
(***************************************************************************)
ReadsWhatWasWritten == R!ReadsWhatWasWritten

(***************************************************************************)
(* A call to the peer returns, whatever becomes of the peer: the decode    *)
(* thread and the mutex it holds are never left waiting (RemoteRing2).     *)
(***************************************************************************)
CallsReturn == R!CallsReturn

(***************************************************************************)
(* The table of the staging cache leads to every cached block and to       *)
(* nothing else, whatever was evicted, and a read answers what the device  *)
(* holds, from the cache or not (Ring2Cache, ring2_arm_backend.c).         *)
(***************************************************************************)
CacheExact == protocol = "disk" => K!CacheExact

(***************************************************************************)
(* What stays cached is what was used last: table, list and slots of the   *)
(* staging cache implement an ordered set of offsets over the device.      *)
(***************************************************************************)
Cached == IF protocol = "disk" THEN K!Listed(cache) ELSE <<>>
L == INSTANCE LruStore WITH Capacity <- nslot, recent <- Cached
ImplementsLru == L!Init /\ [][protocol = "disk" /\ L!Next]_<<dev, Cached>>
================================================================================

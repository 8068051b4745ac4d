------------------------------- MODULE Swarm -------------------------------
(***************************************************************************)
(* The have/want replication of tools/sp_swarm: every node serves its      *)
(* store (serve) and pulls in turn from each of its peers what it lacks    *)
(* (run_node, pull_from).  Servers are stateless: an answer is the file as *)
(* it is when the request is served.                                       *)
(*                                                                         *)
(* The file of an object is not written at a stroke: fs::write creates it  *)
(* empty and then fills it, and a listing shows it in between.             *)
(***************************************************************************)
EXTENDS Integers, Sequences

CONSTANTS
  Node,
  Addr,         \* object addresses
  Roster,       \* node -> the signers its roster file names
  Peers,        \* node -> cfg.peers, a sequence of nodes
  NoText,       \* there is no file
  Cut,          \* an empty or cut-off file
  Stored,       \* whole texts
  Own,          \* node -> address -> texts it may have before it first starts
  MaxFailures   \* bound on lost connections, failed writes and crashes

(***************************************************************************)
(* A text is known by what accept looks at: the address its body hashes to,*)
(* the episode address its frontmatter names, and whose signature it bears.*)
(***************************************************************************)
SwarmAssumption ==
  /\ Roster \in [Node -> SUBSET Node] /\ Peers \in [Node -> Seq(Node)]
  /\ \A t \in Stored : DOMAIN t = {"hash", "episode", "signer"}
  /\ \A n \in Node, a \in Addr : Own[n][a] \subseteq Stored \union {NoText}
  /\ Cut \notin Stored /\ NoText \notin Stored /\ Cut # NoText
  /\ MaxFailures \in Nat

VARIABLES
  store,    \* node -> address -> text of the file
  up,       \* node -> the daemon runs
  pull,     \* node -> where its loop is
  failures  \* lost connections, failed writes and crashes so far

vars == <<store, up, pull, failures>>

Held == Stored \union {NoText, Cut}

-----------------------------------------------------------------------------
Classify(a, t) ==
  IF t.hash = a THEN "content" ELSE IF t.episode = a THEN "c2" ELSE "bad"

\* accept: the class of a cut-off text is bad, for neither hash nor
\* frontmatter survives.
Accept(n, a, t) ==
  t \in Stored /\ Classify(a, t) # "bad" /\ t.signer \in Roster[n]

\* client_auth and server_auth: each side finds the other in its roster.
Authenticates(n, p) == p \in Roster[n] /\ n \in Roster[p]

Have(n) == {a \in Addr : store[n][a] # NoText}

-----------------------------------------------------------------------------
(***************************************************************************)
(* The loop of run_node: at its i-th peer, "rest" before the pull, "list"  *)
(* once the peer's listing has arrived, "get" while objects of it are      *)
(* wanted, "write" between creating a file and filling it.  The connection *)
(* of a pull is linked until the peer crashes.                             *)
(***************************************************************************)
Rest(i) == [pc |-> "rest", at |-> i]

Following(n) == Rest(IF pull[n].at < Len(Peers[n]) THEN pull[n].at + 1 ELSE 1)

Peer(n) == Peers[n][pull[n].at]

Runs(n, pc) == up[n] /\ pull[n].pc = pc

Init ==
  /\ store \in [Node -> [Addr -> Stored \union {NoText}]]
  /\ \A n \in Node, a \in Addr : store[n][a] \in Own[n][a]
  /\ up = [n \in Node |-> TRUE]
  /\ pull = [n \in Node |-> Rest(1)]
  /\ failures = 0

\* Connect, authenticate and receive the peer's listing.
List(n) ==
  /\ Runs(n, "rest") /\ Peers[n] # <<>>
  /\ up[Peer(n)] /\ Authenticates(n, Peer(n))
  /\ pull' = [pull EXCEPT ![n] = [pc |-> "list", at |-> @.at, linked |-> TRUE,
                                  have |-> Have(Peer(n))]]
  /\ UNCHANGED <<store, up, failures>>

Getting(n, want) ==
  [pc |-> "get", at |-> pull[n].at, linked |-> pull[n].linked, want |-> want]

DiffAll(n) ==                                                 \* mutant of Diff
  /\ Runs(n, "list")
  /\ pull' = [pull EXCEPT ![n] = Getting(n, pull[n].have)]
  /\ UNCHANGED <<store, up, failures>>

\* local_have, taken after the listing.
Diff(n) ==
  /\ Runs(n, "list")
  /\ pull' = [pull EXCEPT ![n] = Getting(n, pull[n].have \ Have(n))]
  /\ UNCHANGED <<store, up, failures>>

Writes(n, a, t) ==
  [pc |-> "write", at |-> pull[n].at, linked |-> pull[n].linked,
   want |-> pull[n].want \ {a}, addr |-> a, text |-> t]

GetUnchecked(n, a) ==                                          \* mutant of Get
  LET t == store[Peer(n)][a] IN
  /\ Runs(n, "get") /\ pull[n].linked
  /\ a \in pull[n].want /\ t \in Stored
  /\ store' = [store EXCEPT ![n][a] = Cut]
  /\ pull' = [pull EXCEPT ![n] = Writes(n, a, t)]
  /\ UNCHANGED <<up, failures>>

\* GET: an accepted text goes to the file system, another is left out of
\* this round.
Get(n, a) ==
  LET t == store[Peer(n)][a] IN
  /\ Runs(n, "get") /\ pull[n].linked
  /\ a \in pull[n].want
  /\ \/ /\ Accept(n, a, t)
        /\ store' = [store EXCEPT ![n][a] = Cut]
        /\ pull' = [pull EXCEPT ![n] = Writes(n, a, t)]
     \/ /\ ~ Accept(n, a, t)
        /\ pull' = [pull EXCEPT ![n].want = @ \ {a}]
        /\ UNCHANGED store
  /\ UNCHANGED <<up, failures>>

Fill(n) ==
  /\ Runs(n, "write")
  /\ store' = [store EXCEPT ![n][pull[n].addr] = pull[n].text]
  /\ pull' = [pull EXCEPT ![n] = Getting(n, pull[n].want)]
  /\ UNCHANGED <<up, failures>>

Done(n) ==
  /\ Runs(n, "get") /\ pull[n].want = {}
  /\ pull' = [pull EXCEPT ![n] = Following(n)]
  /\ UNCHANGED <<store, up, failures>>

RefusedAgain(n) ==                                         \* mutant of Refused
  /\ Peers[n] # <<>>
  /\ Runs(n, "rest") /\ ~ (up[Peer(n)] /\ Authenticates(n, Peer(n)))
  /\ UNCHANGED vars

\* The peer is down, or refuses, or was down: run_node goes on to the next.
Refused(n) ==
  /\ Peers[n] # <<>>
  /\ \/ Runs(n, "rest") /\ ~ (up[Peer(n)] /\ Authenticates(n, Peer(n)))
     \/ Runs(n, "get") /\ pull[n].want # {} /\ ~ pull[n].linked
  /\ pull' = [pull EXCEPT ![n] = Following(n)]
  /\ UNCHANGED <<store, up, failures>>

-----------------------------------------------------------------------------
\* The connection breaks: the rest of this pull is given up.
Lost(n) ==
  /\ Runs(n, "rest") \/ Runs(n, "get")
  /\ Peers[n] # <<>> /\ failures < MaxFailures
  /\ pull' = [pull EXCEPT ![n] = Following(n)]
  /\ failures' = failures + 1
  /\ UNCHANGED <<store, up>>

\* The result of fs::write is ignored; what it has written stays.
FillFails(n) ==
  /\ Runs(n, "write") /\ failures < MaxFailures
  /\ pull' = [pull EXCEPT ![n] = Getting(n, pull[n].want)]
  /\ failures' = failures + 1
  /\ UNCHANGED <<store, up>>

\* A daemon stops where it is, its connections break, its files stay.
Crash(n) ==
  /\ up[n] /\ failures < MaxFailures
  /\ up' = [up EXCEPT ![n] = FALSE]
  /\ pull' = [m \in Node |->
                IF m = n THEN Rest(1)
                ELSE IF pull[m].pc # "rest" /\ Peer(m) = n
                THEN [pull[m] EXCEPT !.linked = FALSE] ELSE pull[m]]
  /\ failures' = failures + 1
  /\ UNCHANGED store

Restart(n) ==
  /\ ~ up[n]
  /\ up' = [up EXCEPT ![n] = TRUE]
  /\ UNCHANGED <<store, pull, failures>>

Loop(n) ==
  \/ List(n) \/ Diff(n) \/ Fill(n) \/ Done(n) \/ Refused(n)
  \/ \E a \in Addr : Get(n, a)

Next == \E n \in Node : Loop(n) \/ Lost(n) \/ FillFails(n) \/ Crash(n) \/ Restart(n)

Spec == Init /\ [][Next]_vars

\* The runtime polls every ready task and a stopped daemon is started again.
FairSpec == Spec /\ \A n \in Node : WF_vars(Loop(n)) /\ WF_vars(Restart(n))
-----------------------------------------------------------------------------
(***************************************************************************)
(* Files hold whole texts or are cut off; a pull in progress is at one of  *)
(* the node's peers and wants and writes objects of it.                    *)
(***************************************************************************)
Place ==
  [pc : {"rest"}, at : Nat]
    \union [pc : {"list"}, at : Nat, linked : BOOLEAN, have : SUBSET Addr]
    \union [pc : {"get"}, at : Nat, linked : BOOLEAN, want : SUBSET Addr]
    \union [pc : {"write"}, at : Nat, linked : BOOLEAN, want : SUBSET Addr,
            addr : Addr, text : Stored]

TypeOK ==
  /\ store \in [Node -> [Addr -> Held]]
  /\ up \in [Node -> BOOLEAN]
  /\ failures \in 0 .. MaxFailures
  /\ pull \in [Node -> Place]
  /\ \A n \in Node : pull[n].at \in DOMAIN Peers[n] \union {1}

Writing(n, a) == pull[n].pc = "write" /\ pull[n].addr = a

(***************************************************************************)
(* A whole object a node did not have of its own passed its checks (hash or*)
(* episode address, and a signature of its roster), whichever way it came: *)
(* an unsigned or misplaced text never leaves the node it is on.           *)
(***************************************************************************)
OnlyAccepted ==
  \A n \in Node, a \in Addr :
    store[n][a] \in Stored \ Own[n][a] => Accept(n, a, store[n][a])

(***************************************************************************)
(* Nodes replicate: cut-off files aside, an object comes to a node that    *)
(* lacks it as a copy of a peer's accepted text, and nothing a node holds  *)
(* is replaced or lost, through crashes and broken connections.            *)
(***************************************************************************)
Whole ==
  [n \in Node |-> [a \in Addr |-> IF store[n][a] = Cut THEN NoText ELSE store[n][a]]]

Replicas == INSTANCE ReplicaStores WITH
  store   <- Whole,
  Pulls   <- LAMBDA n : {Peers[n][i] : i \in DOMAIN Peers[n]},
  Accepts <- Accept

Replicates == Replicas!Stable

(***************************************************************************)
(* A node obtains every object that a peer it trusts holds in a text it    *)
(* accepts ("both nodes must converge to the union"), unless a file that a *)
(* crash or a failed write cut off stands in the way.                      *)
(***************************************************************************)
Offered(n, a) ==
  \E i \in DOMAIN Peers[n] :
    Authenticates(n, Peers[n][i]) /\ Accept(n, a, store[Peers[n][i]][a])
Obtained(n, a) == store[n][a] \in Stored \/ (store[n][a] = Cut /\ ~ Writing(n, a))
Obtains == \A n \in Node, a \in Addr : Offered(n, a) ~> Obtained(n, a)
=============================================================================

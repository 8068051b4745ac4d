---------------------------- MODULE NetworkProofs ----------------------------
(***************************************************************************)
(* Theorems about Network.  Of the garner loop: its types, that no         *)
(* complete pair is left in the map and that no block is used twice.  Of   *)
(* the replication: its types, that whatever a node holds beside its own   *)
(* texts has passed its checks, and that what it obtains is a copy of what *)
(* a peer has.  Of the remote store: that it reads what was written.  Of   *)
(* the staging cache: that its table is exact, that its blocks are those   *)
(* of the device and that it keeps those used last.                        *)
(***************************************************************************)
EXTENDS Network, FiniteSetTheorems, SequenceTheorems, TLAPS

\* What the assumption says of the fields of a block.
LEMMA BlockFields ==
  ASSUME NEW b \in Block
  PROVE  b.seq \in Seqs /\ b.half \in {"q1", "q2"} /\ b # Absent /\ Remote[Via[b]] \in Addresses
BY GarnerAssumption DEF Seqs, Addresses

\* What Insert puts in place of an entry.
LEMMA JoinedType ==
  ASSUME TypeOK, NEW b \in Block
  PROVE  /\ Joined(b) \in Entry
         /\ Joined(b) # Absent
         /\ Joined(b).q1 = b \/ Joined(b).q2 = b
BY BlockFields, GarnerAssumption DEF Joined, Entry, TypeOK

-----------------------------------------------------------------------------
\* The maps start with their types.
LEMMA TypeInit == Init => TypeOK
BY DEF Init, TypeOK, Entry

\* What a task is about to send on is a pair.
Ready ==
  \A b \in Block : /\ task[b] = "send" => taken[b] # Absent
                   /\ taken[b] # Absent => Both(taken[b])

\* A step of a task leaves pairs with the tasks about to send one.
LEMMA ReadyStep ==
  ASSUME TypeOK, Ready, NEW b \in Block, Receive(b) \/ Task(b)
  PROVE  Ready'
<1>1. CASE Receive(b)
  BY <1>1 DEF Receive, Step, TypeOK, Ready, Both
<1>2. CASE Refine(b)
  BY <1>2 DEF Refine, Step, TypeOK, Ready, Both
<1>3. CASE Insert(b)
  BY <1>3 DEF Insert, Step, TypeOK, Ready, Both
<1>4. CASE Remove(b)
  BY <1>4 DEF Remove, Step, TypeOK, Ready, Both, Sendable
<1>5. CASE SendOn(b)
  BY <1>5 DEF SendOn, Step, TypeOK, Ready, Both
<1> QED BY <1>1, <1>2, <1>3, <1>4, <1>5 DEF Task

\* A step of a task keeps the types.
LEMMA TypeStep ==
  ASSUME TypeOK, Ready, NEW b \in Block, Receive(b) \/ Task(b)
  PROVE  TypeOK'
<1>1. CASE Receive(b)
  BY <1>1 DEF Receive, Step, TypeOK, maps
<1>2. CASE Refine(b)
  BY <1>2, BlockFields DEF Refine, Step, TypeOK
<1>3. CASE Insert(b)
  BY <1>3, BlockFields, JoinedType DEF Insert, Step, TypeOK
<1>4. CASE Remove(b)
  BY <1>4, BlockFields DEF Remove, Step, TypeOK
<1>5. CASE SendOn(b)
  <2>1. taken[b] \in Entry
    BY <1>5 DEF SendOn, Step, TypeOK, Ready
  <2>2. results' \in Seq(Entry)
    BY <1>5, <2>1 DEF SendOn, TypeOK
  <2> QED BY <1>5, <2>2 DEF SendOn, Step, TypeOK, maps
<1> QED BY <1>1, <1>2, <1>3, <1>4, <1>5 DEF Task

Connection(k) ==
  Accept(k) \/ HandshakeFails(k) \/ Close(k) \/ Watched(k) \/ StreamsEnd(k)

\* A connection that opens, fails or closes keeps the types and touches no task.
LEMMA ConnectionStep ==
  ASSUME TypeOK, NEW k \in Conn, Connection(k)
  PROVE  TypeOK' /\ UNCHANGED <<task, taken, pending, results>>
<1>1. Remote[k] \in Addresses
  BY DEF Addresses
<1> QED
  BY <1>1 DEF Connection, Accept, HandshakeFails, Close, Watched, StreamsEnd, TypeOK, maps

TypeInv == TypeOK /\ Ready

\* A step of the network is a step of the garner loop or leaves it alone.
LEMMA GarnerSteps == [NetNext]_netVars => [Next]_vars
BY DEF NetNext, Replication, Ring2, Disk, netVars, vars, maps

\* Every step keeps the types and Ready.
LEMMA TypeInvNext == TypeInv /\ [Next]_vars => TypeInv'
<1> SUFFICES ASSUME TypeInv, [Next]_vars PROVE TypeInv'
  OBVIOUS
<1>1. ASSUME NEW b \in Block, Receive(b) \/ Task(b) PROVE TypeInv'
  BY <1>1, TypeStep, ReadyStep DEF TypeInv
<1>2. ASSUME NEW k \in Conn, Connection(k) PROVE TypeInv'
  BY <1>2, ConnectionStep DEF TypeInv, Ready, Both
<1>3. CASE UNCHANGED vars
  BY <1>3 DEF vars, TypeInv, TypeOK, Ready, Both
<1> QED BY <1>1, <1>2, <1>3 DEF Next, Connection

(***************************************************************************)
(* The maps, tasks and results keep their types, and a task that is about  *)
(* to send holds a pair.                                                   *)
(***************************************************************************)
THEOREM GarnerTypes == NetSpec => [](TypeOK /\ Ready)
<1>1. Init => TypeInv
  BY TypeInit DEF Init, TypeInv, Ready
<1> QED BY <1>1, TypeInvNext, GarnerSteps, PTL DEF NetSpec, NetInit, TypeInv

-----------------------------------------------------------------------------
\* Every step leaves a task on its way to each complete pair in the map.
LEMMA StrandedNext == TypeOK /\ NoneStranded /\ [Next]_vars => NoneStranded'
<1> SUFFICES ASSUME TypeOK, NoneStranded, [Next]_vars PROVE NoneStranded'
  OBVIOUS
<1>1. ASSUME NEW b \in Block, Insert(b) PROVE NoneStranded'
  BY <1>1, JoinedType, BlockFields DEF Insert, Step, TypeOK, NoneStranded, Both
<1>2. ASSUME NEW b \in Block, Remove(b) PROVE NoneStranded'
  BY <1>2, BlockFields DEF Remove, Step, TypeOK, NoneStranded, Both
<1>3. ASSUME NEW b \in Block, Receive(b) \/ Refine(b) \/ SendOn(b) PROVE NoneStranded'
  BY <1>3 DEF Receive, Refine, SendOn, Step, maps, TypeOK, NoneStranded, Both
<1>4. ASSUME NEW k \in Conn, Connection(k) PROVE NoneStranded'
  BY <1>4, ConnectionStep DEF NoneStranded, Both
<1>5. CASE UNCHANGED vars
  BY <1>5 DEF vars, NoneStranded, Both
<1> QED BY <1>1, <1>2, <1>3, <1>4, <1>5 DEF Next, Task, Connection

(***************************************************************************)
(* However many tasks and duplicates race for an entry, a complete pair    *)
(* has a task on its way to take it out.                                   *)
(***************************************************************************)
THEOREM NoPairStranded == NetSpec => []NoneStranded
<1>1. Init => NoneStranded
  BY DEF Init, NoneStranded
<1> QED BY <1>1, StrandedNext, GarnerSteps, GarnerTypes, PTL DEF NetSpec, NetInit

-----------------------------------------------------------------------------
(***************************************************************************)
(* A block is at one place at most: with its task until Insert, then in    *)
(* the map, then in the pair one task took out, then in one result.        *)
(***************************************************************************)
In(entry, d) == entry # Absent /\ (entry.q1 = d \/ entry.q2 = d)

Before == {"recv", "refine", "insert"}

AtTask == \A d \in Block : task[d] \in Before =>
  /\ \A s \in Seqs : ~ In(pending[s], d)
  /\ \A b \in Block : ~ In(taken[b], d)
  /\ \A i \in DOMAIN results : ~ In(results[i], d)

AtMap == \A d \in Block, s \in Seqs : In(pending[s], d) =>
  /\ d.seq = s
  /\ \A b \in Block : ~ In(taken[b], d)
  /\ \A i \in DOMAIN results : ~ In(results[i], d)

AtTaken == \A d, b \in Block : In(taken[b], d) =>
  /\ \A c \in Block : In(taken[c], d) => b = c
  /\ \A i \in DOMAIN results : ~ In(results[i], d)

AtResult == \A i \in DOMAIN results :
  /\ results[i] \in Entry /\ Both(results[i])
  /\ \A j \in DOMAIN results, d \in Block : In(results[i], d) /\ In(results[j], d) => i = j

OncePlaced == AtTask /\ AtMap /\ AtTaken /\ AtResult

\* Blocks other than the one put in were already in the entry.
LEMMA JoinedIn ==
  ASSUME TypeOK, NEW b \in Block, NEW d \in Block, In(Joined(b), d)
  PROVE  d = b \/ In(pending[b.seq], d)
BY BlockFields, GarnerAssumption DEF Joined, In, TypeOK, Entry

\* Putting a half into the map keeps every block at one place.
LEMMA InsertOnce ==
  ASSUME TypeOK, OncePlaced, NEW b \in Block, Insert(b)
  PROVE  OncePlaced'
<1>1. /\ task[b] = "insert"
      /\ \A d \in Block : task'[d] \in Before => d # b /\ task[d] \in Before
      /\ taken' = taken /\ results' = results
  BY DEF Insert, Step, TypeOK, Before
<1>2. \A s \in Seqs, d \in Block : In(pending'[s], d) =>
        (d = b /\ s = b.seq) \/ In(pending[s], d)
  BY JoinedIn DEF Insert, TypeOK
<1>3. AtTask'
  BY <1>1, <1>2 DEF OncePlaced, AtTask
<1>4. AtMap'
  <2> SUFFICES ASSUME NEW d \in Block, NEW s \in Seqs, In(pending'[s], d)
               PROVE  /\ d.seq = s
                      /\ \A c \in Block : ~ In(taken[c], d)
                      /\ \A i \in DOMAIN results : ~ In(results[i], d)
    BY <1>1 DEF AtMap
  <2>1. CASE d = b /\ s = b.seq
    BY <1>1, <2>1 DEF OncePlaced, AtTask, Before
  <2>2. CASE In(pending[s], d)
    BY <2>2 DEF OncePlaced, AtMap
  <2> QED BY <1>2, <2>1, <2>2
<1>5. AtTaken' /\ AtResult'
  BY <1>1 DEF OncePlaced, AtTaken, AtResult, Both, In
<1> QED BY <1>3, <1>4, <1>5 DEF OncePlaced

\* So does taking an entry out.
LEMMA RemoveOnce ==
  ASSUME TypeOK, OncePlaced, NEW b \in Block, Remove(b)
  PROVE  OncePlaced'
<1>1. /\ \A d \in Block : task'[d] \in Before => task[d] \in Before
      /\ results' = results
  BY DEF Remove, Step, TypeOK, Before
<1>2. \A s \in Seqs, d \in Block : In(pending'[s], d) => In(pending[s], d) /\ s # b.seq
  BY BlockFields DEF Remove, TypeOK, In
<1>3. \A c, d \in Block : In(taken'[c], d) =>
        (c = b /\ In(pending[b.seq], d)) \/ (c # b /\ In(taken[c], d))
  BY DEF Remove, TypeOK, In
<1>4. AtTask'
  BY <1>1, <1>2, <1>3, BlockFields DEF OncePlaced, AtTask
<1>5. AtMap'
  BY <1>1, <1>2, <1>3, BlockFields DEF OncePlaced, AtMap
<1>6. AtTaken'
  BY <1>1, <1>3, BlockFields DEF OncePlaced, AtMap, AtTaken
<1>7. AtResult'
  BY <1>1 DEF OncePlaced, AtResult, Both, In
<1> QED BY <1>4, <1>5, <1>6, <1>7 DEF OncePlaced

\* So does sending the pair on.
LEMMA SendOnce ==
  ASSUME TypeOK, Ready, OncePlaced, NEW b \in Block, SendOn(b)
  PROVE  OncePlaced'
<1>1. /\ \A d \in Block : task'[d] \in Before => task[d] \in Before
      /\ pending' = pending
      /\ taken[b] \in Entry /\ Both(taken[b])
  BY DEF SendOn, Step, TypeOK, Before, maps, Ready
<1>2. \A c, d \in Block : In(taken'[c], d) => c # b /\ In(taken[c], d)
  BY DEF SendOn, TypeOK, In
<1>3. \A i \in DOMAIN results' :
        (i \in DOMAIN results /\ results'[i] = results[i])
        \/ (i \notin DOMAIN results /\ results'[i] = taken[b])
  BY <1>1 DEF SendOn, TypeOK
<1>4. \A i, j \in DOMAIN results' : i \notin DOMAIN results /\ j \notin DOMAIN results => i = j
  BY <1>1 DEF SendOn, TypeOK
<1>5. AtTask'
  BY <1>1, <1>2, <1>3 DEF OncePlaced, AtTask
<1>6. AtMap'
  BY <1>1, <1>2, <1>3 DEF OncePlaced, AtMap
<1>7. AtTaken'
  BY <1>2, <1>3 DEF OncePlaced, AtTaken
<1>8. AtResult'
  BY <1>1, <1>3, <1>4 DEF OncePlaced, AtTaken, AtResult, Both
<1> QED BY <1>5, <1>6, <1>7, <1>8 DEF OncePlaced

\* Every step keeps every block at one place.
LEMMA OnceNext == TypeInv /\ OncePlaced /\ [Next]_vars => OncePlaced'
<1> SUFFICES ASSUME TypeInv, OncePlaced, [Next]_vars PROVE OncePlaced'
  OBVIOUS
<1>1. ASSUME NEW b \in Block, Receive(b) \/ Refine(b) PROVE OncePlaced'
  <2>1. /\ \A d \in Block : task'[d] \in Before => task[d] \in Before
        /\ UNCHANGED <<taken, pending, results>>
    BY <1>1 DEF Receive, Refine, Step, TypeInv, TypeOK, Before, maps
  <2> QED BY <2>1 DEF OncePlaced, AtTask, AtMap, AtTaken, AtResult, In, Both
<1>2. ASSUME NEW b \in Block, Insert(b) \/ Remove(b) \/ SendOn(b) PROVE OncePlaced'
  BY <1>2, InsertOnce, RemoveOnce, SendOnce DEF TypeInv
<1>3. CASE (\E k \in Conn : Connection(k)) \/ UNCHANGED vars
  <2>1. UNCHANGED <<task, taken, pending, results>>
    BY <1>3, ConnectionStep DEF TypeInv, vars
  <2> QED BY <2>1 DEF OncePlaced, AtTask, AtMap, AtTaken, AtResult, In, Both, Before
<1> QED BY <1>1, <1>2, <1>3 DEF Next, Task, Connection

\* Results that share no block are what UsedOnce asks for.
LEMMA OnceUsed == AtResult => UsedOnce
<1> SUFFICES ASSUME AtResult, NEW i \in DOMAIN results, NEW j \in DOMAIN results,
                    results[i].q1 = results[j].q1 \/ results[i].q2 = results[j].q2
             PROVE  i = j
  BY DEF UsedOnce
<1>1. /\ results[i] \in Entry /\ Both(results[i])
      /\ results[j] \in Entry /\ Both(results[j])
  BY DEF AtResult
<1>2. results[i].q1 \in Block /\ results[i].q2 \in Block
  BY <1>1 DEF Entry, Both
<1>3. results[i] # Absent /\ results[j] # Absent
  BY <1>1, GarnerAssumption
<1>4. \E d \in Block : In(results[i], d) /\ In(results[j], d)
  BY <1>2, <1>3 DEF In
<1> QED BY <1>4 DEF AtResult

(***************************************************************************)
(* Two results never share a block: duplicates and races use each block    *)
(* once.                                                                   *)
(***************************************************************************)
THEOREM EachBlockUsedOnce == NetSpec => []UsedOnce
<1>1. Init => TypeInv /\ OncePlaced
  BY TypeInit DEF Init, TypeInv, Ready, OncePlaced, AtTask, AtMap, AtTaken, AtResult, In
<1>2. TypeInv /\ OncePlaced => UsedOnce
  BY OnceUsed DEF OncePlaced
<1> QED BY <1>1, <1>2, TypeInvNext, OnceNext, GarnerSteps, PTL DEF NetSpec, NetInit

-----------------------------------------------------------------------------

\* A pull is at a peer of the node, if it has any.
LEMMA PeerIsNode ==
  ASSUME S!TypeOK, NEW n \in Node, Peers[n] # <<>>
  PROVE  S!Peer(n) \in Node
<1>1. Peers[n] \in Seq(Node)
  BY NetworkAssumption DEF S!SwarmAssumption
<1>2. 1 \in DOMAIN Peers[n]
  BY <1>1, EmptySeq
<1>3. pull[n].at \in DOMAIN Peers[n]
  BY <1>2 DEF S!TypeOK
<1> QED BY <1>1, <1>3, ElementOfSeq DEF S!Peer

\* The next place in the round of peers.
LEMMA FollowingType ==
  ASSUME S!TypeOK, NEW n \in Node
  PROVE  S!Following(n) \in S!Place /\ S!Following(n).at \in DOMAIN Peers[n] \union {1}
<1>1. Peers[n] \in Seq(Node)
  BY NetworkAssumption DEF S!SwarmAssumption
<1>2. Len(Peers[n]) \in Nat /\ DOMAIN Peers[n] = 1 .. Len(Peers[n])
  BY <1>1
<1>3. pull[n].at \in Nat
  BY DEF S!TypeOK, S!Place
<1>4. pull[n].at \in DOMAIN Peers[n] \union {1}
  BY DEF S!TypeOK
<1>5. pull[n].at >= 1
  BY <1>2, <1>4
<1> QED BY <1>2, <1>3, <1>5 DEF S!Following, S!Rest, S!Place

-----------------------------------------------------------------------------
\* The nodes start with texts of their own, at the first peer.
LEMMA SwarmTypeInit == S!Init => S!TypeOK
BY NetworkAssumption DEF S!SwarmAssumption, S!Init, S!TypeOK, S!Held, S!Place, S!Rest

\* Whatever a node does or suffers keeps the types.
LEMMA SwarmTypeStep ==
  ASSUME S!TypeOK, NEW n \in Node, S!Loop(n) \/ S!Lost(n) \/ S!FillFails(n) \/ S!Crash(n) \/ S!Restart(n)
  PROVE  S!TypeOK'
<1>0. pull[n] \in S!Place /\ pull[n].at \in DOMAIN Peers[n] \union {1}
  BY DEF S!TypeOK
<1>1. CASE S!List(n)
  <2>1. S!Peer(n) \in Node
    BY <1>1, PeerIsNode DEF S!List
  <2>2. S!Have(S!Peer(n)) \in SUBSET Addr
    BY DEF S!Have
  <2>3. pull[n].pc = "rest" /\ pull[n].at \in Nat
    BY <1>0, <1>1 DEF S!List, S!Runs, S!Place
  <2>4. pull'[n] \in S!Place /\ pull'[n].at = pull[n].at
    BY <1>1, <2>2, <2>3 DEF S!List, S!Place, S!TypeOK
  <2> QED BY <1>1, <2>4 DEF S!List, S!TypeOK
<1>2. CASE S!Diff(n)
  <2>1. pull[n].pc = "list"
    BY <1>2 DEF S!Diff, S!Runs
  <2>2. pull[n].at \in Nat /\ pull[n].linked \in BOOLEAN /\ pull[n].have \in SUBSET Addr
    BY <1>0, <2>1 DEF S!Place
  <2>3. pull'[n] \in S!Place /\ pull'[n].at = pull[n].at
    BY <1>2, <2>2 DEF S!Diff, S!Getting, S!Place, S!TypeOK
  <2> QED BY <1>2, <2>3 DEF S!Diff, S!TypeOK
<1>3. CASE S!Fill(n)
  <2>1. pull[n].pc = "write"
    BY <1>3 DEF S!Fill, S!Runs
  <2>2. /\ pull[n].at \in Nat /\ pull[n].linked \in BOOLEAN /\ pull[n].want \in SUBSET Addr
        /\ pull[n].addr \in Addr /\ pull[n].text \in Stored
    BY <1>0, <2>1 DEF S!Place
  <2>3. pull'[n] \in S!Place /\ pull'[n].at = pull[n].at
    BY <1>3, <2>2 DEF S!Fill, S!Getting, S!Place, S!TypeOK
  <2>4. store' \in [Node -> [Addr -> S!Held]]
    BY <1>3, <2>2 DEF S!Fill, S!TypeOK, S!Held
  <2> QED BY <1>3, <2>3, <2>4 DEF S!Fill, S!TypeOK
<1>4. CASE S!Done(n) \/ S!Refused(n)
  BY <1>4, FollowingType DEF S!Done, S!Refused, S!TypeOK
<1>5. CASE \E a \in Addr : S!Get(n, a)
  <2>1. PICK a \in Addr : S!Get(n, a)
    BY <1>5
  <2>2. pull[n].pc = "get"
    BY <2>1 DEF S!Get, S!Runs
  <2>3. pull[n].at \in Nat /\ pull[n].linked \in BOOLEAN /\ pull[n].want \in SUBSET Addr
    BY <1>0, <2>2 DEF S!Place
  <2>4. CASE S!Accept(n, a, store[S!Peer(n)][a])
    <3>1. store[S!Peer(n)][a] \in Stored
      BY <2>4 DEF S!Accept
    <3>2. pull' = [pull EXCEPT ![n] = S!Writes(n, a, store[S!Peer(n)][a])]
      BY <2>1, <2>4 DEF S!Get
    <3>3. S!Writes(n, a, store[S!Peer(n)][a]) \in S!Place
      BY <2>3, <3>1 DEF S!Writes, S!Place
    <3>4. pull'[n] \in S!Place /\ pull'[n].at = pull[n].at
      BY <3>2, <3>3 DEF S!Writes, S!TypeOK
    <3>5. store' = [store EXCEPT ![n][a] = Cut]
      BY <2>1, <2>4 DEF S!Get
    <3>6. store' \in [Node -> [Addr -> S!Held]]
      BY <3>5 DEF S!TypeOK, S!Held
    <3> QED BY <2>1, <3>2, <3>4, <3>6 DEF S!Get, S!TypeOK
  <2>5. CASE ~ S!Accept(n, a, store[S!Peer(n)][a])
    <3>1. pull'[n] \in S!Place /\ pull'[n].at = pull[n].at
      BY <1>0, <2>1, <2>2, <2>5 DEF S!Get, S!Place, S!TypeOK
    <3> QED BY <2>1, <2>5, <3>1 DEF S!Get, S!TypeOK
  <2> QED BY <2>4, <2>5
<1>6. CASE S!Lost(n)
  BY NetworkAssumption, <1>6, FollowingType DEF S!SwarmAssumption, S!Lost, S!TypeOK
<1>7. CASE S!FillFails(n)
  <2>1. pull[n].pc = "write"
    BY <1>7 DEF S!FillFails, S!Runs
  <2>2. pull[n].at \in Nat /\ pull[n].linked \in BOOLEAN /\ pull[n].want \in SUBSET Addr
    BY <1>0, <2>1 DEF S!Place
  <2>3. pull'[n] \in S!Place /\ pull'[n].at = pull[n].at
    BY <1>7, <2>2 DEF S!FillFails, S!Getting, S!Place, S!TypeOK
  <2> QED BY NetworkAssumption, <1>7, <2>3 DEF S!SwarmAssumption, S!FillFails, S!TypeOK
<1>8. CASE S!Crash(n)
  <2>1. ASSUME NEW m \in Node
        PROVE  pull'[m] \in S!Place /\ pull'[m].at \in DOMAIN Peers[m] \union {1}
    <3>1. pull[m] \in S!Place /\ pull[m].at \in DOMAIN Peers[m] \union {1}
      BY DEF S!TypeOK
    <3>2. CASE m = n
      BY <1>8, <3>2 DEF S!Crash, S!Rest, S!Place
    <3>3. CASE m # n /\ pull[m].pc # "rest" /\ S!Peer(m) = n
      <4>1. pull'[m] = [pull[m] EXCEPT !.linked = FALSE]
        BY <1>8, <3>3 DEF S!Crash
      <4> QED BY <3>1, <3>3, <4>1 DEF S!Place
    <3>4. CASE m # n /\ ~ (pull[m].pc # "rest" /\ S!Peer(m) = n)
      BY <1>8, <3>1, <3>4 DEF S!Crash
    <3> QED BY <3>2, <3>3, <3>4
  <2>2. pull' = [m \in Node |-> pull'[m]]
    BY <1>8 DEF S!Crash
  <2>3. pull' \in [Node -> S!Place]
    BY <2>1, <2>2
  <2>4. up' \in [Node -> BOOLEAN] /\ store' = store
    BY <1>8 DEF S!Crash, S!TypeOK
  <2>5. failures' \in 0 .. MaxFailures
    BY NetworkAssumption, <1>8 DEF S!SwarmAssumption, S!Crash, S!TypeOK
  <2>6. store' \in [Node -> [Addr -> S!Held]]
    BY <2>4 DEF S!TypeOK
  <2> QED BY <2>1, <2>3, <2>4, <2>5, <2>6 DEF S!TypeOK
<1>9. CASE S!Restart(n)
  <2>1. up' \in [Node -> BOOLEAN]
    BY <1>9 DEF S!Restart, S!TypeOK
  <2>2. store' = store /\ pull' = pull /\ failures' = failures
    BY <1>9 DEF S!Restart
  <2> QED BY <2>1, <2>2 DEF S!TypeOK
<1> QED BY <1>1, <1>2, <1>3, <1>4, <1>5, <1>6, <1>7, <1>8, <1>9 DEF S!Loop

\* A step of the network is a step of the replication or leaves it alone.
LEMMA SwarmSteps == [NetNext]_netVars => [S!Next]_S!vars
BY DEF NetNext, Garner, Ring2, Disk, netVars, swarmVars, S!vars

\* Nodes that are not in play have empty stores and stand still.
LEMMA SwarmStarts ==
  ASSUME NetInit
  PROVE  /\ S!TypeOK
         /\ \A n \in Node : pull[n] = S!Rest(1)
         /\ \A n \in Node, a \in Addr : store[n][a] \in Own[n][a] \union {NoText}
         /\ \A n \in Node, a \in Addr : store[n][a] # Cut
<1>1. CASE protocol = "swarm"
  BY <1>1, SwarmTypeInit, NetworkAssumption DEF NetInit, S!Init, S!SwarmAssumption
<1>2. CASE protocol # "swarm"
  <2>1. /\ store = [n \in Node |-> [a \in Addr |-> NoText]] /\ up = [n \in Node |-> FALSE]
        /\ pull = [n \in Node |-> S!Rest(1)] /\ failures = 0
    BY <1>2 DEF NetInit
  <2>2. S!Rest(1) \in S!Place /\ S!Rest(1).at = 1
    BY DEF S!Rest, S!Place
  <2>3. MaxFailures \in Nat /\ NoText # Cut
    BY NetworkAssumption DEF S!SwarmAssumption
  <2> QED BY <2>1, <2>2, <2>3 DEF S!TypeOK, S!Held
<1> QED BY <1>1, <1>2

(***************************************************************************)
(* Any number of nodes, peers, objects and failures keep stores and pulls  *)
(* typed, every pull at a peer of its node (run_node, pull_from).          *)
(***************************************************************************)
THEOREM SwarmTypes == NetSpec => []S!TypeOK
<1>1. S!TypeOK /\ [S!Next]_S!vars => S!TypeOK'
  <2>1. CASE S!Next
    BY <2>1, SwarmTypeStep DEF S!Next
  <2>2. CASE UNCHANGED S!vars
    BY <2>2 DEF S!vars, S!TypeOK
  <2> QED BY <2>1, <2>2
<1>2. NetInit => S!TypeOK
  BY SwarmStarts
<1> QED BY <1>1, <1>2, SwarmSteps, PTL DEF NetSpec

-----------------------------------------------------------------------------
\* What a node is about to write has passed its checks.
WritesAccepted ==
  \A n \in Node : pull[n].pc = "write" => S!Accept(n, pull[n].addr, pull[n].text)

\* A step that leaves the files alone and starts no write keeps what holds.
LEMMA AcceptedKept ==
  ASSUME S!TypeOK, S!OnlyAccepted, WritesAccepted, UNCHANGED store,
         \A m \in Node : pull'[m].pc = "write" =>
           /\ pull[m].pc = "write"
           /\ pull'[m].addr = pull[m].addr /\ pull'[m].text = pull[m].text
  PROVE  S!OnlyAccepted' /\ WritesAccepted'
BY DEF S!OnlyAccepted, WritesAccepted, S!Accept, S!Classify

\* A file that is created empty, and one that is filled with what was accepted.
LEMMA AcceptedStep ==
  ASSUME S!TypeOK, S!OnlyAccepted, WritesAccepted,
         NEW n \in Node, S!Loop(n) \/ S!Lost(n) \/ S!FillFails(n) \/ S!Crash(n) \/ S!Restart(n)
  PROVE  S!OnlyAccepted' /\ WritesAccepted'
<1>1. CASE S!List(n) \/ S!Diff(n) \/ S!Done(n) \/ S!Refused(n) \/ S!Lost(n) \/ S!FillFails(n)
  <2>1. UNCHANGED store /\ pull' = [pull EXCEPT ![n] = pull'[n]]
    BY <1>1 DEF S!List, S!Diff, S!Done, S!Refused, S!Lost, S!FillFails, S!TypeOK
  <2>2. pull'[n].pc # "write"
    BY <1>1 DEF S!List, S!Diff, S!Done, S!Refused, S!Lost, S!FillFails, S!TypeOK, S!Getting, S!Following, S!Rest
  <2> QED BY <2>1, <2>2, AcceptedKept DEF S!TypeOK
<1>2. CASE S!Restart(n)
  BY <1>2, AcceptedKept DEF S!Restart
<1>3. CASE S!Crash(n)
  <2>1. ASSUME NEW m \in Node, pull'[m].pc = "write"
        PROVE  /\ pull[m].pc = "write"
               /\ pull'[m].addr = pull[m].addr /\ pull'[m].text = pull[m].text
    <3>1. m # n
      BY <1>3, <2>1 DEF S!Crash, S!Rest
    <3>2. pull[m] \in S!Place
      BY DEF S!TypeOK
    <3>3. CASE pull[m].pc # "rest" /\ S!Peer(m) = n
      <4>1. pull'[m] = [pull[m] EXCEPT !.linked = FALSE]
        BY <1>3, <3>1, <3>3 DEF S!Crash
      <4> QED BY <2>1, <3>2, <4>1 DEF S!Place
    <3>4. CASE ~ (pull[m].pc # "rest" /\ S!Peer(m) = n)
      BY <1>3, <2>1, <3>1, <3>4 DEF S!Crash
    <3> QED BY <3>3, <3>4
  <2> QED BY <1>3, <2>1, AcceptedKept DEF S!Crash
<1>4. CASE S!Fill(n)
  <2> DEFINE a == pull[n].addr
  <2>1. S!Accept(n, a, pull[n].text) /\ pull[n] \in S!Place /\ pull[n].pc = "write"
    BY <1>4 DEF S!Fill, S!Runs, WritesAccepted, S!TypeOK
  <2>2. a \in Addr
    BY <2>1 DEF S!Place
  <2>3. store' = [store EXCEPT ![n][a] = pull[n].text]
    BY <1>4 DEF S!Fill
  <2>4. pull' = [pull EXCEPT ![n] = S!Getting(n, pull[n].want)]
    BY <1>4 DEF S!Fill
  <2>5. S!OnlyAccepted'
    BY <2>1, <2>2, <2>3 DEF S!OnlyAccepted, S!Accept, S!Classify, S!TypeOK
  <2>6. WritesAccepted'
    BY <2>4 DEF WritesAccepted, S!Accept, S!Classify, S!Getting, S!TypeOK
  <2> QED BY <2>5, <2>6
<1>5. CASE \E a \in Addr : S!Get(n, a)
  <2>1. PICK a \in Addr : S!Get(n, a)
    BY <1>5
  <2>2. pull[n] \in S!Place /\ pull[n].pc = "get"
    BY <2>1 DEF S!Get, S!Runs, S!TypeOK
  <2>3. CASE S!Accept(n, a, store[S!Peer(n)][a])
    <3>1. store' = [store EXCEPT ![n][a] = Cut]
      BY <2>1, <2>3 DEF S!Get
    <3>2. pull' = [pull EXCEPT ![n] = S!Writes(n, a, store[S!Peer(n)][a])]
      BY <2>1, <2>3 DEF S!Get
    <3>3. S!OnlyAccepted'
      BY NetworkAssumption, <3>1 DEF S!SwarmAssumption, S!OnlyAccepted, S!Accept, S!Classify, S!TypeOK
    <3>4. WritesAccepted'
      BY <2>3, <3>2 DEF WritesAccepted, S!Accept, S!Classify, S!Writes, S!TypeOK
    <3> QED BY <3>3, <3>4
  <2>4. CASE ~ S!Accept(n, a, store[S!Peer(n)][a])
    <3>1. UNCHANGED store /\ pull' = [pull EXCEPT ![n].want = @ \ {a}]
      BY <2>1, <2>4 DEF S!Get
    <3>2. pull'[n].pc = "get"
      BY <2>2, <3>1 DEF S!TypeOK, S!Place
    <3> QED BY <3>1, <3>2, AcceptedKept DEF S!TypeOK
  <2> QED BY <2>3, <2>4
<1> QED BY <1>1, <1>2, <1>3, <1>4, <1>5 DEF S!Loop

\* No step leaves an unchecked object behind.
LEMMA AcceptedNext ==
  S!TypeOK /\ S!OnlyAccepted /\ WritesAccepted /\ [S!Next]_S!vars
    => (S!OnlyAccepted /\ WritesAccepted)'
<1>1. CASE S!Next
  BY <1>1, AcceptedStep DEF S!Next
<1>2. CASE UNCHANGED S!vars
  BY <1>2 DEF S!vars, S!OnlyAccepted, WritesAccepted, S!Accept, S!Classify
<1> QED BY <1>1, <1>2

LEMMA AcceptedInit == NetInit => S!OnlyAccepted /\ WritesAccepted
BY SwarmStarts, NetworkAssumption
   DEF S!SwarmAssumption, S!OnlyAccepted, WritesAccepted, S!Rest

(***************************************************************************)
(* A whole object that is not a node's own has passed its checks           *)
(* (pull_from, accept), whatever is lost, cut off or restarted on the way. *)
(***************************************************************************)
THEOREM NothingUnchecked == NetSpec => []OnlyAccepted
<1>1. NetSpec => []S!OnlyAccepted
  BY AcceptedInit, AcceptedNext, SwarmSteps, SwarmTypes, PTL DEF NetSpec
<1> QED BY <1>1 DEF OnlyAccepted

-----------------------------------------------------------------------------
(***************************************************************************)
(* What a pull holds: a node lacks what it still wants; where it writes it *)
(* has created the file, and the peer still holds the text it answered.    *)
(***************************************************************************)
Lacks(n, want) == \A a \in want : store[n][a] = NoText

PullingAt(n) ==
  /\ pull[n].pc # "rest" => Peers[n] # <<>>
  /\ pull[n].pc = "get" => Lacks(n, pull[n].want)
  /\ pull[n].pc = "write" =>
       /\ Lacks(n, pull[n].want) /\ pull[n].addr \notin pull[n].want
       /\ store[n][pull[n].addr] = Cut
       /\ store[S!Peer(n)][pull[n].addr] = pull[n].text

Pulling == \A n \in Node : PullingAt(n)

\* Whole texts stay, a step of a node changes its own files only, and only
\* there where it had none or a cut-off one.
LEMMA WholeStays ==
  ASSUME S!TypeOK, Pulling,
         NEW n \in Node, S!Loop(n) \/ S!Lost(n) \/ S!FillFails(n) \/ S!Crash(n) \/ S!Restart(n)
  PROVE  /\ \A m \in Node : m # n => store'[m] = store[m]
         /\ \A m \in Node, a \in Addr : store[m][a] \in Stored => store'[m][a] = store[m][a]
<1>0. Cut \notin Stored /\ NoText \notin Stored
  BY NetworkAssumption DEF S!SwarmAssumption
<1>1. CASE S!Fill(n)
  <2>1. store[n][pull[n].addr] = Cut
    BY <1>1 DEF S!Fill, S!Runs, Pulling, PullingAt
  <2>2. store' = [store EXCEPT ![n][pull[n].addr] = pull[n].text]
    BY <1>1 DEF S!Fill
  <2> QED BY <1>0, <2>1, <2>2 DEF S!TypeOK
<1>2. CASE \E a \in Addr : S!Get(n, a)
  <2>1. PICK a \in Addr : S!Get(n, a)
    BY <1>2
  <2>2. store[n][a] = NoText
    BY <2>1 DEF S!Get, S!Runs, Pulling, PullingAt, Lacks
  <2>3. UNCHANGED store \/ store' = [store EXCEPT ![n][a] = Cut]
    BY <2>1 DEF S!Get
  <2> QED BY <1>0, <2>2, <2>3 DEF S!TypeOK
<1>3. CASE ~ (S!Fill(n) \/ \E a \in Addr : S!Get(n, a))
  BY <1>3 DEF S!Loop, S!List, S!Diff, S!Done, S!Refused, S!Lost, S!FillFails, S!Crash, S!Restart
<1> QED BY <1>1, <1>2, <1>3

Steps(n) == S!Loop(n) \/ S!Lost(n) \/ S!FillFails(n) \/ S!Crash(n) \/ S!Restart(n)

\* What holds of the pull of one node is not disturbed by another.
LEMMA PullingOther ==
  ASSUME S!TypeOK, Pulling, NEW n \in Node, Steps(n), NEW m \in Node, m # n
  PROVE  PullingAt(m)'
<1>1. /\ store'[m] = store[m]
      /\ \A p \in Node, a \in Addr : store[p][a] \in Stored => store'[p][a] = store[p][a]
  BY WholeStays DEF Steps
<1>2. pull'[m] = pull[m] \/ (pull[m].pc # "rest" /\ pull'[m] = [pull[m] EXCEPT !.linked = FALSE])
  BY DEF Steps, S!Loop, S!List, S!Diff, S!Fill, S!Done, S!Refused, S!Get, S!Lost, S!FillFails,
         S!Crash, S!Restart, S!TypeOK
<1>3. pull[m] \in S!Place /\ PullingAt(m)
  BY DEF S!TypeOK, Pulling
<1>4. /\ pull'[m].pc = pull[m].pc /\ pull'[m].at = pull[m].at
      /\ pull[m].pc \in {"get", "write"} => pull'[m].want = pull[m].want
      /\ pull[m].pc = "write" => pull'[m].addr = pull[m].addr /\ pull'[m].text = pull[m].text
  BY <1>2, <1>3 DEF S!Place
<1>5. pull[m].pc = "write" => /\ pull[m].addr \in Addr /\ pull[m].text \in Stored
                              /\ S!Peer(m) \in Node
  BY <1>3, PeerIsNode DEF S!Place, PullingAt
<1> QED BY <1>1, <1>3, <1>4, <1>5 DEF PullingAt, Lacks, S!Peer

\* A node's own step.
LEMMA PullingSelf ==
  ASSUME S!TypeOK, Pulling, NEW n \in Node, Steps(n)
  PROVE  PullingAt(n)'
<1>0. /\ pull[n] \in S!Place /\ PullingAt(n) /\ NoText \notin Stored /\ Cut # NoText
      /\ Cut \notin Stored
  BY NetworkAssumption DEF S!SwarmAssumption, S!TypeOK, Pulling
<1>1. CASE S!List(n)
  BY <1>1 DEF S!List, S!TypeOK, PullingAt
<1>2. CASE S!Diff(n)
  <2>1. pull[n].have \subseteq Addr /\ Peers[n] # <<>>
    BY <1>0, <1>2 DEF S!Diff, S!Runs, S!Place, PullingAt
  <2>2. store' = store /\ pull'[n] = S!Getting(n, pull[n].have \ S!Have(n))
    BY <1>2 DEF S!Diff, S!TypeOK
  <2> QED BY <2>1, <2>2 DEF PullingAt, Lacks, S!Getting, S!Have
<1>3. CASE S!Fill(n)
  <2>1. /\ pull'[n] = S!Getting(n, pull[n].want) /\ Peers[n] # <<>>
        /\ \A a \in pull[n].want : store'[n][a] = store[n][a] /\ store[n][a] = NoText
    BY <1>0, <1>3 DEF S!Fill, S!Runs, S!TypeOK, S!Place, PullingAt, Lacks
  <2> QED BY <2>1 DEF PullingAt, Lacks, S!Getting
<1>4. CASE \E a \in Addr : S!Get(n, a)
  <2>1. PICK a \in Addr : S!Get(n, a)
    BY <1>4
  <2>2. /\ pull[n].want \subseteq Addr /\ Lacks(n, pull[n].want) /\ Peers[n] # <<>>
        /\ a \in pull[n].want /\ pull[n].pc = "get"
    BY <1>0, <2>1 DEF S!Get, S!Runs, S!Place, PullingAt
  <2>3. CASE S!Accept(n, a, store[S!Peer(n)][a])
    <3>1. /\ store' = [store EXCEPT ![n][a] = Cut]
          /\ pull'[n] = S!Writes(n, a, store[S!Peer(n)][a])
      BY <2>1, <2>3 DEF S!Get, S!TypeOK
    <3>2. store[S!Peer(n)][a] # NoText /\ store[n][a] = NoText
      BY <1>0, <2>2, <2>3 DEF S!Accept, Lacks
    <3>3. S!Peer(n) \in Node /\ S!Peer(n) # n
      BY <2>2, <3>2, PeerIsNode
    <3>4. /\ pull'[n].pc = "write" /\ pull'[n].want = pull[n].want \ {a}
          /\ pull'[n].addr = a /\ pull'[n].text = store[S!Peer(n)][a]
          /\ pull'[n].at = pull[n].at
      BY <3>1 DEF S!Writes
    <3>5. store'[n][a] = Cut /\ store'[S!Peer(n)] = store[S!Peer(n)]
          /\ \A z \in Addr : z # a => store'[n][z] = store[n][z]
      BY <3>1, <3>3 DEF S!TypeOK
    <3> QED BY <2>2, <3>4, <3>5 DEF PullingAt, Lacks, S!Peer
  <2>4. CASE ~ S!Accept(n, a, store[S!Peer(n)][a])
    <3>1. store' = store /\ pull'[n] = [pull[n] EXCEPT !.want = @ \ {a}]
      BY <2>1, <2>4 DEF S!Get, S!TypeOK
    <3>2. pull'[n].pc = "get" /\ pull'[n].want \subseteq pull[n].want
      BY <1>0, <2>2, <3>1 DEF S!Place
    <3> QED BY <2>2, <3>1, <3>2 DEF PullingAt, Lacks
  <2> QED BY <2>3, <2>4
<1>5. CASE S!Done(n) \/ S!Refused(n) \/ S!Lost(n) \/ S!Crash(n)
  <2>1. pull'[n].pc = "rest"
    BY <1>5 DEF S!Done, S!Refused, S!Lost, S!Crash, S!Following, S!Rest, S!TypeOK
  <2> QED BY <2>1 DEF PullingAt
<1>6. CASE S!FillFails(n)
  <2>1. store' = store /\ pull'[n] = S!Getting(n, pull[n].want) /\ pull[n].pc = "write"
    BY <1>6 DEF S!FillFails, S!Runs, S!TypeOK
  <2> QED BY <1>0, <2>1 DEF PullingAt, Lacks, S!Getting
<1>7. CASE S!Restart(n)
  BY <1>0, <1>7 DEF S!Restart, PullingAt, Lacks, S!Peer
<1> QED BY <1>1, <1>2, <1>3, <1>4, <1>5, <1>6, <1>7 DEF Steps, S!Loop

LEMMA PullingNext == S!TypeOK /\ Pulling /\ [S!Next]_S!vars => Pulling'
<1> SUFFICES ASSUME S!TypeOK, Pulling, [S!Next]_S!vars PROVE Pulling'
  OBVIOUS
<1>1. ASSUME NEW n \in Node, Steps(n) PROVE Pulling'
  <2>1. ASSUME NEW m \in Node PROVE PullingAt(m)'
    BY <1>1, PullingOther, PullingSelf
  <2> QED BY <2>1 DEF Pulling
<1>2. CASE UNCHANGED S!vars
  BY <1>2 DEF S!vars, Pulling, PullingAt, Lacks, S!Peer
<1> QED BY <1>1, <1>2 DEF S!Next, Steps

\* Filling a file copies the peer's text at a stroke, as cut-off files count for
\* nothing; no other step shows.
LEMMA CopyOrNothing ==
  ASSUME S!TypeOK, Pulling, WritesAccepted, NEW n \in Node, Steps(n)
  PROVE  S!Replicas!Next \/ S!Whole' = S!Whole
<1>0. /\ pull[n] \in S!Place /\ PullingAt(n) /\ NoText \notin Stored /\ Cut # NoText
      /\ Cut \notin Stored
  BY NetworkAssumption DEF S!SwarmAssumption, S!TypeOK, Pulling
<1>1. CASE S!Fill(n)
  <2> DEFINE a == pull[n].addr
             i == pull[n].at
  <2>1. /\ a \in Addr /\ pull[n].text \in Stored /\ Peers[n] # <<>>
        /\ pull[n].pc = "write" /\ store[n][a] = Cut
        /\ store[S!Peer(n)][a] = pull[n].text
    BY <1>0, <1>1 DEF S!Fill, S!Runs, S!Place, PullingAt
  <2>2. /\ S!Peer(n) \in Node /\ S!Peer(n) = Peers[n][i] /\ i \in DOMAIN Peers[n]
    <3>1. Peers[n] \in Seq(Node)
      BY NetworkAssumption DEF S!SwarmAssumption
    <3>2. 1 \in DOMAIN Peers[n]
      BY <2>1, <3>1, EmptySeq
    <3> QED BY <2>1, <3>2, PeerIsNode DEF S!TypeOK, S!Peer
  <2>3. S!Accept(n, a, pull[n].text)
    BY <2>1 DEF WritesAccepted
  <2>4. S!Whole[n][a] = NoText /\ S!Whole[Peers[n][i]][a] = pull[n].text
    BY <1>0, <2>1, <2>2 DEF S!Whole
  <2>5. S!Whole' = [S!Whole EXCEPT ![n][a] = pull[n].text]
    <3>1. store' = [store EXCEPT ![n][a] = pull[n].text]
      BY <1>1 DEF S!Fill
    <3>2. /\ store'[n][a] = pull[n].text /\ pull[n].text # Cut
          /\ \A m \in Node, z \in Addr : <<m, z>> # <<n, a>> => store'[m][z] = store[m][z]
      BY <1>0, <2>1, <3>1 DEF S!TypeOK
    <3>3. S!Whole' = [m \in Node |-> [z \in Addr |->
                        IF m = n /\ z = a THEN pull[n].text ELSE S!Whole[m][z]]]
      <4> HIDE DEF a
      <4> QED BY <2>1, <3>2 DEF S!Whole
    <3>4. S!Whole = [m \in Node |-> [z \in Addr |-> S!Whole[m][z]]]
      BY DEF S!Whole
    <3> DEFINE w == S!Whole
    <3> HIDE DEF a, w
    <3> QED BY <2>1, <3>3, <3>4 DEF w
  <2> HIDE DEF a, i
  <2> QED BY <2>1, <2>2, <2>3, <2>4, <2>5 DEF S!Replicas!Next, S!Replicas!Copy
<1>2. CASE \E a \in Addr : S!Get(n, a)
  <2>1. PICK a \in Addr : S!Get(n, a)
    BY <1>2
  <2>2. store[n][a] = NoText
    BY <1>0, <2>1 DEF S!Get, S!Runs, PullingAt, Lacks
  <2>3. UNCHANGED store \/ store' = [store EXCEPT ![n][a] = Cut]
    BY <2>1 DEF S!Get
  <2>4. \A m \in Node, z \in Addr :
          store'[m][z] = store[m][z] \/ (store[m][z] = NoText /\ store'[m][z] = Cut)
    BY <2>2, <2>3 DEF S!TypeOK
  <2> QED BY <1>0, <2>4 DEF S!Whole
<1>3. CASE ~ (S!Fill(n) \/ \E a \in Addr : S!Get(n, a))
  BY <1>3 DEF Steps, S!Loop, S!List, S!Diff, S!Done, S!Refused, S!Lost, S!FillFails, S!Crash,
              S!Restart, S!Whole
<1> QED BY <1>1, <1>2, <1>3

(***************************************************************************)
(* Cut-off files aside, the stores only change by a copy, at a single      *)
(* stroke, of a text that a peer has and the node accepts, to where it had *)
(* none: nothing held is replaced or lost (pull_from, fs::write).          *)
(***************************************************************************)
THEOREM CopiesOnly == NetSpec => Replicates
<1>1. NetInit => Pulling
  BY SwarmStarts DEF Pulling, PullingAt, S!Rest
<1>2. S!TypeOK /\ Pulling /\ WritesAccepted /\ [S!Next]_S!vars => [S!Replicas!Next]_S!Whole
  <2>1. CASE S!Next
    BY <2>1, CopyOrNothing DEF S!Next, Steps
  <2>2. CASE UNCHANGED S!vars
    BY <2>2 DEF S!vars, S!Whole
  <2> QED BY <2>1, <2>2
<1>3. NetSpec => [][S!Replicas!Next]_S!Whole
  BY <1>1, <1>2, PullingNext, AcceptedInit, AcceptedNext, SwarmSteps, SwarmTypes, PTL DEF NetSpec
<1> QED BY <1>3 DEF Replicates, S!Replicates, S!Replicas!Stable

-----------------------------------------------------------------------------
(***************************************************************************)
(* The remote store: what the peer may have of a key is what was last      *)
(* acknowledged, what may have landed behind it, and the write in flight;  *)
(* a task that was given up only writes what is in doubt.                  *)
(***************************************************************************)
Cell == Data \cup {None}
Asked == [key : Key, block : Cell]
Tasks == [id : Nat \X Nat, req : Asked, at : {"write", "read", "reply"}, found : Cell]
Calls == {d \in [op : {"read", "write"}, reqs : Seq(Asked), stream : Seq({"out", "taken", "ok", "miss", "failed"}),
                 dst : Seq(Cell), ahead : SUBSET Data] :
            /\ Len(d.reqs) \in Nat \ {0} /\ Len(d.stream) = Len(d.reqs) /\ Len(d.dst) = Len(d.reqs)
            /\ d.op = "write" => Len(d.reqs) = 1 /\ d.reqs[1].block \in Data}

RemoteTypes ==
  /\ kept \in [Key -> Cell] /\ acked \in [Key -> Cell] /\ doubt \in [Key -> SUBSET Data]
  /\ calls \in Nat /\ tasks \subseteq Tasks
  /\ call = R!NoCall \/ call \in Calls

Writing(k) == R!Flying /\ call.op = "write" /\ call.reqs[1].key = k
Present(t) == R!Flying /\ t.id[1] = calls

MayHave(k) == {None, acked[k]} \cup doubt[k]

\* The tasks of the call in flight do what it asks, each on a stream that waits.
Serving ==
  \A t \in tasks :
    /\ t.id[1] <= calls /\ (t.at = "write" => t.req.block \in Data)
    /\ Present(t) => /\ t.id[2] \in DOMAIN call.reqs /\ t.req = call.reqs[t.id[2]]
                     /\ t.at \in {call.op, "reply"} /\ call.stream[t.id[2]] \in {"taken", "failed"}

\* Each stream has one task.
Apart == \A t, u \in tasks : Present(t) /\ Present(u) /\ t.id[2] = u.id[2] => t = u

\* What a task that was given up is still to write is in doubt, and known to the write in flight.
GivenUp ==
  \A t \in tasks : ~ Present(t) /\ t.at = "write" =>
    /\ t.req.block \in doubt[t.req.key]
    /\ Writing(t.req.key) => t.req.block \in call.ahead

\* What the peer has; once the write in flight has landed, it is that or what came behind it.
AtPeer ==
  \A k \in Key :
    /\ kept[k] \in MayHave(k) \/ (Writing(k) /\ kept[k] = call.reqs[1].block)
    /\ Writing(k) /\ (call.stream[1] = "ok" \/ \E t \in tasks : Present(t) /\ t.at = "reply") =>
         kept[k] \in {None, call.reqs[1].block} \cup call.ahead

\* What has been read so far.
Fetched ==
  R!Flying /\ call.op = "read" =>
    /\ \A t \in tasks : Present(t) /\ t.at = "reply" => t.found \in MayHave(t.req.key)
    /\ \A i \in DOMAIN call.reqs :
         call.stream[i] = "ok" => call.dst[i] # None /\ call.dst[i] \in MayHave(call.reqs[i].key)

RemoteInv == RemoteTypes /\ Serving /\ Apart /\ GivenUp /\ AtPeer /\ Fetched

\* What the types say of a call and of a task.
LEMMA CallIs ==
  ASSUME NEW d \in Calls
  PROVE  /\ d.op \in {"read", "write"} /\ d # R!NoCall
         /\ d.reqs \in Seq(Asked) /\ d.stream \in Seq({"out", "taken", "ok", "miss", "failed"})
         /\ d.dst \in Seq(Cell) /\ d.ahead \subseteq Data
         /\ DOMAIN d.reqs = DOMAIN d.stream /\ DOMAIN d.dst = DOMAIN d.stream
         /\ DOMAIN d.reqs = 1 .. Len(d.reqs) /\ 1 \in DOMAIN d.reqs
         /\ \A i \in DOMAIN d.reqs : d.reqs[i] \in Asked /\ d.reqs[i].key \in Key
         /\ d.op = "write" => DOMAIN d.reqs = {1} /\ d.reqs[1].block \in Data
<1>1. /\ d \in [op : {"read", "write"}, reqs : Seq(Asked), stream : Seq({"out", "taken", "ok", "miss", "failed"}),
                dst : Seq(Cell), ahead : SUBSET Data]
      /\ Len(d.reqs) \in Nat \ {0} /\ Len(d.stream) = Len(d.reqs) /\ Len(d.dst) = Len(d.reqs)
      /\ d.op = "write" => Len(d.reqs) = 1 /\ d.reqs[1].block \in Data
  BY DEF Calls
<1>2. d # R!NoCall
  BY <1>1 DEF R!NoCall
<1>3. DOMAIN d.reqs = 1 .. Len(d.reqs) /\ DOMAIN d.stream = 1 .. Len(d.reqs) /\ DOMAIN d.dst = 1 .. Len(d.reqs)
  BY <1>1
<1> DEFINE n == Len(d.reqs)
           q == d.reqs
<1>4. 1 \in DOMAIN d.reqs /\ (Len(d.reqs) = 1 => DOMAIN d.reqs = {1})
  <2>1. n \in Nat /\ n # 0
    BY <1>1
  <2> HIDE DEF n
  <2>2. 1 \in 1 .. n /\ (n = 1 => 1 .. n = {1})
    BY <2>1
  <2> QED BY <1>3, <2>2 DEF n
<1>5. \A i \in DOMAIN d.reqs : d.reqs[i] \in Asked /\ d.reqs[i].key \in Key
  <2>1. q \in Seq(Asked)
    BY <1>1
  <2> HIDE DEF q
  <2>2. \A i \in DOMAIN q : q[i] \in Asked
    BY <2>1
  <2>3. \A z \in Asked : z.key \in Key
    BY DEF Asked
  <2> QED BY <2>2, <2>3 DEF q
<1> QED BY <1>1, <1>2, <1>3, <1>4, <1>5

LEMMA Flies ==
  ASSUME RemoteTypes
  PROVE  R!Flying <=> call \in Calls
BY CallIs DEF RemoteTypes, R!Flying

Answering(d, st, ds) == [d EXCEPT !.stream = st, !.dst = ds]

LEMMA CallWith ==
  ASSUME NEW d \in Calls, NEW st \in Seq({"out", "taken", "ok", "miss", "failed"}), NEW ds \in Seq(Cell),
         Len(st) = Len(d.stream), Len(ds) = Len(d.dst)
  PROVE  /\ Answering(d, st, ds) \in Calls /\ Answering(d, st, ds).op = d.op /\ Answering(d, st, ds).reqs = d.reqs
         /\ Answering(d, st, ds).ahead = d.ahead
         /\ Answering(d, st, ds).stream = st /\ Answering(d, st, ds).dst = ds
BY DEF Calls, Answering

LEMMA RemoteStutter ==
  ASSUME RemoteInv, UNCHANGED <<kept, tasks, calls, call, acked, doubt>>
  PROVE  RemoteInv'
<1>1. RemoteTypes'
  BY DEF RemoteInv, RemoteTypes
<1>2. \A k : Writing(k)' = Writing(k) /\ MayHave(k)' = MayHave(k)
  BY DEF Writing, MayHave, R!Flying
<1>3. \A t : Present(t)' = Present(t)
  BY DEF Present, R!Flying
<1>4. Serving' /\ Apart' /\ GivenUp'
  BY <1>2, <1>3 DEF RemoteInv, Serving, Apart, GivenUp
<1>5. AtPeer' /\ Fetched'
  BY <1>2, <1>3 DEF RemoteInv, AtPeer, Fetched, R!Flying
<1> QED BY <1>1, <1>4, <1>5 DEF RemoteInv

LEMMA RemoteInit == R!RemoteAssumption /\ R!Init => RemoteInv
<1> SUFFICES ASSUME R!RemoteAssumption, R!Init PROVE RemoteInv
  OBVIOUS
<1>1. /\ kept = [k \in Key |-> None] /\ tasks = {} /\ calls = 0 /\ call = R!NoCall
      /\ acked = [k \in Key |-> None] /\ doubt = [k \in Key |-> {}]
  BY DEF R!Init
<1>2. ~ R!Flying
  BY <1>1 DEF R!Flying
<1>3. RemoteTypes
  BY <1>1 DEF RemoteTypes, Cell
<1>4. Serving /\ Apart /\ GivenUp /\ Fetched
  BY <1>1, <1>2 DEF Serving, Apart, GivenUp, Fetched
<1>5. AtPeer
  BY <1>1, <1>2 DEF AtPeer, MayHave, Writing
<1> QED BY <1>3, <1>4, <1>5 DEF RemoteInv

\* A call starts: no task is its own yet, and it knows the writes that were given up.
LEMMA CallStarts == ASSUME R!RemoteAssumption, RemoteInv, R!Call PROVE RemoteInv'
<1>1. PICK r \in R!Requests :
        call' = [op |-> r.op, reqs |-> r.reqs,
                 stream |-> [i \in DOMAIN r.reqs |-> IF client \in lost THEN "failed" ELSE "out"],
                 dst |-> [i \in DOMAIN r.reqs |-> None], ahead |-> R!Pending(r.reqs[1].key)]
  BY DEF R!Call
<1>2. /\ ~ R!Flying /\ calls' = calls + 1 /\ UNCHANGED <<kept, tasks, acked, doubt>>
      /\ RemoteTypes /\ Serving /\ GivenUp /\ AtPeer
  BY DEF R!Call, R!peer, R!ghost, RemoteInv
<1>3. /\ r.op \in {"read", "write"} /\ r.reqs \in Seq(Asked) /\ Len(r.reqs) \in Nat \ {0}
      /\ r.op = "write" => Len(r.reqs) = 1 /\ r.reqs[1].block \in Data
  <2>1. CASE r \in {[op |-> "write", reqs |-> <<[key |-> k, block |-> b]>>] : k \in Key, b \in Data}
    <3>1. PICK k \in Key, b \in Data : r = [op |-> "write", reqs |-> <<[key |-> k, block |-> b]>>]
      BY <2>1
    <3>2. PICK z \in Asked : z = [key |-> k, block |-> b] /\ z.block = b
      <4>1. b \in Cell
        BY DEF Cell
      <4>2. [key |-> k, block |-> b] \in Asked
        BY <4>1 DEF Asked
      <4> QED BY <4>2
    <3>3. <<z>> \in Seq(Asked) /\ Len(<<z>>) = 1 /\ <<z>>[1] = z
      OBVIOUS
    <3> QED BY <3>1, <3>2, <3>3
  <2>2. CASE r \in {[op |-> "read", reqs |-> [i \in 1 .. n |-> [key |-> ks[i], block |-> None]]] :
                      n \in 1 .. MaxBatch, ks \in [1 .. MaxBatch -> Key]}
    <3>1. PICK n \in 1 .. MaxBatch, ks \in [1 .. MaxBatch -> Key] :
            r = [op |-> "read", reqs |-> [i \in 1 .. n |-> [key |-> ks[i], block |-> None]]]
      BY <2>2
    <3>2. MaxBatch \in Nat
      BY DEF R!RemoteAssumption
    <3>3. n \in Nat /\ n # 0 /\ 1 .. n \subseteq 1 .. MaxBatch
      BY <3>1, <3>2
    <3>4. \A i \in 1 .. n : [key |-> ks[i], block |-> None] \in Asked
      BY <3>3 DEF Asked, Cell
    <3>5. [i \in 1 .. n |-> [key |-> ks[i], block |-> None]] \in Seq(Asked)
      BY <3>3, <3>4
    <3>6. Len([i \in 1 .. n |-> [key |-> ks[i], block |-> None]]) = n
      BY <3>3
    <3> QED BY <3>1, <3>3, <3>5, <3>6
  <2> QED BY <2>1, <2>2 DEF R!Requests
<1> DEFINE st == [i \in DOMAIN r.reqs |-> IF client \in lost THEN "failed" ELSE "out"]
           ds == [i \in DOMAIN r.reqs |-> None]
           ah == R!Pending(r.reqs[1].key)
<1>4. /\ st \in Seq({"out", "taken", "ok", "miss", "failed"}) /\ ds \in Seq(Cell)
      /\ Len(st) = Len(r.reqs) /\ Len(ds) = Len(r.reqs) /\ \A i \in DOMAIN r.reqs : st[i] # "ok"
      /\ DOMAIN r.reqs = 1 .. Len(r.reqs)
  <2>1. DOMAIN r.reqs = 1 .. Len(r.reqs) /\ Len(r.reqs) \in Nat
    BY <1>3
  <2> QED BY <2>1 DEF Cell
<1>5. ah \subseteq Data
  BY <1>2 DEF R!Pending, RemoteTypes, Tasks, Asked, Cell
<1> HIDE DEF st, ds, ah
<1>6. call' = [op |-> r.op, reqs |-> r.reqs, stream |-> st, dst |-> ds, ahead |-> ah]
  BY <1>1 DEF st, ds, ah
<1>7. call' \in Calls
  BY <1>3, <1>4, <1>5, <1>6 DEF Calls
<1>8. RemoteTypes' /\ R!Flying'
  <2>1. calls' \in Nat
    BY <1>2 DEF RemoteTypes
  <2>2. call' # R!NoCall
    BY <1>7, CallIs
  <2> QED BY <1>2, <1>7, <2>1, <2>2 DEF RemoteTypes, R!Flying
<1>9. \A t \in tasks : ~ Present(t) /\ ~ Present(t)' /\ t.id[1] <= calls'
  <2> SUFFICES ASSUME NEW t \in tasks PROVE ~ Present(t) /\ ~ Present(t)' /\ t.id[1] <= calls'
    OBVIOUS
  <2>1. t.id[1] \in Nat /\ t.id[1] <= calls /\ calls \in Nat
    BY <1>2 DEF RemoteTypes, Tasks, Serving
  <2> QED BY <1>2, <2>1 DEF Present
<1>10. Serving' /\ Apart'
  BY <1>2, <1>9 DEF Serving, Apart
<1>11. GivenUp'
  <2> SUFFICES ASSUME NEW t \in tasks, t.at = "write"
               PROVE  t.req.block \in doubt[t.req.key] /\ (Writing(t.req.key)' => t.req.block \in call'.ahead)
    BY <1>2 DEF GivenUp
  <2>1. t.req.block \in doubt[t.req.key]
    BY <1>2, <1>9 DEF GivenUp
  <2>2. ASSUME Writing(t.req.key)' PROVE t.req.block \in call'.ahead
    <3>1. r.reqs[1].key = t.req.key
      BY <1>6, <2>2 DEF Writing
    <3>2. t.req.block # None
      BY <1>2 DEF Serving, R!RemoteAssumption
    <3> QED BY <1>6, <3>1, <3>2 DEF ah, R!Pending
  <2> QED BY <2>1, <2>2
<1>12. AtPeer'
  <2>1. \A k \in Key : kept[k] \in MayHave(k)'
    BY <1>2 DEF AtPeer, Writing, MayHave
  <2>2. 1 \in DOMAIN r.reqs
    BY <1>3, <1>4
  <2> QED BY <1>2, <1>4, <1>6, <1>9, <2>1, <2>2 DEF AtPeer
<1>13. Fetched'
  BY <1>2, <1>4, <1>6, <1>9 DEF Fetched
<1> QED BY <1>8, <1>10, <1>11, <1>12, <1>13 DEF RemoteInv

\* A call returns: what it wrote is acknowledged, or in doubt.
LEMMA CallReturns == ASSUME R!RemoteAssumption, RemoteInv, R!Return PROVE RemoteInv'
<1>1. /\ call \in Calls /\ R!Flying /\ call' = R!NoCall /\ UNCHANGED <<kept, tasks, calls>>
      /\ RemoteTypes /\ Serving /\ GivenUp /\ AtPeer
  BY Flies DEF R!Return, R!Answered, R!peer, RemoteInv
<1>2. ~ R!Flying'
  BY <1>1 DEF R!Flying
<1>3. Serving' /\ Apart' /\ Fetched'
  BY <1>1, <1>2 DEF Serving, Apart, Fetched, Present
<1>4. \A k : ~ Writing(k)'
  BY <1>2 DEF Writing
<1>5. \A t : ~ Present(t)'
  BY <1>2 DEF Present
<1>6. CASE call.op = "read"
  <2>1. UNCHANGED <<acked, doubt>>
    BY <1>6 DEF R!Return, R!ghost
  <2>2. RemoteTypes'
    BY <1>1, <2>1 DEF RemoteTypes
  <2>3. GivenUp'
    <3>1. \A t \in tasks : t.at = "write" => ~ Present(t)
      BY <1>1, <1>6 DEF Serving
    <3> QED BY <1>1, <1>4, <2>1, <3>1 DEF GivenUp
  <2>4. AtPeer'
    BY <1>1, <1>4, <1>6, <2>1 DEF AtPeer, MayHave, Writing
  <2> QED BY <1>3, <2>2, <2>3, <2>4 DEF RemoteInv
<1>7. CASE call.op = "write"
  <2> DEFINE k == call.reqs[1].key
             b == call.reqs[1].block
  <2>1. k \in Key /\ b \in Data /\ call.ahead \subseteq Data /\ DOMAIN call.reqs = {1} /\ DOMAIN call.stream = {1}
        /\ \A l : Writing(l) <=> l = k
    BY <1>1, <1>7, CallIs DEF Writing
  <2>2. \A t \in tasks : t.req.key \in Key /\ (Present(t) => t.req.block = b /\ t.req.key = k)
    BY <1>1, <2>1 DEF Serving, RemoteTypes, Tasks, Asked
  <2> HIDE DEF k, b
  <2>3. CASE R!AllOk
    <3>1. acked' = [acked EXCEPT ![k] = b] /\ doubt' = [doubt EXCEPT ![k] = call.ahead] /\ call.stream[1] = "ok"
      BY <1>7, <2>1, <2>3 DEF R!Return, R!AllOk, k, b
    <3>2. RemoteTypes'
      BY <1>1, <2>1, <3>1 DEF RemoteTypes, Cell
    <3>3. \A t \in tasks : ~ Present(t)
      BY <1>1, <2>1, <3>1 DEF Serving
    <3>4. GivenUp'
      <4> SUFFICES ASSUME NEW t \in tasks, t.at = "write" PROVE t.req.block \in doubt'[t.req.key]
        BY <1>1, <1>4 DEF GivenUp
      <4>1. t.req.block \in doubt[t.req.key] /\ (t.req.key = k => t.req.block \in call.ahead)
        BY <1>1, <2>1, <3>3 DEF GivenUp
      <4> QED BY <1>1, <2>1, <2>2, <3>1, <4>1 DEF RemoteTypes
    <3>5. AtPeer'
      <4> SUFFICES ASSUME NEW l \in Key PROVE kept[l] \in MayHave(l)'
        BY <1>1, <1>4 DEF AtPeer
      <4>1. CASE l = k
        <5>1. kept[k] \in {None, b} \cup call.ahead
          BY <1>1, <2>1, <3>1 DEF AtPeer, b
        <5>2. acked'[k] = b /\ doubt'[k] = call.ahead
          BY <1>1, <2>1, <3>1 DEF RemoteTypes
        <5> QED BY <4>1, <5>1, <5>2 DEF MayHave
      <4>2. CASE l # k
        <5>1. acked'[l] = acked[l] /\ doubt'[l] = doubt[l]
          BY <1>1, <3>1, <4>2 DEF RemoteTypes
        <5>2. kept[l] \in MayHave(l)
          BY <1>1, <2>1, <4>2 DEF AtPeer
        <5> QED BY <5>1, <5>2 DEF MayHave
      <4> QED BY <4>1, <4>2
    <3> QED BY <1>3, <3>2, <3>4, <3>5 DEF RemoteInv
  <2>4. CASE ~ R!AllOk
    <3>1. doubt' = [doubt EXCEPT ![k] = @ \cup {b}] /\ acked' = acked
      BY <1>7, <2>4 DEF R!Return, k, b
    <3>2. RemoteTypes' /\ \A l \in Key : doubt'[l] = IF l = k THEN doubt[l] \cup {b} ELSE doubt[l]
      BY <1>1, <2>1, <3>1 DEF RemoteTypes
    <3>3. GivenUp'
      <4> SUFFICES ASSUME NEW t \in tasks, t.at = "write" PROVE t.req.block \in doubt'[t.req.key]
        BY <1>1, <1>4 DEF GivenUp
      <4>1. CASE Present(t)
        BY <2>1, <2>2, <3>2, <4>1
      <4>2. CASE ~ Present(t)
        BY <1>1, <2>2, <3>2, <4>2 DEF GivenUp
      <4> QED BY <4>1, <4>2
    <3>4. AtPeer'
      <4> SUFFICES ASSUME NEW l \in Key PROVE kept[l] \in MayHave(l)'
        BY <1>1, <1>4 DEF AtPeer
      <4>1. kept[l] \in MayHave(l) \/ (l = k /\ kept[l] = b)
        BY <1>1, <2>1 DEF AtPeer, b
      <4> QED BY <2>1, <3>1, <3>2, <4>1 DEF MayHave
    <3> QED BY <1>3, <3>2, <3>3, <3>4 DEF RemoteInv
  <2> QED BY <2>3, <2>4
<1> QED BY <1>1, <1>6, <1>7, CallIs

\* A request arrives: a task for it.
LEMMA RequestArrives == ASSUME RemoteInv, NEW i, R!Arrive(i) PROVE RemoteInv'
<1> DEFINE z == [id |-> R!Id(i), req |-> call.reqs[i], at |-> call.op, found |-> None]
           st == [call.stream EXCEPT ![i] = "taken"]
<1>1. /\ call \in Calls /\ R!Flying /\ i \in DOMAIN call.stream /\ call.stream[i] = "out"
      /\ call' = [call EXCEPT !.stream[i] = "taken"] /\ tasks' = tasks \cup {z}
      /\ UNCHANGED <<kept, calls, acked, doubt>>
      /\ RemoteTypes /\ Serving /\ Apart /\ GivenUp /\ AtPeer /\ Fetched
  BY Flies DEF R!Arrive, R!Open, R!ghost, RemoteInv
<1>2. /\ call.reqs[i] \in Asked /\ i \in Nat /\ call.op \in {"read", "write"} /\ DOMAIN call.reqs = DOMAIN call.stream
      /\ i \in DOMAIN call.reqs
      /\ call.op = "write" => i = 1 /\ call.reqs[1].block \in Data /\ DOMAIN call.reqs = {1}
  BY <1>1, CallIs
<1>3. /\ z.id[1] = calls /\ z.id[2] = i /\ z.req = call.reqs[i] /\ z.at = call.op /\ z.found = None
      /\ z \in Tasks
  BY <1>1, <1>2 DEF R!Id, Tasks, RemoteTypes, Cell
<1> HIDE DEF z
<1>4. /\ st \in Seq({"out", "taken", "ok", "miss", "failed"}) /\ Len(st) = Len(call.stream)
      /\ DOMAIN st = DOMAIN call.stream
      /\ \A j \in DOMAIN call.stream : st[j] = IF j = i THEN "taken" ELSE call.stream[j]
  BY <1>1, CallIs
<1>5. /\ call' \in Calls /\ call'.op = call.op /\ call'.reqs = call.reqs /\ call'.ahead = call.ahead
      /\ call'.stream = st /\ call'.dst = call.dst
  <2>1. call' = Answering(call, st, call.dst)
    BY <1>1 DEF Calls, Answering
  <2>2. call.dst \in Seq(Cell)
    BY <1>1, CallIs
  <2> HIDE DEF st
  <2>3. PICK d \in Calls, w \in Seq({"out", "taken", "ok", "miss", "failed"}), q \in Seq(Cell) :
          d = call /\ w = st /\ q = call.dst
    BY <1>1, <1>4, <2>2
  <2>4. Len(w) = Len(d.stream) /\ Len(q) = Len(d.dst)
    BY <1>4, <2>3
  <2>5. /\ Answering(d, w, q) \in Calls /\ Answering(d, w, q).op = d.op /\ Answering(d, w, q).reqs = d.reqs
        /\ Answering(d, w, q).ahead = d.ahead
        /\ Answering(d, w, q).stream = w /\ Answering(d, w, q).dst = q
    BY <2>4, CallWith
  <2> QED BY <2>1, <2>3, <2>5
<1> HIDE DEF st
<1>6. R!Flying' /\ RemoteTypes'
  BY <1>1, <1>3, <1>5, CallIs DEF R!Flying, RemoteTypes
<1>7. /\ \A t : Present(t)' = Present(t)
      /\ \A k : Writing(k)' = Writing(k) /\ MayHave(k)' = MayHave(k)
      /\ Present(z)
  BY <1>1, <1>3, <1>5, <1>6 DEF Present, Writing, MayHave
<1>8. Serving'
  <2>1. ASSUME NEW t \in tasks
        PROVE  /\ t.id[1] <= calls' /\ (t.at = "write" => t.req.block \in Data)
               /\ Present(t)' => /\ t.id[2] \in DOMAIN call'.reqs /\ t.req = call'.reqs[t.id[2]]
                                 /\ t.at \in {call'.op, "reply"} /\ call'.stream[t.id[2]] \in {"taken", "failed"}
    BY <1>1, <1>2, <1>4, <1>5, <1>7 DEF Serving
  <2>2. /\ z.id[1] <= calls' /\ (z.at = "write" => z.req.block \in Data)
        /\ z.id[2] \in DOMAIN call'.reqs /\ z.req = call'.reqs[z.id[2]]
        /\ z.at \in {call'.op, "reply"} /\ call'.stream[z.id[2]] \in {"taken", "failed"}
    BY <1>1, <1>2, <1>3, <1>4, <1>5 DEF RemoteTypes
  <2> QED BY <1>1, <2>1, <2>2 DEF Serving
<1>9. GivenUp' /\ Apart'
  <2>1. GivenUp'
    BY <1>1, <1>5, <1>7 DEF GivenUp
  <2>2. \A t \in tasks : Present(t) => t.id[2] # z.id[2]
    BY <1>1, <1>3 DEF Serving
  <2>3. Apart'
    BY <1>1, <1>7, <2>2 DEF Apart
  <2> QED BY <2>1, <2>3
<1>10. AtPeer'
  <2>1. \A k \in Key : Writing(k) => call'.stream[1] # "ok" /\ call.stream[1] = "out"
    BY <1>1, <1>2, <1>4, <1>5 DEF Writing
  <2>2. \A t \in tasks' : t.at = "reply" => t \in tasks
    BY <1>1, <1>2, <1>3
  <2> QED BY <1>1, <1>5, <1>7, <2>1, <2>2 DEF AtPeer
<1>11. Fetched'
  <2>1. \A t \in tasks' : t.at = "reply" => t \in tasks
    BY <1>1, <1>2, <1>3
  <2>2. \A j \in DOMAIN call.reqs : call'.stream[j] = "ok" => call.stream[j] = "ok"
    BY <1>2, <1>4, <1>5
  <2> QED BY <1>1, <1>5, <1>7, <2>1, <2>2 DEF Fetched
<1> QED BY <1>6, <1>8, <1>9, <1>10, <1>11 DEF RemoteInv

\* A task writes its block: that of the write in flight, or one in doubt.
LEMMA TaskStores == ASSUME RemoteInv, NEW t \in tasks, R!Store(t) PROVE RemoteInv'
<1> DEFINE z == [t EXCEPT !.at = "reply", !.found = t.req.block]
           l == t.req.key
<1>1. /\ t.at = "write" /\ kept' = [kept EXCEPT ![l] = t.req.block] /\ tasks' = (tasks \ {t}) \cup {z}
      /\ UNCHANGED <<calls, call, acked, doubt>>
      /\ RemoteTypes /\ Serving /\ Apart /\ GivenUp /\ AtPeer /\ Fetched
  BY DEF R!Store, R!Moved, R!ghost, RemoteInv
<1>2. l \in Key /\ t.req.block \in Data /\ t \in Tasks
  BY <1>1 DEF RemoteTypes, Tasks, Asked, Serving
<1>3. z \in Tasks /\ z.id = t.id /\ z.req = t.req /\ z.at = "reply"
  BY <1>2 DEF Tasks, Cell
<1> HIDE DEF z, l
<1>4. RemoteTypes' /\ \A k \in Key : kept'[k] = IF k = l THEN t.req.block ELSE kept[k]
  BY <1>1, <1>2, <1>3 DEF RemoteTypes, Cell
<1>5. /\ \A u : Present(u)' = Present(u)
      /\ \A k : Writing(k)' = Writing(k) /\ MayHave(k)' = MayHave(k)
      /\ Present(z) = Present(t)
  BY <1>1, <1>3 DEF Present, Writing, MayHave, R!Flying
<1>6. Serving'
  <2>1. Present(z) => z.at \in {call.op, "reply"}
    BY <1>3
  <2> QED BY <1>1, <1>2, <1>3, <1>5, <2>1 DEF Serving
<1>7. GivenUp' /\ Apart'
  BY <1>1, <1>3, <1>5 DEF GivenUp, Apart
<1>8. Present(t) => Writing(l) /\ t.req.block = call.reqs[1].block
  <2> SUFFICES ASSUME Present(t) PROVE Writing(l) /\ t.req.block = call.reqs[1].block
    OBVIOUS
  <2>1. call \in Calls /\ call.op = "write" /\ t.id[2] \in DOMAIN call.reqs /\ t.req = call.reqs[t.id[2]]
    BY <1>1, Flies DEF Present, Serving
  <2>2. t.id[2] = 1
    BY <2>1, CallIs
  <2> QED BY <2>1, <2>2 DEF Writing, Present, l
<1>9. AtPeer'
  <2> SUFFICES ASSUME NEW k \in Key
               PROVE  /\ kept'[k] \in MayHave(k) \/ (Writing(k) /\ kept'[k] = call.reqs[1].block)
                      /\ Writing(k) /\ (call.stream[1] = "ok" \/ \E u \in tasks' : Present(u) /\ u.at = "reply") =>
                           kept'[k] \in {None, call.reqs[1].block} \cup call.ahead
    BY <1>1, <1>5 DEF AtPeer
  <2>1. CASE k = l /\ Present(t)
    BY <1>2, <1>4, <1>8, <2>1
  <2>2. CASE k = l /\ ~ Present(t)
    <3>1. kept'[k] \in doubt[k] /\ (Writing(k) => kept'[k] \in call.ahead)
      BY <1>1, <1>2, <1>4, <2>2 DEF GivenUp, l
    <3> QED BY <3>1 DEF MayHave
  <2>3. CASE k # l
    <3>1. kept'[k] = kept[k]
      BY <1>4, <2>3
    <3>2. Writing(k) => ~ Present(t)
      BY <1>8, <2>3 DEF Writing
    <3>3. Writing(k) /\ (\E u \in tasks' : Present(u) /\ u.at = "reply") => \E u \in tasks : Present(u) /\ u.at = "reply"
      BY <1>1, <1>5, <3>2
    <3> QED BY <1>1, <3>1, <3>3 DEF AtPeer
  <2> QED BY <2>1, <2>2, <2>3
<1>10. Fetched'
  <2>1. R!Flying /\ call.op = "read" => ~ Present(t)
    BY <1>1 DEF Serving
  <2> QED BY <1>1, <1>3, <1>5, <2>1 DEF Fetched, R!Flying
<1> QED BY <1>4, <1>6, <1>7, <1>9, <1>10 DEF RemoteInv

\* A task looks its block up: what the peer has while nothing is being written.
LEMMA TaskLooksUp == ASSUME RemoteInv, NEW t \in tasks, R!LookUp(t) PROVE RemoteInv'
<1> DEFINE z == [t EXCEPT !.at = "reply", !.found = kept[t.req.key]]
<1>1. /\ t.at = "read" /\ tasks' = (tasks \ {t}) \cup {z}
      /\ UNCHANGED <<kept, calls, call, acked, doubt>>
      /\ RemoteTypes /\ Serving /\ Apart /\ GivenUp /\ AtPeer /\ Fetched
  BY DEF R!LookUp, R!Moved, R!ghost, RemoteInv
<1>2. t \in Tasks /\ t.req.key \in Key /\ kept[t.req.key] \in Cell
  BY <1>1 DEF RemoteTypes, Tasks, Asked
<1>3. z \in Tasks /\ z.id = t.id /\ z.req = t.req /\ z.at = "reply" /\ z.found = kept[t.req.key]
  BY <1>2 DEF Tasks
<1> HIDE DEF z
<1>4. RemoteTypes'
  BY <1>1, <1>3 DEF RemoteTypes
<1>5. /\ \A u : Present(u)' = Present(u)
      /\ \A k : Writing(k)' = Writing(k) /\ MayHave(k)' = MayHave(k)
      /\ Present(z) = Present(t)
  BY <1>1, <1>3 DEF Present, Writing, MayHave, R!Flying
<1>6. Present(t) => R!Flying /\ call.op = "read" /\ \A k \in Key : ~ Writing(k)
  BY <1>1 DEF Serving, Present, Writing
<1>7. Serving'
  BY <1>1, <1>3, <1>5 DEF Serving
<1>8. GivenUp' /\ Apart'
  BY <1>1, <1>3, <1>5 DEF GivenUp, Apart
<1>9. AtPeer'
  <2>1. \A k \in Key : Writing(k) /\ (\E u \in tasks' : Present(u) /\ u.at = "reply") =>
                          \E u \in tasks : Present(u) /\ u.at = "reply"
    BY <1>1, <1>5, <1>6
  <2> QED BY <1>1, <1>5, <2>1 DEF AtPeer
<1>10. Fetched'
  <2>1. Present(t) => z.found \in MayHave(z.req.key)
    BY <1>1, <1>2, <1>3, <1>6 DEF AtPeer
  <2> QED BY <1>1, <1>3, <1>5, <2>1 DEF Fetched, R!Flying
<1> QED BY <1>4, <1>7, <1>8, <1>9, <1>10 DEF RemoteInv

\* A task's answer is heard, or nobody waits for it any more.
LEMMA TaskReplies == ASSUME R!RemoteAssumption, RemoteInv, NEW t \in tasks, R!Reply(t) PROVE RemoteInv'
<1>1. /\ t.at = "reply" /\ tasks' = tasks \ {t} /\ UNCHANGED <<kept, calls, acked, doubt>>
      /\ RemoteTypes /\ Serving /\ Apart /\ GivenUp /\ AtPeer /\ Fetched
  BY DEF R!Reply, R!ghost, RemoteInv
<1>2. CASE call' = call
  <2>1. /\ \A u : Present(u)' = Present(u)
        /\ \A k : Writing(k)' = Writing(k) /\ MayHave(k)' = MayHave(k)
    BY <1>1, <1>2 DEF Present, Writing, MayHave, R!Flying
  <2>2. RemoteTypes' /\ Serving' /\ Apart' /\ GivenUp'
    BY <1>1, <1>2, <2>1 DEF RemoteTypes, Serving, Apart, GivenUp
  <2>3. AtPeer'
    BY <1>1, <1>2, <2>1 DEF AtPeer
  <2>4. Fetched'
    BY <1>1, <1>2, <2>1 DEF Fetched, R!Flying
  <2> QED BY <2>2, <2>3, <2>4 DEF RemoteInv
<1>3. CASE call' # call
  <2> DEFINE i == t.id[2]
             how == IF t.found = None THEN "miss" ELSE "ok"
             st == [call.stream EXCEPT ![i] = how]
             ds == [call.dst EXCEPT ![i] = t.found]
  <2>1. /\ R!Flying /\ t.id[1] = calls /\ i \in DOMAIN call.stream /\ call \in Calls
        /\ call' = [call EXCEPT !.stream[i] = how, !.dst[i] = t.found]
    BY <1>1, <1>3, Flies DEF R!Reply, R!Open
  <2>2. /\ Present(t) /\ i \in DOMAIN call.reqs /\ t.req = call.reqs[i] /\ t.found \in Cell
        /\ DOMAIN call.reqs = DOMAIN call.stream /\ DOMAIN call.dst = DOMAIN call.stream
        /\ call.op = "write" => i = 1 /\ DOMAIN call.reqs = {1}
    BY <1>1, <2>1, CallIs DEF Present, Serving, RemoteTypes, Tasks
  <2> HIDE DEF i
  <2>3. /\ how \in {"miss", "ok"} /\ (how = "ok" => t.found # None)
        /\ st \in Seq({"out", "taken", "ok", "miss", "failed"}) /\ Len(st) = Len(call.stream)
        /\ ds \in Seq(Cell) /\ Len(ds) = Len(call.dst)
        /\ \A j \in DOMAIN call.stream : /\ st[j] = IF j = i THEN how ELSE call.stream[j]
                                         /\ ds[j] = IF j = i THEN t.found ELSE call.dst[j]
    <3>1. call.stream \in Seq({"out", "taken", "ok", "miss", "failed"}) /\ call.dst \in Seq(Cell)
      BY <2>1, CallIs
    <3>2. how \in {"out", "taken", "ok", "miss", "failed"}
      OBVIOUS
    <3>3. st \in Seq({"out", "taken", "ok", "miss", "failed"}) /\ Len(st) = Len(call.stream)
      <4> HIDE DEF how
      <4> QED BY <2>1, <3>1, <3>2
    <3>4. ds \in Seq(Cell) /\ Len(ds) = Len(call.dst)
      BY <2>1, <2>2, <3>1
    <3>5. \A j \in DOMAIN call.stream : /\ st[j] = IF j = i THEN how ELSE call.stream[j]
                                        /\ ds[j] = IF j = i THEN t.found ELSE call.dst[j]
      <4> HIDE DEF how
      <4> QED BY <2>2
    <3> QED BY <3>3, <3>4, <3>5
  <2>4. /\ call' \in Calls /\ call'.op = call.op /\ call'.reqs = call.reqs /\ call'.ahead = call.ahead
        /\ call'.stream = st /\ call'.dst = ds
    <3>1. call' = Answering(call, st, ds)
      BY <2>1 DEF Calls, Answering
    <3> HIDE DEF st, ds
    <3>2. PICK d \in Calls, w \in Seq({"out", "taken", "ok", "miss", "failed"}), q \in Seq(Cell) :
            d = call /\ w = st /\ q = ds
      BY <2>1, <2>3
    <3>3. Len(w) = Len(d.stream) /\ Len(q) = Len(d.dst)
      BY <2>3, <3>2
    <3>4. /\ Answering(d, w, q) \in Calls /\ Answering(d, w, q).op = d.op /\ Answering(d, w, q).reqs = d.reqs
          /\ Answering(d, w, q).ahead = d.ahead
          /\ Answering(d, w, q).stream = w /\ Answering(d, w, q).dst = q
      BY <3>3, CallWith
    <3> QED BY <3>1, <3>2, <3>4
  <2> HIDE DEF how, st, ds
  <2>5. R!Flying' /\ RemoteTypes'
    BY <1>1, <2>4, CallIs DEF R!Flying, RemoteTypes
  <2>6. /\ \A u : Present(u)' = Present(u)
        /\ \A k : Writing(k)' = Writing(k) /\ MayHave(k)' = MayHave(k)
    BY <1>1, <2>1, <2>4, <2>5 DEF Present, Writing, MayHave
  <2>7. Serving' /\ Apart' /\ GivenUp'
    <3>1. \A u \in tasks' : Present(u) => u.id[2] # i
      BY <1>1, <2>2 DEF Apart, i
    <3>2. Serving'
      <4> SUFFICES ASSUME NEW u \in tasks'
                   PROVE  /\ u.id[1] <= calls' /\ (u.at = "write" => u.req.block \in Data)
                          /\ Present(u) => /\ u.id[2] \in DOMAIN call.reqs /\ u.req = call.reqs[u.id[2]]
                                           /\ u.at \in {call.op, "reply"} /\ st[u.id[2]] \in {"taken", "failed"}
        BY <2>4, <2>6 DEF Serving
      <4>1. Present(u) => st[u.id[2]] = call.stream[u.id[2]]
        BY <1>1, <2>2, <2>3, <3>1 DEF Serving
      <4> QED BY <1>1, <4>1 DEF Serving
    <3>3. Apart' /\ GivenUp'
      BY <1>1, <2>4, <2>6 DEF Apart, GivenUp
    <3> QED BY <3>2, <3>3
  <2>8. AtPeer'
    <3> SUFFICES ASSUME NEW k \in Key
                 PROVE  /\ kept[k] \in MayHave(k) \/ (Writing(k) /\ kept[k] = call.reqs[1].block)
                        /\ Writing(k) /\ (st[1] = "ok" \/ \E u \in tasks' : Present(u) /\ u.at = "reply") =>
                             kept[k] \in {None, call.reqs[1].block} \cup call.ahead
      BY <1>1, <2>4, <2>6 DEF AtPeer
    <3>1. t \in tasks /\ Present(t) /\ t.at = "reply"
      BY <1>1, <2>2
    <3> QED BY <1>1, <3>1 DEF AtPeer
  <2>9. Fetched'
    <3> SUFFICES ASSUME call.op = "read"
                 PROVE  /\ \A u \in tasks' : Present(u) /\ u.at = "reply" => u.found \in MayHave(u.req.key)
                        /\ \A j \in DOMAIN call.reqs :
                             st[j] = "ok" => ds[j] # None /\ ds[j] \in MayHave(call.reqs[j].key)
      BY <2>4, <2>6 DEF Fetched
    <3>1. t.found \in MayHave(call.reqs[i].key)
      BY <1>1, <2>1, <2>2 DEF Fetched
    <3>2. \A j \in DOMAIN call.reqs : st[j] = "ok" => ds[j] # None /\ ds[j] \in MayHave(call.reqs[j].key)
      BY <1>1, <2>1, <2>2, <2>3, <3>1 DEF Fetched
    <3> QED BY <1>1, <2>1, <3>2 DEF Fetched
  <2> QED BY <2>5, <2>7, <2>8, <2>9 DEF RemoteInv
<1> QED BY <1>2, <1>3

\* The connection is lost: what waits has failed.
LEMMA ConnectionLost == ASSUME RemoteInv, R!ConnLost PROVE RemoteInv'
<1>1. /\ UNCHANGED <<kept, tasks, calls, acked, doubt>> /\ call' = R!Failing(client)
      /\ RemoteTypes /\ Serving /\ Apart /\ GivenUp /\ AtPeer /\ Fetched
  BY DEF R!ConnLost, R!peer, R!ghost, RemoteInv
<1>2. CASE ~ R!Flying
  <2>1. call' = call
    BY <1>1, <1>2 DEF R!Failing
  <2> QED BY <1>1, <2>1, RemoteStutter
<1>3. CASE R!Flying
  <2> DEFINE st == [i \in DOMAIN call.stream |-> IF R!Open(i) THEN "failed" ELSE call.stream[i]]
  <2>1. call \in Calls /\ call' = [call EXCEPT !.stream = st]
    BY <1>1, <1>3, Flies DEF R!Failing, R!ConnLost
  <2>2. /\ st \in Seq({"out", "taken", "ok", "miss", "failed"}) /\ Len(st) = Len(call.stream)
        /\ \A j \in DOMAIN call.stream : st[j] = call.stream[j] \/ (st[j] = "failed" /\ call.stream[j] \in {"out", "taken"})
    <3>1. call.stream \in Seq({"out", "taken", "ok", "miss", "failed"})
      BY <2>1, CallIs
    <3>2. \A j \in DOMAIN call.stream : st[j] = call.stream[j] \/ (st[j] = "failed" /\ call.stream[j] \in {"out", "taken"})
      BY DEF R!Open
    <3>3. \A j \in DOMAIN call.stream : st[j] \in {"out", "taken", "ok", "miss", "failed"}
      BY <3>1, <3>2
    <3>4. DOMAIN st = 1 .. Len(call.stream) /\ Len(call.stream) \in Nat
      BY <3>1
    <3>5. st \in [1 .. Len(call.stream) -> {"out", "taken", "ok", "miss", "failed"}]
      BY <3>1, <3>3
    <3> HIDE DEF st
    <3> QED BY <3>2, <3>4, <3>5
  <2> HIDE DEF st
  <2>3. /\ call' \in Calls /\ call'.op = call.op /\ call'.reqs = call.reqs /\ call'.ahead = call.ahead
        /\ call'.stream = st /\ call'.dst = call.dst
    <3>1. call' = Answering(call, st, call.dst)
      BY <2>1 DEF Calls, Answering
    <3>2. call.dst \in Seq(Cell)
      BY <2>1, CallIs
    <3>3. PICK d \in Calls, w \in Seq({"out", "taken", "ok", "miss", "failed"}), q \in Seq(Cell) :
            d = call /\ w = st /\ q = call.dst
      BY <2>1, <2>2, <3>2
    <3>4. Len(w) = Len(d.stream) /\ Len(q) = Len(d.dst)
      BY <2>2, <3>3
    <3>5. /\ Answering(d, w, q) \in Calls /\ Answering(d, w, q).op = d.op /\ Answering(d, w, q).reqs = d.reqs
          /\ Answering(d, w, q).ahead = d.ahead
          /\ Answering(d, w, q).stream = w /\ Answering(d, w, q).dst = q
      BY <3>4, CallWith
    <3> QED BY <3>1, <3>3, <3>5
  <2>4. DOMAIN call.reqs = DOMAIN call.stream /\ 1 \in DOMAIN call.stream
    BY <2>1, CallIs
  <2>5. R!Flying' /\ RemoteTypes'
    BY <1>1, <2>3, CallIs DEF R!Flying, RemoteTypes
  <2>6. /\ \A u : Present(u)' = Present(u)
        /\ \A k : Writing(k)' = Writing(k) /\ MayHave(k)' = MayHave(k)
    BY <1>1, <1>3, <2>3, <2>5 DEF Present, Writing, MayHave
  <2>7. Serving' /\ Apart' /\ GivenUp'
    BY <1>1, <2>2, <2>3, <2>4, <2>6 DEF Serving, Apart, GivenUp
  <2>8. AtPeer'
    <3>1. st[1] = "ok" => call.stream[1] = "ok"
      BY <2>2, <2>4
    <3> QED BY <1>1, <2>3, <2>6, <3>1 DEF AtPeer
  <2>9. Fetched'
    <3>1. \A j \in DOMAIN call.reqs : st[j] = "ok" => call.stream[j] = "ok"
      BY <2>2, <2>4
    <3> QED BY <1>1, <1>3, <2>3, <2>6, <3>1 DEF Fetched
  <2> QED BY <2>5, <2>7, <2>8, <2>9 DEF RemoteInv
<1> QED BY <1>2, <1>3

\* The peer crashes: its map is empty and its tasks are gone.
LEMMA PeerCrashes == ASSUME RemoteInv, R!PeerCrash PROVE RemoteInv'
<1>1. /\ UNCHANGED <<calls, call, acked, doubt>> /\ tasks' = {} /\ kept' = [k \in Key |-> None]
      /\ RemoteTypes /\ Fetched
  BY DEF R!PeerCrash, R!ghost, RemoteInv
<1>2. RemoteTypes' /\ Serving' /\ Apart' /\ GivenUp'
  BY <1>1 DEF RemoteTypes, Cell, Serving, Apart, GivenUp
<1>3. AtPeer'
  BY <1>1 DEF AtPeer, MayHave
<1>4. Fetched'
  BY <1>1 DEF Fetched, MayHave, R!Flying
<1> QED BY <1>2, <1>3, <1>4 DEF RemoteInv

LEMMA RemoteStep == ASSUME R!RemoteAssumption, RemoteInv, [R!Next]_R!vars PROVE RemoteInv'
<1>1. CASE R!Register \/ R!Unregister \/ R!PeerStart \/ R!HandshakeFails \/ UNCHANGED R!vars
  BY <1>1, RemoteStutter DEF R!Register, R!Unregister, R!PeerStart, R!HandshakeFails, R!vars, R!peer, R!local, R!ghost
<1>2. CASE R!Call
  BY <1>2, CallStarts
<1>3. CASE R!Return
  BY <1>3, CallReturns
<1>4. CASE R!Serve
  BY <1>4, RequestArrives, TaskStores, TaskLooksUp, TaskReplies DEF R!Serve
<1>5. CASE R!ConnLost
  BY <1>5, ConnectionLost
<1>6. CASE R!PeerCrash
  BY <1>6, PeerCrashes
<1> QED BY <1>1, <1>2, <1>3, <1>4, <1>5, <1>6 DEF R!Next

LEMMA RemoteSteps == [NetNext]_netVars => [R!Next]_R!vars
BY DEF NetNext, Garner, Replication, Disk, netVars, ring2Vars, R!vars

\* Whatever is lost or crashes, and however many tasks of given-up writes are
\* still running (ring2_quic.rs): a read of a peer that answers 0 has filled each
\* of its buffers with the block that was last acknowledged for its key, or with
\* one whose write may have landed since; a batch that lost one of its streams
\* does not answer 0.
THEOREM ReadsAreWritten == NetSpec => []ReadsWhatWasWritten
<1>1. NetInit => RemoteInv
  BY RemoteInit, NetworkAssumption DEF NetInit
<1>2. RemoteInv /\ [R!Next]_R!vars => RemoteInv'
  BY RemoteStep, NetworkAssumption
<1>3. RemoteInv => ReadsWhatWasWritten
  <2> SUFFICES ASSUME RemoteInv, R!Flying, call.op = "read", R!AllOk, NEW i \in DOMAIN call.reqs
               PROVE  call.dst[i] \in ({acked[call.reqs[i].key]} \ {None}) \cup doubt[call.reqs[i].key]
    BY DEF ReadsWhatWasWritten, R!ReadsWhatWasWritten, R!Answered
  <2>1. DOMAIN call.reqs = DOMAIN call.stream
    BY Flies, CallIs DEF RemoteInv
  <2> QED BY <2>1 DEF RemoteInv, Fetched, R!AllOk, MayHave
<1> QED BY <1>1, <1>2, <1>3, RemoteSteps, PTL DEF NetSpec

-----------------------------------------------------------------------------
(***************************************************************************)
(* The staging cache.                                                      *)
(***************************************************************************)
\* A set of numbers has a least.
LEMMA Lowest ==
  ASSUME NEW Z, Z \subseteq Nat, Z # {}
  PROVE  K!Min(Z) \in Z /\ \A y \in Z : K!Min(Z) <= y
<1>1. PICK x \in Z : \A y \in Z : ~ (<<y, x>> \in OpToRel(<, Nat))
  BY WFMin, NatLessThanWellFounded
<1>2. ASSUME NEW y \in Z, y < x PROVE FALSE
  <2>1. <<y, x>> \in Nat \X Nat /\ <<y, x>>[1] = y /\ <<y, x>>[2] = x
    OBVIOUS
  <2>2. <<y, x>> \in OpToRel(<, Nat)
    BY <1>2, <2>1 DEF OpToRel
  <2> QED BY <1>1, <2>2
<1>3. x \in Nat /\ \A y \in Z : y \in Nat
  OBVIOUS
<1>4. x \in Z /\ \A y \in Z : x <= y
  BY <1>2, <1>3
<1> QED BY <1>4 DEF K!Min

\* Within one turn of the table an index wraps at most once.
LEMMA Wraps ==
  ASSUME NEW n \in Nat \ {0}, NEW a \in 0 .. n - 1, NEW i \in 0 .. n
  PROVE  (a + i) % n = IF a + i < n THEN a + i ELSE a + i - n
<1> DEFINE k == (a + i) \div n
           m == (a + i) % n
<1>1. k \in Int /\ m \in 0 .. n - 1 /\ a + i = n * k + m
  OBVIOUS
<1> HIDE DEF k, m
<1>2. a + i \in Nat /\ a + i < 2 * n
  OBVIOUS
<1>3. k >= 0
  <2> SUFFICES ASSUME k <= -1 PROVE FALSE
    BY <1>1
  <2>1. n * k <= n * (-1)
    BY <1>1
  <2> QED BY <1>1, <1>2, <2>1
<1>4. k <= 1
  <2> SUFFICES ASSUME k >= 2 PROVE FALSE
    BY <1>1
  <2>1. n * k >= n * 2
    BY <1>1
  <2> QED BY <1>1, <1>2, <2>1
<1>5. k = 0 \/ k = 1
  BY <1>1, <1>3, <1>4
<1>6. CASE k = 0
  <2>1. m = a + i
    BY <1>1, <1>6
  <2> QED BY <1>1, <2>1 DEF m
<1>7. CASE k = 1
  <2>1. m = a + i - n
    BY <1>1, <1>7
  <2> QED BY <1>1, <1>2, <2>1 DEF m
<1> QED BY <1>5, <1>6, <1>7

LEMMA Sizes == /\ nslot \in Nat \ {0} /\ hcap \in Nat \ {0} /\ nslot < hcap
               /\ Hash \in [Off -> K!Entry] /\ 0 \notin K!Slot /\ NoOff \notin Off /\ Blank \in Data
BY NetworkAssumption DEF K!Ring2Assumption, K!Entry, K!Slot

\* The entry i places behind x, in a circle.
Behind(x, i) == (x + i) % hcap

LEMMA BehindIs ==
  ASSUME NEW x \in K!Entry, NEW i \in 0 .. hcap
  PROVE  /\ Behind(x, i) = IF x + i < hcap THEN x + i ELSE x + i - hcap
         /\ Behind(x, i) \in K!Entry
<1>1. hcap \in Nat \ {0} /\ x \in 0 .. hcap - 1
  BY Sizes DEF K!Entry
<1>2. (x + i) % hcap = IF x + i < hcap THEN x + i ELSE x + i - hcap
  <2>1. \A n \in Nat \ {0} : \A y \in 0 .. n - 1 : \A j \in 0 .. n : (y + j) % n = IF y + j < n THEN y + j ELSE y + j - n
    BY Wraps
  <2> QED BY <1>1, <2>1, Zenon
<1>3. Behind(x, i) = IF x + i < hcap THEN x + i ELSE x + i - hcap
  BY <1>2, Zenon DEF Behind
<1> QED BY <1>1, <1>3 DEF K!Entry

\* How far an entry is behind an empty one.
Past(e) == [x \in K!Entry |-> IF x > e THEN x - e - 1 ELSE x - e - 1 + hcap]

LEMMA PastIs ==
  ASSUME NEW e \in K!Entry
  PROVE  /\ Past(e) \in [K!Entry -> 0 .. hcap - 1] /\ Past(e)[e] = hcap - 1
         /\ \A x, y \in K!Entry : Past(e)[x] = Past(e)[y] => x = y
         /\ \A x \in K!Entry, i \in 0 .. hcap :
              Past(e)[x] + i <= hcap - 1 => Past(e)[Behind(x, i)] = Past(e)[x] + i
         /\ \A x \in K!Entry : Behind(x, hcap - 1 - Past(e)[x]) = e
<1>1. hcap \in Nat \ {0} /\ e \in 0 .. hcap - 1
  BY Sizes DEF K!Entry
<1>2. Past(e) \in [K!Entry -> 0 .. hcap - 1] /\ Past(e)[e] = hcap - 1
  BY <1>1 DEF Past, K!Entry
<1>3. \A x, y \in K!Entry : Past(e)[x] = Past(e)[y] => x = y
  BY <1>1 DEF Past, K!Entry
<1>4. ASSUME NEW x \in K!Entry, NEW i \in 0 .. hcap, Past(e)[x] + i <= hcap - 1
      PROVE  Past(e)[Behind(x, i)] = Past(e)[x] + i
  <2>1. x \in 0 .. hcap - 1 /\ x \in Int /\ i \in Int
    BY <1>1 DEF K!Entry
  <2>2. PICK z : z = Behind(x, i)
    OBVIOUS
  <2>3. z = (IF x + i < hcap THEN x + i ELSE x + i - hcap) /\ z \in K!Entry
    BY <2>2, BehindIs
  <2>4. Past(e)[x] = IF x > e THEN x - e - 1 ELSE x - e - 1 + hcap
    BY DEF Past
  <2>6. Past(e)[z] = IF z > e THEN z - e - 1 ELSE z - e - 1 + hcap
    BY <2>3 DEF Past
  <2>7. Past(e)[z] = Past(e)[x] + i
    BY <1>1, <1>4, <2>1, <2>3, <2>4, <2>6
  <2> QED BY <2>2, <2>7
<1>5. ASSUME NEW x \in K!Entry PROVE Behind(x, hcap - 1 - Past(e)[x]) = e
  <2>1. PICK i \in 0 .. hcap : i = hcap - 1 - Past(e)[x] /\ Past(e)[x] + i = hcap - 1
    BY <1>1, <1>2
  <2>2. Past(e)[x] + i <= hcap - 1
    BY <1>1, <2>1
  <2>3. Behind(x, i) \in K!Entry /\ Past(e)[Behind(x, i)] = Past(e)[x] + i
    BY <1>4, <2>2, BehindIs
  <2>4. Behind(x, i) = e
    BY <1>2, <1>3, <2>1, <2>3, Zenon
  <2> QED BY <2>1, <2>4
<1> QED BY <1>2, <1>3, <1>4, <1>5

LEMMA Probed ==
  ASSUME NEW o \in Off, NEW i
  PROVE  K!Probe(o, i) = Behind(Hash[o], i) /\ Hash[o] \in K!Entry
<1>1. Hash[o] \in K!Entry
  BY Sizes
<1> QED BY <1>1, Zenon DEF K!Probe, Behind

\* Probing for an offset leads to an entry: none before it is empty.
Leads(hash, o, g) ==
  \E i \in K!Entry : K!Probe(o, i) = g /\ \A j \in 0 .. i - 1 : hash[K!Probe(o, j)] # 0

\* The same, said of how far entries are behind an empty one.
Along(hash, e, o, g) ==
  /\ Past(e)[Hash[o]] <= Past(e)[g]
  /\ \A x \in K!Entry : Past(e)[Hash[o]] <= Past(e)[x] /\ Past(e)[x] < Past(e)[g] => hash[x] # 0

LEMMA LeadsAlong ==
  ASSUME NEW hash, NEW e \in K!Entry, hash[e] = 0, NEW o \in Off, NEW g \in K!Entry
  PROVE  Leads(hash, o, g) <=> Along(hash, e, o, g)
<1>1. hcap \in Nat \ {0}
  BY Sizes
<1>0. Hash[o] \in K!Entry /\ \A i : K!Probe(o, i) = Behind(Hash[o], i)
  BY Probed
<1>9. K!Entry = 0 .. hcap - 1
  BY DEF K!Entry
<1>2. PICK a \in 0 .. hcap - 1 : a = Past(e)[Hash[o]]
  <2>1. Past(e) \in [K!Entry -> 0 .. hcap - 1]
    BY PastIs
  <2> QED BY <1>0, <2>1
<1>3. PICK b \in 0 .. hcap - 1 : b = Past(e)[g]
  BY PastIs
<1>8. /\ \A x, y \in K!Entry : Past(e)[x] = Past(e)[y] => x = y
      /\ \A x \in K!Entry, i \in 0 .. hcap :
           Past(e)[x] + i <= hcap - 1 => Past(e)[Behind(x, i)] = Past(e)[x] + i
  BY PastIs
<1>4. ASSUME NEW i \in 0 .. (hcap - 1) - a PROVE K!Probe(o, i) \in K!Entry /\ Past(e)[K!Probe(o, i)] = a + i
  <2>1. i \in 0 .. hcap /\ a + i <= hcap - 1
    BY <1>1, <1>2
  <2>2. Past(e)[Behind(Hash[o], i)] = a + i
    BY <1>0, <1>2, <1>8, <2>1, Zenon
  <2>3. Behind(Hash[o], i) \in K!Entry
    BY <1>0, <2>1, BehindIs
  <2> QED BY <1>0, <2>2, <2>3, Zenon
<1>5. K!Probe(o, (hcap - 1) - a) = e
  <2>1. Behind(Hash[o], (hcap - 1) - a) = e
    BY <1>0, <1>2, PastIs
  <2> QED BY <1>0, <2>1, Zenon
<1>6. ASSUME NEW i \in K!Entry, K!Probe(o, i) = g, \A j \in 0 .. i - 1 : hash[K!Probe(o, j)] # 0
      PROVE  Along(hash, e, o, g)
  <2>0. i \in 0 .. hcap - 1
    BY <1>9
  <2>1. i \in 0 .. (hcap - 1) - a
    <3> SUFFICES ASSUME i > (hcap - 1) - a PROVE FALSE
      BY <1>1, <1>2, <2>0
    <3>1. (hcap - 1) - a \in 0 .. i - 1
      BY <1>1, <1>2, <2>0
    <3> QED BY <1>5, <1>6, <3>1
  <2>2. b = a + i
    BY <1>3, <1>4, <1>6, <2>1, Zenon
  <2>3. ASSUME NEW x \in K!Entry, a <= Past(e)[x], Past(e)[x] < b PROVE hash[x] # 0
    <3>1. PICK c \in 0 .. hcap - 1 : c = Past(e)[x]
      BY PastIs
    <3>2. a <= c /\ c < b
      BY <2>3, <3>1
    <3>3. PICK j \in Int : j = c - a
      BY <1>1, <1>2, <3>1
    <3>4. j \in 0 .. i - 1 /\ j \in 0 .. (hcap - 1) - a /\ a + j = c
      BY <1>1, <2>0, <2>2, <3>2, <3>3
    <3>5. K!Probe(o, j) = x
      <4>1. K!Probe(o, j) \in K!Entry /\ Past(e)[K!Probe(o, j)] = Past(e)[x]
        BY <1>4, <3>1, <3>4, Zenon
      <4> QED BY <1>8, <4>1, Zenon
    <3> QED BY <1>6, <3>4, <3>5, Zenon
  <2>4. a <= b
    BY <1>1, <2>0, <2>2
  <2> QED BY <1>2, <1>3, <2>3, <2>4 DEF Along
<1>7. ASSUME Along(hash, e, o, g) PROVE Leads(hash, o, g)
  <2>0. a <= b
    BY <1>2, <1>3, <1>7, Zenon DEF Along
  <2>1. \A x \in K!Entry : a <= Past(e)[x] /\ Past(e)[x] < b => hash[x] # 0
    BY <1>2, <1>3, <1>7, Zenon DEF Along
  <2>2. PICK i \in Int : i = b - a
    BY <1>1
  <2>3. i \in 0 .. (hcap - 1) - a /\ a + i = b /\ i \in 0 .. hcap - 1
    BY <1>1, <2>0, <2>2
  <2>4. K!Probe(o, i) = g
    <3>1. K!Probe(o, i) \in K!Entry /\ Past(e)[K!Probe(o, i)] = Past(e)[g]
      BY <1>3, <1>4, <2>3, Zenon
    <3> QED BY <1>8, <3>1, Zenon
  <2>5. ASSUME NEW j \in 0 .. i - 1 PROVE hash[K!Probe(o, j)] # 0
    <3>1. j \in 0 .. (hcap - 1) - a /\ a <= a + j /\ a + j < b
      BY <1>1, <2>2, <2>3
    <3>2. K!Probe(o, j) \in K!Entry /\ Past(e)[K!Probe(o, j)] = a + j
      BY <1>4, <3>1, Zenon
    <3> QED BY <2>1, <3>1, <3>2, Zenon
  <2>6. i \in K!Entry
    BY <1>9, <2>3
  <2> QED BY <2>4, <2>5, <2>6 DEF Leads
<1> QED BY <1>6, <1>7 DEF Leads

LEMMA Around ==
  ASSUME NEW o \in Off, NEW g \in K!Entry
  PROVE  /\ \A i \in K!Entry : K!Probe(o, i) \in K!Entry
         /\ \E i \in K!Entry : K!Probe(o, i) = g
<1>1. hcap \in Nat \ {0} /\ K!Entry = 0 .. hcap - 1
  BY Sizes DEF K!Entry
<1>2. ASSUME NEW i \in K!Entry PROVE K!Probe(o, i) \in K!Entry
  <2>1. i \in 0 .. hcap
    BY <1>1
  <2> QED BY <2>1, Probed, BehindIs
<1>3. Past(g)[Hash[o]] \in 0 .. hcap - 1
  BY Probed, PastIs
<1>4. PICK i \in K!Entry : i = hcap - 1 - Past(g)[Hash[o]]
  BY <1>1, <1>3
<1>5. Behind(Hash[o], i) = g
  BY <1>4, Probed, PastIs
<1>6. K!Probe(o, i) = g
  BY <1>5, Probed, Zenon
<1> QED BY <1>2, <1>6

(***************************************************************************)
(* The table of the slots U.                                               *)
(***************************************************************************)
Entries(hash, U) ==
  /\ hash \in [K!Entry -> U \cup {0}]
  /\ \A g, h \in K!Entry : hash[g] # 0 /\ hash[g] = hash[h] => g = h
  /\ \A s \in U : \E g \in K!Entry : hash[g] = s

OwnOffsets(off, U) ==
  /\ \A s \in U : off[s] \in Off
  /\ \A s, t \in U : off[s] = off[t] => s = t

TableOf(hash, off, U) ==
  /\ U \subseteq K!Slot /\ Entries(hash, U) /\ OwnOffsets(off, U)
  /\ \A g \in K!Entry : hash[g] # 0 => Leads(hash, off[hash[g]], g)

\* It has more entries than there are slots.
LEMMA HasGap ==
  ASSUME NEW hash, NEW U \in SUBSET K!Slot, Entries(hash, U)
  PROVE  \E e \in K!Entry : hash[e] = 0
<1> SUFFICES ASSUME \A e \in K!Entry : hash[e] # 0 PROVE FALSE
  OBVIOUS
<1>1. hash \in [K!Entry -> K!Slot]
  BY DEF Entries
<1>2. hash \in Injection(K!Entry, K!Slot)
  BY <1>1 DEF Entries, Injection, IsInjective
<1>3. nslot \in Nat \ {0} /\ hcap \in Nat \ {0} /\ nslot < hcap
  BY Sizes
<1>4. IsFiniteSet(K!Slot) /\ Cardinality(K!Slot) = nslot
  BY <1>3, FS_Interval DEF K!Slot
<1>5. Cardinality(K!Entry) = hcap
  BY <1>3, FS_Interval DEF K!Entry
<1>6. Cardinality(K!Entry) <= Cardinality(K!Slot)
  BY <1>2, <1>4, FS_Injection
<1> QED BY <1>3, <1>4, <1>5, <1>6

\* bc_find: the slot of an offset, if there is one.
LEMMA FindIs ==
  ASSUME NEW k, NEW U, TableOf(k.hash, k.off, U), NEW o \in Off
  PROVE  \/ K!Find(k, o) = 0 /\ \A s \in U : k.off[s] # o
         \/ K!Find(k, o) \in U /\ k.off[K!Find(k, o)] = o
<1> DEFINE hash == k.hash
           off == k.off
           Z == {i \in K!Entry : LET s == hash[K!Probe(o, i)] IN s = 0 \/ off[s] = o}
           stop == K!Min(Z)
<1>1. /\ U \subseteq K!Slot /\ Entries(hash, U) /\ OwnOffsets(off, U)
      /\ \A g \in K!Entry : hash[g] # 0 => Leads(hash, off[hash[g]], g)
  BY DEF TableOf
<1>2. K!Find(k, o) = hash[K!Probe(o, stop)]
  BY DEF K!Find
<1> HIDE DEF hash, off
<1>3. PICK e \in K!Entry : hash[e] = 0
  BY <1>1, HasGap
<1>4. PICK n \in K!Entry : K!Probe(o, n) = e
  BY Around
<1>5. n \in Z /\ Z \subseteq Nat
  BY <1>3, <1>4 DEF K!Entry
<1> HIDE DEF Z
<1>6. stop \in Z /\ \A y \in Z : stop <= y
  BY <1>5, Lowest
<1>7. PICK c : c = stop
  OBVIOUS
<1> USE DEF Z
<1>8. PICK s : s = hash[K!Probe(o, c)]
  OBVIOUS
<1>9. c \in K!Entry /\ K!Probe(o, c) \in K!Entry /\ (s = 0 \/ off[s] = o)
  BY <1>6, <1>7, <1>8, Around
<1>10. CASE s # 0
  BY <1>1, <1>2, <1>7, <1>8, <1>9, <1>10 DEF Entries, off
<1>11. CASE s = 0
  <2> SUFFICES ASSUME NEW t \in U, off[t] = o PROVE FALSE
    BY <1>2, <1>7, <1>8, <1>11 DEF off
  <2>1. PICK g \in K!Entry : hash[g] = t
    BY <1>1 DEF Entries
  <2>2. t # 0
    BY <1>1, Sizes
  <2>3. Leads(hash, o, g)
    BY <1>1, <2>1, <2>2
  <2>4. PICK i \in K!Entry : K!Probe(o, i) = g /\ \A j \in 0 .. i - 1 : hash[K!Probe(o, j)] # 0
    BY <2>3 DEF Leads
  <2>5. i \in Z
    BY <2>1, <2>4
  <2>6. c <= i /\ c \in Nat /\ i \in Nat
    BY <1>6, <1>7, <1>9, <2>5 DEF K!Entry
  <2>7. CASE c = i
    BY <1>8, <1>11, <2>1, <2>2, <2>4, <2>7
  <2>8. CASE c # i
    <3>1. c \in 0 .. i - 1
      BY <2>6, <2>8
    <3> QED BY <1>8, <1>11, <2>4, <3>1
  <2> QED BY <2>7, <2>8
<1> QED BY <1>10, <1>11

LEMMA LeadsStill ==
  ASSUME NEW hash, NEW hash2, NEW o \in Off, NEW g, Leads(hash, o, g),
         \A x \in K!Entry : hash[x] # 0 => hash2[x] # 0
  PROVE  Leads(hash2, o, g)
<1>1. PICK i \in K!Entry : K!Probe(o, i) = g /\ \A j \in 0 .. i - 1 : hash[K!Probe(o, j)] # 0
  BY DEF Leads
<1>2. \A j \in 0 .. i - 1 : j \in K!Entry
  BY Sizes DEF K!Entry
<1>3. \A j \in 0 .. i - 1 : K!Probe(o, j) \in K!Entry
  BY <1>2, Around
<1> QED BY <1>1, <1>3 DEF Leads

\* A slot is entered where probing for its offset finds the first gap.
LEMMA EnteredIs ==
  ASSUME NEW hash \in [K!Entry -> K!Slot \cup {0}], NEW o \in Off, NEW s, \E e \in K!Entry : hash[e] = 0
  PROVE  \E e \in K!Entry : /\ hash[e] = 0 /\ Leads(hash, o, e)
                            /\ K!Entered(hash, o, s) = [hash EXCEPT ![e] = s]
<1> DEFINE Z == {i \in K!Entry : hash[K!Probe(o, i)] = 0}
           free == K!Min(Z)
<1>1. PICK e \in K!Entry : hash[e] = 0
  OBVIOUS
<1>2. PICK n \in K!Entry : K!Probe(o, n) = e
  BY Around
<1>3. n \in Z /\ Z \subseteq Nat
  BY <1>1, <1>2 DEF K!Entry
<1>4. free \in Z /\ \A y \in Z : free <= y
  <2> HIDE DEF Z
  <2> QED BY <1>3, Lowest
<1>5. PICK c : c = free
  OBVIOUS
<1>6. c \in K!Entry /\ K!Probe(o, c) \in K!Entry /\ hash[K!Probe(o, c)] = 0
  BY <1>4, <1>5, Around
<1>7. ASSUME NEW j \in 0 .. c - 1 PROVE hash[K!Probe(o, j)] # 0
  <2>1. j \in K!Entry /\ ~ (c <= j)
    BY <1>6, Sizes DEF K!Entry
  <2> QED BY <1>4, <1>5, <2>1
<1>8. Leads(hash, o, K!Probe(o, c))
  BY <1>6, <1>7 DEF Leads
<1>9. K!Entered(hash, o, s) = [hash EXCEPT ![K!Probe(o, c)] = s]
  BY <1>5 DEF K!Entered
<1> QED BY <1>6, <1>8, <1>9

\* A new slot in the table.
LEMMA EnterKeeps ==
  ASSUME NEW hash, NEW off, NEW off2, NEW U, TableOf(hash, off, U), NEW s \in K!Slot \ U, NEW o \in Off,
         \A t \in U : off2[t] = off[t] /\ off[t] # o, off2[s] = o
  PROVE  TableOf(K!Entered(hash, o, s), off2, U \cup {s})
<1>1. /\ U \subseteq K!Slot /\ Entries(hash, U) /\ OwnOffsets(off, U)
      /\ \A g \in K!Entry : hash[g] # 0 => Leads(hash, off[hash[g]], g)
  BY DEF TableOf
<1>2. hash \in [K!Entry -> K!Slot \cup {0}] /\ \E e \in K!Entry : hash[e] = 0
  BY <1>1, HasGap DEF Entries
<1>3. PICK e \in K!Entry : hash[e] = 0 /\ Leads(hash, o, e) /\ K!Entered(hash, o, s) = [hash EXCEPT ![e] = s]
  BY <1>2, EnteredIs
<1>4. PICK t : t = [hash EXCEPT ![e] = s]
  OBVIOUS
<1>5. /\ t \in [K!Entry -> U \cup {s} \cup {0}] /\ t[e] = s /\ s # 0
      /\ \A x \in K!Entry : x # e => t[x] = hash[x]
  BY <1>1, <1>4, Sizes DEF Entries
<1>6. Entries(t, U \cup {s})
  <2>1. \A g, h \in K!Entry : t[g] # 0 /\ t[g] = t[h] => g = h
    BY <1>1, <1>5 DEF Entries
  <2>2. ASSUME NEW r \in U \cup {s} PROVE \E g \in K!Entry : t[g] = r
    <3>1. CASE r = s
      BY <1>5, <3>1
    <3>2. CASE r \in U
      <4>1. PICK g \in K!Entry : hash[g] = r
        BY <1>1, <3>2 DEF Entries
      <4>2. g # e
        BY <1>1, <1>3, <3>2, <4>1, Sizes
      <4> QED BY <1>5, <4>1, <4>2
    <3> QED BY <3>1, <3>2
  <2> QED BY <1>5, <2>1, <2>2 DEF Entries
<1>7. OwnOffsets(off2, U \cup {s})
  BY <1>1 DEF OwnOffsets
<1>8. ASSUME NEW g \in K!Entry, t[g] # 0 PROVE Leads(t, off2[t[g]], g)
  <2>1. \A x \in K!Entry : hash[x] # 0 => t[x] # 0
    BY <1>3, <1>5
  <2>2. CASE g = e
    BY <1>3, <1>5, <2>1, <2>2, LeadsStill
  <2>3. CASE g # e
    <3>1. t[g] = hash[g] /\ hash[g] \in U
      BY <1>1, <1>5, <1>8, <2>3 DEF Entries
    <3>2. Leads(hash, off[hash[g]], g) /\ off[hash[g]] \in Off
      BY <1>1, <1>8, <3>1 DEF OwnOffsets
    <3>3. Leads(t, off[hash[g]], g)
      BY <2>1, <3>2, LeadsStill
    <3> QED BY <3>1, <3>3
  <2> QED BY <2>2, <2>3
<1> QED BY <1>1, <1>3, <1>4, <1>6, <1>7, <1>8 DEF TableOf

(***************************************************************************)
(* bc_hash_remove: slot s goes from entry h, and the entries up to the gap *)
(* e behind it are cleared and entered anew, one after the other.          *)
(***************************************************************************)
Again(t, off, j) == K!Entered([t EXCEPT ![j] = 0], off[t[j]], t[j])

Leaving(hash, off, U, s, h, e) ==
  /\ TableOf(hash, off, U) /\ s \in U
  /\ h \in K!Entry /\ hash[h] = s
  /\ e \in K!Entry /\ hash[e] = 0

\* The table after the entries up to m behind e.
Moved(hash, off, U, s, e, m, t) ==
  /\ Entries(t, U \ {s}) /\ t[e] = 0
  /\ \A x \in K!Entry : Past(e)[x] > m => t[x] = hash[x]
  /\ \A g \in K!Entry : t[g] # 0 /\ Past(e)[g] <= m => Along(t, e, off[t[g]], g)

LEMMA LeavingFacts ==
  ASSUME NEW hash, NEW off, NEW U, NEW s, NEW h, NEW e, Leaving(hash, off, U, s, h, e)
  PROVE  /\ hash \in [K!Entry -> U \cup {0}] /\ 0 \notin U
         /\ \A g, x \in K!Entry : hash[g] # 0 /\ hash[g] = hash[x] => g = x
         /\ \A r \in U : off[r] \in Off /\ \E g \in K!Entry : hash[g] = r
         /\ h \in K!Entry /\ e \in K!Entry /\ h # e
         /\ \A g \in K!Entry : hash[g] # 0 => Along(hash, e, off[hash[g]], g)
<1>1. /\ U \subseteq K!Slot /\ Entries(hash, U) /\ OwnOffsets(off, U)
      /\ \A g \in K!Entry : hash[g] # 0 => Leads(hash, off[hash[g]], g)
  BY DEF Leaving, TableOf
<1>2. 0 \notin U
  BY <1>1, Sizes
<1>3. s \in U /\ h \in K!Entry /\ hash[h] = s /\ e \in K!Entry /\ hash[e] = 0
  BY DEF Leaving
<1>4. ASSUME NEW g \in K!Entry, hash[g] # 0 PROVE Along(hash, e, off[hash[g]], g)
  <2>1. hash[g] \in U
    BY <1>1, <1>4 DEF Entries
  <2>2. off[hash[g]] \in Off /\ Leads(hash, off[hash[g]], g)
    BY <1>1, <1>4, <2>1 DEF OwnOffsets
  <2> QED BY <1>3, <2>2, LeadsAlong
<1> QED BY <1>1, <1>2, <1>3, <1>4 DEF Entries, OwnOffsets

\* Entries before a position that another table has filled too.
LEMMA AlongStill ==
  ASSUME NEW hash, NEW hash2, NEW e, NEW o, NEW g, Along(hash, e, o, g),
         \A x \in K!Entry : Past(e)[x] < Past(e)[g] /\ hash[x] # 0 => hash2[x] # 0
  PROVE  Along(hash2, e, o, g)
BY Zenon DEF Along

LEMMA MovedFirst ==
  ASSUME NEW hash, NEW off, NEW U, NEW s, NEW h, NEW e, Leaving(hash, off, U, s, h, e)
  PROVE  Moved(hash, off, U, s, e, Past(e)[h], [hash EXCEPT ![h] = 0])
<1>0. s \in U /\ hash[h] = s
  BY DEF Leaving
<1>1. /\ hash \in [K!Entry -> U \cup {0}] /\ 0 \notin U
      /\ \A g, x \in K!Entry : hash[g] # 0 /\ hash[g] = hash[x] => g = x
      /\ \A r \in U : off[r] \in Off /\ \E g \in K!Entry : hash[g] = r
      /\ h \in K!Entry /\ e \in K!Entry /\ h # e
      /\ \A g \in K!Entry : hash[g] # 0 => Along(hash, e, off[hash[g]], g)
  BY LeavingFacts
<1>2. PICK t : t = [hash EXCEPT ![h] = 0]
  OBVIOUS
<1>3. t[h] = 0 /\ \A x \in K!Entry : x # h => t[x] = hash[x]
  BY <1>1, <1>2
<1>4. Entries(t, U \ {s})
  <2>1. \A x \in K!Entry : hash[x] = s => x = h
    BY <1>0, <1>1
  <2>2. t \in [K!Entry -> (U \ {s}) \cup {0}]
    <3>1. \A x \in K!Entry : t[x] \in (U \ {s}) \cup {0}
      BY <1>1, <1>3, <2>1
    <3> QED BY <1>1, <1>2, <3>1
  <2>3. \A g, x \in K!Entry : t[g] # 0 /\ t[g] = t[x] => g = x
    BY <1>1, <1>3, Zenon
  <2>4. ASSUME NEW r \in U \ {s} PROVE \E g \in K!Entry : t[g] = r
    <3>1. PICK g \in K!Entry : hash[g] = r
      BY <1>1
    <3>2. g # h
      BY <1>0, <3>1
    <3> QED BY <1>3, <3>1, <3>2
  <2> QED BY <2>2, <2>3, <2>4 DEF Entries
<1>5. t[e] = 0
  BY <1>1, <1>3, Zenon DEF Leaving
<1>6. PICK P : P = Past(e)
  OBVIOUS
<1>7. P \in [K!Entry -> 0 .. hcap - 1] /\ \A x, y \in K!Entry : P[x] = P[y] => x = y
  BY <1>1, <1>6, PastIs
<1>8. ASSUME NEW x \in K!Entry, P[x] > P[h] PROVE t[x] = hash[x]
  <2>1. x # h
    BY <1>1, <1>7, <1>8, Sizes
  <2> QED BY <1>3, <2>1
<1>9. ASSUME NEW g \in K!Entry, t[g] # 0, P[g] <= P[h] PROVE Along(t, e, off[t[g]], g)
  <2>1. g # h /\ t[g] = hash[g] /\ hash[g] # 0
    BY <1>3, <1>9
  <2>2. \A x \in K!Entry : P[x] < P[g] => x # h
    BY <1>1, <1>7, <1>9, Sizes
  <2>3. \A x \in K!Entry : P[x] < P[g] /\ hash[x] # 0 => t[x] # 0
    BY <1>3, <2>2
  <2>4. Along(hash, e, off[hash[g]], g)
    BY <1>1, <2>1
  <2> QED BY <1>6, <2>1, <2>3, <2>4, AlongStill
<1> QED BY <1>2, <1>4, <1>5, <1>6, <1>8, <1>9 DEF Moved

LEMMA MovedNext ==
  ASSUME NEW hash, NEW off, NEW U, NEW s, NEW h, NEW e, Leaving(hash, off, U, s, h, e),
         NEW m \in Nat, NEW t, Moved(hash, off, U, s, e, m, t),
         NEW j \in K!Entry, Past(e)[j] = m + 1, hash[j] # 0
  PROVE  Moved(hash, off, U, s, e, m + 1, Again(t, off, j))
<1>1. /\ hash \in [K!Entry -> U \cup {0}] /\ 0 \notin U
      /\ \A g, x \in K!Entry : hash[g] # 0 /\ hash[g] = hash[x] => g = x
      /\ \A r \in U : off[r] \in Off /\ \E g \in K!Entry : hash[g] = r
      /\ h \in K!Entry /\ e \in K!Entry /\ h # e
      /\ \A g \in K!Entry : hash[g] # 0 => Along(hash, e, off[hash[g]], g)
  BY LeavingFacts
<1>2. hash[e] = 0
  BY DEF Leaving
<1>3. PICK P : P = Past(e)
  OBVIOUS
<1>4. P \in [K!Entry -> 0 .. hcap - 1] /\ P[e] = hcap - 1 /\ P[j] = m + 1 /\ \A x, y \in K!Entry : P[x] = P[y] => x = y
  BY <1>1, <1>3, PastIs
<1>5. j # e
  BY <1>2
<1>6. /\ t \in [K!Entry -> (U \ {s}) \cup {0}] /\ t[e] = 0
      /\ \A g, x \in K!Entry : t[g] # 0 /\ t[g] = t[x] => g = x
      /\ \A r \in U \ {s} : \E g \in K!Entry : t[g] = r
      /\ \A x \in K!Entry : P[x] > m => t[x] = hash[x]
      /\ \A g \in K!Entry : t[g] # 0 /\ P[g] <= m => Along(t, e, off[t[g]], g)
  BY <1>3 DEF Moved, Entries
<1>7. PICK r : r = t[j]
  OBVIOUS
<1>8. r = hash[j] /\ r # 0 /\ r \in U \ {s}
  <2>1. P[j] > m
    BY <1>4
  <2> QED BY <1>6, <1>7, <2>1
<1>9. PICK o \in Off : o = off[r]
  BY <1>1, <1>8
<1>10. PICK b : b = [t EXCEPT ![j] = 0]
  OBVIOUS
<1>11. b[j] = 0 /\ b[e] = 0 /\ \A x \in K!Entry : x # j => b[x] = t[x]
  BY <1>1, <1>5, <1>6, <1>10
<1>12. b \in [K!Entry -> K!Slot \cup {0}]
  <2>1. U \subseteq K!Slot
    BY DEF Leaving, TableOf
  <2> QED BY <1>6, <1>10, <2>1
<1>13. PICK f \in K!Entry : b[f] = 0 /\ Leads(b, o, f) /\ K!Entered(b, o, r) = [b EXCEPT ![f] = r]
  <2>1. \E x \in K!Entry : b[x] = 0
    BY <1>1, <1>11
  <2> QED BY <1>12, <2>1, EnteredIs
<1>14. PICK t2 : t2 = [b EXCEPT ![f] = r]
  OBVIOUS
<1>15. Again(t, off, j) = t2
  BY <1>7, <1>9, <1>10, <1>13, <1>14, Zenon DEF Again
<1>16. t2[f] = r /\ \A x \in K!Entry : x # f => t2[x] = b[x]
  BY <1>12, <1>14
<1>17. Along(b, e, o, f)
  BY <1>1, <1>11, <1>13, LeadsAlong
<1>18. P[f] <= m + 1 /\ f # e
  <2>1. P[Hash[o]] <= P[j]
    <3>1. Along(hash, e, o, j)
      BY <1>1, <1>8, <1>9
    <3> QED BY <1>3, <3>1 DEF Along
  <2>2. ~ (P[j] < P[f])
    BY <1>3, <1>11, <1>17, <2>1 DEF Along
  <2>3. P[j] \in Nat /\ P[f] \in Nat /\ P[e] \in Nat
    BY <1>1, <1>4, Sizes
  <2>4. P[f] <= m + 1
    BY <1>4, <2>2, <2>3
  <2>5. m + 1 # P[e]
    BY <1>1, <1>4, <1>5
  <2>6. m + 1 <= hcap - 1
    BY <1>4
  <2> QED BY <1>4, <2>3, <2>4, <2>5, <2>6
<1>19. Entries(t2, U \ {s})
  <2>1. t2 \in [K!Entry -> (U \ {s}) \cup {0}]
    BY <1>6, <1>8, <1>10, <1>14
  <2>2. \A x \in K!Entry : x # j => t[x] # r
    BY <1>6, <1>7, <1>8
  <2>3. \A x \in K!Entry : b[x] # r
    BY <1>8, <1>11, <2>2
  <2>4. \A g, x \in K!Entry : b[g] # 0 /\ b[g] = b[x] => g = x
    <3>1. \A x \in K!Entry : b[x] # 0 => x # j
      BY <1>11
    <3> QED BY <1>6, <1>11, <3>1
  <2>5. \A g, x \in K!Entry : t2[g] # 0 /\ t2[g] = t2[x] => g = x
    BY <1>16, <2>3, <2>4, Zenon
  <2>6. ASSUME NEW u \in U \ {s} PROVE \E g \in K!Entry : t2[g] = u
    <3>1. PICK g \in K!Entry : t[g] = u
      BY <1>6
    <3>2. CASE g = j
      BY <1>7, <1>16, <3>1, <3>2
    <3>3. CASE g # j
      <4>1. b[g] = u /\ u # 0
        BY <1>1, <1>11, <3>1, <3>3
      <4>2. g # f
        BY <1>13, <4>1
      <4> QED BY <1>16, <4>1, <4>2
    <3> QED BY <3>2, <3>3
  <2> QED BY <2>1, <2>5, <2>6 DEF Entries
<1>20. t2[e] = 0
  BY <1>1, <1>11, <1>16, <1>18
<1>21. ASSUME NEW x \in K!Entry, P[x] > m + 1 PROVE t2[x] = hash[x]
  <2>1. P[x] \in Nat /\ P[f] \in Nat
    BY <1>4, Sizes
  <2>2. x # j /\ x # f /\ P[x] > m
    BY <1>4, <1>18, <1>21, <2>1
  <2> QED BY <1>6, <1>11, <1>16, <2>2
<1>22. \A x \in K!Entry : b[x] # 0 => t2[x] # 0
  BY <1>8, <1>16
<1>23. ASSUME NEW g \in K!Entry, t2[g] # 0, P[g] <= m + 1 PROVE Along(t2, e, off[t2[g]], g)
  <2>1. CASE g = f
    BY <1>9, <1>16, <1>17, <1>22, <2>1, AlongStill
  <2>2. CASE g # f
    <3>1. g # j /\ t2[g] = t[g] /\ t[g] # 0
      BY <1>11, <1>16, <1>23, <2>2
    <3>2. P[g] \in Nat
      BY <1>4, Sizes
    <3>3. P[g] <= m
      <4>1. P[g] # m + 1
        BY <1>4, <3>1
      <4> QED BY <1>23, <3>2, <4>1
    <3>4. Along(t, e, off[t[g]], g)
      BY <1>6, <3>1, <3>3
    <3>5. \A x \in K!Entry : P[x] < P[g] => x # j
      BY <1>4, <3>2, <3>3, Sizes
    <3>6. \A x \in K!Entry : P[x] < P[g] /\ t[x] # 0 => t2[x] # 0
      BY <1>11, <1>22, <3>5
    <3> QED BY <1>3, <3>1, <3>4, <3>6, AlongStill
  <2> QED BY <2>1, <2>2
<1> QED BY <1>3, <1>15, <1>19, <1>20, <1>21, <1>23 DEF Moved

LEMMA MovedLast ==
  ASSUME NEW hash, NEW off, NEW U, NEW s, NEW h, NEW e, Leaving(hash, off, U, s, h, e),
         NEW t, Moved(hash, off, U, s, e, hcap - 2, t)
  PROVE  TableOf(t, off, U \ {s})
<1>1. U \subseteq K!Slot /\ OwnOffsets(off, U) /\ e \in K!Entry
  BY DEF Leaving, TableOf
<1>2. /\ Entries(t, U \ {s}) /\ t[e] = 0
      /\ \A g \in K!Entry : t[g] # 0 /\ Past(e)[g] <= hcap - 2 => Along(t, e, off[t[g]], g)
  BY DEF Moved
<1>3. OwnOffsets(off, U \ {s})
  BY <1>1 DEF OwnOffsets
<1>4. ASSUME NEW g \in K!Entry, t[g] # 0 PROVE Leads(t, off[t[g]], g)
  <2>1. g # e
    BY <1>2, <1>4
  <2>2. Past(e)[g] # hcap - 1 /\ Past(e)[g] \in 0 .. hcap - 1
    BY <1>1, <2>1, PastIs
  <2>3. Past(e)[g] <= hcap - 2
    BY <2>2, Sizes
  <2>4. t[g] \in U
    BY <1>2, <1>4 DEF Entries
  <2>5. off[t[g]] \in Off
    BY <1>1, <2>4 DEF OwnOffsets
  <2> QED BY <1>1, <1>2, <1>4, <2>3, <2>5, LeadsAlong
<1> QED BY <1>1, <1>2, <1>3, <1>4 DEF TableOf

\* The tables one after the other, and that there are such.
Cleared(hash, off, h, n, f) ==
  f = [i \in 0 .. n |-> IF i = 0 THEN [hash EXCEPT ![h] = 0] ELSE Again(f[i - 1], off, (h + i) % hcap)]

LEMMA LeastOf ==
  ASSUME NEW Z, Z \subseteq Nat, Z # {}
  PROVE  \E x \in Z : \A y \in Z : x <= y
BY Lowest

LEMMA ClearedExists ==
  ASSUME NEW hash, NEW off, NEW h, NEW n \in Nat
  PROVE  \E f : Cleared(hash, off, h, n, f)
<1> DEFINE Bad == {k \in Nat : ~ \E f : Cleared(hash, off, h, k, f)}
           j(i) == (h + i) % hcap
<1>1. SUFFICES ASSUME Bad # {} PROVE FALSE
  OBVIOUS
<1>2. PICK k \in Bad : \A y \in Bad : k <= y
  <2> HIDE DEF Bad
  <2>1. Bad \subseteq Nat
    BY DEF Bad
  <2> QED BY <1>1, <2>1, LeastOf
<1>3. k # 0
  <2>1. Cleared(hash, off, h, 0, [i \in 0 .. 0 |-> [hash EXCEPT ![h] = 0]])
    BY DEF Cleared
  <2> QED BY <2>1
<1>4. k \in Nat /\ k - 1 \in Nat /\ k - 1 \notin Bad
  BY <1>2, <1>3
<1>5. PICK f : Cleared(hash, off, h, k - 1, f)
  BY <1>4
<1> DEFINE g == [i \in 0 .. k |-> IF i < k THEN f[i] ELSE Again(f[k - 1], off, j(k))]
<1> HIDE DEF j
<1>6. Cleared(hash, off, h, k, g)
  <2>1. \A i \in 0 .. k - 1 : f[i] = IF i = 0 THEN [hash EXCEPT ![h] = 0] ELSE Again(f[i - 1], off, j(i))
    BY <1>5 DEF Cleared, j
  <2>2. ASSUME NEW i \in 0 .. k
        PROVE  g[i] = IF i = 0 THEN [hash EXCEPT ![h] = 0] ELSE Again(g[i - 1], off, j(i))
    <3>1. CASE i = k
      <4>1. g[k - 1] = f[k - 1] /\ k # 0
        BY <1>3, <1>4
      <4>2. g[k] = Again(f[k - 1], off, j(k))
        BY <1>4
      <4> HIDE DEF g
      <4> QED BY <3>1, <4>1, <4>2
    <3>2. CASE i < k
      <4>1. i # 0 => g[i - 1] = f[i - 1]
        BY <3>2, <1>4
      <4>2. g[i] = f[i] /\ i \in 0 .. k - 1
        BY <3>2, <1>4
      <4> HIDE DEF g
      <4> QED BY <2>1, <4>1, <4>2
    <3> QED BY <3>1, <3>2, <1>4
  <2>3. g = [i \in 0 .. k |-> g[i]]
    OBVIOUS
  <2> HIDE DEF g
  <2> QED BY <2>2, <2>3 DEF Cleared, j
<1> QED BY <1>2, <1>6

\* Where the first gap behind a taken entry is.
LEMMA GapIs ==
  ASSUME NEW hash, NEW U \in SUBSET K!Slot, Entries(hash, U), NEW h \in K!Entry, hash[h] # 0
  PROVE  \E e \in K!Entry : /\ hash[e] = 0 /\ K!Gap(hash, h) \in 1 .. hcap - 1
                            /\ Past(e)[h] + K!Gap(hash, h) = hcap - 1
                            /\ \A i \in 1 .. K!Gap(hash, h) - 1 : hash[Behind(h, i)] # 0
<1> DEFINE Z == {i \in 1 .. hcap : hash[Behind(h, i)] = 0}
           gap == K!Min(Z)
<1>1. K!Gap(hash, h) = gap
  BY DEF K!Gap, Behind
<1>2. hcap \in Nat \ {0}
  BY Sizes
<1>3. PICK x \in K!Entry : hash[x] = 0
  BY HasGap
<1>4. x # h
  BY <1>3
<1>5. PICK n \in 1 .. hcap - 1 : Behind(h, n) = x
  <2>1. Past(x)[h] \in 0 .. hcap - 1 /\ Past(x)[h] # hcap - 1 /\ Behind(h, hcap - 1 - Past(x)[h]) = x
    BY <1>4, PastIs
  <2>2. hcap - 1 - Past(x)[h] \in 1 .. hcap - 1
    BY <1>2, <2>1
  <2> QED BY <2>1, <2>2
<1>6. n \in Z /\ Z \subseteq Nat
  BY <1>2, <1>3, <1>5
<1>7. gap \in Z /\ \A y \in Z : gap <= y
  <2> HIDE DEF Z
  <2> QED BY <1>6, Lowest
<1>8. PICK c : c = gap
  OBVIOUS
<1>9. c \in 1 .. hcap /\ hash[Behind(h, c)] = 0 /\ c <= n /\ c \in 1 .. hcap - 1
  <2>1. c \in 1 .. hcap /\ hash[Behind(h, c)] = 0 /\ c <= n
    BY <1>6, <1>7, <1>8
  <2> QED BY <1>2, <1>5, <2>1
<1>10. \A i \in 1 .. c - 1 : hash[Behind(h, i)] # 0
  <2> SUFFICES ASSUME NEW i \in 1 .. c - 1, hash[Behind(h, i)] = 0 PROVE FALSE
    OBVIOUS
  <2>1. i \in 1 .. hcap /\ ~ (c <= i)
    BY <1>2, <1>9
  <2>2. i \in Z
    BY <2>1
  <2> QED BY <1>7, <1>8, <2>1, <2>2
<1>11. PICK e \in K!Entry : e = Behind(h, c)
  <2>1. c \in 0 .. hcap
    BY <1>9
  <2> QED BY <2>1, BehindIs
<1>12. Past(e)[h] + c = hcap - 1
  <2>1. PICK q \in 0 .. hcap - 1 : q = Past(e)[h]
    BY PastIs
  <2>2. Behind(h, hcap - 1 - q) = e /\ e # h /\ q # hcap - 1
    <3>1. e # h
      BY <1>9, <1>11
    <3> QED BY <2>1, <3>1, PastIs
  <2>3. hcap - 1 - q \in 1 .. hcap
    BY <1>2, <2>1, <2>2
  <2>4. hcap - 1 - q \in Z
    BY <1>9, <1>11, <2>2, <2>3
  <2>5. c <= hcap - 1 - q
    BY <1>7, <1>8, <2>4
  <2>6. c \in 0 .. hcap /\ q + c <= hcap - 1
    BY <1>2, <1>9, <2>1, <2>5
  <2>7. Past(e)[Behind(h, c)] = q + c
    BY <2>1, <2>6, PastIs
  <2>8. Past(e)[e] = hcap - 1
    BY PastIs
  <2> QED BY <1>11, <2>1, <2>7, <2>8
<1> QED BY <1>1, <1>8, <1>9, <1>10, <1>11, <1>12

LEMMA RemoveKeeps ==
  ASSUME NEW k, NEW U, TableOf(k.hash, k.off, U), NEW s \in U
  PROVE  \E t : K!HashRemove(k, k.off[s]) = [k EXCEPT !.hash = t] /\ TableOf(t, k.off, U \ {s})
<1> DEFINE h == CHOOSE h \in K!Entry : k.hash[h] = K!Find(k, k.off[s])
<1>1. k.off[s] \in Off /\ U \subseteq K!Slot /\ s # 0 /\ Entries(k.hash, U)
  BY Sizes DEF TableOf, OwnOffsets
<1>2. K!Find(k, k.off[s]) = s
  <2>1. K!Find(k, k.off[s]) \in U /\ k.off[K!Find(k, k.off[s])] = k.off[s]
    BY <1>1, FindIs
  <2> QED BY <2>1 DEF TableOf, OwnOffsets
<1>3. h \in K!Entry /\ k.hash[h] = s
  <2>1. \E g \in K!Entry : k.hash[g] = s
    BY <1>1 DEF Entries
  <2> QED BY <1>2, <2>1
<1>4. PICK n : n = K!Gap(k.hash, h) - 1
  OBVIOUS
<1> DEFINE f == CHOOSE g : Cleared(k.hash, k.off, h, n, g)
<1>5. K!HashRemove(k, k.off[s]) = [k EXCEPT !.hash = f[n]]
  BY <1>4, Zenon DEF K!HashRemove, Cleared, Again
<1> HIDE DEF h
<1>6. PICK e \in K!Entry : /\ k.hash[e] = 0 /\ K!Gap(k.hash, h) \in 1 .. hcap - 1
                           /\ Past(e)[h] + K!Gap(k.hash, h) = hcap - 1
                           /\ \A i \in 1 .. K!Gap(k.hash, h) - 1 : k.hash[Behind(h, i)] # 0
  BY <1>1, <1>3, GapIs
<1>7. PICK q : q = Past(e)[h]
  OBVIOUS
<1>8. n \in Nat /\ q \in Nat /\ q + n = hcap - 2 /\ n <= hcap
  <2>1. q \in 0 .. hcap - 1
    BY <1>3, <1>7, PastIs
  <2> QED BY <1>4, <1>6, <1>7, <2>1, Sizes
<1>9. Cleared(k.hash, k.off, h, n, f)
  BY <1>8, ClearedExists
<1> HIDE DEF f
<1>10. f[0] = [k.hash EXCEPT ![h] = 0] /\ \A i \in 1 .. n : f[i] = Again(f[i - 1], k.off, Behind(h, i))
  <2>1. \A i \in 0 .. n : f[i] = IF i = 0 THEN [k.hash EXCEPT ![h] = 0] ELSE Again(f[i - 1], k.off, Behind(h, i))
    BY <1>9, Zenon DEF Cleared, Behind
  <2>2. 0 \in 0 .. n /\ \A i \in 1 .. n : i \in 0 .. n /\ i # 0
    BY <1>8
  <2> QED BY <2>1, <2>2
<1>11. Leaving(k.hash, k.off, U, s, h, e)
  BY <1>3, <1>6 DEF Leaving
<1> DEFINE Sound(m) == Moved(k.hash, k.off, U, s, e, q + m, f[m])
           Bad == {m \in 0 .. n : ~ Sound(m)}
<1>12. Sound(0)
  <2>1. q + 0 = q
    BY <1>8
  <2>2. Moved(k.hash, k.off, U, s, e, q, f[0])
    <3>1. Moved(k.hash, k.off, U, s, e, Past(e)[h], [k.hash EXCEPT ![h] = 0])
      BY <1>11, MovedFirst
    <3> QED BY <1>7, <1>10, <3>1, Zenon
  <2> QED BY <2>1, <2>2, Zenon
<1>13. ASSUME NEW m \in 1 .. n, Sound(m - 1) PROVE Sound(m)
  <2>1. PICK x : x = Behind(h, m)
    OBVIOUS
  <2>2. m \in 0 .. hcap /\ q + m <= hcap - 1 /\ q + (m - 1) \in Nat /\ (q + (m - 1)) + 1 = q + m
    BY <1>8, Sizes
  <2>3. x \in K!Entry /\ Past(e)[x] = (q + (m - 1)) + 1
    <3>1. x \in K!Entry
      BY <1>3, <2>1, <2>2, BehindIs
    <3>2. Past(e)[x] = q + m
      BY <1>3, <1>7, <2>1, <2>2, PastIs
    <3> QED BY <2>2, <3>1, <3>2
  <2>4. k.hash[x] # 0
    BY <1>4, <1>6, <2>1
  <2>5. Moved(k.hash, k.off, U, s, e, (q + (m - 1)) + 1, Again(f[m - 1], k.off, x))
    BY <1>11, <1>13, <2>2, <2>3, <2>4, MovedNext, Zenon
  <2> QED BY <1>10, <2>1, <2>2, <2>5, Zenon
<1> HIDE DEF Sound
<1>14. Sound(n)
  <2> SUFFICES ASSUME n \in Bad PROVE FALSE
    BY <1>8
  <2>1. Bad \subseteq Nat /\ Bad # {}
    BY <1>8
  <2>2. PICK m \in Bad : \A y \in Bad : m <= y
    <3> HIDE DEF Bad
    <3> QED BY <2>1, LeastOf
  <2>3. m \in 1 .. n /\ m - 1 \in 0 .. n /\ ~ (m <= m - 1)
    BY <1>8, <1>12, <2>2
  <2>4. Sound(m - 1)
    BY <2>2, <2>3
  <2> QED BY <1>13, <2>2, <2>3, <2>4
<1>15. Moved(k.hash, k.off, U, s, e, hcap - 2, f[n])
  BY <1>8, <1>14, Zenon DEF Sound
<1>16. TableOf(f[n], k.off, U \ {s})
  BY <1>11, <1>15, MovedLast, Zenon
<1> QED BY <1>5, <1>16, Zenon

(***************************************************************************)
(* A cache whose table is that of the slots in use, each with the block of *)
(* the device.                                                             *)
(***************************************************************************)
Caches ==
  [slab : [K!Slot -> Data], off : [K!Slot -> Off \cup {NoOff}], hash : [K!Entry -> 0 .. nslot],
   prev : [K!Slot -> 0 .. nslot], next : [K!Slot -> 0 .. nslot],
   head : 0 .. nslot, tail : 0 .. nslot, used : 0 .. nslot]

Holds(k, dv, U) ==
  /\ k \in Caches /\ TableOf(k.hash, k.off, U)
  /\ \A s \in U : k.slab[s] = dv[k.off[s]]

CacheOK(k, dv) == Holds(k, dv, 1 .. k.used) /\ (k.used > 0 => k.tail # 0)

\* The list of slots has no part in the rest.
SameBlocks(k, r) == r.slab = k.slab /\ r.off = k.off /\ r.hash = k.hash /\ r.used = k.used

LEMMA Slots ==
  /\ K!Slot = 1 .. nslot /\ nslot \in Nat \ {0}
  /\ \A s \in K!Slot : s # 0 /\ s \in 0 .. nslot
  /\ \A s \in 0 .. nslot : s # 0 => s \in K!Slot
BY Sizes DEF K!Slot

LEMMA UnlinkIs ==
  ASSUME NEW k \in Caches, NEW s \in K!Slot
  PROVE  K!Unlink(k, s) \in Caches /\ SameBlocks(k, K!Unlink(k, s))
<1> DEFINE p == k.prev[s]
           n == k.next[s]
           nx == IF p # 0 THEN [k.next EXCEPT ![p] = n] ELSE k.next
           pv == IF n # 0 THEN [k.prev EXCEPT ![n] = p] ELSE k.prev
           hd == IF p # 0 THEN k.head ELSE n
           tl == IF n # 0 THEN k.tail ELSE p
<1>1. p \in 0 .. nslot /\ n \in 0 .. nslot /\ k.head \in 0 .. nslot /\ k.tail \in 0 .. nslot
  BY DEF Caches
<1>2. k.prev \in [K!Slot -> 0 .. nslot] /\ k.next \in [K!Slot -> 0 .. nslot]
  BY DEF Caches
<1>3. K!Unlink(k, s) = [k EXCEPT !.next = nx, !.prev = pv, !.head = hd, !.tail = tl]
  BY DEF K!Unlink
<1>4. nx \in [K!Slot -> 0 .. nslot] /\ pv \in [K!Slot -> 0 .. nslot] /\ hd \in 0 .. nslot /\ tl \in 0 .. nslot
  BY <1>1, <1>2
<1> HIDE DEF nx, pv, hd, tl
<1> QED BY <1>3, <1>4 DEF Caches, SameBlocks

LEMMA PushFrontIs ==
  ASSUME NEW k \in Caches, NEW s \in K!Slot
  PROVE  K!PushFront(k, s) \in Caches /\ SameBlocks(k, K!PushFront(k, s)) /\ K!PushFront(k, s).tail # 0
<1> DEFINE nx == [k.next EXCEPT ![s] = k.head]
           pv == [q \in K!Slot |-> IF q = s THEN 0 ELSE IF q = k.head THEN s ELSE k.prev[q]]
           tl == IF k.tail = 0 THEN s ELSE k.tail
<1>1. k.prev \in [K!Slot -> 0 .. nslot] /\ k.next \in [K!Slot -> 0 .. nslot]
      /\ k.head \in 0 .. nslot /\ k.tail \in 0 .. nslot
  BY DEF Caches
<1>2. s \in 0 .. nslot /\ s # 0 /\ 0 \in 0 .. nslot
  BY Slots
<1>3. K!PushFront(k, s) = [k EXCEPT !.next = nx, !.prev = pv, !.head = s, !.tail = tl]
  BY DEF K!PushFront
<1>4. nx \in [K!Slot -> 0 .. nslot] /\ pv \in [K!Slot -> 0 .. nslot] /\ tl \in 0 .. nslot /\ tl # 0
  BY <1>1, <1>2
<1> HIDE DEF nx, pv, tl
<1> QED BY <1>2, <1>3, <1>4 DEF Caches, SameBlocks

LEMMA StillHolds ==
  ASSUME NEW k, NEW r \in Caches, NEW dv, NEW U, Holds(k, dv, U), SameBlocks(k, r)
  PROVE  Holds(r, dv, U)
BY Zenon DEF Holds, SameBlocks

LEMMA TouchKeeps ==
  ASSUME NEW k, NEW dv, CacheOK(k, dv), NEW s \in K!Slot
  PROVE  CacheOK(K!Touch(k, s), dv)
<1>1. k \in Caches /\ Holds(k, dv, 1 .. k.used)
  BY DEF CacheOK, Holds
<1>2. PICK a : a = K!Unlink(k, s)
  OBVIOUS
<1>3. a \in Caches /\ SameBlocks(k, a)
  BY <1>1, <1>2, UnlinkIs
<1>4. PICK b : b = K!PushFront(a, s)
  OBVIOUS
<1>5. b \in Caches /\ SameBlocks(a, b) /\ b.tail # 0
  BY <1>3, <1>4, PushFrontIs
<1>6. SameBlocks(k, b)
  BY <1>3, <1>5, Zenon DEF SameBlocks
<1>7. Holds(b, dv, 1 .. b.used)
  <2>1. Holds(b, dv, 1 .. k.used) /\ b.used = k.used
    BY <1>1, <1>5, <1>6, StillHolds DEF SameBlocks
  <2> QED BY <2>1
<1> QED BY <1>2, <1>4, <1>5, <1>7, Zenon DEF CacheOK, K!Touch

-----------------------------------------------------------------------------
(***************************************************************************)
(* The list of slots: their order of use.                                  *)
(***************************************************************************)
Order(k, q, n, U) ==
  /\ n \in Nat /\ q \in [1 .. n -> U] /\ U \subseteq K!Slot
  /\ \A i, j \in 1 .. n : q[i] = q[j] => i = j
  /\ \A s \in U : \E i \in 1 .. n : q[i] = s
  /\ k.head = (IF n = 0 THEN 0 ELSE q[1]) /\ k.tail = (IF n = 0 THEN 0 ELSE q[n])
  /\ \A i \in 1 .. n : /\ k.next[q[i]] = IF i = n THEN 0 ELSE q[i + 1]
                       /\ k.prev[q[i]] = IF i = 1 THEN 0 ELSE q[i - 1]

SameList(k, r) == r.head = k.head /\ r.tail = k.tail /\ r.next = k.next /\ r.prev = k.prev

LEMMA OrderStays ==
  ASSUME NEW k, NEW r, SameList(k, r), NEW q, NEW n, NEW U, Order(k, q, n, U)
  PROVE  Order(r, q, n, U)
BY Zenon DEF Order, SameList

Dropped(q, n, j) == [i \in 1 .. n - 1 |-> IF i < j THEN q[i] ELSE q[i + 1]]
Pushed(q, n, s) == [i \in 1 .. n + 1 |-> IF i = 1 THEN s ELSE q[i - 1]]

\* A slot unlinked.
LEMMA UnlinkOrder ==
  ASSUME NEW k \in Caches, NEW q, NEW n, NEW U, Order(k, q, n, U), NEW j \in 1 .. n
  PROVE  Order(K!Unlink(k, q[j]), Dropped(q, n, j), n - 1, U \ {q[j]})
<1> DEFINE s  == q[j]
           p  == k.prev[s]
           nn == k.next[s]
           nx == IF p # 0 THEN [k.next EXCEPT ![p] = nn] ELSE k.next
           pv == IF nn # 0 THEN [k.prev EXCEPT ![nn] = p] ELSE k.prev
           hd == IF p # 0 THEN k.head ELSE nn
           tl == IF nn # 0 THEN k.tail ELSE p
           r  == K!Unlink(k, s)
           d  == Dropped(q, n, j)
<1>1. /\ n \in Nat /\ q \in [1 .. n -> U] /\ U \subseteq K!Slot
      /\ \A i, h \in 1 .. n : q[i] = q[h] => i = h
      /\ \A x \in U : \E i \in 1 .. n : q[i] = x
      /\ n # 0 => k.head = q[1] /\ k.tail = q[n]
      /\ \A i \in 1 .. n : /\ k.next[q[i]] = IF i = n THEN 0 ELSE q[i + 1]
                           /\ k.prev[q[i]] = IF i = 1 THEN 0 ELSE q[i - 1]
  BY DEF Order
<1>2. n >= 1 /\ j \in Int /\ n \in Int /\ n - 1 \in Nat
  BY <1>1
<1>3. r = [k EXCEPT !.next = nx, !.prev = pv, !.head = hd, !.tail = tl]
  BY DEF K!Unlink
<1>4. r.next = nx /\ r.prev = pv /\ r.head = hd /\ r.tail = tl
  <2> HIDE DEF nx, pv, hd, tl, r
  <2> QED BY <1>3 DEF Caches
<1>5. \A i \in 1 .. n : q[i] \in K!Slot /\ q[i] # 0
  BY <1>1, Slots
<1>6. nn = (IF j = n THEN 0 ELSE q[j + 1]) /\ p = (IF j = 1 THEN 0 ELSE q[j - 1])
  BY <1>1
<1>7. k.next \in [K!Slot -> 0 .. nslot] /\ k.prev \in [K!Slot -> 0 .. nslot]
  BY DEF Caches
<1>8. (j # n => j + 1 \in 1 .. n /\ nn = q[j + 1] /\ nn # 0) /\ (j = n => nn = 0)
  <2>1. j # n => j + 1 \in 1 .. n
    BY <1>2
  <2> QED BY <1>5, <1>6, <2>1
<1>9. (j # 1 => j - 1 \in 1 .. n /\ p = q[j - 1] /\ p # 0) /\ (j = 1 => p = 0)
  <2>1. j # 1 => j - 1 \in 1 .. n
    BY <1>2
  <2> QED BY <1>5, <1>6, <2>1
\* The slots before and behind the one that goes are now next to one another.
<1>10. ASSUME NEW i \in 1 .. n, i # j
       PROVE  /\ nx[q[i]] = IF i = j - 1 THEN nn ELSE k.next[q[i]]
              /\ pv[q[i]] = IF i = j + 1 THEN p ELSE k.prev[q[i]]
  <2>1. q[i] \in K!Slot
    BY <1>5
  <2>2. nx[q[i]] = IF p # 0 /\ q[i] = p THEN nn ELSE k.next[q[i]]
    BY <1>7, <2>1
  <2>3. pv[q[i]] = IF nn # 0 /\ q[i] = nn THEN p ELSE k.prev[q[i]]
    BY <1>7, <2>1
  <2>4. (p # 0 /\ q[i] = p) <=> i = j - 1
    <3>1. CASE j = 1
      BY <1>9, <3>1
    <3>2. CASE j # 1
      BY <1>1, <1>9, <3>2
    <3> QED BY <3>1, <3>2
  <2>5. (nn # 0 /\ q[i] = nn) <=> i = j + 1
    <3>1. CASE j = n
      BY <1>2, <1>8, <3>1
    <3>2. CASE j # n
      BY <1>1, <1>8, <3>2
    <3> QED BY <3>1, <3>2
  <2> HIDE DEF nx, pv, p, nn
  <2> QED BY <2>2, <2>3, <2>4, <2>5
<1> HIDE DEF nx, pv, p, nn, r
<1>11. \A i \in 1 .. n - 1 : i \in 1 .. n /\ i + 1 \in 1 .. n /\ d[i] = IF i < j THEN q[i] ELSE q[i + 1]
  BY <1>2 DEF Dropped
<1>12. d \in [1 .. n - 1 -> U \ {s}]
  <2>1. \A i \in 1 .. n - 1 : d[i] \in U \ {s}
    <3> TAKE i \in 1 .. n - 1
    <3>1. CASE i < j
      <4>1. i # j /\ d[i] = q[i]
        BY <1>11, <3>1
      <4> QED BY <1>1, <1>11, <4>1
    <3>2. CASE ~ (i < j)
      <4>1. i + 1 # j /\ d[i] = q[i + 1]
        BY <1>2, <1>11, <3>2
      <4> QED BY <1>1, <1>11, <4>1
    <3> QED BY <3>1, <3>2
  <2>2. d = [i \in 1 .. n - 1 |-> d[i]]
    BY DEF Dropped
  <2> HIDE DEF d
  <2> QED BY <2>1, <2>2
<1> HIDE DEF d
<1>13. ASSUME NEW i \in 1 .. n - 1, NEW h \in 1 .. n - 1, d[i] = d[h] PROVE i = h
  <2>1. (IF i < j THEN i ELSE i + 1) = (IF h < j THEN h ELSE h + 1)
    <3>1. CASE i < j /\ h < j
      BY <1>1, <1>11, <1>13, <3>1
    <3>2. CASE i < j /\ ~ (h < j)
      BY <1>1, <1>11, <1>13, <3>2
    <3>3. CASE ~ (i < j) /\ h < j
      BY <1>1, <1>11, <1>13, <3>3
    <3>4. CASE ~ (i < j) /\ ~ (h < j)
      BY <1>1, <1>11, <1>13, <3>4
    <3> QED BY <3>1, <3>2, <3>3, <3>4
  <2> QED BY <1>2, <2>1
<1>14. ASSUME NEW x \in U \ {s} PROVE \E i \in 1 .. n - 1 : d[i] = x
  <2>1. PICK i \in 1 .. n : q[i] = x
    BY <1>1
  <2>2. i # j
    BY <2>1
  <2>3. CASE i < j
    <3>1. i \in 1 .. n - 1
      BY <1>2, <2>3
    <3> QED BY <1>11, <2>1, <2>3, <3>1
  <2>4. CASE ~ (i < j)
    <3>1. i - 1 \in 1 .. n - 1 /\ ~ (i - 1 < j) /\ (i - 1) + 1 = i
      BY <1>2, <2>2, <2>4
    <3>2. d[i - 1] = q[i]
      BY <1>11, <3>1
    <3> QED BY <2>1, <3>1, <3>2
  <2> QED BY <2>3, <2>4
<1>15. r.head = IF n - 1 = 0 THEN 0 ELSE d[1]
  <2>1. CASE n = 1
    <3>1. j = 1 /\ j = n
      BY <2>1
    <3> QED BY <1>4, <1>8, <1>9, <2>1, <3>1
  <2>2. CASE n # 1
    <3>1. 1 \in 1 .. n - 1 /\ n - 1 # 0
      BY <1>2, <2>2
    <3>2. CASE j = 1
      <4>1. d[1] = q[2] /\ j # n /\ nn = q[2]
        BY <1>8, <1>11, <2>2, <3>1, <3>2
      <4> QED BY <1>4, <1>9, <3>1, <3>2, <4>1
    <3>3. CASE j # 1
      <4>1. d[1] = q[1] /\ p # 0 /\ k.head = q[1]
        BY <1>1, <1>2, <1>9, <1>11, <3>1, <3>3
      <4> QED BY <1>4, <3>1, <4>1
    <3> QED BY <3>2, <3>3
  <2> QED BY <2>1, <2>2
<1>16. r.tail = IF n - 1 = 0 THEN 0 ELSE d[n - 1]
  <2>1. CASE n = 1
    <3>1. j = 1 /\ j = n
      BY <2>1
    <3> QED BY <1>4, <1>8, <1>9, <2>1, <3>1
  <2>2. CASE n # 1
    <3>1. n - 1 \in 1 .. n - 1 /\ n - 1 # 0
      BY <1>2, <2>2
    <3>2. CASE j = n
      <4>1. n - 1 < j
        BY <1>2, <3>2
      <4>2. d[n - 1] = q[n - 1] /\ nn = 0 /\ p = q[n - 1]
        BY <1>8, <1>9, <1>11, <2>2, <3>1, <3>2, <4>1
      <4> QED BY <1>4, <3>1, <4>2
    <3>3. CASE j # n
      <4>1. ~ (n - 1 < j) /\ (n - 1) + 1 = n
        BY <1>2, <3>3
      <4>2. d[n - 1] = q[n] /\ nn # 0 /\ k.tail = q[n]
        BY <1>1, <1>2, <1>8, <1>11, <3>1, <3>3, <4>1
      <4> QED BY <1>4, <3>1, <4>2
    <3> QED BY <3>2, <3>3
  <2> QED BY <2>1, <2>2
<1>17. ASSUME NEW i \in 1 .. n - 1 PROVE r.next[d[i]] = IF i = n - 1 THEN 0 ELSE d[i + 1]
  <2>0. i \in 1 .. n /\ i + 1 \in 1 .. n /\ (i # n - 1 => i + 1 \in 1 .. n - 1 /\ (i + 1) + 1 \in 1 .. n)
    BY <1>2
  <2>1. CASE i < j - 1
    <3>1. i # j /\ i # j - 1 /\ i < j /\ i + 1 < j /\ i # n /\ i # n - 1
      BY <1>2, <2>1
    <3>2. d[i] = q[i] /\ d[i + 1] = q[i + 1]
      BY <1>11, <2>0, <3>1
    <3> QED BY <1>1, <1>4, <1>10, <2>0, <3>1, <3>2
  <2>2. CASE i = j - 1
    <3>1. i # j /\ i < j /\ d[i] = q[i] /\ i + 1 = j
      BY <1>2, <1>11, <2>2
    <3>2. nx[q[i]] = nn
      BY <1>10, <2>0, <2>2, <3>1
    <3>3. CASE j = n
      BY <1>2, <1>4, <1>8, <2>2, <3>1, <3>2, <3>3
    <3>4. CASE j # n
      <4>1. i # n - 1 /\ ~ (i + 1 < j)
        BY <1>2, <2>2, <3>4
      <4>2. d[i + 1] = q[(i + 1) + 1]
        BY <1>11, <2>0, <4>1
      <4>3. nn = q[j + 1]
        BY <1>8, <3>4
      <4> QED BY <1>4, <3>1, <3>2, <4>1, <4>2, <4>3
    <3> QED BY <3>3, <3>4
  <2>3. CASE i >= j
    <3>1. ~ (i < j) /\ ~ (i + 1 < j) /\ i + 1 # j /\ i + 1 # j - 1 /\ (i = n - 1 <=> i + 1 = n)
      BY <1>2, <2>3
    <3>2. d[i] = q[i + 1]
      BY <1>11, <3>1
    <3>3. nx[q[i + 1]] = k.next[q[i + 1]]
      BY <1>10, <2>0, <3>1
    <3>4. k.next[q[i + 1]] = IF i + 1 = n THEN 0 ELSE q[(i + 1) + 1]
      BY <1>1, <2>0
    <3>5. i # n - 1 => d[i + 1] = q[(i + 1) + 1]
      BY <1>11, <2>0, <3>1
    <3> QED BY <1>4, <3>1, <3>2, <3>3, <3>4, <3>5
  <2> QED BY <1>2, <2>1, <2>2, <2>3
<1>18. ASSUME NEW i \in 1 .. n - 1 PROVE r.prev[d[i]] = IF i = 1 THEN 0 ELSE d[i - 1]
  <2>0. i \in 1 .. n /\ i + 1 \in 1 .. n /\ (i # 1 => i - 1 \in 1 .. n - 1 /\ (i - 1) + 1 = i) /\ (i + 1) - 1 = i
    BY <1>2
  <2>1. CASE i < j
    <3>1. i # j /\ i # j + 1 /\ (i # 1 => i - 1 < j)
      BY <1>2, <2>1
    <3>2. d[i] = q[i] /\ (i # 1 => d[i - 1] = q[i - 1])
      BY <1>11, <2>0, <2>1, <3>1
    <3>3. pv[q[i]] = k.prev[q[i]] /\ k.prev[q[i]] = IF i = 1 THEN 0 ELSE q[i - 1]
      BY <1>1, <1>10, <2>0, <3>1
    <3> QED BY <1>4, <3>2, <3>3
  <2>2. CASE i = j
    <3>1. i + 1 # j /\ i + 1 = j + 1 /\ d[i] = q[i + 1]
      BY <1>2, <1>11, <2>2
    <3>2. pv[q[i + 1]] = p
      BY <1>10, <2>0, <3>1
    <3>3. CASE i = 1
      BY <1>4, <1>9, <2>2, <3>1, <3>2, <3>3
    <3>4. CASE i # 1
      <4>1. i - 1 < j
        BY <1>2, <2>2
      <4>2. d[i - 1] = q[i - 1]
        BY <1>11, <2>0, <3>4, <4>1
      <4>3. p = q[i - 1]
        BY <1>9, <2>2, <3>4
      <4> QED BY <1>4, <3>1, <3>2, <3>4, <4>2, <4>3
    <3> QED BY <3>3, <3>4
  <2>3. CASE i > j
    <3>1. ~ (i < j) /\ ~ (i - 1 < j) /\ i + 1 # j /\ i + 1 # j + 1 /\ i # 1 /\ i + 1 # 1
      BY <1>2, <2>3
    <3>2. d[i] = q[i + 1] /\ d[i - 1] = q[i]
      BY <1>11, <2>0, <3>1
    <3>3. pv[q[i + 1]] = k.prev[q[i + 1]]
      BY <1>10, <2>0, <3>1
    <3>4. k.prev[q[i + 1]] = q[i]
      <4>1. k.prev[q[i + 1]] = IF i + 1 = 1 THEN 0 ELSE q[(i + 1) - 1]
        BY <1>1, <2>0
      <4>2. (i + 1) - 1 = i
        BY <2>0
      <4> QED BY <3>1, <4>1, <4>2, Zenon
    <3> QED BY <1>4, <3>1, <3>2, <3>3, <3>4
  <2> QED BY <1>2, <2>1, <2>2, <2>3
<1>19. U \ {s} \subseteq K!Slot
  BY <1>1
<1> QED BY <1>2, <1>12, <1>13, <1>14, <1>15, <1>16, <1>17, <1>18, <1>19 DEF Order, r, d

\* A slot at the front.
LEMMA PushOrder ==
  ASSUME NEW k \in Caches, NEW q, NEW n, NEW U, Order(k, q, n, U), NEW s \in K!Slot \ U
  PROVE  Order(K!PushFront(k, s), Pushed(q, n, s), n + 1, U \cup {s})
<1> DEFINE nx == [k.next EXCEPT ![s] = k.head]
           pv == [x \in K!Slot |-> IF x = s THEN 0 ELSE IF x = k.head THEN s ELSE k.prev[x]]
           tl == IF k.tail = 0 THEN s ELSE k.tail
           r  == K!PushFront(k, s)
           d  == Pushed(q, n, s)
<1>1. /\ n \in Nat /\ q \in [1 .. n -> U] /\ U \subseteq K!Slot
      /\ \A i, h \in 1 .. n : q[i] = q[h] => i = h
      /\ \A x \in U : \E i \in 1 .. n : q[i] = x
      /\ k.head = (IF n = 0 THEN 0 ELSE q[1]) /\ k.tail = (IF n = 0 THEN 0 ELSE q[n])
      /\ \A i \in 1 .. n : /\ k.next[q[i]] = IF i = n THEN 0 ELSE q[i + 1]
                           /\ k.prev[q[i]] = IF i = 1 THEN 0 ELSE q[i - 1]
  BY DEF Order
<1>2. n \in Nat /\ n + 1 \in Nat /\ s # 0 /\ s \notin U /\ s \in K!Slot
  BY <1>1, Slots
<1>3. r = [k EXCEPT !.next = nx, !.prev = pv, !.head = s, !.tail = tl]
  BY DEF K!PushFront
<1>4. r.next = nx /\ r.prev = pv /\ r.head = s /\ r.tail = tl
  <2> HIDE DEF nx, pv, tl, r
  <2> QED BY <1>3 DEF Caches
<1>5. \A i \in 1 .. n : q[i] \in K!Slot /\ q[i] # 0 /\ q[i] # s
  <2>1. \A i \in 1 .. n : q[i] \in U
    BY <1>1
  <2>2. \A x \in U : x \in K!Slot /\ x # 0 /\ x # s
    BY <1>1, <1>2, Slots
  <2> QED BY <2>1, <2>2, Zenon
<1>6. nx[s] = k.head /\ pv[s] = 0 /\ \A x \in K!Slot : x # s => /\ nx[x] = k.next[x]
                                                                 /\ pv[x] = IF x = k.head THEN s ELSE k.prev[x]
  <2>1. k.next \in [K!Slot -> 0 .. nslot]
    BY DEF Caches
  <2> QED BY <1>2, <2>1
<1> HIDE DEF nx, pv, r
<1>7. /\ \A i \in 1 .. n + 1 : d[i] = IF i = 1 THEN s ELSE q[i - 1]
      /\ \A i \in 1 .. n + 1 : i # 1 => i - 1 \in 1 .. n
      /\ 1 \in 1 .. n + 1
  BY <1>2 DEF Pushed
<1>8. d \in [1 .. n + 1 -> U \cup {s}]
  <2>1. \A i \in 1 .. n + 1 : d[i] \in U \cup {s}
    BY <1>1, <1>7
  <2>2. d = [i \in 1 .. n + 1 |-> d[i]]
    BY DEF Pushed
  <2> HIDE DEF d
  <2> QED BY <2>1, <2>2
<1> HIDE DEF d
<1>9. ASSUME NEW i \in 1 .. n + 1, NEW h \in 1 .. n + 1, d[i] = d[h] PROVE i = h
  <2>1. CASE i = 1 \/ h = 1
    BY <1>5, <1>7, <1>9, <2>1
  <2>2. CASE i # 1 /\ h # 1
    <3>1. i - 1 = h - 1
      BY <1>1, <1>7, <1>9, <2>2
    <3> QED BY <1>2, <3>1
  <2> QED BY <2>1, <2>2
<1>10. ASSUME NEW x \in U \cup {s} PROVE \E i \in 1 .. n + 1 : d[i] = x
  <2>1. CASE x = s
    BY <1>7, <2>1
  <2>2. CASE x \in U
    <3>1. PICK i \in 1 .. n : q[i] = x
      BY <1>1, <2>2
    <3>2. i + 1 \in 1 .. n + 1 /\ i + 1 # 1 /\ (i + 1) - 1 = i
      BY <1>2
    <3>3. d[i + 1] = q[i]
      BY <1>7, <3>2
    <3> QED BY <3>1, <3>2, <3>3
  <2> QED BY <2>1, <2>2
<1>11. n + 1 # 0 /\ r.head = d[1]
  BY <1>2, <1>4, <1>7
<1>12. r.tail = d[n + 1]
  <2>1. CASE n = 0
    <3>1. k.tail = 0 /\ d[n + 1] = s
      BY <1>1, <1>7, <2>1
    <3> QED BY <1>4, <3>1
  <2>2. CASE n # 0
    <3>1. n + 1 \in 1 .. n + 1 /\ n + 1 # 1 /\ (n + 1) - 1 = n /\ n \in 1 .. n
      BY <1>2, <2>2
    <3>2. d[n + 1] = q[n] /\ k.tail = q[n] /\ q[n] # 0
      BY <1>1, <1>5, <1>7, <2>2, <3>1
    <3> QED BY <1>4, <3>2
  <2> QED BY <2>1, <2>2
<1>13. ASSUME NEW i \in 1 .. n + 1
       PROVE  /\ r.next[d[i]] = IF i = n + 1 THEN 0 ELSE d[i + 1]
              /\ r.prev[d[i]] = IF i = 1 THEN 0 ELSE d[i - 1]
  <2>0. i \in Int /\ (i # n + 1 => i + 1 \in 1 .. n + 1 /\ i + 1 # 1 /\ (i + 1) - 1 = i) /\ (i - 1 = n <=> i = n + 1)
    BY <1>2
  <2>1. i # n + 1 => d[i + 1] = q[i]
    BY <1>7, <2>0
  <2>2. CASE i = 1
    <3>1. d[i] = s
      BY <1>7, <2>2
    <3>2. k.head = IF i = n + 1 THEN 0 ELSE q[i]
      <4>1. i = n + 1 <=> n = 0
        BY <1>2, <2>2
      <4> QED BY <1>1, <2>2, <4>1
    <3> QED BY <1>4, <1>6, <2>1, <2>2, <3>1, <3>2
  <2>3. CASE i # 1
    <3>1. PICK h : h = i - 1
      OBVIOUS
    <3>2. h \in 1 .. n /\ d[i] = q[h] /\ h + 1 = i /\ (h = n <=> i = n + 1)
      BY <1>7, <2>0, <2>3, <3>1
    <3>3. q[h] \in K!Slot /\ q[h] # s
      BY <1>5, <3>2
    <3>4. /\ r.next[d[i]] = k.next[q[h]]
          /\ r.prev[d[i]] = IF q[h] = k.head THEN s ELSE k.prev[q[h]]
      BY <1>4, <1>6, <3>2, <3>3
    <3>5. r.next[d[i]] = IF i = n + 1 THEN 0 ELSE d[i + 1]
      BY <1>1, <2>1, <3>2, <3>4
    <3>6. n # 0 /\ 1 \in 1 .. n /\ k.head = q[1]
      <4>1. n # 0 /\ 1 \in 1 .. n
        BY <1>2, <3>2
      <4> QED BY <1>1, <4>1
    <3>7. q[h] = k.head <=> h = 1
      BY <1>1, <3>2, <3>6
    <3>8. CASE h = 1
      <4>1. i - 1 = 1 /\ d[1] = s
        BY <1>7, <3>1, <3>8
      <4> QED BY <2>3, <3>4, <3>5, <3>7, <3>8, <4>1
    <3>9. CASE h # 1
      <4>1. i - 1 = h /\ h \in 1 .. n + 1
        BY <1>2, <3>1, <3>2
      <4>2. d[h] = q[h - 1]
        BY <1>7, <3>9, <4>1
      <4>3. k.prev[q[h]] = q[h - 1]
        BY <1>1, <3>2, <3>9
      <4> QED BY <2>3, <3>4, <3>5, <3>7, <3>9, <4>1, <4>2, <4>3
    <3> QED BY <3>8, <3>9
  <2> QED BY <2>2, <2>3
<1>14. U \cup {s} \subseteq K!Slot
  BY <1>1, <1>2
<1> QED BY <1>2, <1>8, <1>9, <1>10, <1>11, <1>12, <1>13, <1>14 DEF Order, r, d

(***************************************************************************)
(* Used, the step of the abstract store.                                   *)
(***************************************************************************)
First(r, n, o) == [i \in 1 .. n |-> IF i = 1 THEN o ELSE r[i - 1]]
Front(r, n, o, j) == [i \in 1 .. n |-> IF i = 1 THEN o ELSE IF i <= j THEN r[i - 1] ELSE r[i]]

LEMMA UsedHeld ==
  ASSUME NEW n \in Nat, NEW r \in [1 .. n -> Off], \A i, h \in 1 .. n : r[i] = r[h] => i = h,
         NEW j \in 1 .. n, NEW o, o = r[j]
  PROVE  L!Used(r, o) = Front(r, n, o, j)
<1>1. r \in Seq(Off) /\ Len(r) = n /\ DOMAIN r = 1 .. n
  OBVIOUS
<1>2. L!Contains(r, o)
  BY <1>1 DEF L!Contains
<1>3. (CHOOSE i \in DOMAIN r : r[i] = o) = j
  BY <1>1
<1>4. L!Used(r, o) = <<o>> \o (SubSeq(r, 1, j - 1) \o SubSeq(r, j + 1, n))
  <2>1. L!Used(r, o) = <<o>> \o L!RemoveAt(r, j)
    BY <1>2, <1>3, Zenon DEF L!Used
  <2> QED BY <1>1, <2>1 DEF L!RemoveAt
<1>5. PICK a : a = SubSeq(r, 1, j - 1)
  OBVIOUS
<1>6. PICK b : b = SubSeq(r, j + 1, n)
  OBVIOUS
<1>7. a \in Seq(Off) /\ Len(a) = j - 1 /\ \A i \in 1 .. j - 1 : a[i] = r[i]
  BY <1>1, <1>5
<1>8. b \in Seq(Off) /\ Len(b) = n - j /\ \A i \in 1 .. n - j : b[i] = r[j + i]
  BY <1>1, <1>6
<1>9. o \in Off
  OBVIOUS
<1>10. PICK c : c = a \o b
  OBVIOUS
<1>11. /\ c \in Seq(Off) /\ Len(c) = n - 1
       /\ \A i \in 1 .. n - 1 : c[i] = IF i <= j - 1 THEN r[i] ELSE r[i + 1]
  <2>1. c \in Seq(Off) /\ Len(c) = n - 1
    <3>0. a \in Seq(Off) /\ b \in Seq(Off)
      BY <1>7, <1>8
    <3>1. c \in Seq(Off) /\ Len(c) = Len(a) + Len(b)
      BY <1>10, <3>0, ConcatProperties
    <3>2. (j - 1) + (n - j) = n - 1
      OBVIOUS
    <3> QED BY <1>7, <1>8, <3>1, <3>2
  <2>2. ASSUME NEW i \in 1 .. n - 1 PROVE c[i] = IF i <= j - 1 THEN r[i] ELSE r[i + 1]
    <3>1. CASE i <= j - 1
      BY <1>7, <1>8, <1>10, <3>1
    <3>2. CASE ~ (i <= j - 1)
      <4>1. c[i] = b[i - (j - 1)]
        BY <1>7, <1>8, <1>10, <3>2
      <4>2. i - (j - 1) \in 1 .. n - j /\ j + (i - (j - 1)) = i + 1
        BY <3>2
      <4>3. b[i - (j - 1)] = r[j + (i - (j - 1))]
        BY <1>8, <4>2
      <4> QED BY <3>2, <4>1, <4>2, <4>3
    <3> QED BY <3>1, <3>2
  <2> QED BY <2>1, <2>2
<1>12. PICK f : f = <<o>> \o c
  OBVIOUS
<1>13. f \in Seq(Off) /\ Len(f) = n /\ f[1] = o /\ \A i \in 2 .. n : f[i] = c[i - 1]
  BY <1>9, <1>11, <1>12
<1>14. f = [i \in 1 .. n |-> f[i]]
  BY <1>13
<1>15. ASSUME NEW i \in 1 .. n PROVE f[i] = IF i = 1 THEN o ELSE IF i <= j THEN r[i - 1] ELSE r[i]
  <2>1. CASE i = 1
    BY <1>13, <2>1
  <2>2. CASE i # 1
    <3>1. i \in 2 .. n /\ i - 1 \in 1 .. n - 1 /\ (i - 1) + 1 = i /\ (i - 1 <= j - 1 <=> i <= j)
      BY <2>2
    <3>2. f[i] = c[i - 1] /\ c[i - 1] = IF i - 1 <= j - 1 THEN r[i - 1] ELSE r[(i - 1) + 1]
      BY <1>11, <1>13, <3>1
    <3> QED BY <2>2, <3>1, <3>2
  <2> QED BY <2>1, <2>2
<1>16. f = Front(r, n, o, j)
  BY <1>14, <1>15 DEF Front
<1> QED BY <1>4, <1>5, <1>6, <1>10, <1>12, <1>16

LEMMA UsedNew ==
  ASSUME NEW n \in 0 .. nslot, NEW r \in [1 .. n -> Off], NEW o \in Off, \A i \in 1 .. n : r[i] # o
  PROVE  L!Used(r, o) = First(r, IF n < nslot THEN n + 1 ELSE nslot, o)
<1>0. nslot \in Nat \ {0} /\ n \in Nat
  BY Sizes
<1>1. r \in Seq(Off) /\ Len(r) = n
  BY <1>0
<1>2. ~ L!Contains(r, o)
  BY <1>1 DEF L!Contains
<1>3. PICK m : m = IF n < nslot THEN n ELSE nslot - 1
  OBVIOUS
<1>4. m \in 0 .. n /\ m + 1 = (IF n < nslot THEN n + 1 ELSE nslot)
  BY <1>0, <1>3
<1>5. L!Used(r, o) = <<o>> \o SubSeq(r, 1, m)
  BY <1>1, <1>2, <1>3, Zenon DEF L!Used
<1>6. PICK a : a = SubSeq(r, 1, m)
  OBVIOUS
<1>7. a \in Seq(Off) /\ Len(a) = m /\ \A i \in 1 .. m : a[i] = r[i]
  BY <1>1, <1>4, <1>6
<1>8. PICK f : f = <<o>> \o a
  OBVIOUS
<1>9. f \in Seq(Off) /\ Len(f) = m + 1 /\ f[1] = o /\ \A i \in 2 .. m + 1 : f[i] = a[i - 1]
  BY <1>4, <1>7, <1>8
<1>10. f = [i \in 1 .. m + 1 |-> f[i]]
  BY <1>9
<1>11. ASSUME NEW i \in 1 .. m + 1 PROVE f[i] = IF i = 1 THEN o ELSE r[i - 1]
  <2>1. CASE i = 1
    BY <1>9, <2>1
  <2>2. CASE i # 1
    <3>1. i \in 2 .. m + 1 /\ i - 1 \in 1 .. m
      BY <1>4, <2>2
    <3> QED BY <1>7, <1>9, <2>2, <3>1
  <2> QED BY <2>1, <2>2
<1>12. f = First(r, m + 1, o)
  BY <1>10, <1>11 DEF First
<1> QED BY <1>4, <1>5, <1>6, <1>8, <1>12

-----------------------------------------------------------------------------
\* A block is filled into a slot that the table does not have.
LEMMA FillIs ==
  ASSUME NEW k, NEW dv, NEW U, Holds(k, dv, U), NEW s \in K!Slot \ U, U \cup {s} = 1 .. k.used,
         NEW o \in Off, \A t \in U : k.off[t] # o, NEW d \in Data,
         NEW dv2, dv2[o] = d, \A x \in Off : x # o => dv2[x] = dv[x]
  PROVE  \E r \in Caches : /\ K!Fill([cache |-> k, slot |-> s], o, d) = K!PushFront(r, s)
                            /\ Holds(r, dv2, 1 .. k.used) /\ SameList(k, r) /\ r.used = k.used
                            /\ r.off[s] = o /\ \A t \in U : r.off[t] = k.off[t]
<1> DEFINE off2  == [k.off EXCEPT ![s] = o]
           slab2 == [k.slab EXCEPT ![s] = d]
           hash2 == K!Entered(k.hash, o, s)
           r     == [k EXCEPT !.off = off2, !.slab = slab2, !.hash = hash2]
<1>1. k \in Caches /\ TableOf(k.hash, k.off, U) /\ \A t \in U : k.slab[t] = dv[k.off[t]]
  BY DEF Holds
<1>2. K!Fill([cache |-> k, slot |-> s], o, d) = K!PushFront(r, s)
  BY DEF K!Fill
<1>3. off2 \in [K!Slot -> Off \cup {NoOff}] /\ slab2 \in [K!Slot -> Data]
  BY <1>1 DEF Caches
<1>4. U \subseteq K!Slot
  BY <1>1 DEF TableOf
<1>5. /\ off2[s] = o /\ slab2[s] = d
      /\ \A t \in U : off2[t] = k.off[t] /\ slab2[t] = k.slab[t]
  BY <1>1, <1>4 DEF Caches
<1> HIDE DEF off2, slab2
<1>6. TableOf(hash2, off2, U \cup {s})
  BY <1>1, <1>5, EnterKeeps
<1>7. hash2 \in [K!Entry -> 0 .. nslot]
  <2>1. hash2 \in [K!Entry -> (U \cup {s}) \cup {0}]
    BY <1>6 DEF TableOf, Entries
  <2>2. (U \cup {s}) \cup {0} \subseteq 0 .. nslot
    BY <1>4, Slots
  <2> HIDE DEF hash2
  <2> QED BY <2>1, <2>2
<1> HIDE DEF hash2
<1>8. r \in Caches /\ r.hash = hash2 /\ r.off = off2 /\ r.slab = slab2 /\ r.used = k.used /\ SameList(k, r)
  BY <1>1, <1>3, <1>7 DEF Caches, SameList
<1> HIDE DEF r
<1>9. \A t \in U \cup {s} : slab2[t] = dv2[off2[t]]
  <2>1. \A t \in U : k.off[t] \in Off
    BY <1>1 DEF TableOf, OwnOffsets
  <2> QED BY <1>1, <1>5, <2>1
<1>10. Holds(r, dv2, 1 .. k.used)
  BY <1>6, <1>8, <1>9, Zenon DEF Holds
<1> QED BY <1>2, <1>5, <1>8, <1>10

LEMMA EvictedIs ==
  ASSUME NEW k, NEW dv, CacheOK(k, dv), k.used = nslot
  PROVE  \E c, s : /\ K!Evicted(k) = [cache |-> c, slot |-> s] /\ s \in K!Slot
                   /\ Holds(c, dv, (1 .. nslot) \ {s}) /\ c.used = nslot /\ c.off = k.off
                   /\ s = k.tail /\ SameList(K!Unlink(k, s), c)
<1>1. k \in Caches /\ Holds(k, dv, 1 .. nslot) /\ k.tail # 0
  BY Sizes DEF CacheOK, Holds
<1>2. PICK s : s = k.tail
  OBVIOUS
<1>3. s \in K!Slot /\ s \in 1 .. nslot
  <2>1. k.tail \in 0 .. nslot
    BY <1>1 DEF Caches
  <2> QED BY <1>1, <1>2, <2>1, Slots
<1>4. PICK a : a = K!Unlink(k, s)
  OBVIOUS
<1>5. a \in Caches /\ SameBlocks(k, a)
  BY <1>1, <1>3, <1>4, UnlinkIs
<1>6. Holds(a, dv, 1 .. nslot) /\ a.off = k.off /\ a.used = nslot
  BY <1>1, <1>5, StillHolds DEF SameBlocks
<1>7. PICK t : K!HashRemove(a, a.off[s]) = [a EXCEPT !.hash = t] /\ TableOf(t, a.off, (1 .. nslot) \ {s})
  BY <1>3, <1>6, RemoveKeeps DEF Holds
<1>8. PICK c : c = [a EXCEPT !.hash = t]
  OBVIOUS
<1>9. t \in [K!Entry -> 0 .. nslot]
  <2>1. t \in [K!Entry -> ((1 .. nslot) \ {s}) \cup {0}]
    BY <1>7 DEF TableOf, Entries
  <2>2. ((1 .. nslot) \ {s}) \cup {0} \subseteq 0 .. nslot
    BY Slots
  <2> QED BY <2>1, <2>2
<1>10. c \in Caches /\ c.hash = t /\ c.off = a.off /\ c.slab = a.slab /\ c.used = a.used /\ SameList(a, c)
  BY <1>5, <1>8, <1>9 DEF Caches, SameList
<1>11. Holds(c, dv, (1 .. nslot) \ {s})
  <2>1. \A x \in 1 .. nslot : a.slab[x] = dv[a.off[x]]
    BY <1>6 DEF Holds
  <2> QED BY <1>7, <1>10, <2>1 DEF Holds
<1>12. K!Evicted(k) = [cache |-> c, slot |-> s]
  BY <1>2, <1>4, <1>6, <1>7, <1>8, Zenon DEF K!Evicted
<1> QED BY <1>2, <1>3, <1>4, <1>6, <1>10, <1>11, <1>12

(***************************************************************************)
(* A cache, and the offsets in the order of their use.                     *)
(***************************************************************************)
Offs(k, q, n) == [i \in 1 .. n |-> k.off[q[i]]]

Listing(k, dv, r) ==
  /\ CacheOK(k, dv)
  /\ \E q : Order(k, q, k.used, 1 .. k.used) /\ r = Offs(k, q, k.used)

LEMMA OffsAre ==
  ASSUME NEW k, NEW dv, NEW U, Holds(k, dv, U), NEW q, NEW n, Order(k, q, n, U)
  PROVE  /\ n \in 0 .. nslot /\ Offs(k, q, n) \in [1 .. n -> Off]
         /\ \A i \in 1 .. n : Offs(k, q, n)[i] = k.off[q[i]] /\ q[i] \in U
         /\ \A i, j \in 1 .. n : Offs(k, q, n)[i] = Offs(k, q, n)[j] => i = j
<1>1. OwnOffsets(k.off, U) /\ U \subseteq K!Slot
  BY DEF Holds, TableOf
<1>2. n \in Nat /\ q \in [1 .. n -> U] /\ \A i, j \in 1 .. n : q[i] = q[j] => i = j
  BY DEF Order
<1>3. \A i \in 1 .. n : Offs(k, q, n)[i] = k.off[q[i]] /\ q[i] \in U /\ k.off[q[i]] \in Off
  BY <1>1, <1>2 DEF Offs, OwnOffsets
<1>4. \A i, j \in 1 .. n : Offs(k, q, n)[i] = Offs(k, q, n)[j] => i = j
  <2> SUFFICES ASSUME NEW i \in 1 .. n, NEW j \in 1 .. n, Offs(k, q, n)[i] = Offs(k, q, n)[j]
               PROVE  i = j
    OBVIOUS
  <2>1. k.off[q[i]] = k.off[q[j]] /\ q[i] \in U /\ q[j] \in U
    BY <1>3
  <2>2. q[i] = q[j]
    BY <1>1, <2>1 DEF OwnOffsets
  <2> QED BY <1>2, <2>2
<1>5. Offs(k, q, n) \in [1 .. n -> Off]
  BY <1>3 DEF Offs
<1>6. n <= nslot
  <2>1. q \in Injection(1 .. n, K!Slot)
    BY <1>1, <1>2 DEF Injection, IsInjective
  <2>2. IsFiniteSet(K!Slot) /\ Cardinality(K!Slot) = nslot
    BY Slots, FS_Interval
  <2>3. Cardinality(1 .. n) = n
    BY <1>2, FS_Interval
  <2>4. Cardinality(1 .. n) <= Cardinality(K!Slot)
    BY <2>1, <2>2, FS_Injection
  <2> QED BY <2>2, <2>3, <2>4
<1> QED BY <1>2, <1>3, <1>4, <1>5, <1>6, Slots

\* What the list holds is what the table leads to.
LEMMA ListHolds ==
  ASSUME NEW k, NEW dv, NEW r, Listing(k, dv, r), NEW o \in Off
  PROVE  /\ K!Find(k, o) # 0 <=> L!Contains(r, o)
         /\ K!Find(k, o) # 0 => K!Find(k, o) \in 1 .. k.used /\ k.off[K!Find(k, o)] = o
<1>1. CacheOK(k, dv) /\ Holds(k, dv, 1 .. k.used) /\ TableOf(k.hash, k.off, 1 .. k.used)
  BY DEF Listing, CacheOK, Holds
<1>2. PICK q : Order(k, q, k.used, 1 .. k.used) /\ r = Offs(k, q, k.used)
  BY DEF Listing
<1>3. PICK n : n = k.used
  OBVIOUS
<1>4. /\ n \in 0 .. nslot /\ r \in [1 .. n -> Off]
      /\ \A i \in 1 .. n : r[i] = k.off[q[i]] /\ q[i] \in 1 .. n
  BY <1>1, <1>2, <1>3, OffsAre
<1>5. PICK s : s = K!Find(k, o)
  OBVIOUS
<1>6. \/ s = 0 /\ \A x \in 1 .. n : k.off[x] # o
      \/ s \in 1 .. n /\ k.off[s] = o
  BY <1>1, <1>3, <1>5, FindIs
<1>7. Len(r) = n /\ n \in Nat
  BY <1>4, Slots
<1>8. L!Contains(r, o) <=> \E i \in 1 .. n : r[i] = o
  BY <1>7 DEF L!Contains
<1>9. CASE s = 0
  <2>1. \A x \in 1 .. n : k.off[x] # o
    BY <1>6, <1>7, <1>9
  <2> QED BY <1>4, <1>5, <1>8, <1>9, <2>1
<1>10. CASE s # 0
  <2>1. s \in 1 .. n /\ k.off[s] = o
    BY <1>6, <1>10
  <2>2. PICK i \in 1 .. n : q[i] = s
    BY <1>2, <1>3, <2>1 DEF Order
  <2> QED BY <1>3, <1>4, <1>5, <1>8, <1>10, <2>1, <2>2
<1> QED BY <1>9, <1>10

LEMMA TouchLists ==
  ASSUME NEW k, NEW dv, NEW r, Listing(k, dv, r), NEW s \in 1 .. k.used
  PROVE  Listing(K!Touch(k, s), dv, L!Used(r, k.off[s])) /\ SameBlocks(k, K!Touch(k, s))
<1>1. CacheOK(k, dv) /\ Holds(k, dv, 1 .. k.used) /\ k \in Caches
  BY DEF Listing, CacheOK, Holds
<1>2. PICK n, U : n = k.used /\ U = 1 .. n
  OBVIOUS
<1>3. PICK q : Order(k, q, n, U) /\ r = Offs(k, q, n)
  BY <1>2 DEF Listing
<1>4. /\ n \in 0 .. nslot /\ r \in [1 .. n -> Off]
      /\ \A i \in 1 .. n : r[i] = k.off[q[i]] /\ q[i] \in U
      /\ \A i, j \in 1 .. n : r[i] = r[j] => i = j
  BY <1>1, <1>2, <1>3, OffsAre
<1>5. s \in U /\ U \subseteq K!Slot /\ s \in K!Slot
  BY <1>2, <1>3 DEF Order
<1>6. PICK j \in 1 .. n : q[j] = s
  BY <1>3, <1>5 DEF Order
<1>7. PICK a : a = K!Unlink(k, s)
  OBVIOUS
<1>8. a \in Caches /\ SameBlocks(k, a)
  BY <1>1, <1>5, <1>7, UnlinkIs
<1>9. PICK d : d = Dropped(q, n, j)
  OBVIOUS
<1>10. Order(a, d, n - 1, U \ {s})
  BY <1>1, <1>3, <1>6, <1>7, <1>9, UnlinkOrder
<1>11. PICK b : b = K!PushFront(a, s)
  OBVIOUS
<1>12. b \in Caches /\ SameBlocks(a, b)
  BY <1>5, <1>8, <1>11, PushFrontIs
<1>13. PICK e : e = Pushed(d, n - 1, s)
  OBVIOUS
<1>14. Order(b, e, (n - 1) + 1, (U \ {s}) \cup {s})
  BY <1>5, <1>8, <1>10, <1>11, <1>13, PushOrder
<1>15. n \in Nat /\ (n - 1) + 1 = n /\ (U \ {s}) \cup {s} = U
  BY <1>4, <1>5, Slots
<1>16. Order(b, e, n, U)
  BY <1>14, <1>15, Zenon
<1>17. SameBlocks(k, b)
  BY <1>8, <1>12, Zenon DEF SameBlocks
<1>18. K!Touch(k, s) = b
  BY <1>7, <1>11, Zenon DEF K!Touch
<1>19. CacheOK(b, dv)
  BY <1>1, <1>5, <1>18, TouchKeeps
<1>20. PICK o : o = k.off[s]
  OBVIOUS
<1>21. Offs(b, e, n) = Front(r, n, o, j)
  <2>1. b.off = k.off
    BY <1>17 DEF SameBlocks
  <2>2. ASSUME NEW i \in 1 .. n
        PROVE  b.off[e[i]] = IF i = 1 THEN o ELSE IF i <= j THEN r[i - 1] ELSE r[i]
    <3>1. e[i] = IF i = 1 THEN s ELSE d[i - 1]
      BY <1>13, <1>15 DEF Pushed
    <3>2. CASE i = 1
      BY <1>20, <2>1, <3>1, <3>2
    <3>3. CASE i # 1
      <4>1. i - 1 \in 1 .. n - 1 /\ i - 1 \in 1 .. n /\ (i - 1 < j <=> i <= j) /\ (i - 1) + 1 = i
        BY <1>15, <3>3
      <4>2. d[i - 1] = IF i - 1 < j THEN q[i - 1] ELSE q[(i - 1) + 1]
        BY <1>9, <4>1 DEF Dropped
      <4>3. d[i - 1] = IF i <= j THEN q[i - 1] ELSE q[i]
        BY <4>1, <4>2
      <4> QED BY <1>4, <2>1, <3>1, <3>3, <4>1, <4>3
    <3> QED BY <3>2, <3>3
  <2> QED BY <2>2 DEF Offs, Front
<1>22. L!Used(r, o) = Front(r, n, o, j)
  <2>1. o = r[j]
    BY <1>4, <1>6, <1>20
  <2> QED BY <1>4, <1>15, <2>1, UsedHeld
<1>23. b.used = n
  BY <1>2, <1>17 DEF SameBlocks
<1>24. Listing(b, dv, L!Used(r, o))
  BY <1>2, <1>16, <1>19, <1>21, <1>22, <1>23, Zenon DEF Listing
<1> QED BY <1>17, <1>18, <1>20, <1>24, Zenon

\* A block that was cached is put in place.
LEMMA UpdateLists ==
  ASSUME NEW k, NEW dv, NEW r, Listing(k, dv, r), NEW s \in 1 .. k.used, NEW d \in Data,
         NEW o \in Off, k.off[s] = o, NEW dv2, dv2[o] = d, \A x \in Off : x # o => dv2[x] = dv[x]
  PROVE  Listing([k EXCEPT !.slab[s] = d], dv2, r)
<1>1. k \in Caches /\ Holds(k, dv, 1 .. k.used) /\ TableOf(k.hash, k.off, 1 .. k.used)
  BY DEF Listing, CacheOK, Holds
<1>2. PICK q : Order(k, q, k.used, 1 .. k.used) /\ r = Offs(k, q, k.used)
  BY DEF Listing
<1>3. 1 .. k.used \subseteq K!Slot
  BY <1>1 DEF TableOf
<1>4. PICK a : a = [k EXCEPT !.slab[s] = d]
  OBVIOUS
<1>5. /\ a \in Caches /\ a.hash = k.hash /\ a.off = k.off /\ a.used = k.used /\ SameList(k, a)
      /\ a.slab[s] = d /\ \A x \in K!Slot : x # s => a.slab[x] = k.slab[x]
  BY <1>1, <1>3, <1>4 DEF Caches, SameList
<1>6. ASSUME NEW x \in 1 .. k.used PROVE a.slab[x] = dv2[a.off[x]]
  <2>1. CASE x = s
    BY <1>5, <2>1
  <2>2. CASE x # s
    <3>1. x \in K!Slot /\ k.off[x] # o /\ k.off[x] \in Off
      BY <1>1, <1>3, <2>2 DEF TableOf, OwnOffsets
    <3>2. k.slab[x] = dv[k.off[x]]
      BY <1>1 DEF Holds
    <3> QED BY <1>5, <2>2, <3>1, <3>2
  <2> QED BY <2>1, <2>2
<1>7. CacheOK(a, dv2)
  <2>1. k.used > 0 => a.tail # 0
    BY <1>5 DEF Listing, CacheOK, SameList
  <2>2. Holds(a, dv2, 1 .. k.used)
    BY <1>1, <1>5, <1>6, Zenon DEF Holds
  <2> QED BY <1>5, <2>1, <2>2, Zenon DEF CacheOK
<1>8. Order(a, q, k.used, 1 .. k.used)
  BY <1>2, <1>5, OrderStays
<1>9. r = Offs(a, q, k.used)
  BY <1>2, <1>5 DEF Offs
<1>10. Listing(a, dv2, r)
  BY <1>5, <1>7, <1>8, <1>9, Zenon DEF Listing
<1> QED BY <1>4, <1>10

\* A block is filled into a slot that was not in the list.
LEMMA FillLists ==
  ASSUME NEW k, NEW dv, NEW U, Holds(k, dv, U), NEW s \in K!Slot \ U, U \cup {s} = 1 .. k.used,
         NEW o \in Off, \A t \in U : k.off[t] # o, NEW d \in Data,
         NEW dv2, dv2[o] = d, \A x \in Off : x # o => dv2[x] = dv[x],
         NEW q, NEW n, Order(k, q, n, U), n + 1 = k.used
  PROVE  Listing(K!Fill([cache |-> k, slot |-> s], o, d), dv2, First(Offs(k, q, n), n + 1, o))
<1>1. PICK r \in Caches : /\ K!Fill([cache |-> k, slot |-> s], o, d) = K!PushFront(r, s)
                          /\ Holds(r, dv2, 1 .. k.used) /\ SameList(k, r) /\ r.used = k.used
                          /\ r.off[s] = o /\ \A t \in U : r.off[t] = k.off[t]
  BY FillIs
<1>2. PICK b : b = K!PushFront(r, s)
  OBVIOUS
<1>3. b \in Caches /\ SameBlocks(r, b) /\ b.tail # 0
  BY <1>1, <1>2, PushFrontIs
<1>4. b.used = k.used /\ b.off = r.off /\ Holds(b, dv2, 1 .. k.used)
  BY <1>1, <1>3, StillHolds DEF SameBlocks
<1>5. CacheOK(b, dv2)
  BY <1>3, <1>4 DEF CacheOK
<1>6. Order(r, q, n, U)
  BY <1>1, OrderStays
<1>7. PICK e : e = Pushed(q, n, s)
  OBVIOUS
<1>8. Order(b, e, n + 1, U \cup {s})
  BY <1>2, <1>6, <1>7, PushOrder
<1>9. Order(b, e, b.used, 1 .. b.used)
  BY <1>4, <1>8, Zenon
<1>10. n \in Nat /\ q \in [1 .. n -> U]
  BY DEF Order
<1>11. Offs(b, e, n + 1) = First(Offs(k, q, n), n + 1, o)
  <2>1. ASSUME NEW i \in 1 .. n + 1 PROVE b.off[e[i]] = IF i = 1 THEN o ELSE Offs(k, q, n)[i - 1]
    <3>1. e[i] = IF i = 1 THEN s ELSE q[i - 1]
      BY <1>7 DEF Pushed
    <3>2. CASE i = 1
      BY <1>1, <1>4, <3>1, <3>2
    <3>3. CASE i # 1
      <4>1. i - 1 \in 1 .. n
        BY <1>10, <3>3
      <4>2. q[i - 1] \in U /\ Offs(k, q, n)[i - 1] = k.off[q[i - 1]]
        BY <1>10, <4>1 DEF Offs
      <4> QED BY <1>1, <1>4, <3>1, <3>3, <4>2
    <3> QED BY <3>2, <3>3
  <2>2. Offs(b, e, n + 1) = [i \in 1 .. n + 1 |-> b.off[e[i]]]
    BY DEF Offs
  <2> QED BY <2>1, <2>2 DEF First
<1>12. Listing(b, dv2, First(Offs(k, q, n), n + 1, o))
  BY <1>4, <1>5, <1>9, <1>11, Zenon DEF Listing
<1> QED BY <1>1, <1>2, <1>12, Zenon

\* bc_put keeps the cache, and its block is the device's and the last used.
LEMMA PutLists ==
  ASSUME NEW k, NEW dv, NEW r, Listing(k, dv, r), NEW o \in Off, NEW d \in Data,
         NEW dv2, dv2[o] = d, \A x \in Off : x # o => dv2[x] = dv[x]
  PROVE  Listing(K!Put(k, o, d), dv2, L!Used(r, o))
<1>1. CacheOK(k, dv) /\ k \in Caches /\ Holds(k, dv, 1 .. k.used)
  BY DEF Listing, CacheOK, Holds
<1>2. PICK n : n = k.used
  OBVIOUS
<1>3. PICK q : Order(k, q, n, 1 .. n) /\ r = Offs(k, q, n)
  BY <1>2 DEF Listing
<1>4. /\ n \in 0 .. nslot /\ r \in [1 .. n -> Off]
      /\ \A i \in 1 .. n : r[i] = k.off[q[i]] /\ q[i] \in 1 .. n
  BY <1>1, <1>2, <1>3, OffsAre
<1>5. n \in Nat /\ nslot \in Nat \ {0}
  BY <1>4, Slots
<1>6. PICK s : s = K!Find(k, o)
  OBVIOUS
<1>7. \/ s = 0 /\ \A x \in 1 .. n : k.off[x] # o
      \/ s \in 1 .. n /\ k.off[s] = o
  <2>1. TableOf(k.hash, k.off, 1 .. n)
    BY <1>1, <1>2 DEF Holds
  <2> QED BY <1>6, <2>1, FindIs
<1>8. CASE s # 0
  <2>1. s \in 1 .. n /\ k.off[s] = o
    BY <1>7, <1>8
  <2>2. PICK a : a = [k EXCEPT !.slab[s] = d]
    OBVIOUS
  <2>3. Listing(a, dv2, r)
    BY <1>2, <2>1, <2>2, UpdateLists
  <2>4. a.off = k.off /\ a.used = k.used
    BY <1>1, <2>2 DEF Caches
  <2>5. Listing(K!Touch(a, s), dv2, L!Used(r, a.off[s]))
    BY <1>2, <2>1, <2>3, <2>4, TouchLists
  <2>6. K!Put(k, o, d) = K!Touch(a, s)
    BY <1>6, <1>8, <2>2, Zenon DEF K!Put
  <2> QED BY <2>1, <2>4, <2>5, <2>6, Zenon
<1>9. ASSUME s = 0 PROVE L!Used(r, o) = First(r, IF n < nslot THEN n + 1 ELSE nslot, o)
  <2>1. \A x \in 1 .. n : k.off[x] # o
    BY <1>5, <1>7, <1>9
  <2>2. \A i \in 1 .. n : r[i] # o
    BY <1>4, <2>1
  <2> QED BY <1>4, <2>2, UsedNew
<1>10. CASE s = 0 /\ n < nslot
  <2>1. PICK c : c = [k EXCEPT !.used = @ + 1]
    OBVIOUS
  <2>2. c \in Caches /\ c.used = n + 1
    <3>1. n + 1 \in 0 .. nslot
      BY <1>5, <1>10
    <3> QED BY <1>1, <1>2, <2>1, <3>1 DEF Caches
  <2>3. c.off = k.off /\ c.hash = k.hash /\ c.slab = k.slab /\ SameList(k, c)
    BY <1>1, <2>1 DEF Caches, SameList
  <2>4. PICK U : U = 1 .. n
    OBVIOUS
  <2>5. Holds(c, dv, U)
    BY <1>1, <1>2, <2>2, <2>3, <2>4, Zenon DEF Holds
  <2>6. PICK m : m = n + 1
    OBVIOUS
  <2>7. m \in K!Slot \ U /\ U \cup {m} = 1 .. c.used
    <3>1. m \in K!Slot
      BY <1>5, <1>10, <2>6, Slots
    <3> QED BY <1>5, <2>2, <2>4, <2>6, <3>1
  <2>8. \A x \in U : c.off[x] # o
    BY <1>5, <1>7, <1>10, <2>3, <2>4
  <2>9. Order(c, q, n, U)
    BY <1>3, <2>3, <2>4, OrderStays
  <2>10. Offs(c, q, n) = r
    BY <1>3, <2>3 DEF Offs
  <2>11. Listing(K!Fill([cache |-> c, slot |-> m], o, d), dv2, First(Offs(c, q, n), n + 1, o))
    BY <2>2, <2>5, <2>7, <2>8, <2>9, FillLists
  <2>12. K!Fresh(k) = [cache |-> c, slot |-> m]
    BY <1>2, <2>1, <2>6, Zenon DEF K!Fresh
  <2>13. K!Put(k, o, d) = K!Fill(K!Fresh(k), o, d)
    BY <1>2, <1>6, <1>10, Zenon DEF K!Put
  <2>14. L!Used(r, o) = First(r, n + 1, o)
    BY <1>9, <1>10
  <2> QED BY <2>10, <2>11, <2>12, <2>13, <2>14, Zenon
<1>11. CASE s = 0 /\ ~ (n < nslot)
  <2>1. n = nslot
    BY <1>4, <1>5, <1>11
  <2>2. PICK c, t : /\ K!Evicted(k) = [cache |-> c, slot |-> t] /\ t \in K!Slot
                    /\ Holds(c, dv, (1 .. nslot) \ {t}) /\ c.used = nslot /\ c.off = k.off
                    /\ t = k.tail /\ SameList(K!Unlink(k, t), c)
    BY <1>1, <1>2, <2>1, EvictedIs
  <2>3. PICK U : U = (1 .. nslot) \ {t}
    OBVIOUS
  <2>4. t \in K!Slot \ U /\ U \cup {t} = 1 .. c.used
    BY <2>2, <2>3, Slots
  <2>5. \A x \in U : c.off[x] # o
    BY <1>5, <1>7, <1>11, <2>1, <2>2, <2>3
  <2>6. t = q[n] /\ n \in 1 .. n
    <3>1. n # 0 /\ n \in 1 .. n
      BY <1>5, <2>1
    <3> QED BY <1>3, <2>2, <3>1 DEF Order
  <2>7. PICK e : e = Dropped(q, n, n)
    OBVIOUS
  <2>8. Order(c, e, n - 1, U)
    <3>1. Order(K!Unlink(k, t), e, n - 1, (1 .. n) \ {t})
      BY <1>1, <1>3, <2>6, <2>7, UnlinkOrder
    <3>2. Order(c, e, n - 1, (1 .. n) \ {t})
      BY <2>2, <3>1, OrderStays
    <3> QED BY <2>1, <2>3, <3>2, Zenon
  <2>9. (n - 1) + 1 = n /\ c.used = n
    BY <1>5, <2>1, <2>2
  <2>10. Listing(K!Fill([cache |-> c, slot |-> t], o, d), dv2, First(Offs(c, e, n - 1), (n - 1) + 1, o))
    <3>1. (n - 1) + 1 = c.used
      BY <2>9
    <3>2. Holds(c, dv, U)
      BY <2>2, <2>3
    <3> QED BY <2>4, <2>5, <2>8, <3>1, <3>2, FillLists
  <2>11. First(Offs(c, e, n - 1), n, o) = First(r, n, o)
    <3>1. ASSUME NEW i \in 1 .. n PROVE (IF i = 1 THEN o ELSE Offs(c, e, n - 1)[i - 1]) = (IF i = 1 THEN o ELSE r[i - 1])
      <4> SUFFICES ASSUME i # 1 PROVE Offs(c, e, n - 1)[i - 1] = r[i - 1]
        OBVIOUS
      <4>1. i - 1 \in 1 .. n - 1 /\ i - 1 \in 1 .. n /\ i - 1 < n
        BY <1>5
      <4>2. e[i - 1] = q[i - 1]
        BY <2>7, <4>1 DEF Dropped
      <4>3. Offs(c, e, n - 1)[i - 1] = c.off[e[i - 1]]
        BY <4>1 DEF Offs
      <4> QED BY <1>4, <2>2, <4>1, <4>2, <4>3
    <3> QED BY <3>1 DEF First
  <2>12. L!Used(r, o) = First(r, n, o)
    BY <1>9, <1>11, <2>1
  <2>13. K!Put(k, o, d) = K!Fill(K!Evicted(k), o, d)
    BY <1>2, <1>6, <1>11, Zenon DEF K!Put
  <2> QED BY <2>2, <2>9, <2>10, <2>11, <2>12, <2>13, Zenon
<1> QED BY <1>8, <1>10, <1>11

(***************************************************************************)
(* A batch of reads: the cache after each of its blocks, first those that  *)
(* are there, then those that were fetched.                                *)
(***************************************************************************)
Found(c, o, k) == LET s == K!Find(c, o) IN IF s # 0 THEN K!Touch(k, s) ELSE k
Taken(c, dv, o, k) == IF K!Find(c, o) = 0 THEN K!Put(k, o, dv[o]) ELSE k

Probing(c, offs, n, f) == f = [i \in 0 .. n |-> IF i = 0 THEN c ELSE Found(c, offs[i], f[i - 1])]
Fetching(c, dv, k, offs, n, f) == f = [i \in 0 .. n |-> IF i = 0 THEN k ELSE Taken(c, dv, offs[i], f[i - 1])]

LEMMA ProbingExists ==
  ASSUME NEW c, NEW offs, NEW n \in Nat
  PROVE  \E f : Probing(c, offs, n, f)
<1> DEFINE Bad == {m \in Nat : ~ \E f : Probing(c, offs, m, f)}
<1>1. SUFFICES ASSUME Bad # {} PROVE FALSE
  OBVIOUS
<1>2. PICK m \in Bad : \A y \in Bad : m <= y
  <2> HIDE DEF Bad
  <2>1. Bad \subseteq Nat
    BY DEF Bad
  <2> QED BY <1>1, <2>1, LeastOf
<1>3. m # 0
  <2>1. Probing(c, offs, 0, [i \in 0 .. 0 |-> c])
    BY DEF Probing
  <2> QED BY <2>1
<1>4. m \in Nat /\ m - 1 \in Nat /\ m - 1 \notin Bad
  BY <1>2, <1>3
<1>5. PICK f : Probing(c, offs, m - 1, f)
  BY <1>4
<1> DEFINE g == [i \in 0 .. m |-> IF i < m THEN f[i] ELSE Found(c, offs[m], f[m - 1])]
<1>6. Probing(c, offs, m, g)
  <2>1. \A i \in 0 .. m - 1 : f[i] = IF i = 0 THEN c ELSE Found(c, offs[i], f[i - 1])
    BY <1>5, Zenon DEF Probing
  <2>2. ASSUME NEW i \in 0 .. m
        PROVE  g[i] = IF i = 0 THEN c ELSE Found(c, offs[i], g[i - 1])
    <3>1. CASE i = m
      <4>1. g[m - 1] = f[m - 1] /\ m # 0
        BY <1>3, <1>4
      <4>2. g[m] = Found(c, offs[m], f[m - 1])
        BY <1>4
      <4> HIDE DEF g
      <4> QED BY <3>1, <4>1, <4>2
    <3>2. CASE i < m
      <4>1. i # 0 => g[i - 1] = f[i - 1]
        BY <3>2, <1>4
      <4>2. g[i] = f[i] /\ i \in 0 .. m - 1
        BY <3>2, <1>4
      <4> HIDE DEF g
      <4> QED BY <2>1, <4>1, <4>2
    <3> QED BY <3>1, <3>2, <1>4
  <2>3. g = [i \in 0 .. m |-> g[i]]
    OBVIOUS
  <2> HIDE DEF g
  <2> QED BY <2>2, <2>3 DEF Probing
<1> QED BY <1>2, <1>6

LEMMA FetchingExists ==
  ASSUME NEW c, NEW dv, NEW k, NEW offs, NEW n \in Nat
  PROVE  \E f : Fetching(c, dv, k, offs, n, f)
<1> DEFINE Bad == {m \in Nat : ~ \E f : Fetching(c, dv, k, offs, m, f)}
<1>1. SUFFICES ASSUME Bad # {} PROVE FALSE
  OBVIOUS
<1>2. PICK m \in Bad : \A y \in Bad : m <= y
  <2> HIDE DEF Bad
  <2>1. Bad \subseteq Nat
    BY DEF Bad
  <2> QED BY <1>1, <2>1, LeastOf
<1>3. m # 0
  <2>1. Fetching(c, dv, k, offs, 0, [i \in 0 .. 0 |-> k])
    BY DEF Fetching
  <2> QED BY <2>1
<1>4. m \in Nat /\ m - 1 \in Nat /\ m - 1 \notin Bad
  BY <1>2, <1>3
<1>5. PICK f : Fetching(c, dv, k, offs, m - 1, f)
  BY <1>4
<1> DEFINE g == [i \in 0 .. m |-> IF i < m THEN f[i] ELSE Taken(c, dv, offs[m], f[m - 1])]
<1>6. Fetching(c, dv, k, offs, m, g)
  <2>1. \A i \in 0 .. m - 1 : f[i] = IF i = 0 THEN k ELSE Taken(c, dv, offs[i], f[i - 1])
    BY <1>5, Zenon DEF Fetching
  <2>2. ASSUME NEW i \in 0 .. m
        PROVE  g[i] = IF i = 0 THEN k ELSE Taken(c, dv, offs[i], g[i - 1])
    <3>1. CASE i = m
      <4>1. g[m - 1] = f[m - 1] /\ m # 0
        BY <1>3, <1>4
      <4>2. g[m] = Taken(c, dv, offs[m], f[m - 1])
        BY <1>4
      <4> HIDE DEF g
      <4> QED BY <3>1, <4>1, <4>2
    <3>2. CASE i < m
      <4>1. i # 0 => g[i - 1] = f[i - 1]
        BY <3>2, <1>4
      <4>2. g[i] = f[i] /\ i \in 0 .. m - 1
        BY <3>2, <1>4
      <4> HIDE DEF g
      <4> QED BY <2>1, <4>1, <4>2
    <3> QED BY <3>1, <3>2, <1>4
  <2>3. g = [i \in 0 .. m |-> g[i]]
    OBVIOUS
  <2> HIDE DEF g
  <2> QED BY <2>2, <2>3 DEF Fetching
<1> QED BY <1>2, <1>6

LEMMA BatchIs ==
  ASSUME NEW offs \in K!Batch
  PROVE  Len(offs) \in Nat /\ \A i \in 1 .. Len(offs) : offs[i] \in Off
<1>1. PICK n \in 1 .. MaxBatch : offs \in [1 .. n -> Off]
  BY DEF K!Batch
<1>2. MaxBatch \in 1 .. 3
  BY NetworkAssumption DEF K!Ring2Assumption
<1>3. n \in Nat
  BY <1>2
<1>4. offs \in Seq(Off)
  BY <1>1, <1>3
<1> QED BY <1>4

\* A property of the cache that each block of a batch keeps holds after them.
LEMMA Through ==
  ASSUME NEW n \in Nat, NEW G, 0 \in G, \A i \in 1 .. n : i - 1 \in G => i \in G
  PROVE  n \in G
<1> DEFINE Bad == {i \in 0 .. n : i \notin G}
<1> SUFFICES ASSUME n \in Bad PROVE FALSE
  OBVIOUS
<1>1. Bad \subseteq Nat /\ Bad # {}
  OBVIOUS
<1>2. PICK i \in Bad : \A y \in Bad : i <= y
  <2> HIDE DEF Bad
  <2> QED BY <1>1, LeastOf
<1>3. i \in 1 .. n /\ i - 1 \in 0 .. n /\ ~ (i <= i - 1)
  BY <1>2
<1>4. i - 1 \in G
  BY <1>2, <1>3
<1> QED BY <1>2, <1>3, <1>4

\* The uses of a batch in the abstract store.
Uses(x, o, set) == IF o \in set THEN L!Used(x, o) ELSE x
Using(r, offs, set, n, g) == g = [i \in 0 .. n |-> IF i = 0 THEN r ELSE Uses(g[i - 1], offs[i], set)]

LEMMA UsingExists ==
  ASSUME NEW r, NEW offs, NEW set, NEW n \in Nat
  PROVE  \E g : Using(r, offs, set, n, g)
<1> DEFINE Bad == {m \in Nat : ~ \E g : Using(r, offs, set, m, g)}
<1>1. SUFFICES ASSUME Bad # {} PROVE FALSE
  OBVIOUS
<1>2. PICK m \in Bad : \A y \in Bad : m <= y
  <2> HIDE DEF Bad
  <2>1. Bad \subseteq Nat
    BY DEF Bad
  <2> QED BY <1>1, <2>1, LeastOf
<1>3. m # 0
  <2>1. Using(r, offs, set, 0, [i \in 0 .. 0 |-> r])
    BY DEF Using
  <2> QED BY <2>1
<1>4. m \in Nat /\ m - 1 \in Nat /\ m - 1 \notin Bad
  BY <1>2, <1>3
<1>5. PICK f : Using(r, offs, set, m - 1, f)
  BY <1>4
<1> DEFINE g == [i \in 0 .. m |-> IF i < m THEN f[i] ELSE Uses(f[m - 1], offs[m], set)]
<1>6. Using(r, offs, set, m, g)
  <2>1. \A i \in 0 .. m - 1 : f[i] = IF i = 0 THEN r ELSE Uses(f[i - 1], offs[i], set)
    BY <1>5, Zenon DEF Using
  <2>2. ASSUME NEW i \in 0 .. m
        PROVE  g[i] = IF i = 0 THEN r ELSE Uses(g[i - 1], offs[i], set)
    <3>1. CASE i = m
      <4>1. g[m - 1] = f[m - 1] /\ m # 0
        BY <1>3, <1>4
      <4>2. g[m] = Uses(f[m - 1], offs[m], set)
        BY <1>4
      <4> HIDE DEF g
      <4> QED BY <3>1, <4>1, <4>2
    <3>2. CASE i < m
      <4>1. i # 0 => g[i - 1] = f[i - 1]
        BY <3>2, <1>4
      <4>2. g[i] = f[i] /\ i \in 0 .. m - 1
        BY <3>2, <1>4
      <4> HIDE DEF g
      <4> QED BY <2>1, <4>1, <4>2
    <3> QED BY <3>1, <3>2, <1>4
  <2>3. g = [i \in 0 .. m |-> g[i]]
    OBVIOUS
  <2> HIDE DEF g
  <2> QED BY <2>2, <2>3 DEF Using
<1> QED BY <1>2, <1>6

UsedUp(r, offs, set, n, g) ==
  /\ L!AllUsed(r, offs, set) = g[n] /\ g[0] = r
  /\ \A i \in 1 .. n : g[i] = Uses(g[i - 1], offs[i], set)

LEMMA AllUsedIs ==
  ASSUME NEW r, NEW offs, NEW set, NEW n \in Nat, Len(offs) = n
  PROVE  \E g : UsedUp(r, offs, set, n, g)
<1> DEFINE g == CHOOSE h : Using(r, offs, set, n, h)
<1>1. L!AllUsed(r, offs, set) = g[n]
  BY Zenon DEF L!AllUsed, Using, Uses
<1>2. Using(r, offs, set, n, g)
  BY UsingExists
<1> HIDE DEF g
<1>3. \A i \in 0 .. n : g[i] = IF i = 0 THEN r ELSE Uses(g[i - 1], offs[i], set)
  BY <1>2, Zenon DEF Using
<1>4. g[0] = r
  BY <1>3
<1>5. \A i \in 1 .. n : g[i] = Uses(g[i - 1], offs[i], set)
  BY <1>3
<1> QED BY <1>1, <1>4, <1>5, Zenon DEF UsedUp

\* A batch of one block.
LEMMA OneUsed ==
  ASSUME NEW r, NEW o, NEW set
  PROVE  L!AllUsed(r, <<o>>, set) = Uses(r, o, set)
<1>1. Len(<<o>>) = 1 /\ <<o>>[1] = o /\ 1 \in Nat
  OBVIOUS
<1>2. PICK g : UsedUp(r, <<o>>, set, 1, g)
  BY <1>1, AllUsedIs
<1>3. L!AllUsed(r, <<o>>, set) = g[1] /\ g[0] = r
  BY <1>2, Zenon DEF UsedUp
<1>4. g[1] = Uses(g[1 - 1], <<o>>[1], set) /\ 1 - 1 = 0
  BY <1>2 DEF UsedUp
<1> QED BY <1>1, <1>3, <1>4

LEMMA SameTwice ==
  ASSUME NEW k, NEW a, NEW b, SameBlocks(k, a), SameBlocks(a, b)
  PROVE  SameBlocks(k, b)
BY Zenon DEF SameBlocks

\* The blocks that were there are used, and nothing else changes.
LEMMA ProbedLists ==
  ASSUME NEW r, Listing(cache, dev, r), NEW offs \in K!Batch, NEW H, H = {o \in Off : L!Contains(r, o)}
  PROVE  Listing(K!Probed(offs), dev, L!AllUsed(r, offs, H))
<1>1. PICK n \in Nat : Len(offs) = n /\ \A i \in 1 .. n : offs[i] \in Off
  BY BatchIs
<1> DEFINE f == CHOOSE g : Probing(cache, offs, n, g)
<1>2. K!Probed(offs) = f[n]
  BY <1>1, Zenon DEF K!Probed, Probing, Found
<1>3. Probing(cache, offs, n, f)
  BY <1>1, ProbingExists
<1> HIDE DEF f
<1>4. \A i \in 0 .. n : f[i] = IF i = 0 THEN cache ELSE Found(cache, offs[i], f[i - 1])
  BY <1>3, Zenon DEF Probing
<1>0. PICK g : UsedUp(r, offs, H, n, g)
  BY <1>1, AllUsedIs
<1>5. /\ L!AllUsed(r, offs, H) = g[n] /\ g[0] = r
      /\ \A i \in 1 .. n : g[i] = Uses(g[i - 1], offs[i], H)
  BY <1>0, Zenon DEF UsedUp
<1> DEFINE G == {i \in 0 .. n : Listing(f[i], dev, g[i]) /\ SameBlocks(cache, f[i])}
<1>6. 0 \in G
  <2>1. f[0] = cache
    BY <1>1, <1>4
  <2> QED BY <1>1, <1>5, <2>1 DEF SameBlocks
<1>7. ASSUME NEW i \in 1 .. n, i - 1 \in G PROVE i \in G
  <2>1. i \in 0 .. n /\ i # 0 /\ offs[i] \in Off
    BY <1>1
  <2>2. PICK a, x, o : a = f[i - 1] /\ x = g[i - 1] /\ o = offs[i]
    OBVIOUS
  <2>3. Listing(a, dev, x) /\ SameBlocks(cache, a) /\ o \in Off
    BY <1>7, <2>1, <2>2
  <2>4. PICK s : s = K!Find(cache, o)
    OBVIOUS
  <2>5. (s # 0 <=> o \in H) /\ (s # 0 => s \in 1 .. cache.used /\ cache.off[s] = o)
    BY <2>3, <2>4, ListHolds
  <2>6. f[i] = IF s # 0 THEN K!Touch(a, s) ELSE a
    BY <1>4, <2>1, <2>2, <2>4, Zenon DEF Found
  <2>7. g[i] = IF o \in H THEN L!Used(x, o) ELSE x
    BY <1>5, <2>2, Zenon DEF Uses
  <2>8. Listing(f[i], dev, g[i]) /\ SameBlocks(cache, f[i])
    <3>1. CASE s = 0
      BY <2>3, <2>5, <2>6, <2>7, <3>1
    <3>2. CASE s # 0
      <4>1. s \in 1 .. a.used /\ a.off[s] = o
        BY <2>3, <2>5, <3>2 DEF SameBlocks
      <4>2. Listing(K!Touch(a, s), dev, L!Used(x, a.off[s])) /\ SameBlocks(a, K!Touch(a, s))
        BY <2>3, <4>1, TouchLists
      <4>3. SameBlocks(cache, K!Touch(a, s))
        BY <2>3, <4>2, SameTwice
      <4>4. f[i] = K!Touch(a, s) /\ g[i] = L!Used(x, o)
        BY <2>5, <2>6, <2>7, <3>2
      <4> QED BY <4>1, <4>2, <4>3, <4>4
    <3> QED BY <3>1, <3>2
  <2> QED BY <2>1, <2>8
<1> HIDE DEF G
<1>8. n \in G
  BY <1>1, <1>6, <1>7, Through
<1>9. Listing(f[n], dev, g[n])
  BY <1>8 DEF G
<1> QED BY <1>2, <1>5, <1>9

\* Then the others are, each with its block of the device.
LEMMA FetchedLists ==
  ASSUME dev \in [Off -> Data], NEW r, Listing(cache, dev, r), NEW offs \in K!Batch,
         NEW H, H = {o \in Off : L!Contains(r, o)}
  PROVE  Listing(K!Fetched(offs), dev, L!AllUsed(L!AllUsed(r, offs, H), offs, Off \ H))
<1>1. PICK n \in Nat : Len(offs) = n /\ \A i \in 1 .. n : offs[i] \in Off
  BY BatchIs
<1> DEFINE f == CHOOSE g : Fetching(cache, dev, K!Probed(offs), offs, n, g)
<1>2. K!Fetched(offs) = f[n]
  BY <1>1, Zenon DEF K!Fetched, Fetching, Taken, K!Missing
<1>3. Fetching(cache, dev, K!Probed(offs), offs, n, f)
  BY <1>1, FetchingExists
<1> HIDE DEF f
<1>4. \A i \in 0 .. n : f[i] = IF i = 0 THEN K!Probed(offs) ELSE Taken(cache, dev, offs[i], f[i - 1])
  BY <1>3, Zenon DEF Fetching
<1>5. PICK y : y = L!AllUsed(r, offs, H)
  OBVIOUS
<1>0. PICK g : UsedUp(y, offs, Off \ H, n, g)
  BY <1>1, AllUsedIs
<1>6. /\ L!AllUsed(y, offs, Off \ H) = g[n] /\ g[0] = y
      /\ \A i \in 1 .. n : g[i] = Uses(g[i - 1], offs[i], Off \ H)
  BY <1>0, Zenon DEF UsedUp
<1> DEFINE G == {i \in 0 .. n : Listing(f[i], dev, g[i])}
<1>7. 0 \in G
  <2>1. f[0] = K!Probed(offs)
    BY <1>1, <1>4
  <2>2. Listing(K!Probed(offs), dev, y)
    BY <1>5, ProbedLists
  <2> QED BY <1>1, <1>6, <2>1, <2>2
<1>8. ASSUME NEW i \in 1 .. n, i - 1 \in G PROVE i \in G
  <2>1. i \in 0 .. n /\ i # 0 /\ offs[i] \in Off
    BY <1>1
  <2>2. PICK a, x, o : a = f[i - 1] /\ x = g[i - 1] /\ o = offs[i]
    OBVIOUS
  <2>3. Listing(a, dev, x) /\ o \in Off /\ dev[o] \in Data
    BY <1>8, <2>1, <2>2
  <2>4. K!Find(cache, o) = 0 <=> o \in Off \ H
    BY <2>3, ListHolds
  <2>5. f[i] = IF K!Find(cache, o) = 0 THEN K!Put(a, o, dev[o]) ELSE a
    BY <1>4, <2>1, <2>2, Zenon DEF Taken
  <2>6. g[i] = IF o \in Off \ H THEN L!Used(x, o) ELSE x
    BY <1>6, <2>2, Zenon DEF Uses
  <2>7. Listing(K!Put(a, o, dev[o]), dev, L!Used(x, o))
    BY <2>3, PutLists
  <2>8. Listing(f[i], dev, g[i])
    <3>1. CASE K!Find(cache, o) = 0
      <4>1. f[i] = K!Put(a, o, dev[o]) /\ g[i] = L!Used(x, o)
        BY <2>4, <2>5, <2>6, <3>1
      <4> QED BY <2>7, <4>1
    <3>2. CASE K!Find(cache, o) # 0
      <4>1. f[i] = a /\ g[i] = x
        BY <2>4, <2>5, <2>6, <3>2
      <4> QED BY <2>3, <4>1
    <3> QED BY <3>1, <3>2
  <2> QED BY <2>1, <2>8
<1> HIDE DEF G
<1>9. n \in G
  BY <1>1, <1>7, <1>8, Through
<1>10. Listing(f[n], dev, g[n])
  BY <1>9 DEF G
<1> QED BY <1>2, <1>5, <1>6, <1>10

\* What is listed is what the list holds.
LEMMA ListedIs ==
  ASSUME NEW k, NEW dv, NEW r, Listing(k, dv, r)
  PROVE  K!Listed(k) = r
<1> DEFINE Walks(g) == g = [n \in 1 .. nslot |-> IF n = 1 THEN k.head
                                           ELSE IF g[n - 1] = 0 THEN 0 ELSE k.next[g[n - 1]]]
<1>1. PICK n, U : n = k.used /\ U = 1 .. n
  OBVIOUS
<1>2. PICK q : Order(k, q, n, U) /\ r = Offs(k, q, n)
  BY <1>1 DEF Listing
<1>3. Holds(k, dv, U)
  BY <1>1 DEF Listing, CacheOK
<1>4. n \in 0 .. nslot /\ nslot \in Nat
  BY <1>2, <1>3, OffsAre, Slots
<1>5. \A i \in 1 .. n : q[i] \in U /\ q[i] # 0
  <2>1. \A i \in 1 .. n : q[i] \in K!Slot
    BY <1>2 DEF Order
  <2> QED BY <1>2, <2>1, Slots DEF Order
<1>6. /\ k.head = IF n = 0 THEN 0 ELSE q[1]
      /\ \A i \in 1 .. n : k.next[q[i]] = IF i = n THEN 0 ELSE q[i + 1]
  BY <1>2 DEF Order
<1> DEFINE w == [i \in 1 .. nslot |-> IF i <= n THEN q[i] ELSE 0]
<1>7. Walks(w)
  <2>1. ASSUME NEW i \in 1 .. nslot
        PROVE  w[i] = IF i = 1 THEN k.head ELSE IF w[i - 1] = 0 THEN 0 ELSE k.next[w[i - 1]]
    <3>1. w[i] = IF i <= n THEN q[i] ELSE 0
      OBVIOUS
    <3>2. i # 1 => w[i - 1] = IF i - 1 <= n THEN q[i - 1] ELSE 0
      BY <1>4
    <3> HIDE DEF w
    <3>3. CASE i = 1
      BY <1>4, <1>6, <3>1, <3>3
    <3>4. CASE i # 1 /\ i - 1 <= n
      <4>1. i - 1 \in 1 .. n /\ (i - 1) + 1 = i /\ (i - 1 = n <=> ~ (i <= n))
        BY <1>4, <3>4
      <4>2. k.next[q[i - 1]] = IF i - 1 = n THEN 0 ELSE q[(i - 1) + 1]
        BY <1>6, <4>1
      <4>3. w[i - 1] = q[i - 1] /\ q[i - 1] # 0
        BY <1>5, <3>2, <3>4, <4>1
      <4> QED BY <3>1, <3>4, <4>1, <4>2, <4>3
    <3>5. CASE i # 1 /\ ~ (i - 1 <= n)
      BY <1>4, <3>1, <3>2, <3>5
    <3> QED BY <3>3, <3>4, <3>5
  <2>2. w = [i \in 1 .. nslot |-> w[i]]
    OBVIOUS
  <2> HIDE DEF w
  <2> QED BY <2>1, <2>2
<1> DEFINE at == CHOOSE g : Walks(g)
<1>8. Walks(at)
  <2> HIDE DEF Walks, w
  <2> QED BY <1>7
<1>9. K!Listed(k) = [i \in 1 .. n |-> k.off[at[i]]]
  BY <1>1, Zenon DEF K!Listed
<1> HIDE DEF at
<1>10. \A i \in 1 .. nslot : at[i] = IF i = 1 THEN k.head ELSE IF at[i - 1] = 0 THEN 0 ELSE k.next[at[i - 1]]
  BY <1>8, Zenon
<1> HIDE DEF Walks
<1> DEFINE G == {i \in 0 .. n : \A j \in 1 .. i : at[j] = q[j]}
<1>11. 0 \in G
  BY <1>4
<1>12. ASSUME NEW i \in 1 .. n, i - 1 \in G PROVE i \in G
  <2>1. i \in 0 .. n /\ i \in 1 .. nslot /\ \A j \in 1 .. i : j = i \/ j \in 1 .. i - 1
    BY <1>4
  <2>2. at[i] = q[i]
    <3>1. CASE i = 1
      BY <1>4, <1>6, <1>10, <2>1, <3>1
    <3>2. CASE i # 1
      <4>1. i - 1 \in 1 .. n /\ i - 1 # n /\ (i - 1) + 1 = i /\ i - 1 \in 1 .. i - 1
        BY <1>4, <3>2
      <4>2. at[i - 1] = q[i - 1]
        BY <1>12, <4>1
      <4>3. k.next[q[i - 1]] = q[i]
        BY <1>6, <4>1
      <4> QED BY <1>5, <1>10, <2>1, <3>2, <4>1, <4>2, <4>3
    <3> QED BY <3>1, <3>2
  <2>3. \A j \in 1 .. i - 1 : at[j] = q[j]
    BY <1>12
  <2> QED BY <2>1, <2>2, <2>3
<1>13. n \in G
  <2> HIDE DEF G
  <2> QED BY <1>4, <1>11, <1>12, Through
<1>14. \A i \in 1 .. n : at[i] = q[i]
  BY <1>13
<1> QED BY <1>2, <1>9, <1>14 DEF Offs

-----------------------------------------------------------------------------
CacheInv == dev \in [Off -> Data] /\ \E r : Listing(cache, dev, r)

LEMMA EmptyLists == K!Init => dev \in [Off -> Data] /\ Listing(cache, dev, <<>>)
<1> SUFFICES ASSUME K!Init PROVE dev \in [Off -> Data] /\ Listing(cache, dev, <<>>)
  OBVIOUS
<1>1. dev = [o \in Off |-> Blank] /\ cache = K!Empty
  BY DEF K!Init
<1>2. dev \in [Off -> Data]
  BY <1>1, Sizes
<1>3. /\ cache.hash = [h \in K!Entry |-> 0] /\ cache.used = 0 /\ cache.off = [s \in K!Slot |-> NoOff]
      /\ cache.head = 0 /\ cache.tail = 0 /\ cache \in Caches
  BY <1>1, Sizes DEF K!Empty, Caches
<1>4. 1 .. cache.used = {}
  BY <1>3
<1>5. TableOf(cache.hash, cache.off, {})
  BY <1>3 DEF TableOf, Entries, OwnOffsets
<1>6. Holds(cache, dev, {})
  BY <1>3, <1>5 DEF Holds
<1>7. CacheOK(cache, dev)
  BY <1>3, <1>4, <1>6 DEF CacheOK
<1>8. PICK q : q = [i \in 1 .. 0 |-> 0]
  OBVIOUS
<1>9. Order(cache, q, 0, {})
  BY <1>3, <1>8 DEF Order
<1>10. Offs(cache, q, 0) = <<>>
  BY DEF Offs
<1>11. Listing(cache, dev, <<>>)
  BY <1>3, <1>4, <1>7, <1>9, <1>10 DEF Listing
<1> QED BY <1>2, <1>11

\* What reading a batch leaves, of which the first may also be left by a failure.
LEMMA BatchReads ==
  ASSUME NEW r, NEW offs \in K!Batch, NEW H, H = {o \in Off : L!Contains(r, o)}
  PROVE  /\ L!AllUsed(r, offs, H) \in L!Reads(r)
         /\ L!AllUsed(L!AllUsed(r, offs, H), offs, Off \ H) \in L!Reads(r)
<1>1. L!After(r, offs) = {L!AllUsed(r, offs, H), L!AllUsed(L!AllUsed(r, offs, H), offs, Off \ H)}
  BY Zenon DEF L!After
<1>2. L!After(r, offs) \subseteq L!Reads(r)
  BY Zenon DEF L!Reads, K!Batch
<1> QED BY <1>1, <1>2

(***************************************************************************)
(* What a step of the cache is to the abstract store.                      *)
(***************************************************************************)
AsStored(r, dv, dv2, r2) ==
  \/ r2 = r /\ dv2 = dv
  \/ r2 \in L!Reads(r) /\ dv2 = dv
  \/ \E o \in Off, d \in Data : dv2 = [dv EXCEPT ![o] = d] /\ r2 = L!Used(r, o)

LEMMA CacheSteps ==
  ASSUME dev \in [Off -> Data], NEW r, Listing(cache, dev, r), [K!Next]_K!vars
  PROVE  dev' \in [Off -> Data] /\ \E r2 : Listing(cache', dev', r2) /\ AsStored(r, dev, dev', r2)
<1> DEFINE Goal == dev' \in [Off -> Data] /\ \E r2 : Listing(cache', dev', r2) /\ AsStored(r, dev, dev', r2)
<1>1. PICK H : H = {o \in Off : L!Contains(r, o)}
  OBVIOUS
<1>2. ASSUME UNCHANGED dev, NEW r2, Listing(cache', dev, r2), r2 = r \/ r2 \in L!Reads(r) PROVE Goal
  BY <1>2 DEF AsStored
<1>3. ASSUME NEW o \in Off, NEW d \in Data, K!Write(o, d) PROVE Goal
  <2>1. dev' = [dev EXCEPT ![o] = d] /\ cache' = K!Put(cache, o, d)
    BY <1>3 DEF K!Write
  <2>2. dev' \in [Off -> Data] /\ dev'[o] = d /\ \A x \in Off : x # o => dev'[x] = dev[x]
    BY <2>1
  <2>3. Listing(K!Put(cache, o, d), dev', L!Used(r, o))
    BY <2>2, PutLists
  <2>4. Listing(cache', dev', L!Used(r, o))
    BY <2>1, <2>3, Zenon
  <2> QED BY <2>1, <2>2, <2>4 DEF AsStored
<1>4. ASSUME NEW o \in Off, K!Read(o) PROVE Goal
  <2>1. PICK s : s = K!Find(cache, o)
    OBVIOUS
  <2>2. cache' = (IF s # 0 THEN K!Touch(cache, s) ELSE K!Put(cache, o, dev[o])) /\ UNCHANGED dev
    BY <1>4, <2>1, Zenon DEF K!Read
  <2>3. (s # 0 <=> o \in H) /\ (s # 0 => s \in 1 .. cache.used /\ cache.off[s] = o)
    BY <1>1, <2>1, ListHolds
  <2>4. <<o>> \in K!Batch
    <3>1. 1 \in 1 .. MaxBatch
      BY NetworkAssumption DEF K!Ring2Assumption
    <3>2. <<o>> \in [1 .. 1 -> Off]
      OBVIOUS
    <3> QED BY <3>1, <3>2 DEF K!Batch
  <2>5. /\ Uses(r, o, H) \in L!Reads(r)
        /\ Uses(Uses(r, o, H), o, Off \ H) \in L!Reads(r)
    BY <1>1, <2>4, BatchReads, OneUsed
  <2>6. CASE s = 0
    <3>1. Uses(Uses(r, o, H), o, Off \ H) = L!Used(r, o)
      BY <2>3, <2>6, Zenon DEF Uses
    <3>2. Listing(K!Put(cache, o, dev[o]), dev, L!Used(r, o))
      BY PutLists
    <3> QED BY <1>2, <2>2, <2>5, <2>6, <3>1, <3>2
  <2>7. CASE s # 0
    <3>1. Uses(r, o, H) = L!Used(r, o)
      BY <2>3, <2>7, Zenon DEF Uses
    <3>2. Listing(K!Touch(cache, s), dev, L!Used(r, o))
      BY <2>3, <2>7, TouchLists
    <3> QED BY <1>2, <2>2, <2>5, <2>7, <3>1, <3>2
  <2> QED BY <2>6, <2>7
<1>5. ASSUME NEW offs \in K!Batch, K!ReadBatch2(offs) PROVE Goal
  <2>1. cache' = K!Fetched(offs) /\ UNCHANGED dev
    BY <1>5 DEF K!ReadBatch2
  <2>2. Listing(K!Fetched(offs), dev, L!AllUsed(L!AllUsed(r, offs, H), offs, Off \ H))
    BY <1>1, FetchedLists
  <2> QED BY <1>1, <1>2, <2>1, <2>2, BatchReads
<1>6. ASSUME NEW offs \in K!Batch, K!ReadBatch2Fails(offs) PROVE Goal
  <2>1. cache' = K!Probed(offs) /\ UNCHANGED dev
    BY <1>6 DEF K!ReadBatch2Fails
  <2>2. Listing(K!Probed(offs), dev, L!AllUsed(r, offs, H))
    BY <1>1, ProbedLists
  <2> QED BY <1>1, <1>2, <2>1, <2>2, BatchReads
<1>7. CASE UNCHANGED K!vars
  BY <1>2, <1>7 DEF K!vars
<1>8. CASE K!Next
  BY <1>3, <1>4, <1>5, <1>6, <1>8 DEF K!Next
<1> QED BY <1>7, <1>8

LEMMA CacheIsExactly == CacheInv => K!CacheExact
<1> SUFFICES ASSUME CacheInv PROVE K!CacheExact
  OBVIOUS
<1>1. dev \in [Off -> Data] /\ cache \in Caches /\ Holds(cache, dev, 1 .. cache.used)
  BY DEF CacheInv, Listing, CacheOK, Holds
<1>2. TableOf(cache.hash, cache.off, 1 .. cache.used) /\ \A s \in 1 .. cache.used : cache.slab[s] = dev[cache.off[s]]
  BY <1>1 DEF Holds
<1>3. K!TypeOK
  BY <1>1 DEF K!TypeOK, Caches
<1>4. ASSUME NEW s \in 1 .. cache.used PROVE K!Find(cache, cache.off[s]) = s
  <2>1. cache.off[s] \in Off
    BY <1>2 DEF TableOf, OwnOffsets
  <2>2. K!Find(cache, cache.off[s]) \in 1 .. cache.used /\ cache.off[K!Find(cache, cache.off[s])] = cache.off[s]
    BY <1>2, <2>1, FindIs
  <2> QED BY <1>2, <2>2 DEF TableOf, OwnOffsets
<1>5. \A h, g \in K!Entry : cache.hash[h] # 0 /\ cache.hash[h] = cache.hash[g] => h = g
  BY <1>2 DEF TableOf, Entries
<1>6. \A h \in K!Entry : cache.hash[h] <= cache.used
  <2>1. cache.hash \in [K!Entry -> (1 .. cache.used) \cup {0}]
    BY <1>2 DEF TableOf, Entries
  <2>2. cache.used \in Nat
    BY <1>1, Slots DEF Caches
  <2> QED BY <2>1, <2>2
<1>7. ASSUME NEW o \in Off PROVE K!Answer(o) = dev[o]
  <2>1. PICK s : s = K!Find(cache, o)
    OBVIOUS
  <2>2. s = 0 \/ (s \in 1 .. cache.used /\ cache.off[s] = o)
    BY <1>2, <2>1, FindIs
  <2>3. K!Answer(o) = IF s # 0 THEN cache.slab[s] ELSE dev[o]
    BY <2>1, Zenon DEF K!Answer
  <2> QED BY <1>2, <2>2, <2>3
<1> QED BY <1>3, <1>4, <1>5, <1>6, <1>7 DEF K!CacheExact, K!Findable

LEMMA DiskSteps == [NetNext]_netVars => [K!Next]_K!vars
<1> SUFFICES ASSUME [NetNext]_netVars PROVE [K!Next]_K!vars
  OBVIOUS
<1>1. CASE UNCHANGED netVars
  BY <1>1 DEF netVars, diskVars, K!vars
<1>2. CASE NetNext
  BY <1>2 DEF NetNext, Garner, Replication, Ring2, diskVars, K!vars
<1> QED BY <1>1, <1>2

(***************************************************************************)
(* Whatever was written, read in batches or evicted, and however homes     *)
(* collide, the table of the staging cache leads to each cached block and  *)
(* to nothing else, and a read answers what the device holds               *)
(* (ring2_arm_backend.c).                                                  *)
(***************************************************************************)
THEOREM CacheIsExact == NetSpec => []CacheExact
<1>1. NetInit => CacheInv
  BY EmptyLists DEF NetInit, CacheInv
<1>2. CacheInv => CacheExact
  BY CacheIsExactly DEF CacheExact
<1>3. CacheInv /\ [K!Next]_K!vars => CacheInv'
  BY CacheSteps DEF CacheInv
<1> QED BY <1>1, <1>2, <1>3, DiskSteps, PTL DEF NetSpec

\* A step is the disk's or leaves its variables alone.
LEMMA DiskTurns ==
  [NetNext]_netVars => /\ UNCHANGED protocol
                       /\ protocol = "disk" \/ UNCHANGED diskVars
<1>1. CASE UNCHANGED netVars
  BY <1>1 DEF netVars
<1>2. CASE NetNext
  BY <1>2 DEF NetNext, Garner, Replication, Ring2, Disk
<1> QED BY <1>1, <1>2

(***************************************************************************)
(* What stays cached is what was used last: a write, a read and a batch of *)
(* reads move the slots of their blocks to the head of the list, and the   *)
(* slot that is taken again is the one used longest ago, so that the list, *)
(* followed from its head, is the abstract store's order (bc_touch, bc_put *)
(* and obe_read_batch2, ring2_arm_backend.c).                              *)
(***************************************************************************)
THEOREM LruImplemented == NetSpec => ImplementsLru
<1>1. NetInit => CacheInv /\ L!Init
  <2> SUFFICES ASSUME NetInit PROVE CacheInv /\ L!Init
    OBVIOUS
  <2>1. K!Init
    BY DEF NetInit
  <2>2. dev \in [Off -> Data] /\ Listing(cache, dev, <<>>)
    BY <2>1, EmptyLists
  <2>3. Cached = <<>>
    BY <2>2, ListedIs, Zenon DEF Cached
  <2>4. dev = [o \in Off |-> Blank]
    BY <2>1 DEF K!Init
  <2> QED BY <2>2, <2>3, <2>4 DEF CacheInv, L!Init
<1>2. CacheInv /\ [K!Next]_K!vars => CacheInv'
  BY CacheSteps DEF CacheInv
<1>3. CacheInv /\ [NetNext]_netVars => [protocol = "disk" /\ L!Next]_<<dev, Cached>>
  <2> SUFFICES ASSUME CacheInv, [NetNext]_netVars PROVE [protocol = "disk" /\ L!Next]_<<dev, Cached>>
    OBVIOUS
  <2>1. UNCHANGED protocol /\ (protocol = "disk" \/ UNCHANGED diskVars)
    BY DiskTurns
  <2>2. CASE UNCHANGED diskVars
    <3>1. UNCHANGED dev /\ UNCHANGED cache
      BY <2>2 DEF diskVars
    <3>2. UNCHANGED Cached
      BY <2>1, <3>1, Zenon DEF Cached
    <3> QED BY <3>1, <3>2
  <2>3. CASE protocol = "disk"
    <3>1. [K!Next]_K!vars
      BY DiskSteps
    <3>2. PICK r : Listing(cache, dev, r)
      BY DEF CacheInv
    <3>3. PICK r2 : Listing(cache', dev', r2) /\ AsStored(r, dev, dev', r2)
      BY <3>1, <3>2, CacheSteps DEF CacheInv
    <3>4. Cached = r
      BY <2>3, <3>2, ListedIs, Zenon DEF Cached
    <3>5. Cached' = r2
      <4>1. K!Listed(cache') = r2
        BY <3>3, ListedIs
      <4>2. Cached' = K!Listed(cache')
        BY <2>1, <2>3 DEF Cached
      <4> QED BY <4>1, <4>2
    <3>6. CASE r2 = r /\ dev' = dev
      BY <3>4, <3>5, <3>6
    <3>7. CASE r2 \in L!Reads(r) /\ dev' = dev
      <4>1. L!Read
        BY <3>4, <3>5, <3>7, Zenon DEF L!Read
      <4> QED BY <2>3, <4>1 DEF L!Next
    <3>8. ASSUME NEW o \in Off, NEW d \in Data, dev' = [dev EXCEPT ![o] = d], r2 = L!Used(r, o)
          PROVE  L!Next
      <4>1. L!Write(o, d)
        BY <3>4, <3>5, <3>8, Zenon DEF L!Write
      <4> QED BY <4>1 DEF L!Next
    <3> QED BY <2>3, <3>3, <3>6, <3>7, <3>8 DEF AsStored
  <2> QED BY <2>1, <2>2, <2>3
<1> QED BY <1>1, <1>2, <1>3, DiskSteps, PTL DEF NetSpec, ImplementsLru
================================================================================

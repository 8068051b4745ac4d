------------------------------ MODULE MCNetwork ------------------------------
(* Small instances of the protocols.                                         *)
EXTENDS Network, TLC
CONSTANTS w1, w2, a, b, c, x, e, nobody, other

(* GarnerLoop: a worker for each prime, at addresses of their own.  Both     *)
(* blocks of the one sequence number are sent again, the second one short.   *)
MCRemote == [k \in {w1, w2} |-> k]

Sent(id, half, whole) == [id |-> id, seq |-> 1, half |-> half, whole |-> whole]

MCBlock == {Sent(1, "q1", TRUE), Sent(1, "q2", TRUE), Sent(2, "q1", TRUE),
            Sent(2, "q2", FALSE)}

MCVia == [d \in MCBlock |-> IF d.half = "q1" THEN w1 ELSE w2]

(* Swarm: three nodes; c does not know a, and pulls what a has from b.  x is *)
(* a content address and e an episode's.  The fact at a is signed by a or,   *)
(* copied earlier, by b; c may have an unsigned copy of it, and has a body   *)
(* of its own for the same episode.                                          *)
MCPeers  == a :> <<b>> @@ b :> <<c, a>> @@ c :> <<a, b>>
MCRoster == [n \in {a, b} |-> {a, b, c}] @@ c :> {b, c}

Text(h, ep, s) == [hash |-> h, episode |-> ep, signer |-> s]
FactOf(s)      == Text(x, nobody, s)
EpisodeOf(s)   == Text(other, e, s)

MCStored == {FactOf(a), FactOf(b), FactOf(nobody), EpisodeOf(a), EpisodeOf(c)}

MCOwn ==
  a :> (x :> {FactOf(a), FactOf(b)} @@ e :> {EpisodeOf(a)})
  @@ b :> (x :> {NoText} @@ e :> {NoText})
  @@ c :> (x :> {FactOf(nobody), NoText} @@ e :> {EpisodeOf(c)})

(* Ring2Cache: the homes of the offsets collide at the end of the table, so  *)
(* that probe chains wrap around and overlap.                                *)
MCOff  == 1 .. 4
MCHash == [o \in MCOff |-> IF o <= 3 THEN hcap - 1 ELSE 0]

(* Nobody takes part in a protocol that is not in play.                      *)
MCNobody == [n \in {} |-> {}]
================================================================================

----------------------------- MODULE PouwLedger -----------------------------
(***************************************************************************)
(* The receipt ledger (pouw_ledger.rs): files of fixed-size records, each  *)
(* closed by a sentinel byte, written through appending handles and read   *)
(* back record by record.  A record is Width units; the last one carries   *)
(* the sentinel.  A write may fail halfway (the buffered writer keeps the  *)
(* rest) or the process may die in it, and two handles may share a file.   *)
(***************************************************************************)
EXTENDS Naturals, Sequences, FiniteSets

CONSTANTS Receipts,     \* the receipts, records with at least a rank and a key
          Paths,        \* the ledger files
          Handles,      \* the open-file handles processes may hold
          Width,        \* units per record
          MaxUnits,     \* bound: a file does not grow beyond it
          MaxFaults,    \* bound: appends that fail or die
          Existing      \* [Paths -> the receipts a file holds at the start]

\* The receipts of the other devices, in the files at the start or appended.
Known == Receipts \cup UNION {{Existing[p][n] : n \in DOMAIN Existing[p]} : p \in Paths}

ASSUME WidthAssumption == Width \in Nat /\ Width > 1
ASSUME PathAssumption == "none" \notin Paths
ASSUME ExistingAssumption == Existing \in [Paths -> Seq(Known)]
ASSUME KnownAssumption == \A r \in Known : r.rank \in Nat /\ r.key \in Nat

VARIABLES disk,      \* [Paths -> sequence of units]
          handle,    \* [Handles -> Closed or [path, bytes, buf]]: struct Ledger
          todo,      \* [Handles -> records a replay has still to append]
          faults,    \* number of failed appends so far
          sound,     \* history: records appended whole before a file's first fault
          hurt,      \* history: files one of whose appends failed or died
          shared     \* history: files that two handles were open on at once

ledgerVars == <<disk, handle, todo, faults, sound, hurt, shared>>

Closed == [path |-> "none", bytes |-> 0, buf |-> <<>>]
IsOpen(h) == handle[h].path \in Paths

\* SpinorReceipt::as_bytes: the record as units, the sentinel in the last.
Bytes(r) == [i \in 1..Width |-> <<r, i>>]

----------------------------------------------------------------------------
(* Reading: LedgerIter, and the loop of broadcast_to_peers.                *)

Whole(f) == Len(f) \div Width
Chunk(f, n) == SubSeq(f, (n - 1) * Width + 1, n * Width)
Sentinel(c) == c[Width][2] = Width

\* The leading records whose sentinel is in place; the iterator yields these,
\* then an error for a bad sentinel or a partial tail, then stops.
Good(f) == LET bad == {n \in 1..Whole(f) : ~Sentinel(Chunk(f, n))}
           IN IF bad = {} THEN Whole(f)
              ELSE (CHOOSE n \in bad : \A m \in bad : n <= m) - 1
Status(f) == CASE Good(f) < Whole(f)   -> "BadSentinel"
               [] Good(f) = Whole(f) /\ Len(f) % Width # 0 -> "PartialTail"
               [] OTHER                -> "Ok"
ReadFrom(f, first) == [n \in 1..(Good(f) - first) |-> Chunk(f, first + n)]
ReadAll(f) == ReadFrom(f, 0)

\* receipt_from_bytes: the record a chunk is read as (its last unit's receipt).
Record(c) == c[Width][1]

\* canonical_sort: a stable sort by (sequence_rank, input_hash).
KeyBefore(a, b) == \/ a.rank < b.rank
                   \/ a.rank = b.rank /\ a.key < b.key
KeyEqual(a, b) == a.rank = b.rank /\ a.key = b.key
PlaceByRank(s, i) ==   \* mutated: no tie-break by key
    Cardinality({j \in DOMAIN s : s[j].rank < s[i].rank \/ (s[j].rank = s[i].rank /\ j <= i)})
Place(s, i) == Cardinality({j \in DOMAIN s : \/ KeyBefore(s[j], s[i])
                                             \/ KeyEqual(s[j], s[i]) /\ j <= i})
Canonical(s) == [n \in DOMAIN s |-> s[CHOOSE i \in DOMAIN s : Place(s, i) = n]]

Records(f) == [n \in DOMAIN ReadAll(f) |-> Record(ReadAll(f)[n])]

----------------------------------------------------------------------------
LedgerInit ==
    /\ sound = [p \in Paths |-> [n \in DOMAIN Existing[p] |-> Bytes(Existing[p][n])]]
    /\ disk = [p \in Paths |-> [u \in 1..(Len(Existing[p]) * Width) |->
                   <<Existing[p][(u - 1) \div Width + 1], ((u - 1) % Width) + 1>>]]
    /\ handle = [h \in Handles |-> Closed]
    /\ todo = [h \in Handles |-> <<>>]
    /\ faults = 0
    /\ hurt = [p \in Paths |-> FALSE]
    /\ shared = [p \in Paths |-> FALSE]

\* Ledger::open: bytes_written starts at the length the file has now.
Open(h, p) ==
    /\ ~IsOpen(h)
    /\ handle' = [handle EXCEPT ![h] = [path |-> p, bytes |-> Len(disk[p]), buf |-> <<>>]]
    /\ shared' = [shared EXCEPT ![p] = @ \/ \E g \in Handles : handle[g].path = p]
    /\ UNCHANGED <<disk, todo, faults, sound, hurt>>

\* Dropping the handle drops its BufWriter, which flushes what a failed append
\* left behind as far as it can.
Close(h) ==
    /\ IsOpen(h)
    /\ todo[h] = <<>>
    /\ \E k \in 0..Len(handle[h].buf) :
          disk' = [disk EXCEPT ![handle[h].path] = @ \o SubSeq(handle[h].buf, 1, k)]
    /\ handle' = [handle EXCEPT ![h] = Closed]
    /\ UNCHANGED <<todo, faults, sound, hurt, shared>>

WriteUnflushed(h, r) ==   \* mutated: append without its flush
    /\ handle' = [handle EXCEPT ![h].buf = @ \o Bytes(r), ![h].bytes = @ + Width]
    /\ sound' = IF hurt[handle[h].path] THEN sound
                ELSE [sound EXCEPT ![handle[h].path] = Append(@, Bytes(r))]
    /\ UNCHANGED <<disk, faults, hurt, shared>>

\* Ledger::append when the flush succeeds: what an earlier failure left in the
\* buffer goes first; bytes_written moves by one record.
Write(h, r) ==
    LET p == handle[h].path
    IN /\ disk' = [disk EXCEPT ![p] = @ \o handle[h].buf \o Bytes(r)]
       /\ handle' = [handle EXCEPT ![h] = [path |-> p, bytes |-> @.bytes + Width, buf |-> <<>>]]
       /\ sound' = IF hurt[p] THEN sound ELSE [sound EXCEPT ![p] = Append(@, Bytes(r))]
       /\ UNCHANGED <<faults, hurt, shared>>

HasRoom(h) == Len(disk[handle[h].path]) + Len(handle[h].buf) + Width <= MaxUnits

\* The flush reports an error after k units: the buffer keeps the others and
\* bytes_written does not move.
WriteFails(h, r) ==
    LET p == handle[h].path
        pending == handle[h].buf \o Bytes(r)
    IN /\ faults < MaxFaults
       /\ \E k \in 0..(Len(pending) - 1) :
             /\ disk' = [disk EXCEPT ![p] = @ \o SubSeq(pending, 1, k)]
             /\ handle' = [handle EXCEPT ![h].buf = SubSeq(pending, k + 1, Len(pending))]
       /\ faults' = faults + 1
       /\ hurt' = [hurt EXCEPT ![p] = TRUE]
       /\ UNCHANGED <<sound, shared>>

\* The process dies in the write: k units are in the file, the buffer is gone.
WriteDies(h, r) ==
    LET p == handle[h].path
        pending == handle[h].buf \o Bytes(r)
    IN /\ faults < MaxFaults
       /\ \E k \in 0..(Len(pending) - 1) :
             disk' = [disk EXCEPT ![p] = @ \o SubSeq(pending, 1, k)]
       /\ handle' = [handle EXCEPT ![h] = Closed]
       /\ todo' = [todo EXCEPT ![h] = <<>>]
       /\ faults' = faults + 1
       /\ hurt' = [hurt EXCEPT ![p] = TRUE]
       /\ UNCHANGED <<sound, shared>>

\* Ledger::append called once.
AppendOne(h, r) ==
    /\ IsOpen(h) /\ todo[h] = <<>> /\ HasRoom(h)
    /\ \/ Write(h, r) /\ UNCHANGED todo
       \/ WriteFails(h, r) /\ UNCHANGED todo
       \/ WriteDies(h, r)

----------------------------------------------------------------------------
(* Replays: a list of records read from one ledger is appended to another, *)
(* one append after the other; the first error ends it.                    *)

\* The iterator fixes its length when it is made; a record it rejects ends the
\* replay with an error after the good ones were appended (replay_from).
ReplayFrom(h, p) ==
    /\ IsOpen(h) /\ todo[h] = <<>>
    /\ Len(ReadAll(disk[p])) > 0
    /\ todo' = [todo EXCEPT ![h] = Records(disk[p])]
    /\ UNCHANGED <<disk, handle, faults, sound, hurt, shared>>

\* broadcast_to_peers(since) on one side, replay_list on the other: nothing is
\* sent when the part read has a bad record or a partial tail.
ReplayBroadcast(h, p) ==
    /\ IsOpen(h) /\ todo[h] = <<>>
    /\ Status(disk[p]) = "Ok"
    /\ \E since \in 0..(Whole(disk[p]) - 1) :
          todo' = [todo EXCEPT ![h] = [n \in 1..Len(ReadFrom(disk[p], since)) |->
                                          Record(ReadFrom(disk[p], since)[n])]]
    /\ UNCHANGED <<disk, handle, faults, sound, hurt, shared>>

\* replay_canonical_into: the whole source is read first, or the replay fails.
ReplayCanonical(h, p) ==
    /\ IsOpen(h) /\ todo[h] = <<>>
    /\ Status(disk[p]) = "Ok" /\ Len(disk[p]) > 0
    /\ todo' = [todo EXCEPT ![h] = Canonical(Records(disk[p]))]
    /\ UNCHANGED <<disk, handle, faults, sound, hurt, shared>>

ReplayStep(h) ==
    /\ IsOpen(h) /\ todo[h] # <<>> /\ HasRoom(h)
    /\ \/ Write(h, Head(todo[h])) /\ todo' = [todo EXCEPT ![h] = Tail(@)]
       \/ WriteFails(h, Head(todo[h])) /\ todo' = [todo EXCEPT ![h] = <<>>]
       \/ WriteDies(h, Head(todo[h]))

LedgerNext ==
    \E h \in Handles :
        \/ \E p \in Paths : Open(h, p)
        \/ Close(h)
        \/ \E r \in Receipts : AppendOne(h, r)
        \/ \E p \in Paths \ {handle[h].path} : ReplayFrom(h, p)
        \/ \E p \in Paths \ {handle[h].path} : ReplayBroadcast(h, p)
        \/ \E p \in Paths \ {handle[h].path} : ReplayCanonical(h, p)
        \/ ReplayStep(h)

LedgerSpec == LedgerInit /\ [][LedgerNext]_ledgerVars
=============================================================================

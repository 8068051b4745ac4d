------------------------------ MODULE LruStore ------------------------------
(***************************************************************************)
(* A block store that remembers the Capacity blocks used last.             *)
(***************************************************************************)
EXTENDS Integers, Sequences, SequencesExt

CONSTANTS Off, Data, Blank, Capacity, MaxBatch

VARIABLES
  dev,    \* block stored at each offset
  recent  \* offsets of the remembered blocks, the last used first

lruVars == <<dev, recent>>

\* o becomes the last used block, the least recently used one may go.
Used(r, o) ==
  <<o>> \o (IF Contains(r, o) THEN RemoveAt(r, CHOOSE i \in DOMAIN r : r[i] = o)
            ELSE SubSeq(r, 1, IF Len(r) < Capacity THEN Len(r) ELSE Capacity - 1))

\* The blocks of a batch that are among those of set, used one after the other.
AllUsed(r, offs, set) ==
  LET used[n \in 0 .. Len(offs)] ==
        IF n = 0 THEN r
        ELSE IF offs[n] \in set THEN Used(used[n - 1], offs[n]) ELSE used[n - 1]
  IN  used[Len(offs)]

\* A batch of reads uses the blocks remembered before the others; a failed one has used
\* the former only.
After(r, offs) ==
  LET held == {o \in Off : Contains(r, o)}
      hits == AllUsed(r, offs, held)
  IN  {hits, AllUsed(hits, offs, Off \ held)}

Reads(r) == UNION {After(r, offs) : offs \in UNION {[1 .. n -> Off] : n \in 1 .. MaxBatch}}

Init == dev = [o \in Off |-> Blank] /\ recent = <<>>

Write(o, d) == dev' = [dev EXCEPT ![o] = d] /\ recent' = Used(recent, o)
Read == recent' \in Reads(recent) /\ UNCHANGED dev

Next == Read \/ \E o \in Off, d \in Data : Write(o, d)

Spec == Init /\ [][Next]_lruVars
=============================================================================

----------------------------- MODULE Ring2Cache -----------------------------
(***************************************************************************)
(* The staging cache of the disk-backed Ring-2 store: one stream of        *)
(* src/backends/cpu/ring2_arm_backend.c (K and V have a store and a cache  *)
(* each and share neither).  Only the calling thread touches the cache.    *)
(*                                                                         *)
(* A cache holds blocks in slots; an open-address table leads from an      *)
(* offset to its slot and a doubly linked list orders the slots by use.    *)
(* Slots count from 1, so that 0 is an empty table entry and a list's end. *)
(***************************************************************************)
EXTENDS Integers, Sequences, FiniteSetsExt

CONSTANTS
  Off,      \* block offsets the decode uses
  NoOff,    \* what an unused slot's offset holds
  Data,     \* contents of a block
  Blank,    \* a block of a truncated file
  Hash,     \* bc_hash64 masked to the table: home entry of an offset
  nslot,    \* slots of the cache
  hcap,     \* entries of the table
  MaxBatch  \* longest batch of reads considered

Ring2Assumption ==
  /\ NoOff \notin Off /\ Blank \in Data
  /\ nslot \in Nat \ {0} /\ hcap \in Nat /\ 2 * nslot <= hcap
  /\ Hash \in [Off -> 0 .. hcap - 1] /\ MaxBatch \in 1 .. 3

VARIABLES
  dev,  \* the device: block at each offset
  cache \* blk_cache

vars == <<dev, cache>>

Slot  == 1 .. nslot
Entry == 0 .. hcap - 1

\* bc_init
Empty ==
  [slab |-> [s \in Slot |-> Blank], off |-> [s \in Slot |-> NoOff],
   hash |-> [h \in Entry |-> 0],
   prev |-> [s \in Slot |-> 0], next |-> [s \in Slot |-> 0],
   head |-> 0, tail |-> 0, used |-> 0]

Init == dev = [o \in Off |-> Blank] /\ cache = Empty

-----------------------------------------------------------------------------
(***************************************************************************)
(* The table: entries are probed from an offset's home, in a circle, up to *)
(* the first empty one.                                                    *)
(***************************************************************************)
Probe(o, i) == (Hash[o] + i) % hcap

Find(k, o) ==
  LET stop == Min({i \in Entry : LET s == k.hash[Probe(o, i)]
                                 IN  s = 0 \/ k.off[s] = o})
  IN  k.hash[Probe(o, stop)]

Entered(hash, o, s) ==
  LET free == Min({i \in Entry : hash[Probe(o, i)] = 0})
  IN  [hash EXCEPT ![Probe(o, free)] = s]

\* How far behind h the first empty entry is.
Gap(hash, h) == Min({i \in 1 .. hcap : hash[(h + i) % hcap] = 0})

\* Clears the entry of o and enters the chain behind it anew, up to that gap.
HashRemove(k, o) ==
  LET h == CHOOSE h \in Entry : k.hash[h] = Find(k, o)
      Again(hash, j) == Entered([hash EXCEPT ![j] = 0], k.off[hash[j]], hash[j])
      table[n \in 0 .. Gap(k.hash, h) - 1] ==
        IF n = 0 THEN [k.hash EXCEPT ![h] = 0] ELSE Again(table[n - 1], (h + n) % hcap)
  IN  [k EXCEPT !.hash = table[Gap(k.hash, h) - 1]]

-----------------------------------------------------------------------------
(***************************************************************************)
(* The list of slots, the last used at its head.                           *)
(***************************************************************************)
Unlink(k, s) ==
  LET p == k.prev[s]
      n == k.next[s]
  IN  [k EXCEPT !.next = IF p # 0 THEN [@ EXCEPT ![p] = n] ELSE @,
                !.prev = IF n # 0 THEN [@ EXCEPT ![n] = p] ELSE @,
                !.head = IF p # 0 THEN @ ELSE n,
                !.tail = IF n # 0 THEN @ ELSE p]

PushFront(k, s) ==
  [k EXCEPT !.next[s] = k.head,
            !.prev = [q \in Slot |-> IF q = s THEN 0 ELSE IF q = k.head THEN s ELSE @[q]],
            !.head = s,
            !.tail = IF @ = 0 THEN s ELSE @]

TouchNothing(k, s) == k                                     \* mutant of Touch

Touch(k, s) == PushFront(Unlink(k, s), s)

-----------------------------------------------------------------------------
(***************************************************************************)
(* bc_put: updates a block in place, or takes a fresh slot for it, or the  *)
(* slot of the least recently used one.                                    *)
(***************************************************************************)
Fresh(k) == [cache |-> [k EXCEPT !.used = @ + 1], slot |-> k.used + 1]

Evicted(k) ==
  [cache |-> HashRemove(Unlink(k, k.tail), k.off[k.tail]), slot |-> k.tail]

Fill(r, o, d) ==
  PushFront([r.cache EXCEPT !.off[r.slot] = o, !.slab[r.slot] = d,
                            !.hash = Entered(@, o, r.slot)], r.slot)

PutKeepsBlock(k, o, d) ==                                     \* mutant of Put
  LET s == Find(k, o)
  IN  IF s # 0 THEN Touch(k, s)
      ELSE IF k.used < nslot THEN Fill(Fresh(k), o, d)
      ELSE Fill(Evicted(k), o, d)

Put(k, o, d) ==
  LET s == Find(k, o)
  IN  IF s # 0 THEN Touch([k EXCEPT !.slab[s] = d], s)
      ELSE IF k.used < nslot THEN Fill(Fresh(k), o, d)
      ELSE Fill(Evicted(k), o, d)

-----------------------------------------------------------------------------
\* obe_write: through to the device, then into the cache.
Write(o, d) == dev' = [dev EXCEPT ![o] = d] /\ cache' = Put(cache, o, d)

\* What a read of o answers, from the cache or from the device.
Answer(o) == LET s == Find(cache, o) IN IF s # 0 THEN cache.slab[s] ELSE dev[o]

\* obe_read
Read(o) ==
  /\ cache' = IF Find(cache, o) # 0 THEN Touch(cache, Find(cache, o)) ELSE Put(cache, o, dev[o])
  /\ UNCHANGED dev

(***************************************************************************)
(* obe_read_batch2: the cache answers what it holds; the other blocks are  *)
(* fetched together and put after the last has arrived, none if one fails. *)
(* obe_read_batch goes around the cache and changes nothing.               *)
(***************************************************************************)
Probed(offs) ==
  LET k[n \in 0 .. Len(offs)] ==
        IF n = 0 THEN cache
        ELSE LET s == Find(cache, offs[n]) IN IF s # 0 THEN Touch(k[n - 1], s) ELSE k[n - 1]
  IN  k[Len(offs)]

Missing(o) == Find(cache, o) = 0

Fetched(offs) ==
  LET k[n \in 0 .. Len(offs)] ==
        IF n = 0 THEN Probed(offs)
        ELSE IF Missing(offs[n]) THEN Put(k[n - 1], offs[n], dev[offs[n]]) ELSE k[n - 1]
  IN  k[Len(offs)]

ReadBatch2(offs) == cache' = Fetched(offs) /\ UNCHANGED dev

ReadBatch2Fails(offs) ==
  /\ \E i \in DOMAIN offs : Missing(offs[i])
  /\ cache' = Probed(offs)
  /\ UNCHANGED dev

Batch == UNION {[1 .. n -> Off] : n \in 1 .. MaxBatch}

Next ==
  \/ \E o \in Off, d \in Data : Write(o, d)
  \/ \E o \in Off : Read(o)
  \/ \E offs \in Batch : ReadBatch2(offs) \/ ReadBatch2Fails(offs)

Spec == Init /\ [][Next]_vars
-----------------------------------------------------------------------------
(***************************************************************************)
(* The cache never outgrows its slots, and each part keeps its range.      *)
(***************************************************************************)
TypeOK ==
  /\ dev \in [Off -> Data]
  /\ cache.used \in 0 .. nslot
  /\ cache.head \in 0 .. nslot /\ cache.tail \in 0 .. nslot
  /\ cache.slab \in [Slot -> Data] /\ cache.off \in [Slot -> Off \union {NoOff}]
  /\ cache.hash \in [Entry -> 0 .. nslot]
  /\ cache.prev \in [Slot -> 0 .. nslot] /\ cache.next \in [Slot -> 0 .. nslot]

(***************************************************************************)
(* Whatever was evicted and entered anew, the table leads to every cached  *)
(* block and to nothing else: one entry per slot in use, found by probing  *)
(* from its offset's home.                                                 *)
(***************************************************************************)
Findable ==
  /\ \A s \in 1 .. cache.used : Find(cache, cache.off[s]) = s
  /\ \A h, g \in Entry : cache.hash[h] # 0 /\ cache.hash[h] = cache.hash[g] => h = g
  /\ \A h \in Entry : cache.hash[h] <= cache.used

\* The offsets in the order of the list, followed from its head.
Listed(k) ==
  LET at[n \in 1 .. nslot] ==
        IF n = 1 THEN k.head ELSE IF at[n - 1] = 0 THEN 0 ELSE k.next[at[n - 1]]
  IN  [n \in 1 .. k.used |-> k.off[at[n]]]

(***************************************************************************)
(* A read answers what the device holds, whether it comes from the cache   *)
(* or not ("cached decode == uncached decode, identical sequence"), and    *)
(* the table is exact and in range, whatever was evicted.                  *)
(***************************************************************************)
CacheExact == TypeOK /\ Findable /\ \A o \in Off : Answer(o) = dev[o]
=============================================================================

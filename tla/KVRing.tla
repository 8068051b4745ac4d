------------------------------- MODULE KVRing -------------------------------
(***************************************************************************)
(* The device-resident K/V cache of a Gemma-4 session (sp_g4_kv in         *)
(* src/backends/cuda/cuda_forward.cu).                                     *)
(*                                                                         *)
(* A global-attention layer keeps one slot per position.  A sliding-window *)
(* (SWA) layer keeps a ring of ring_W slots, position p in slot            *)
(* p % ring_W, and an undo journal of Jmax entries that saves what each    *)
(* write clobbers, so that a rewind can put it back.  One owner layer of   *)
(* each kind stands for all of them: every step writes all owners alike.   *)
(*                                                                         *)
(* A Value names the step that computed a K/V row (its token and all it    *)
(* attended to).  The two kinds of layers agree when they hold rows of the *)
(* same steps.                                                             *)
(***************************************************************************)
EXTENDS Integers

CONSTANTS
  Value,   \* what a step can compute for a position
  Zero,    \* a row zeroed by an ablation or by a cold reset
  Pmax,    \* slots of a full-cache layer
  ring_W,  \* slots of an SWA ring
  SW,      \* sliding window: a step at position p attends p-SW+1 .. p
  Jmax     \* depth of the undo journal

ASSUME KVRingAssumption ==
  /\ Pmax \in Nat \ {0} /\ ring_W \in Nat \ {0}
  /\ SW \in Nat \ {0}   /\ Jmax \in Nat \ {0}
  /\ SW <= ring_W

VARIABLES
  dpos,        \* live position: rows 0..dpos-1 are the context
  commit_pos,  \* position no rewind may pass, origin of the journal's index
  full,        \* rows of the global owner, by position
  ring,        \* rows of the SWA owner, by ring slot
  jrnl         \* rows clobbered since commit_pos, by journal index

vars == <<dpos, commit_pos, full, ring, jrnl>>

Row   == Value \union {Zero}
Slots == 0 .. ring_W - 1

Init ==
  /\ dpos = 0 /\ commit_pos = 0
  /\ full = [p \in 0 .. Pmax - 1 |-> Zero]
  /\ ring = [s \in Slots |-> Zero]
  /\ jrnl = [j \in 0 .. Jmax - 1 |-> Zero]

-----------------------------------------------------------------------------
(***************************************************************************)
(* g4_kv_step.  A step whose journal index would reach Jmax first slides   *)
(* commit_pos forward; the journal's entries stay where they are.          *)
(***************************************************************************)
Slid == IF dpos - commit_pos >= Jmax THEN dpos - (Jmax - 1) ELSE commit_pos

WriteRing(v) ==
  /\ jrnl' = [jrnl EXCEPT ![dpos - Slid] = ring[dpos % ring_W]]
  /\ ring' = [ring EXCEPT ![dpos % ring_W] = v]

Step(v) ==
  /\ WriteRing(v)
  /\ full' = [full EXCEPT ![dpos] = v]
  /\ commit_pos' = Slid
  /\ dpos' = dpos + 1

\* One token of gemma4_kv_prefill: may fill the last slot.
Prefill(v) == dpos + 1 <= Pmax /\ Step(v)

\* gemma4_kv_decode_logits: leaves a slot for the token it predicts.
DecodeLogits(v) == dpos + 1 < Pmax /\ Step(v)

\* A step that fails between an SWA layer and the global one after it.
FailedStep(v) ==
  /\ dpos + 1 <= Pmax
  /\ WriteRing(v)
  /\ commit_pos' = Slid
  /\ UNCHANGED <<dpos, full>>

(***************************************************************************)
(* gemma4_kv_read_global_q: a step whose counters are put back, so that    *)
(* only the rows and the journal entry it wrote remain.                    *)
(***************************************************************************)
ReadGlobalQ(v) ==
  /\ dpos + 1 < Pmax
  /\ WriteRing(v)
  /\ full' = [full EXCEPT ![dpos] = v]
  /\ UNCHANGED <<dpos, commit_pos>>

\* One row of gemma4_kv_replay, whose journal check never slides commit_pos.
\* Each prefix of an episode is an episode, so that rows may come one by one.
ReplayRow(v) ==
  /\ dpos + 1 <= Pmax
  /\ dpos - commit_pos + 1 <= Jmax
  /\ Step(v)

(***************************************************************************)
(* gemma4_kv_ablate_rows and the attenuation of gemma4_kv_inject_tokens    *)
(* rewrite a row in place, unjournaled.  Their callers name rows they have *)
(* just appended, fewer than ring_W, so that each is still in its slot.    *)
(***************************************************************************)
RewriteRowUnwrapped(p, v) ==  \* mutant: the full-cache slot in a ring layer
  /\ p < dpos /\ dpos <= p + ring_W
  /\ ring' = [ring EXCEPT ![p] = v]
  /\ full' = [full EXCEPT ![p] = v]
  /\ UNCHANGED <<dpos, commit_pos, jrnl>>

RewriteRow(p, v) ==
  /\ p < dpos /\ dpos <= p + ring_W
  /\ ring' = [ring EXCEPT ![p % ring_W] = v]
  /\ full' = [full EXCEPT ![p] = v]
  /\ UNCHANGED <<dpos, commit_pos, jrnl>>

Ablate(p) == RewriteRow(p, Zero)

\* The row with its keys scaled down is another value.
Attenuate(p, v) == v # full[p] /\ RewriteRow(p, v)

-----------------------------------------------------------------------------
(***************************************************************************)
(* gemma4_kv_rewind.  Slots are restored from the highest position down,   *)
(* so the snapshot of the earliest position that used a slot is what stays.*)
(***************************************************************************)
Users(s, from, to) == {p \in from .. to - 1 : p % ring_W = s}
Earliest(S) == CHOOSE p \in S : \A q \in S : p <= q

Rewound(to) ==
  [s \in Slots |->
     IF Users(s, to, dpos) = {} THEN ring[s]
     ELSE jrnl[Earliest(Users(s, to, dpos)) - commit_pos]]

Rewind(delta) ==
  /\ delta <= dpos
  /\ delta <= dpos - commit_pos
  /\ ring' = Rewound(dpos - delta)
  /\ dpos' = dpos - delta
  /\ UNCHANGED <<commit_pos, full, jrnl>>

\* gemma4_kv_commit: an action is retained, the journal starts afresh.
Commit ==
  /\ commit_pos' = dpos
  /\ UNCHANGED <<dpos, full, ring, jrnl>>

\* gemma4_kv_reset: counters only; stale rows stay in their slots.
Reset ==
  /\ dpos' = 0 /\ commit_pos' = 0
  /\ UNCHANGED <<full, ring, jrnl>>

\* gemma4_kv_reset_cold: every row and the journal are zeroed as well.
ResetCold ==
  /\ dpos' = 0 /\ commit_pos' = 0
  /\ full' = [p \in 0 .. Pmax - 1 |-> Zero]
  /\ ring' = [s \in Slots |-> Zero]
  /\ jrnl' = [j \in 0 .. Jmax - 1 |-> Zero]

(***************************************************************************)
(* gemma4_kv_prefill_batched: a cold cache filled in one pass.  The rings  *)
(* get the last ring_W rows; the journal and commit_pos are not touched.   *)
(***************************************************************************)
InBatch(s, n) == {p \in 0 .. n - 1 : n <= p + ring_W /\ p % ring_W = s}

PrefillBatched(n, rows) ==
  /\ dpos = 0 /\ n <= Pmax
  /\ full' = [p \in DOMAIN full |-> IF p < n THEN rows[p] ELSE full[p]]
  /\ ring' = [s \in Slots |->
                IF InBatch(s, n) = {} THEN ring[s]
                ELSE rows[CHOOSE p \in InBatch(s, n) : TRUE]]
  /\ dpos' = n
  /\ UNCHANGED <<commit_pos, jrnl>>

-----------------------------------------------------------------------------
\* A batch may be longer than the journal.  The next step slides commit_pos; no
\* caller rewinds before it, which would look past the journal's end unchecked.
Journaled == dpos - commit_pos <= Jmax

\* What a caller that never outruns the journal and never peeks can do.
Undoable ==
  \/ \E v \in Value : dpos - commit_pos < Jmax /\ (Prefill(v) \/ DecodeLogits(v))
  \/ \E v \in Row : ReplayRow(v)
  \/ \E p \in 0 .. Pmax - 1 : Ablate(p) \/ \E v \in Value : Attenuate(p, v)
  \/ Journaled /\ \E delta \in 1 .. Pmax : Rewind(delta)
  \/ Commit
  \/ Reset
  \/ ResetCold

\* A cold turn that takes the batched path.
ColdBatch ==
  \E n \in 1 .. Pmax : \E rows \in [0 .. n - 1 -> Value] : PrefillBatched(n, rows)

Next ==
  \/ \E v \in Value : Prefill(v)
  \/ \E v \in Value : DecodeLogits(v)
  \/ \E v \in Value : FailedStep(v)
  \/ \E v \in Value : ReadGlobalQ(v)
  \/ ColdBatch
  \/ Undoable

Spec     == Init /\ [][Next]_vars
TickSpec == Init /\ [][Undoable]_vars

-----------------------------------------------------------------------------
(***************************************************************************)
(* The counters stay in their buffers, and the rewind baseline commit_pos  *)
(* never passes the live position.                                         *)
(***************************************************************************)
TypeOK ==
  /\ dpos \in 0 .. Pmax
  /\ commit_pos \in 0 .. dpos
  /\ full \in [0 .. Pmax - 1 -> Row]
  /\ ring \in [Slots -> Row]
  /\ jrnl \in [0 .. Jmax - 1 -> Row]

(***************************************************************************)
(* The next step attends, in an SWA layer, the SW-1 positions before it:   *)
(* after any sequence of prefill, decode, replay, ablation, rewind, commit *)
(* and reset the ring slots it reads hold the rows of those positions, the *)
(* same steps' rows as in the global layers ("the wrap-crossing perfect    *)
(* inverse" of the sp_g4_kv comment).                                      *)
(***************************************************************************)
WindowAgrees ==
  \A p \in 0 .. dpos - 1 : dpos + 1 - SW <= p => ring[p % ring_W] = full[p]

(***************************************************************************)
(* The cache implements the abstract log: the global rows are the log, and *)
(* the ring slots of the window are the view of its end.                   *)
(***************************************************************************)
Reach == IF dpos < SW - 1 THEN dpos ELSE SW - 1

Cache == INSTANCE KVCache WITH
  Reach <- SW - 1,
  log   <- [i \in 1 .. dpos  |-> full[i - 1]],
  view  <- [i \in 1 .. Reach |-> ring[(dpos - Reach + i - 1) % ring_W]]

ImplementsCache == Cache!Spec

=============================================================================

---------------------------- MODULE KVRingProofs ----------------------------
EXTENDS KVRing, SequenceTheorems, WellFoundedInduction, TLAPS

LEMMA Multiple ==
  ASSUME NEW w \in Nat \ {0}, NEW k \in Int, -w < w * k, w * k < w
  PROVE  k = 0
<1>1. CASE k >= 1
  <2>1. w * k >= w * 1 BY <1>1
  <2> QED BY <2>1
<1>2. CASE k <= -1
  <2>1. w * k <= w * (-1) BY <1>2
  <2> QED BY <2>1
<1> QED BY <1>1, <1>2

LEMMA Division ==
  ASSUME NEW w \in Nat \ {0}, NEW p \in Nat
  PROVE  /\ p \div w \in Int /\ p % w \in 0 .. w - 1
         /\ p = w * (p \div w) + (p % w)
  OBVIOUS

LEMMA ModDistinct ==
  ASSUME NEW w \in Nat \ {0}, NEW p \in Nat, NEW q \in Nat, p < q, q < p + w
  PROVE  p % w # q % w
<1> SUFFICES ASSUME p % w = q % w PROVE FALSE
  OBVIOUS
<1> DEFINE k == (q \div w) - (p \div w)
<1>1. k \in Int BY Division
<1>2. q - p = w * k BY Division
<1>3. k = 0 BY <1>1, <1>2, Multiple
<1> QED BY <1>2, <1>3

LEMMA ModShift ==
  ASSUME NEW w \in Nat \ {0}, NEW p \in Nat, w <= p
  PROVE  (p - w) % w = p % w
<1> DEFINE A == p % w
           B == (p - w) % w
           k == (p \div w) - ((p - w) \div w) - 1
<1>1. k \in Int /\ A \in 0 .. w - 1 /\ B \in 0 .. w - 1
  BY Division
<1>2. B - A = w * k
  BY Division
<1> HIDE DEF A, B, k
<1>3. k = 0 BY <1>1, <1>2, Multiple
<1>4. A = B BY <1>1, <1>2, <1>3
<1> QED BY <1>4 DEF A, B

LEMMA SlotType ==
  ASSUME NEW p \in Nat
  PROVE  p % ring_W \in Slots
  BY Division, KVRingAssumption DEF Slots

LEMMA SlotsDiffer ==
  ASSUME NEW p \in Nat, NEW q \in Nat, p < q, q < p + ring_W
  PROVE  p % ring_W # q % ring_W
  BY ModDistinct, KVRingAssumption

LEMMA SlotsApart ==
  ASSUME NEW p \in Nat, NEW q \in Nat, p # q, q < p + ring_W, p < q + ring_W
  PROVE  p % ring_W # q % ring_W
<1>1. CASE p < q BY <1>1, SlotsDiffer
<1>2. CASE q < p BY <1>2, SlotsDiffer
<1> QED BY <1>1, <1>2

LEMMA EarliestIsLeast ==
  ASSUME NEW S \in SUBSET Nat, S # {}
  PROVE  Earliest(S) \in S /\ \A q \in S : Earliest(S) <= q
<1> DEFINE Less == {ss \in Nat \X Nat : ss[1] < ss[2]}
<1>1. IsWellFoundedOn(Less, Nat)
  BY NatLessThanWellFounded, Zenon DEF OpToRel
<1>2. \E p \in S : \A q \in S : p <= q
  <2>1. PICK p \in S : \A q \in S : ~ (<<q, p>> \in Less)
    <3> HIDE DEF Less
    <3> QED BY <1>1, WFMin
  <2>2. ASSUME NEW q \in S, q < p PROVE FALSE
    <3>1. <<q, p>> \in Nat \X Nat /\ <<q, p>>[1] < <<q, p>>[2]
      BY <2>2
    <3>2. <<q, p>> \in Less
      BY <3>1
    <3> QED BY <2>1, <3>2
  <2> QED BY <2>2
<1> QED BY <1>2 DEF Earliest

-----------------------------------------------------------------------------
(***************************************************************************)
(* Type correctness.  A step's index stays inside the journal, however far *)
(* a batch went, because commit_pos slides before it is taken.             *)
(***************************************************************************)
Indexed == dpos - Slid \in 0 .. Jmax - 1

LEMMA SlidInRange ==
  ASSUME TypeOK
  PROVE  /\ Slid \in commit_pos .. dpos
         /\ dpos - Slid \in 0 .. Jmax - 1
  BY KVRingAssumption DEF TypeOK, Slid

LEMMA WriteRingType ==
  ASSUME TypeOK, NEW v \in Row, WriteRing(v)
  PROVE  ring' \in [Slots -> Row] /\ jrnl' \in [0 .. Jmax - 1 -> Row]
<1>1. dpos % ring_W \in Slots
  BY SlotType DEF TypeOK
<1> QED BY <1>1 DEF TypeOK, WriteRing

LEMMA StepType ==
  ASSUME TypeOK, NEW v \in Row, Step(v), dpos + 1 <= Pmax
  PROVE  TypeOK'
<1>1. ring' \in [Slots -> Row] /\ jrnl' \in [0 .. Jmax - 1 -> Row]
  BY WriteRingType DEF Step
<1>2. full' \in [0 .. Pmax - 1 -> Row]
  BY KVRingAssumption DEF TypeOK, Step
<1>3. dpos' \in 0 .. Pmax /\ commit_pos' \in 0 .. dpos'
  BY SlidInRange, KVRingAssumption DEF TypeOK, Step
<1> QED BY <1>1, <1>2, <1>3 DEF TypeOK

LEMMA RewoundType ==
  ASSUME TypeOK, Journaled, NEW to \in commit_pos .. dpos
  PROVE  Rewound(to) \in [Slots -> Row]
<1> SUFFICES ASSUME NEW s \in Slots, Users(s, to, dpos) # {}
             PROVE  jrnl[Earliest(Users(s, to, dpos)) - commit_pos] \in Row
  BY DEF Rewound, TypeOK
<1>1. Users(s, to, dpos) \in SUBSET (to .. dpos - 1)
  BY DEF Users
<1>2. Earliest(Users(s, to, dpos)) \in to .. dpos - 1
  BY <1>1, EarliestIsLeast DEF TypeOK
<1>3. Earliest(Users(s, to, dpos)) - commit_pos \in 0 .. Jmax - 1
  BY <1>2, KVRingAssumption DEF TypeOK, Journaled
<1> QED BY <1>3 DEF TypeOK

LEMMA TypeInit == Init => TypeOK
  BY KVRingAssumption DEF Init, TypeOK, Row

\* Both rewrites of a row in place, by ablation and by attenuation.
LEMMA Rewrites ==
  ASSUME NEW p \in 0 .. Pmax - 1, Ablate(p) \/ \E v \in Value : Attenuate(p, v)
  PROVE  \E v \in Row : RewriteRow(p, v)
BY DEF Ablate, Attenuate, Row

LEMMA BatchRows ==
  ASSUME NEW s \in Slots, NEW n \in Nat, InBatch(s, n) # {}
  PROVE  /\ (CHOOSE p \in InBatch(s, n) : TRUE) \in InBatch(s, n)
         /\ InBatch(s, n) \subseteq 0 .. n - 1
  BY DEF InBatch

LEMMA BatchType ==
  ASSUME TypeOK, ColdBatch
  PROVE  TypeOK'
<1>1. PICK n \in 1 .. Pmax : \E rows \in [0 .. n - 1 -> Value] : PrefillBatched(n, rows)
  BY DEF ColdBatch
<1>2. PICK rows \in [0 .. n - 1 -> Value] : PrefillBatched(n, rows)
  BY <1>1
<1>3. n \in Nat /\ n <= Pmax /\ dpos' = n /\ commit_pos' = 0 /\ jrnl' = jrnl
  BY <1>2, KVRingAssumption DEF PrefillBatched, TypeOK
<1>4. full' \in [0 .. Pmax - 1 -> Row]
  BY <1>2, <1>3 DEF PrefillBatched, TypeOK, Row
<1>5. ring' \in [Slots -> Row]
  <2> SUFFICES ASSUME NEW s \in Slots, InBatch(s, n) # {}
               PROVE  rows[CHOOSE p \in InBatch(s, n) : TRUE] \in Row
    BY <1>2 DEF PrefillBatched, TypeOK
  <2> QED BY <1>3, BatchRows DEF Row
<1> QED BY <1>3, <1>4, <1>5, KVRingAssumption DEF TypeOK

LEMMA TypeNext ==
  ASSUME TypeOK, [Next]_vars
  PROVE  TypeOK'
<1>1. ASSUME NEW v \in Value, Prefill(v) PROVE TypeOK'
  BY <1>1, StepType DEF Prefill, Row
<1>2. ASSUME NEW v \in Value, DecodeLogits(v) PROVE TypeOK'
  <2>1. v \in Row /\ Step(v) /\ dpos + 1 <= Pmax
    BY <1>2, KVRingAssumption DEF DecodeLogits, Row, TypeOK
  <2> QED BY <2>1, StepType
<1>3. ASSUME NEW v \in Value, FailedStep(v) PROVE TypeOK'
  <2>1. ring' \in [Slots -> Row] /\ jrnl' \in [0 .. Jmax - 1 -> Row]
    BY <1>3, WriteRingType DEF FailedStep, Row
  <2>2. commit_pos' \in 0 .. dpos'
    BY <1>3, SlidInRange, KVRingAssumption DEF FailedStep, TypeOK
  <2> QED BY <1>3, <2>1, <2>2 DEF FailedStep, TypeOK
<1>4. ASSUME NEW v \in Value, ReadGlobalQ(v) PROVE TypeOK'
  <2>1. ring' \in [Slots -> Row] /\ jrnl' \in [0 .. Jmax - 1 -> Row]
    BY <1>4, WriteRingType DEF ReadGlobalQ, Row
  <2>2. full' \in [0 .. Pmax - 1 -> Row]
    BY <1>4, KVRingAssumption DEF ReadGlobalQ, TypeOK, Row
  <2> QED BY <1>4, <2>1, <2>2 DEF ReadGlobalQ, TypeOK
<1>5. ASSUME NEW v \in Row, ReplayRow(v) PROVE TypeOK'
  BY <1>5, StepType DEF ReplayRow
<1>6. ASSUME NEW p \in 0 .. Pmax - 1, NEW v \in Row, RewriteRow(p, v)
      PROVE  TypeOK'
  BY <1>6 DEF RewriteRow, TypeOK
<1>7. ASSUME NEW delta \in 1 .. Pmax, Journaled, Rewind(delta) PROVE TypeOK'
  <2>1. dpos - delta \in commit_pos .. dpos
    BY <1>7, KVRingAssumption DEF Rewind, TypeOK
  <2>2. ring' \in [Slots -> Row]
    BY <1>7, <2>1, RewoundType DEF Rewind
  <2>3. dpos' \in 0 .. Pmax /\ commit_pos' \in 0 .. dpos'
    BY <1>7, <2>1, KVRingAssumption DEF Rewind, TypeOK
  <2> QED BY <1>7, <2>2, <2>3 DEF Rewind, TypeOK
<1>8. ASSUME Commit \/ Reset PROVE TypeOK'
  BY <1>8, KVRingAssumption DEF Commit, Reset, TypeOK
<1>9. ASSUME ResetCold PROVE TypeOK'
  BY <1>9, KVRingAssumption DEF ResetCold, TypeOK, Row
<1>10. ASSUME UNCHANGED vars PROVE TypeOK'
  BY <1>10 DEF vars, TypeOK
<1>11. ASSUME ColdBatch PROVE TypeOK'
  BY <1>11, BatchType
<1> QED
  BY <1>1, <1>2, <1>3, <1>4, <1>5, <1>6, <1>7, <1>8, <1>9, <1>10, <1>11, Rewrites
  DEF Next, Undoable

(***************************************************************************)
(* Whatever is done to the cache, its counters stay inside the buffers and *)
(* in order, and no step, replay or failed step indexes the journal out of *)
(* it, after a batch of any length too (g4_kv_step's slide of commit_pos). *)
(***************************************************************************)
THEOREM TypeCorrect == Spec => [](TypeOK /\ Indexed)
<1>1. Init => TypeOK
  BY TypeInit
<1>2. TypeOK /\ [Next]_vars => TypeOK'
  BY TypeNext
<1>3. TypeOK => Indexed
  BY SlidInRange DEF Indexed
<1> QED BY <1>1, <1>2, <1>3, PTL DEF Spec

-----------------------------------------------------------------------------
(***************************************************************************)
(* A ring with room for the window and for the longest rewindable span     *)
(* never loses a row it may still need: the positions written since the    *)
(* rewind baseline end at commit_pos + Jmax, or where a longer batch does, *)
(* and so cannot reach a slot of a position within ring_W of that end.     *)
(***************************************************************************)
Edge == IF Journaled THEN commit_pos + Jmax ELSE dpos

Settled ==
  \A p \in 0 .. dpos - 1 : Edge < p + ring_W => ring[p % ring_W] = full[p]

LEMMA SettledBatch ==
  ASSUME TypeOK, ColdBatch
  PROVE  Settled'
<1>1. PICK n \in 1 .. Pmax : \E rows \in [0 .. n - 1 -> Value] : PrefillBatched(n, rows)
  BY DEF ColdBatch
<1>2. PICK rows \in [0 .. n - 1 -> Value] : PrefillBatched(n, rows)
  BY <1>1
<1>3. /\ n \in Nat /\ n <= Pmax
      /\ dpos' = n /\ commit_pos' = 0
  BY <1>2, KVRingAssumption DEF PrefillBatched, TypeOK
<1> SUFFICES ASSUME NEW p \in 0 .. n - 1, n <= p + ring_W
             PROVE  ring'[p % ring_W] = full'[p]
  BY <1>3, KVRingAssumption DEF Settled, Edge, Journaled
<1>4. p \in Nat /\ p < n /\ n <= p + ring_W /\ p % ring_W \in Slots
  <2>1. p \in Nat /\ p < n
    BY <1>3
  <2>2. n <= p + ring_W
    OBVIOUS
  <2>3. p % ring_W \in Slots
    BY <2>1, SlotType
  <2> QED BY <2>1, <2>2, <2>3
<1> DEFINE B == InBatch(p % ring_W, n)
<1>5. p \in B
  BY <1>3, <1>4 DEF InBatch
<1>6. ASSUME NEW q \in B PROVE q = p
  <2>1. q \in Nat /\ q < n /\ n <= q + ring_W /\ q % ring_W = p % ring_W
    BY <1>3, <1>6 DEF InBatch
  <2>2. q < p + ring_W /\ p < q + ring_W
    BY <1>3, <1>4, <2>1, KVRingAssumption
  <2> QED BY <1>4, <2>1, <2>2, SlotsApart
<1>7. (CHOOSE q \in B : TRUE) = p
  <2> HIDE DEF B
  <2> QED BY <1>5, <1>6
<1>8. ring'[p % ring_W] = rows[p]
  <2>1. B # {} BY <1>5
  <2> QED BY <1>2, <1>4, <1>7, <2>1 DEF PrefillBatched
<1>9. full'[p] = rows[p]
  <2>1. p \in 0 .. Pmax - 1
    BY <1>3, <1>4, KVRingAssumption
  <2>2. p \in DOMAIN full
    BY <2>1 DEF TypeOK
  <2> QED BY <1>2, <1>4, <2>2 DEF PrefillBatched
<1> QED BY <1>8, <1>9

LEMMA SettledNext ==
  ASSUME TypeOK, Settled, [Next]_vars
  PROVE  Settled'
<1> USE KVRingAssumption
<1>0. /\ dpos \in Nat /\ commit_pos \in Nat /\ commit_pos <= dpos
      /\ dpos <= Edge /\ commit_pos + Jmax <= Edge /\ Edge \in Nat /\ dpos <= Pmax
  BY DEF TypeOK, Edge, Journaled
<1>1. ASSUME NEW v \in Row, Step(v), dpos + 1 <= Pmax PROVE Settled'
  <2>e. Edge' = Slid + Jmax /\ Edge <= Slid + Jmax /\ dpos < Slid + Jmax
    BY <1>1, <1>0 DEF Step, Edge, Journaled, Slid, TypeOK
  <2> SUFFICES ASSUME NEW p \in 0 .. dpos, Slid + Jmax < p + ring_W
               PROVE  ring'[p % ring_W] = full'[p]
    BY <1>0, <1>1, <2>e DEF Settled, Step
  <2>1. p % ring_W \in Slots /\ dpos % ring_W \in Slots /\ dpos \in 0 .. Pmax - 1
    BY <1>0, <1>1, SlotType
  <2>2. CASE p = dpos
    BY <1>1, <2>1, <2>2 DEF Step, WriteRing, TypeOK
  <2>3. CASE p < dpos
    <3>0. p \in Nat /\ dpos < p + ring_W
      BY <1>0, <2>e, <2>3, SlidInRange
    <3>1. p % ring_W # dpos % ring_W
      BY <1>0, <2>3, <3>0, SlotsDiffer
    <3>2. ring[p % ring_W] = full[p]
      BY <1>0, <2>e, <2>3, SlidInRange DEF Settled
    <3> QED BY <1>0, <1>1, <2>1, <2>3, <3>1, <3>2 DEF Step, WriteRing, TypeOK
  <2> QED BY <1>0, <2>2, <2>3
<1>2. ASSUME NEW v \in Value, Prefill(v) \/ DecodeLogits(v) PROVE Settled'
  <2>1. v \in Row /\ Step(v) /\ dpos + 1 <= Pmax
    BY <1>0, <1>2 DEF Prefill, DecodeLogits, Row
  <2> QED BY <1>1, <2>1
<1>3. ASSUME NEW v \in Value, FailedStep(v) \/ ReadGlobalQ(v) PROVE Settled'
  <2>e. Edge <= Edge' /\ Edge' \in Nat
    BY <1>3, <1>0 DEF FailedStep, ReadGlobalQ, Edge, Journaled, Slid, TypeOK
  <2> SUFFICES ASSUME NEW p \in 0 .. dpos - 1, Edge < p + ring_W
               PROVE  ring'[p % ring_W] = full'[p]
    BY <1>0, <1>3, <2>e DEF Settled, FailedStep, ReadGlobalQ
  <2>0. p \in Nat /\ p < dpos /\ dpos < p + ring_W
    BY <1>0
  <2>1. p % ring_W # dpos % ring_W
    BY <1>0, <2>0, SlotsDiffer
  <2>2. p % ring_W \in Slots
    BY <2>0, SlotType
  <2>3. full'[p] = full[p]
    BY <1>0, <1>3 DEF FailedStep, ReadGlobalQ, TypeOK
  <2> QED BY <1>3, <2>1, <2>2, <2>3 DEF FailedStep, ReadGlobalQ, WriteRing, TypeOK, Settled
<1>4. ASSUME NEW v \in Row, ReplayRow(v) PROVE Settled'
  BY <1>1, <1>4 DEF ReplayRow
<1>5. ASSUME NEW q \in 0 .. Pmax - 1, NEW v \in Row, RewriteRow(q, v) PROVE Settled'
  <2> SUFFICES ASSUME NEW p \in 0 .. dpos - 1, Edge < p + ring_W
               PROVE  ring'[p % ring_W] = full'[p]
    BY <1>5 DEF Settled, RewriteRow, Edge, Journaled
  <2>1. p % ring_W \in Slots /\ q % ring_W \in Slots /\ p \in 0 .. Pmax - 1
    BY <1>0, SlotType
  <2>2. CASE p = q
    BY <1>5, <2>1, <2>2 DEF RewriteRow, TypeOK
  <2>3. CASE p # q
    <3>0. p \in Nat /\ q \in Nat /\ q < p + ring_W /\ p < q + ring_W
      BY <1>0, <1>5 DEF RewriteRow
    <3>1. p % ring_W # q % ring_W
      BY <2>3, <3>0, SlotsApart
    <3> QED BY <1>5, <2>1, <2>3, <3>1 DEF RewriteRow, TypeOK, Settled
  <2> QED BY <2>2, <2>3
<1>6. ASSUME NEW delta \in 1 .. Pmax, Journaled, Rewind(delta) PROVE Settled'
  <2>e. Edge' = Edge
    BY <1>6, <1>0 DEF Rewind, Edge, Journaled, TypeOK
  <2> SUFFICES ASSUME NEW p \in 0 .. dpos - delta - 1, Edge < p + ring_W
               PROVE  ring'[p % ring_W] = full[p]
    BY <1>6, <2>e DEF Settled, Rewind
  <2>1. Users(p % ring_W, dpos - delta, dpos) = {}
    <3> SUFFICES ASSUME NEW q \in dpos - delta .. dpos - 1
                 PROVE  q % ring_W # p % ring_W
      BY DEF Users
    <3>1. p \in Nat /\ q \in Nat /\ p < q /\ q < p + ring_W
      BY <1>0, <1>6 DEF Rewind
    <3> QED BY <3>1, SlotsDiffer
  <2>2. p % ring_W \in Slots
    BY <1>0, SlotType
  <2>3. ring[p % ring_W] = full[p]
    BY <1>0 DEF Settled
  <2> QED BY <1>6, <2>1, <2>2, <2>3 DEF Rewind, Rewound
<1>7. ASSUME Commit \/ Reset \/ ResetCold PROVE Settled'
  <2>1. CASE Commit
    <3>1. Edge <= Edge' /\ Edge' \in Nat
      BY <1>0, <2>1 DEF Commit, Edge, Journaled, TypeOK
    <3>2. dpos' = dpos /\ ring' = ring /\ full' = full
      BY <2>1 DEF Commit
    <3> QED BY <1>0, <3>1, <3>2 DEF Settled
  <2>2. CASE Reset \/ ResetCold
    <3>1. dpos' = 0 /\ 0 .. 0 - 1 = {}
      BY <2>2 DEF Reset, ResetCold
    <3> QED BY <3>1 DEF Settled
  <2> QED BY <1>7, <2>1, <2>2
<1>8. ASSUME UNCHANGED vars PROVE Settled'
  BY <1>8 DEF vars, Settled, Edge, Journaled
<1>9. ASSUME ColdBatch PROVE Settled'
  BY <1>9, SettledBatch
<1> QED
  BY <1>2, <1>3, <1>4, <1>5, <1>6, <1>7, <1>8, <1>9, Rewrites DEF Next, Undoable

(***************************************************************************)
(* When ring_W >= SW + Jmax the windowed layers agree with the global ones *)
(* after any sequence of calls, failed steps, peeks and slides of the      *)
(* journal included; the shipped 2048 >= 1024 + 64 is such a geometry.     *)
(***************************************************************************)
THEOREM WideRing ==
  ASSUME ring_W >= SW + Jmax
  PROVE  Spec => []WindowAgrees
<1>1. Init => Settled
  BY KVRingAssumption DEF Init, Settled
<1>2. TypeOK /\ Settled /\ [Next]_vars => Settled'
  BY SettledNext
<1>3. TypeOK /\ Settled => WindowAgrees
  <2> SUFFICES ASSUME TypeOK, Settled,
                      NEW p \in 0 .. dpos - 1, dpos + 1 - SW <= p
               PROVE  ring[p % ring_W] = full[p]
    BY DEF WindowAgrees
  <2>1. Edge < p + ring_W
    BY KVRingAssumption DEF TypeOK, Edge, Journaled
  <2> QED BY <2>1 DEF Settled
<1> QED BY <1>1, <1>2, <1>3, TypeCorrect, PTL DEF Spec

-----------------------------------------------------------------------------
(***************************************************************************)
(* A caller that stays within the journal and never peeks keeps every live *)
(* row in its slot, and in the journal, for each uncommitted position, the *)
(* row that its step pushed out of the ring.                               *)
(***************************************************************************)
LiveExact ==
  \A p \in 0 .. dpos - 1 : dpos <= p + ring_W => ring[p % ring_W] = full[p]

JournalExact ==
  \A r \in commit_pos .. dpos - 1 : ring_W <= r => jrnl[r - commit_pos] = full[r - ring_W]

TickInv == TypeOK /\ Journaled /\ LiveExact /\ JournalExact

LEMMA TickStep ==
  ASSUME TickInv, NEW v \in Row, Step(v), dpos - commit_pos < Jmax, dpos + 1 <= Pmax
  PROVE  LiveExact' /\ JournalExact'
<1> USE KVRingAssumption
<1>0. /\ dpos \in Nat /\ commit_pos \in Nat /\ commit_pos <= dpos
      /\ dpos \in 0 .. Pmax - 1 /\ dpos - commit_pos \in 0 .. Jmax - 1
  BY DEF TickInv, TypeOK
<1>s. dpos % ring_W \in Slots
  BY <1>0, SlotType
<1>1. /\ dpos' = dpos + 1 /\ commit_pos' = commit_pos
      /\ full' = [full EXCEPT ![dpos] = v]
      /\ ring' = [ring EXCEPT ![dpos % ring_W] = v]
      /\ jrnl' = [jrnl EXCEPT ![dpos - commit_pos] = ring[dpos % ring_W]]
  <2>1. Slid = commit_pos
    BY <1>0 DEF Slid
  <2> QED BY <2>1 DEF Step, WriteRing
<1>2. ASSUME NEW p \in 0 .. dpos, dpos + 1 <= p + ring_W
      PROVE  ring'[p % ring_W] = full'[p]
  <2>1. CASE p = dpos
    BY <1>0, <1>s, <1>1, <2>1 DEF TickInv, TypeOK
  <2>2. CASE p < dpos
    <3>1. p \in Nat /\ dpos < p + ring_W /\ p < dpos + ring_W /\ p % ring_W \in Slots
      BY <1>0, <1>2, <2>2, SlotType
    <3>2. p % ring_W # dpos % ring_W
      BY <1>0, <2>2, <3>1, SlotsDiffer
    <3>3. ring[p % ring_W] = full[p]
      BY <1>0, <2>2, <3>1 DEF TickInv, LiveExact
    <3> QED BY <1>0, <1>s, <1>1, <2>2, <3>1, <3>2, <3>3 DEF TickInv, TypeOK
  <2> QED BY <1>0, <2>1, <2>2
<1>3. ASSUME NEW r \in commit_pos .. dpos, ring_W <= r
      PROVE  jrnl'[r - commit_pos] = full'[r - ring_W]
  <2>1. full'[r - ring_W] = full[r - ring_W]
    BY <1>0, <1>1, <1>3 DEF TickInv, TypeOK
  <2>2. CASE r = dpos
    <3>1. (dpos - ring_W) % ring_W = dpos % ring_W
      BY <1>0, <1>3, <2>2, ModShift
    <3>2. ring[(dpos - ring_W) % ring_W] = full[dpos - ring_W]
      BY <1>0, <1>3, <2>2 DEF TickInv, LiveExact
    <3> QED BY <1>0, <1>1, <2>1, <2>2, <3>1, <3>2 DEF TickInv, TypeOK
  <2>3. CASE r < dpos
    <3>1. jrnl[r - commit_pos] = full[r - ring_W]
      BY <1>0, <1>3, <2>3 DEF TickInv, JournalExact
    <3> QED BY <1>0, <1>1, <2>1, <2>3, <3>1 DEF TickInv, TypeOK
  <2> QED BY <1>0, <2>2, <2>3
<1> QED BY <1>0, <1>1, <1>2, <1>3 DEF LiveExact, JournalExact

LEMMA TickRewriteRow ==
  ASSUME TickInv, NEW q \in 0 .. Pmax - 1, NEW v \in Row, RewriteRow(q, v)
  PROVE  LiveExact' /\ JournalExact'
<1> USE KVRingAssumption
<1>0. /\ dpos \in Nat /\ commit_pos \in Nat /\ commit_pos <= dpos /\ dpos <= Pmax
      /\ q \in Nat /\ q < dpos /\ dpos <= q + ring_W /\ q % ring_W \in Slots
  BY SlotType DEF TickInv, TypeOK, RewriteRow
<1>1. ASSUME NEW p \in 0 .. dpos - 1, dpos <= p + ring_W
      PROVE  ring'[p % ring_W] = full'[p]
  <2>1. p \in Nat /\ p \in 0 .. Pmax - 1 /\ q < p + ring_W /\ p < q + ring_W
    BY <1>0, <1>1
  <2>2. p % ring_W \in Slots
    BY <2>1, SlotType
  <2>3. CASE p = q
    BY <1>0, <2>1, <2>3 DEF TickInv, TypeOK, RewriteRow
  <2>4. CASE p # q
    <3>1. p % ring_W # q % ring_W
      BY <1>0, <2>1, <2>4, SlotsApart
    <3> QED BY <1>0, <1>1, <2>1, <2>2, <2>4, <3>1 DEF TickInv, TypeOK, LiveExact, RewriteRow
  <2> QED BY <2>3, <2>4
<1>2. ASSUME NEW r \in commit_pos .. dpos - 1, ring_W <= r
      PROVE  jrnl[r - commit_pos] = full'[r - ring_W]
  BY <1>0, <1>2 DEF TickInv, TypeOK, JournalExact, RewriteRow
<1> QED BY <1>1, <1>2 DEF LiveExact, JournalExact, RewriteRow

LEMMA TickRewind ==
  ASSUME TickInv, NEW delta \in 1 .. Pmax, Rewind(delta)
  PROVE  LiveExact' /\ JournalExact'
<1> USE KVRingAssumption
<1> DEFINE to == dpos - delta
<1>0. /\ dpos \in Nat /\ commit_pos \in Nat /\ dpos <= Pmax
      /\ to \in Nat /\ commit_pos <= to /\ to < dpos
  BY DEF TickInv, TypeOK, Rewind
<1> HIDE DEF to
<1>1. ASSUME NEW p \in 0 .. to - 1, to <= p + ring_W
      PROVE  Rewound(to)[p % ring_W] = full[p]
  <2> DEFINE s == p % ring_W
             U == Users(s, to, dpos)
  <2>0. p \in Nat /\ s \in Slots
    BY <1>0, SlotType
  <2>1. (p + ring_W) % ring_W = s
    <3>1. p + ring_W \in Nat /\ ring_W <= p + ring_W /\ (p + ring_W) - ring_W = p
      BY <2>0
    <3> QED BY <3>1, ModShift
  <2>2. ASSUME NEW q \in U PROVE q \in Nat /\ to <= q /\ q < dpos /\ p + ring_W <= q
    <3>1. q \in Nat /\ to <= q /\ q < dpos /\ q % ring_W = p % ring_W
      BY <1>0, <2>2 DEF Users
    <3>2. ASSUME q < p + ring_W PROVE FALSE
      <4>1. p < q
        BY <1>0, <2>0, <3>1
      <4> QED BY <2>0, <3>1, <3>2, <4>1, SlotsDiffer
    <3> QED BY <2>0, <3>1, <3>2
  <2>3. CASE p + ring_W < dpos
    <3>1. p + ring_W \in U
      BY <1>0, <1>1, <2>0, <2>1, <2>3 DEF Users
    <3>2. U \in SUBSET Nat /\ U # {}
      BY <2>2, <3>1
    <3>3. Earliest(U) = p + ring_W
      <4> HIDE DEF U
      <4>1. Earliest(U) \in U /\ \A q \in U : Earliest(U) <= q
        BY <3>2, EarliestIsLeast
      <4> QED BY <2>0, <2>2, <3>1, <4>1
    <3>4. jrnl[(p + ring_W) - commit_pos] = full[p]
      <4>1. p + ring_W \in commit_pos .. dpos - 1 /\ ring_W <= p + ring_W
        BY <1>0, <1>1, <2>0, <2>3
      <4>2. (p + ring_W) - ring_W = p
        BY <2>0
      <4> QED BY <4>1, <4>2 DEF TickInv, JournalExact
    <3>5. Rewound(to)[s] = jrnl[Earliest(U) - commit_pos]
      BY <2>0, <3>2 DEF Rewound
    <3> QED BY <3>3, <3>4, <3>5
  <2>4. CASE dpos <= p + ring_W
    <3>1. U = {}
      <4> SUFFICES ASSUME NEW q \in U PROVE FALSE
        OBVIOUS
      <4> QED BY <1>0, <2>0, <2>2, <2>4
    <3>2. ring[s] = full[p]
      BY <1>0, <2>0, <2>4 DEF TickInv, LiveExact
    <3> QED BY <2>0, <3>1, <3>2 DEF Rewound
  <2> QED BY <1>0, <2>0, <2>3, <2>4
<1>2. LiveExact'
  BY <1>0, <1>1 DEF LiveExact, Rewind, to
<1>3. JournalExact'
  BY <1>0 DEF TickInv, JournalExact, Rewind, to
<1> QED BY <1>2, <1>3

\* Its span stays one that the journal holds.
LEMMA JournaledNext ==
  ASSUME TypeOK, Journaled, [Undoable]_vars
  PROVE  Journaled'
<1>0. /\ dpos \in Nat /\ commit_pos \in Nat /\ commit_pos <= dpos /\ dpos - commit_pos <= Jmax
      /\ Jmax \in Nat /\ Jmax # 0
  BY KVRingAssumption DEF TypeOK, Journaled
<1>1. ASSUME dpos - commit_pos < Jmax, NEW v \in Row, Step(v) PROVE Journaled'
  BY <1>0, <1>1 DEF Step, Slid, Journaled
<1>2. ASSUME NEW v \in Value, dpos - commit_pos < Jmax, Prefill(v) \/ DecodeLogits(v) PROVE Journaled'
  BY <1>1, <1>2 DEF Prefill, DecodeLogits, Row
<1>3. ASSUME NEW v \in Row, ReplayRow(v) PROVE Journaled'
  BY <1>0, <1>1, <1>3 DEF ReplayRow
<1>4. ASSUME NEW p, NEW v, RewriteRow(p, v) PROVE Journaled'
  BY <1>4 DEF RewriteRow, Journaled
<1>5. ASSUME NEW delta \in 1 .. Pmax, Rewind(delta) PROVE Journaled'
  BY <1>0, <1>5, KVRingAssumption DEF Rewind, Journaled
<1>6. ASSUME Commit \/ Reset \/ ResetCold \/ UNCHANGED vars PROVE Journaled'
  BY <1>0, <1>6 DEF Commit, Reset, ResetCold, vars, Journaled
<1> QED BY <1>2, <1>3, <1>4, <1>5, <1>6, Rewrites DEF Undoable

LEMMA TickNext == TickInv /\ [Undoable]_vars => TickInv'
<1> SUFFICES ASSUME TickInv, [Undoable]_vars
             PROVE  LiveExact' /\ JournalExact'
  BY TypeNext, JournaledNext DEF TickInv, Next
<1>1. ASSUME NEW v \in Value, dpos - commit_pos < Jmax, Prefill(v) \/ DecodeLogits(v)
      PROVE  LiveExact' /\ JournalExact'
  <2>1. v \in Row /\ Step(v) /\ dpos + 1 <= Pmax
    BY <1>1, KVRingAssumption DEF Prefill, DecodeLogits, Row, TickInv, TypeOK
  <2> QED BY <1>1, <2>1, TickStep
<1>2. ASSUME NEW v \in Row, ReplayRow(v) PROVE LiveExact' /\ JournalExact'
  <2>1. Step(v) /\ dpos + 1 <= Pmax /\ dpos - commit_pos < Jmax
    BY <1>2, KVRingAssumption DEF ReplayRow, TickInv, TypeOK
  <2> QED BY <2>1, TickStep
<1>3. ASSUME Commit PROVE LiveExact' /\ JournalExact'
  <2>1. dpos' = dpos /\ commit_pos' = dpos /\ full' = full /\ ring' = ring
    BY <1>3 DEF Commit
  <2>2. dpos .. dpos - 1 = {}
    BY DEF TickInv, TypeOK
  <2>3. LiveExact'
    BY <2>1 DEF TickInv, LiveExact
  <2>4. JournalExact'
    BY <2>1, <2>2 DEF JournalExact
  <2> QED BY <2>3, <2>4
<1>4. ASSUME Reset \/ ResetCold PROVE LiveExact' /\ JournalExact'
  <2>1. dpos' = 0 /\ commit_pos' = 0
    BY <1>4 DEF Reset, ResetCold
  <2>2. 0 .. 0 - 1 = {}
    OBVIOUS
  <2> QED BY <2>1, <2>2 DEF LiveExact, JournalExact
<1>5. ASSUME UNCHANGED vars PROVE LiveExact' /\ JournalExact'
  BY <1>5 DEF vars, LiveExact, JournalExact, TickInv
<1> QED BY <1>1, <1>2, <1>3, <1>4, <1>5, Rewrites, TickRewriteRow, TickRewind
    DEF Undoable

(***************************************************************************)
(* Whatever the ring's width, a caller that never lets an uncommitted span *)
(* outrun the journal and never peeks finds the window exact after any     *)
(* rewind: the journal is the perfect inverse the sp_g4_kv comment claims. *)
(***************************************************************************)
THEOREM TickExact == TickSpec => []WindowAgrees
<1>1. Init => TickInv
  <2>1. Init => LiveExact /\ JournalExact
    BY KVRingAssumption DEF Init, LiveExact, JournalExact
  <2>2. Init => Journaled
    BY KVRingAssumption DEF Init, Journaled
  <2> QED BY <2>1, <2>2, TypeInit DEF TickInv
<1>2. TickInv /\ [Undoable]_vars => TickInv'
  BY TickNext
<1>3. TickInv => WindowAgrees
  <2> SUFFICES ASSUME TickInv, NEW p \in 0 .. dpos - 1, dpos + 1 - SW <= p
               PROVE  ring[p % ring_W] = full[p]
    BY DEF WindowAgrees
  <2>1. dpos <= p + ring_W
    BY KVRingAssumption DEF TickInv, TypeOK
  <2> QED BY <2>1 DEF TickInv, LiveExact
<1> QED BY <1>1, <1>2, <1>3, PTL DEF TickSpec

-----------------------------------------------------------------------------
(***************************************************************************)
(* The refinement.  As long as the window agrees, the view is the end of   *)
(* the log, and only what a call does to the log is left to show.          *)
(***************************************************************************)
Log  == [i \in 1 .. dpos |-> full[i - 1]]
View == [i \in 1 .. Reach |-> ring[(dpos - Reach + i - 1) % ring_W]]

LEMMA LogIsSeq ==
  ASSUME TypeOK
  PROVE  /\ Log \in Seq(Row) /\ Len(Log) = dpos /\ dpos \in Nat
         /\ \A i \in 1 .. dpos : Log[i] = full[i - 1] /\ full[i - 1] \in Row
<1>1. dpos \in Nat /\ \A i \in 1 .. dpos : full[i - 1] \in Row
  <2>1. dpos \in Nat /\ dpos <= Pmax
    BY KVRingAssumption DEF TypeOK
  <2> SUFFICES ASSUME NEW i \in 1 .. dpos PROVE full[i - 1] \in Row
    BY <2>1
  <2>2. i - 1 \in 0 .. Pmax - 1
    BY <2>1, KVRingAssumption
  <2> QED BY <2>2 DEF TypeOK
<1>2. Log \in Seq(Row)
  BY <1>1 DEF Log
<1>3. Len(Log) = dpos
  BY <1>1 DEF Log
<1> QED BY <1>1, <1>2, <1>3 DEF Log

LEMMA LogOfRows == TypeOK => Log \in Seq(Row) /\ Len(Log) = dpos
  BY LogIsSeq

LEMMA LogOfRowsNext == TypeOK' => Log' \in Seq(Row) /\ Len(Log') = dpos'
<1>1. TypeOK' => (Log \in Seq(Row) /\ Len(Log) = dpos)'
  BY LogOfRows, PTL
<1> QED BY <1>1

LEMMA ViewIsEnd ==
  ASSUME TypeOK, WindowAgrees
  PROVE  View = Cache!LastRows(Log)
<1> DEFINE m == dpos - Reach + 1
<1>1. /\ dpos \in Nat /\ Reach \in Nat /\ m \in 1 .. dpos + 1
      /\ Reach <= dpos /\ Reach <= SW - 1
      /\ m = IF dpos > SW - 1 THEN dpos - (SW - 1) + 1 ELSE 1
  BY KVRingAssumption DEF TypeOK, Reach
<1>2. Cache!LastRows(Log) = SubSeq(Log, m, dpos)
  BY <1>1, LogIsSeq DEF Cache!LastRows
<1>3. ASSUME NEW i \in 1 .. Reach
      PROVE  ring[(dpos - Reach + i - 1) % ring_W] = Log[m + i - 1]
  <2>1. m + i - 1 \in 1 .. dpos /\ (m + i - 1) - 1 = dpos - Reach + i - 1
    BY <1>1
  <2>2. Log[m + i - 1] = full[dpos - Reach + i - 1]
    <3> DEFINE k == m + i - 1
    <3>1. Log[k] = full[k - 1]
      BY <2>1 DEF Log
    <3> QED BY <2>1, <3>1
  <2>3. dpos - Reach + i - 1 \in 0 .. dpos - 1 /\ dpos + 1 - SW <= dpos - Reach + i - 1
    BY <1>1, KVRingAssumption
  <2> QED BY <2>2, <2>3 DEF WindowAgrees
<1>4. SubSeq(Log, m, dpos) = [i \in 1 .. 1 + dpos - m |-> Log[i + m - 1]]
  BY <1>1
<1>5. 1 + dpos - m = Reach /\ \A i \in 1 .. Reach : i + m - 1 = m + i - 1
  BY <1>1
<1> HIDE DEF m
<1> QED BY <1>2, <1>3, <1>4, <1>5 DEF View

LEMMA ViewFollows ==
  ASSUME TypeOK, WindowAgrees, TypeOK', WindowAgrees'
  PROVE  View = Cache!LastRows(Log) /\ View' = Cache!LastRows(Log')
<1>1. View = Cache!LastRows(Log)
  BY ViewIsEnd
<1>2. TypeOK' /\ WindowAgrees' => (View = Cache!LastRows(Log))'
  BY ViewIsEnd, PTL
<1>3. (View = Cache!LastRows(Log))' = (View' = Cache!LastRows(Log'))
  OBVIOUS
<1> QED BY <1>1, <1>2, <1>3

LEMMA RefineInit == Init => Cache!Init
<1> SUFFICES ASSUME Init PROVE Log = <<>> /\ View = <<>>
  BY DEF Cache!Init, Log, View
<1>1. dpos = 0 /\ Reach = 0
  BY KVRingAssumption DEF Init, Reach
<1> QED BY <1>1 DEF Log, View

LEMMA RefineStep ==
  ASSUME TypeOK, TypeOK', View' = Cache!LastRows(Log'), NEW v \in Row,
         Step(v), dpos + 1 <= Pmax
  PROVE  Cache!Extend(v)
<1>1. /\ dpos' = dpos + 1 /\ full' = [full EXCEPT ![dpos] = v]
      /\ dpos \in 0 .. Pmax - 1 /\ full \in [0 .. Pmax - 1 -> Row]
      /\ dpos \in Nat /\ Pmax \in Nat
  BY KVRingAssumption DEF Step, TypeOK
<1>2. Log \in Seq(Row) /\ Len(Log) = dpos
  BY LogIsSeq
<1>3. ASSUME NEW i \in 1 .. dpos + 1 PROVE full'[i - 1] = Append(Log, v)[i]
  <2>1. CASE i = dpos + 1
    BY <1>1, <1>2, <2>1
  <2>2. CASE i # dpos + 1
    <3>1. i \in 1 .. dpos /\ i - 1 \in 0 .. Pmax - 1 /\ i - 1 # dpos
      <4>1. i \in Nat /\ 1 <= i /\ i <= dpos + 1 /\ dpos <= Pmax - 1
        BY <1>1
      <4> QED BY <1>1, <2>2, <4>1
    <3>2. Append(Log, v)[i] = Log[i]
      BY <1>2, <3>1
    <3>3. Log[i] = full[i - 1]
      BY <3>1 DEF Log
    <3> QED BY <1>1, <3>1, <3>2, <3>3
  <2> QED BY <2>1, <2>2
<1>4. Log' \in Seq(Row) /\ Len(Log') = dpos + 1
  BY <1>1, LogOfRowsNext
<1>5. Append(Log, v) \in Seq(Row) /\ Len(Append(Log, v)) = dpos + 1
  BY <1>2, AppendProperties
<1>6. \A i \in 1 .. dpos + 1 : Log'[i] = Append(Log, v)[i]
  BY <1>1, <1>3 DEF Log
<1>7. Log' = Append(Log, v)
  BY <1>4, <1>5, <1>6, SeqEqual
<1> QED BY <1>7 DEF Cache!Extend, Cache!Becomes, Log, View

LEMMA RefineRewrite ==
  ASSUME TypeOK, TypeOK', View' = Cache!LastRows(Log'),
         NEW p \in 0 .. Pmax - 1, NEW v \in Row, RewriteRow(p, v)
  PROVE  p + 1 \in DOMAIN Log /\ Cache!Rewrite(p + 1, v)
<1>1. /\ dpos' = dpos /\ full' = [full EXCEPT ![p] = v] /\ p + 1 \in 1 .. dpos
      /\ dpos \in Nat /\ dpos <= Pmax /\ full \in [0 .. Pmax - 1 -> Row]
  BY KVRingAssumption DEF RewriteRow, TypeOK
<1>2. ASSUME NEW i \in 1 .. dpos
      PROVE  full'[i - 1] = [Log EXCEPT ![p + 1] = v][i]
  <2>0. i \in Nat /\ 1 <= i /\ i <= dpos /\ Pmax \in Nat
    BY <1>1, KVRingAssumption
  <2>1. i - 1 \in 0 .. Pmax - 1 /\ Log[i] = full[i - 1]
    BY <1>1, <2>0 DEF Log
  <2>2. CASE i = p + 1
    BY <1>1, <2>1, <2>2 DEF Log
  <2>3. CASE i # p + 1
    BY <1>1, <2>1, <2>3 DEF Log
  <2> QED BY <2>2, <2>3
<1>3. Log' = [Log EXCEPT ![p + 1] = v]
  BY <1>1, <1>2 DEF Log
<1> QED BY <1>1, <1>3 DEF Cache!Rewrite, Cache!Becomes, Log, View

LEMMA RefineCut ==
  ASSUME TypeOK, View' = Cache!LastRows(Log'), NEW n \in Nat,
         dpos' = n, n < dpos, \A p \in 0 .. n - 1 : full'[p] = full[p]
  PROVE  Cache!Next
<1>1. dpos \in Nat /\ Len(Log) = dpos /\ Log \in Seq(Row)
  BY LogIsSeq
<1>2. ASSUME NEW i \in 1 .. n PROVE full'[i - 1] = Log[i]
  <2>1. i - 1 \in 0 .. n - 1 /\ i \in 1 .. dpos
    BY <1>1
  <2> QED BY <2>1 DEF Log
<1>3. Log' = [i \in 1 .. n |-> Log[i]]
  BY <1>2 DEF Log
<1>4. SubSeq(Log, 1, n) = [i \in 1 .. n |-> Log[i]]
  BY <1>1
<1>5. Cache!Cut(n)
  BY <1>3, <1>4 DEF Cache!Cut, Cache!Becomes, Log, View
<1>6. n \in 0 .. Len(Log) - 1
  BY <1>1
<1> QED BY <1>5, <1>6, Zenon DEF Cache!Next, Log

LEMMA RefineFill ==
  ASSUME TypeOK', View' = Cache!LastRows(Log'), dpos = 0
  PROVE  Cache!Fill
<1>1. Log = <<>>
  BY DEF Log
<1>2. Log' \in Seq(Row)
  BY LogOfRowsNext
<1> QED BY <1>1, <1>2 DEF Cache!Fill, Log, View

LEMMA RefineStutter ==
  ASSUME TypeOK, View = Cache!LastRows(Log), View' = Cache!LastRows(Log'),
         dpos' = dpos, \A p \in 0 .. dpos - 1 : full'[p] = full[p]
  PROVE  UNCHANGED Cache!cacheVars
<1>1. Log' = Log
  BY KVRingAssumption DEF TypeOK, Log
<1>2. Cache!LastRows(Log') = Cache!LastRows(Log)
  BY <1>1
<1> QED BY <1>1, <1>2 DEF Cache!cacheVars, Log, View

LEMMA RefineNext ==
  ASSUME TypeOK, WindowAgrees, TypeOK', WindowAgrees', [Next]_vars
  PROVE  [Cache!Next]_(Cache!cacheVars)
<1>0. View = Cache!LastRows(Log) /\ View' = Cache!LastRows(Log')
  BY ViewFollows
<1>d. dpos \in Nat /\ dpos <= Pmax /\ Pmax \in Nat /\ full \in [0 .. Pmax - 1 -> Row]
  BY KVRingAssumption DEF TypeOK
<1>1. ASSUME NEW v \in Row, Step(v), dpos + 1 <= Pmax PROVE Cache!Next
  BY <1>0, <1>1, RefineStep DEF Cache!Next
<1>2. ASSUME NEW v \in Value, Prefill(v) \/ DecodeLogits(v) PROVE Cache!Next
  <2>1. v \in Row /\ Step(v) /\ dpos + 1 <= Pmax
    BY <1>d, <1>2 DEF Prefill, DecodeLogits, Row
  <2> QED BY <1>1, <2>1
<1>3. ASSUME NEW v \in Value, FailedStep(v) \/ ReadGlobalQ(v)
      PROVE  UNCHANGED Cache!cacheVars
  <2>1. dpos' = dpos /\ \A p \in 0 .. dpos - 1 : full'[p] = full[p]
    BY <1>d, <1>3 DEF FailedStep, ReadGlobalQ
  <2> QED BY <1>0, <2>1, RefineStutter
<1>4. ASSUME NEW v \in Row, ReplayRow(v) PROVE Cache!Next
  BY <1>1, <1>4 DEF ReplayRow
<1>5. ASSUME NEW p \in 0 .. Pmax - 1, NEW v \in Row, RewriteRow(p, v) PROVE Cache!Next
  BY <1>0, <1>5, RefineRewrite DEF Cache!Next, Log
<1>6. ASSUME NEW delta \in 1 .. Pmax, Rewind(delta) PROVE Cache!Next
  <2>1. dpos - delta \in Nat /\ dpos - delta < dpos /\ dpos' = dpos - delta
        /\ full' = full
    BY <1>d, <1>6 DEF Rewind
  <2> QED BY <1>0, <2>1, RefineCut
<1>7. ASSUME Commit \/ UNCHANGED vars PROVE UNCHANGED Cache!cacheVars
  <2>1. dpos' = dpos /\ full' = full
    BY <1>7 DEF Commit, vars
  <2> QED BY <1>0, <2>1, RefineStutter
<1>8. ASSUME Reset \/ ResetCold PROVE [Cache!Next]_(Cache!cacheVars)
  <2>1. dpos' = 0
    BY <1>8 DEF Reset, ResetCold
  <2>2. CASE dpos = 0
    BY <1>0, <2>1, <2>2, RefineStutter
  <2>3. CASE dpos # 0
    <3>1. 0 < dpos /\ \A p \in 0 .. 0 - 1 : full'[p] = full[p]
      BY <1>d, <2>3
    <3> QED BY <1>0, <2>1, <3>1, RefineCut
  <2> QED BY <2>2, <2>3
<1>9. ASSUME ColdBatch PROVE Cache!Next
  <2>1. dpos = 0
    BY <1>9 DEF ColdBatch, PrefillBatched
  <2> QED BY <1>0, <2>1, RefineFill DEF Cache!Next
<1> QED
  BY <1>2, <1>3, <1>4, <1>5, <1>6, <1>7, <1>8, <1>9, Rewrites DEF Next, Undoable

(***************************************************************************)
(* In such a ring the device cache is the abstract log: every prefill,     *)
(* decode, replay and ablation acts on the log alone, every rewind and     *)
(* reset cuts it, peeks and failed steps leave it as it is, and the window *)
(* that the next step reads is always the log's end.                       *)
(***************************************************************************)
THEOREM WideRingImplements ==
  ASSUME ring_W >= SW + Jmax
  PROVE  Spec => ImplementsCache
<1>1. Init => Cache!Init
  BY RefineInit
<1>2. TypeOK /\ WindowAgrees /\ TypeOK' /\ WindowAgrees' /\ [Next]_vars
        => [Cache!Next]_(Cache!cacheVars)
  BY RefineNext
<1>3. Spec => [](TypeOK /\ Indexed) /\ []WindowAgrees
  BY TypeCorrect, WideRing
<1> QED BY <1>1, <1>2, <1>3, PTL DEF Spec, ImplementsCache, Cache!Spec
=============================================================================

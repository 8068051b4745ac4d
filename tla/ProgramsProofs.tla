---------------------------- MODULE ProgramsProofs ----------------------------
(***************************************************************************)
(* Proofs about the programs of the executable, for every value of the     *)
(* constants: each program's inductive invariant, and from them that       *)
(* speculative and drafted decoding implement one greedy decoding, that an *)
(* idle tick of KAIROS leaves nothing behind, that a latent is tapped over *)
(* its own frame, that the training arrays stay aligned, and that the *)
(* PID file leads to the daemon that runs.                                 *)
(***************************************************************************)
EXTENDS Programs, Integers, FiniteSetTheorems, SequenceTheorems, TLAPS

\* Sequences and their prefixes.
LEMMA PartOf ==
  ASSUME NEW X, NEW f \in Seq(X), NEW a \in Nat, NEW b \in Nat, a <= b, b <= Len(f)
  PROVE  SubSeq(f, a + 1, b) \in Seq(X) /\ Len(SubSeq(f, a + 1, b)) = b - a
OBVIOUS

LEMMA Appended ==
  ASSUME NEW X, NEW s \in Seq(X), NEW x \in X, NEW n \in Nat, Len(s) = n, NEW t, t = Append(s, x)
  PROVE  Len(t) = n + 1 /\ t[n + 1] = x /\ \A i \in 1 .. n : t[i] = s[i]
OBVIOUS

LEMMA PartNext ==
  ASSUME NEW X, NEW f \in Seq(X), NEW a \in Nat, NEW b \in Nat, a <= b, b < Len(f)
  PROVE  SubSeq(f, a + 1, b + 1) = Append(SubSeq(f, a + 1, b), f[b + 1])
<1>1. SubSeq(f, a + 1, b + 1) = SubSeq(f, a + 1, (b + 1) - 1) \o <<f[b + 1]>>
  <2>1. a + 1 \in 1 .. Len(f) /\ b + 1 \in (a + 1) .. Len(f)
    OBVIOUS
  <2> QED BY <2>1, SubSeqRecursiveSecond
<1>2. (b + 1) - 1 = b
  OBVIOUS
<1>3. f[b + 1] \in X /\ SubSeq(f, a + 1, b) \in Seq(X)
  BY PartOf
<1>4. Append(SubSeq(f, a + 1, b), f[b + 1]) = SubSeq(f, a + 1, b) \o <<f[b + 1]>>
  BY <1>3, AppendIsConcat
<1> QED BY <1>1, <1>2, <1>4, Zenon

LEMMA AppendOver ==
  ASSUME NEW X, NEW c \in Seq(X), NEW d \in Seq(X)
  PROVE  \A y \in X : /\ Append(c \o d, y) = c \o Append(d, y)
                     /\ Len(c \o Append(d, y)) = Len(c) + (Len(d) + 1)
<1> SUFFICES ASSUME NEW y \in X
             PROVE  /\ Append(c \o d, y) = c \o Append(d, y)
                    /\ Len(c \o Append(d, y)) = Len(c) + (Len(d) + 1)
  OBVIOUS
<1>1. Append(c \o d, y) = c \o Append(d, y)
  <2>1. <<y>> \in Seq(X) /\ c \o d \in Seq(X)
    OBVIOUS
  <2>2. (c \o d) \o <<y>> = c \o (d \o <<y>>)
    BY <2>1, ConcatAssociative
  <2> QED BY <2>1, <2>2, AppendIsConcat, Zenon
<1>2. Append(d, y) \in Seq(X) /\ Len(Append(d, y)) = Len(d) + 1
  OBVIOUS
<1>3. Len(c \o Append(d, y)) = Len(c) + Len(Append(d, y))
  BY <1>2
<1> QED BY <1>1, <1>2, <1>3

LEMMA PrefixOf ==
  ASSUME NEW X, NEW c \in Seq(X), NEW d \in Seq(X), NEW p \in Nat, p <= Len(c)
  PROVE  SubSeq(c \o d, 1, p) = SubSeq(c, 1, p)
<1>1. CASE p = 0
  BY <1>1, SubSeqEmpty
<1>2. CASE p # 0
  <2>1. 1 \in 1 .. Len(c) /\ p \in 1 .. Len(c)
    BY <1>2
  <2> QED BY <2>1, SubSeqOfConcat1
<1> QED BY <1>1, <1>2

LEMMA PrefixOfAppended ==
  ASSUME NEW X, NEW c \in Seq(X), NEW x \in X, NEW p \in Nat, p <= Len(c)
  PROVE  SubSeq(Append(c, x), 1, p) = SubSeq(c, 1, p)
<1>1. <<x>> \in Seq(X) /\ Append(c, x) = c \o <<x>>
  BY AppendIsConcat
<1> QED BY <1>1, PrefixOf

LEMMA FrameWhole ==
  ASSUME NEW X, NEW f \in Seq(X), NEW p \in Nat, p <= Len(f)
  PROVE  SubSeq(f, 1, p) \o SubSeq(f, p + 1, Len(f)) = f
<1>1. 1 \in 1 .. Len(f) + 1 /\ p \in (1 - 1) .. Len(f) /\ Len(f) \in p .. Len(f)
  OBVIOUS
<1>2. SubSeq(f, 1, p) \o SubSeq(f, p + 1, Len(f)) = SubSeq(f, 1, Len(f))
  BY <1>1, ConcatAdjacentSubSeq
<1> QED BY <1>2, SubSeqFull, Zenon

LEMMA FeedIs ==
  ASSUME NEW X, NEW f \in Seq(X), NEW p \in Nat
  PROVE  /\ SubSeq(f, p + 1, Len(f) - 1) \in Seq(X)
         /\ SubSeq(f, p + 1, Len(f) - 1) # <<>> =>
              p + 2 <= Len(f) /\ Len(SubSeq(f, p + 1, Len(f) - 1)) = Len(f) - 1 - p
<1>1. CASE p + 2 <= Len(f)
  <2>1. PICK k \in Nat : k + 1 = Len(f) /\ k = Len(f) - 1
    BY <1>1
  <2>2. p <= k /\ k <= Len(f)
    BY <1>1, <2>1
  <2>3. SubSeq(f, p + 1, k) \in Seq(X) /\ Len(SubSeq(f, p + 1, k)) = k - p
    BY <2>2, PartOf
  <2>4. k - p = Len(f) - 1 - p
    BY <2>1
  <2> QED BY <1>1, <2>1, <2>3, <2>4
<1>2. CASE ~ (p + 2 <= Len(f))
  <2>1. p + 1 \in Int /\ Len(f) - 1 \in Int /\ Len(f) - 1 < p + 1
    BY <1>2
  <2>2. SubSeq(f, p + 1, Len(f) - 1) = <<>>
    BY <2>1, SubSeqEmpty
  <2> QED BY <2>2
<1> QED BY <1>1, <1>2

\* What a frame adds to what is held, without its last token and with it.
LEMMA DeltaEnds ==
  ASSUME NEW X, NEW c \in Seq(X), NEW f \in Seq(X), NEW p \in Nat, p + 2 <= Len(f)
  PROVE  \A s : s = c \o SubSeq(f, p + 1, Len(f) - 1) =>
                 /\ Append(s, f[Len(f)]) = c \o SubSeq(f, p + 1, Len(f))
                 /\ Len(s) = Len(c) + Len(f) - 1 - p
                 /\ Len(c \o SubSeq(f, p + 1, Len(f))) = Len(c) + Len(f) - p
<1>1. PICK k \in Nat : k + 1 = Len(f) /\ k = Len(f) - 1
  OBVIOUS
<1>2. p <= k /\ k < Len(f) /\ k <= Len(f)
  BY <1>1
<1>3. SubSeq(f, p + 1, k + 1) = Append(SubSeq(f, p + 1, k), f[k + 1])
  BY <1>2, PartNext
<1>4. PICK d : d = SubSeq(f, p + 1, k)
  OBVIOUS
<1>5. d \in Seq(X) /\ Len(d) = k - p
  BY <1>2, <1>4, PartOf
<1>6. f[k + 1] \in X
  BY <1>1
<1>7. \A y \in X : /\ Append(c \o d, y) = c \o Append(d, y)
                   /\ Len(c \o Append(d, y)) = Len(c) + (Len(d) + 1)
  <2>1. d \in Seq(X)
    BY <1>5
  <2> QED BY <2>1, AppendOver, Zenon
<1>8. Len(c \o d) = Len(c) + Len(d)
  <2>1. d \in Seq(X)
    BY <1>5
  <2> QED BY <2>1
<1>10. /\ Len(c) + Len(d) = Len(c) + Len(f) - 1 - p
       /\ Len(c) + (Len(d) + 1) = Len(c) + Len(f) - p
  <2>1. Len(c) \in Nat /\ Len(f) \in Nat
    OBVIOUS
  <2> QED BY <1>1, <1>5, <2>1
<1>11. Len(c \o SubSeq(f, p + 1, k + 1)) = Len(c) + (Len(d) + 1)
  BY <1>3, <1>4, <1>6, <1>7, Zenon
<1>12. ASSUME NEW s, s = c \o d
       PROVE  Append(s, f[k + 1]) = c \o SubSeq(f, p + 1, k + 1) /\ Len(s) = Len(c) + Len(d)
  BY <1>3, <1>4, <1>6, <1>7, <1>8, <1>12, Zenon
<1> QED BY <1>1, <1>4, <1>10, <1>11, <1>12, Zenon

\* A finite set of numbers has a greatest.
LEMMA GreatestOf ==
  ASSUME NEW Z, IsFiniteSet(Z), Z \subseteq Nat, Z # {}
  PROVE  \E x \in Z : \A y \in Z : y <= x
<1> DEFINE Bad == {U \in SUBSET Z : U # {} /\ ~ \E x \in U : \A y \in U : y <= x}
<1>1. SUFFICES Bad = {}
  <2>1. Z \notin Bad BY <1>1
  <2> QED BY <2>1
<1>2. SUFFICES ASSUME Bad # {} PROVE FALSE
  OBVIOUS
<1>3. Bad \subseteq FiniteSubsetsOf(Z)
  BY FS_FiniteSubsetsOfFinite
<1>4. PICK U \in Bad : \A W \in Bad : ~ (<<W, U>> \in StrictSubsetOrdering(Z))
  <2> HIDE DEF Bad
  <2> QED BY <1>2, <1>3, FS_StrictSubsetOrderingWellFounded, WFMin
<1>5. PICK e \in U : TRUE
  OBVIOUS
<1>6. U \ {e} \notin Bad
  BY <1>4 DEF StrictSubsetOrdering
<1>7. U \subseteq Nat /\ e \in Nat
  BY <1>5
<1>8. CASE U \ {e} = {}
  <2>1. \A y \in U : y <= e
    BY <1>7, <1>8
  <2> QED BY <1>5, <2>1
<1>9. CASE U \ {e} # {}
  <2>1. PICK f \in U \ {e} : \A y \in U \ {e} : y <= f
    BY <1>6, <1>9
  <2>2. CASE e <= f
    <3>1. \A y \in U : y <= f
      BY <2>1, <2>2
    <3> QED BY <2>1, <3>1
  <2>3. CASE ~ (e <= f)
    <3>1. \A y \in U : y <= e
      BY <2>1, <2>3, <1>7
    <3> QED BY <1>5, <3>1
  <2> QED BY <2>2, <2>3
<1> QED BY <1>8, <1>9

\* The reference is longer than anything a run outputs.
LEMMA HorizonBounds ==
  ASSUME S!SpecAssumption
  PROVE  /\ K \in Nat /\ K >= 1 /\ Limit \in Nat /\ Steps \in Nat /\ K * Steps \in Nat
         /\ S!Horizon \in Nat /\ Limit < S!Horizon /\ K * Steps < S!Horizon
<1>1. K \in Nat /\ K >= 1 /\ Limit \in Nat /\ Steps \in Nat
  BY DEF S!SpecAssumption
<1>2. K * Steps \in Nat
  BY <1>1
<1> QED BY <1>1, <1>2 DEF S!Horizon

\* The product K * batch, as far as it is needed.
LEMMA Product ==
  ASSUME NEW k \in Nat, NEW b \in Nat, NEW s \in Nat
  PROVE  /\ k * b \in Nat /\ k * (b + 1) = k * b + k
         /\ b <= s => k * b <= k * s
<1>1. k * b \in Nat /\ k * (b + 1) = k * b + k
  OBVIOUS
<1>2. ASSUME b <= s PROVE k * b <= k * s
  <2>1. s - b \in Nat /\ s = b + (s - b)
    BY <1>2
  <2>2. k * (s - b) \in Nat
    BY <2>1
  <2>3. k * s = k * b + k * (s - b)
    BY <2>1
  <2> QED BY <1>1, <2>2, <2>3
<1> QED BY <1>1, <1>2

\* One more token of a sequence.
LEMMA OneMore ==
  ASSUME NEW X, NEW s \in Seq(X), NEW n \in Nat, n < Len(s)
  PROVE  SubSeq(s, 1, n + 1) = Append(SubSeq(s, 1, n), s[n + 1])
OBVIOUS

-----------------------------------------------------------------------------
(***************************************************************************)
(* The target session, its logits and the output are one and the same; how *)
(* far a batch may go is counted by the phase it is in.                     *)
(***************************************************************************)
OneText ==
  /\ proto \in S!Protocols
  /\ best \in [1 .. S!Horizon -> Token]
  /\ out \in Seq(Token) /\ target = out /\ t_logits = out
  /\ draft_tokens \in Seq(Token)
  /\ ki \in Nat /\ batch \in Nat

InBatch == \/ phase = "draft" /\ draft_tokens # <<>>
           \/ phase \in {"force", "verify"}

Room ==
  /\ phase \in {"draft", "force"} => ki = 0
  /\ phase = "force" => draft_tokens # <<>>
  /\ phase = "verify" => ki < K
  /\ proto = "planted" =>
       /\ batch <= Steps /\ Len(out) <= K * batch
       /\ InBatch => Len(out) + K - ki <= K * batch
       /\ phase # "correct"
  /\ proto = "natural" =>
       /\ Len(out) <= Limit
       /\ phase = "correct" => Len(out) < Limit
  /\ proto = "synth" =>
       /\ Len(out) <= Limit
       /\ InBatch \/ phase = "correct" => Len(out) < Limit

LoopInv == OneText /\ S!OutputIsGreedy /\ Room

LEMMA LoopInit == S!SpecAssumption /\ S!Init => LoopInv
BY HorizonBounds DEF S!Init, LoopInv, OneText, S!OutputIsGreedy, Room, InBatch

\* While the target is asked for a token the reference has one more.
LEMMA InReach ==
  ASSUME S!SpecAssumption, LoopInv, S!Verifying \/ phase = "correct"
  PROVE  /\ Len(out) \in Nat /\ Len(out) < S!Horizon
         /\ S!Picks(t_logits) = {best[Len(out) + 1]}
         /\ best \in Seq(Token) /\ Len(best) = S!Horizon
<1>1. Len(out) \in Nat /\ Limit \in Nat /\ S!Horizon \in Nat /\ Limit < S!Horizon
  BY HorizonBounds DEF LoopInv, OneText
<1>2. Len(out) < S!Horizon
  <2>1. CASE proto = "planted"
    <3>1. ki \in Nat /\ K \in Nat /\ ki < K /\ Len(out) + K - ki <= K * batch
      BY <2>1, HorizonBounds DEF LoopInv, OneText, Room, InBatch, S!Verifying
    <3>2. K * batch \in Nat /\ K * batch <= K * Steps
      BY <2>1, HorizonBounds, Product DEF LoopInv, OneText, Room
    <3>3. K * Steps \in Nat /\ K * Steps < S!Horizon
      BY HorizonBounds
    <3> QED BY <1>1, <3>1, <3>2, <3>3
  <2>2. CASE proto \in {"natural", "synth"}
    BY <1>1, <2>2 DEF LoopInv, OneText, Room, InBatch, S!Verifying, S!Full
  <2> QED BY <2>1, <2>2 DEF LoopInv, OneText, S!Protocols
<1>3. best \in Seq(Token) /\ Len(best) = S!Horizon
  BY <1>1 DEF LoopInv, OneText
<1>4. t_logits = SubSeq(best, 1, Len(t_logits)) /\ Len(t_logits) = Len(out)
  BY DEF LoopInv, OneText, S!OutputIsGreedy
<1> QED BY <1>1, <1>2, <1>3, <1>4 DEF S!Picks

\* A token the target picked is the next of its greedy continuation.
LEMMA Outputs ==
  ASSUME S!SpecAssumption, LoopInv, S!Verifying \/ phase = "correct",
         NEW pick \in S!Picks(t_logits), best' = best, out' = Append(out, pick)
  PROVE  /\ S!OutputIsGreedy' /\ out' \in Seq(Token) /\ Len(out') = Len(out) + 1
         /\ Len(out) < Len(best) /\ pick = best[Len(out) + 1]
<1>1. /\ Len(out) \in Nat /\ Len(out) < Len(best) /\ best \in Seq(Token)
      /\ pick = best[Len(out) + 1]
  BY InReach
<1>2. pick \in Token
  BY <1>1
<1>3. out' \in Seq(Token) /\ Len(out') = Len(out) + 1
  BY <1>2 DEF LoopInv, OneText
<1>4. SubSeq(best, 1, Len(out) + 1) = Append(SubSeq(best, 1, Len(out)), pick)
  BY <1>1, OneMore
<1>5. SubSeq(best, 1, Len(out)) = out
  BY DEF LoopInv, S!OutputIsGreedy
<1> QED BY <1>1, <1>3, <1>4, <1>5 DEF S!OutputIsGreedy

\* A step that outputs nothing and leaves the batch, or ends it.
LEMMA BatchLeft ==
  ASSUME S!SpecAssumption, LoopInv, UNCHANGED <<proto, best, out, target, t_logits, batch>>,
         draft_tokens' \in Seq(Token), ki' \in Nat,
         \/ phase' \notin {"draft", "force", "verify", "correct"}
         \/ phase' = "draft" /\ draft_tokens' = <<>> /\ ki' = 0
  PROVE  LoopInv'
<1>1. OneText' /\ S!OutputIsGreedy'
  BY DEF LoopInv, OneText, S!OutputIsGreedy
<1>2. phase' # "verify" /\ ~ InBatch' /\ phase' # "correct" /\ (phase' \in {"draft", "force"} => ki' = 0)
  BY DEF InBatch
<1>3. Room'
  BY <1>2 DEF LoopInv, Room
<1> QED BY <1>1, <1>3 DEF LoopInv

\* Proposing, forcing, synchronising and giving up output nothing.
LEMMA QuietStep ==
  ASSUME S!SpecAssumption, LoopInv,
         S!Stop \/ S!Overrun \/ S!Sync \/ S!Resync \/ S!Fail
           \/ (\E t \in Token : S!Propose(t) \/ S!ForceToken(t) \/ S!Probe(t))
           \/ (\E pick \in Token : S!Reject(pick))
  PROVE  LoopInv' /\ UNCHANGED <<best, out>>
<1>0. draft_tokens \in Seq(Token) /\ ki \in Nat /\ <<>> \in Seq(Token)
  BY DEF LoopInv, OneText
<1>1. CASE S!Stop \/ S!Overrun \/ S!Fail
  <2>1. /\ UNCHANGED <<proto, best, out, target, t_logits, batch, draft_tokens, ki>>
        /\ phase' \in {"done", "overrun", "failed"}
    BY <1>1 DEF S!Stop, S!Overrun, S!Fail, S!sessions
  <2> QED BY <1>0, <2>1, BatchLeft
<1>2. CASE S!Sync \/ S!Resync
  <2>1. /\ UNCHANGED <<proto, best, out, target, t_logits, batch>>
        /\ phase' = "draft" /\ draft_tokens' = <<>> /\ ki' = 0
    BY <1>2 DEF S!Sync, S!Resync, S!EndBatch
  <2> QED BY <1>0, <2>1, BatchLeft
<1>3. ASSUME NEW t \in Token, S!Propose(t) PROVE LoopInv' /\ UNCHANGED <<best, out>>
  <2>1. /\ proto' = proto /\ best' = best /\ out' = out /\ target' = target
        /\ t_logits' = t_logits /\ ki' = ki /\ ki = 0
    BY <1>3 DEF S!Propose, LoopInv, Room
  <2>2. draft_tokens' \in Seq(Token) /\ draft_tokens' # <<>>
    BY <1>0, <1>3 DEF S!Propose
  <2>3. batch' \in Nat /\ batch \in Nat
    BY <1>3 DEF S!Propose, LoopInv, OneText
  <2>4. phase' \in {"draft", "force", "verify"} /\ (phase' = "force" => proto = "synth")
    BY <1>3 DEF S!Propose
  <2>5. ASSUME proto = "planted"
        PROVE  batch' <= Steps /\ Len(out) + K <= K * batch'
    <3>1. CASE draft_tokens = <<>>
      <4>1. batch' = batch + 1 /\ batch < Steps
        BY <1>3, <2>5, <3>1 DEF S!Propose, S!More, S!MoreSteps
      <4>2. K * batch' = K * batch + K /\ K * batch \in Nat
        BY <2>3, <4>1, HorizonBounds, Product
      <4>3. Len(out) \in Nat /\ Len(out) <= K * batch
        BY <2>5 DEF LoopInv, OneText, Room
      <4> QED BY <2>3, <2>5, <4>1, <4>2, <4>3, HorizonBounds
    <3>2. CASE draft_tokens # <<>>
      <4>1. batch' = batch /\ phase = "draft"
        BY <1>3, <3>2 DEF S!Propose
      <4> QED BY <2>1, <2>5, <3>2, <4>1, HorizonBounds DEF LoopInv, OneText, Room, InBatch
    <3> QED BY <3>1, <3>2
  <2>6. proto = "synth" => Len(out) < Limit
    BY <1>3 DEF S!Propose, S!More, S!MoreLimit, LoopInv, Room, InBatch
  <2>7. Len(out) \in Nat /\ (proto # "planted" => Len(out) <= Limit)
    BY DEF LoopInv, OneText, Room, S!Protocols
  <2>8. K \in Nat /\ K >= 1 /\ K * batch' \in Nat
    BY <2>3, HorizonBounds, Product
  <2>9. Room'
    BY <2>1, <2>2, <2>4, <2>5, <2>6, <2>7, <2>8 DEF Room, InBatch
  <2> QED BY <2>1, <2>2, <2>3, <2>9 DEF LoopInv, OneText, S!OutputIsGreedy
<1>4. ASSUME NEW t \in Token, S!ForceToken(t) PROVE LoopInv' /\ UNCHANGED <<best, out>>
  <2>1. /\ UNCHANGED <<proto, best, out, target, t_logits, batch, ki>>
        /\ phase = "force" /\ phase' = "verify"
        /\ draft_tokens' = [draft_tokens EXCEPT ![1] = t]
    BY <1>4 DEF S!ForceToken, S!sessions
  <2>2. draft_tokens' \in Seq(Token)
    <3>1. draft_tokens # <<>>
      BY <2>1 DEF LoopInv, Room
    <3>2. 1 \in 1 .. Len(draft_tokens)
      BY <1>0, <3>1, EmptySeq
    <3> QED BY <1>0, <2>1, <3>2, ExceptSeq
  <2>3. OneText' /\ S!OutputIsGreedy'
    BY <2>1, <2>2 DEF LoopInv, OneText, S!OutputIsGreedy
  <2>4. ki = 0 /\ K >= 1 /\ K \in Nat
    BY <2>1, HorizonBounds DEF LoopInv, Room
  <2>5. Room'
    BY <2>1, <2>4 DEF LoopInv, Room, InBatch
  <2> QED BY <2>1, <2>3, <2>5 DEF LoopInv
<1>5. ASSUME NEW t \in Token, S!Probe(t) PROVE LoopInv' /\ UNCHANGED <<best, out>>
  <2>1. /\ UNCHANGED <<proto, best, out, target, t_logits, batch>>
        /\ phase' = "draft" /\ draft_tokens' = <<>> /\ ki' = 0
    BY <1>5 DEF S!Probe, S!EndBatch
  <2> QED BY <1>0, <2>1, BatchLeft
<1>6. ASSUME NEW pick \in Token, S!Reject(pick) PROVE LoopInv' /\ UNCHANGED <<best, out>>
  <2>1. UNCHANGED <<proto, best, out, target, t_logits, batch>> /\ S!Verifying
    BY <1>6 DEF S!Reject
  <2>2. CASE proto # "planted"
    <3>1. UNCHANGED <<ki, draft_tokens>> /\ phase' = "correct"
      BY <1>6, <2>2 DEF S!Reject
    <3>2. OneText' /\ S!OutputIsGreedy'
      BY <2>1, <3>1 DEF LoopInv, OneText, S!OutputIsGreedy
    <3>3. Len(out) < Limit
      BY <2>1, <2>2, HorizonBounds DEF LoopInv, OneText, Room, InBatch, S!Verifying, S!Full, S!Protocols
    <3>4. Room'
      BY <2>1, <2>2, <3>1, <3>3 DEF LoopInv, Room, InBatch
    <3> QED BY <2>1, <3>2, <3>4 DEF LoopInv
  <2>3. CASE proto = "planted"
    <3>1. \/ phase' = "probe" /\ UNCHANGED <<ki, draft_tokens>>
          \/ phase' = "draft" /\ draft_tokens' = <<>> /\ ki' = 0
      BY <1>6, <2>3 DEF S!Reject, S!EndBatch
    <3>2. draft_tokens' \in Seq(Token)
      BY <1>0, <3>1
    <3>4. ki' \in Nat
      BY <1>0, <3>1
    <3>3. LoopInv'
      BY <2>1, <3>1, <3>2, <3>4, BatchLeft
    <3> QED BY <2>1, <3>3
  <2> QED BY <2>2, <2>3
<1> QED BY <1>1, <1>2, <1>3, <1>4, <1>5, <1>6

\* Accepting and correcting output one token, the target's.
LEMMA LoudStep ==
  ASSUME S!SpecAssumption, LoopInv, NEW pick \in S!Picks(t_logits), S!Accept(pick) \/ S!CorrectTarget(pick)
  PROVE  /\ LoopInv' /\ best' = best
         /\ Len(out) < Len(best) /\ out' = Append(out, best[Len(out) + 1])
<1>1. CASE S!Accept(pick)
  <2>1. /\ S!Verifying /\ best' = best /\ proto' = proto /\ draft_tokens' = draft_tokens
        /\ batch' = batch /\ ki' = ki + 1 /\ out' = Append(out, pick)
        /\ target' = Append(target, pick) /\ t_logits' = target'
    BY <1>1 DEF S!Accept
  <2>2. /\ S!OutputIsGreedy' /\ out' \in Seq(Token) /\ Len(out') = Len(out) + 1
        /\ Len(out) < Len(best) /\ pick = best[Len(out) + 1]
    BY <2>1, Outputs
  <2>3. OneText'
    BY <2>1, <2>2 DEF LoopInv, OneText
  <2>4. phase' = IF ki' = K THEN "sync"
                 ELSE IF proto = "synth" /\ Len(out') >= Limit THEN "done" ELSE "verify"
    BY <1>1 DEF S!Accept
  <2>5. /\ Len(out) \in Nat /\ ki \in Nat /\ batch \in Nat /\ ki < K /\ K * batch \in Nat
    BY <2>1, HorizonBounds, Product DEF LoopInv, OneText, Room, S!Verifying
  <2>6. K \in Nat /\ Limit \in Nat
    BY HorizonBounds
  <2>7. phase' \notin {"draft", "force", "correct"} /\ (phase' = "verify" => ki' < K)
    BY <2>1, <2>4, <2>5, <2>6
  <2>8. ASSUME proto = "planted" PROVE Room'
    <3>1. Len(out) + K - ki <= K * batch /\ batch <= Steps
      BY <2>1, <2>8 DEF LoopInv, Room, InBatch, S!Verifying
    <3>2. Len(out') <= K * batch /\ Len(out') + K - ki' <= K * batch
      BY <2>1, <2>2, <2>5, <2>6, <3>1
    <3> QED BY <2>1, <2>7, <2>8, <3>1, <3>2 DEF Room, InBatch
  <2>9. ASSUME proto = "natural" PROVE Room'
    <3>1. Len(out') <= Limit
      BY <2>1, <2>2, <2>5, <2>6, <2>9 DEF LoopInv, Room, S!Verifying, S!Full
    <3> QED BY <2>1, <2>7, <2>9, <3>1 DEF Room
  <2>10. ASSUME proto = "synth" PROVE Room'
    <3>1. Len(out) < Limit
      BY <2>1, <2>10 DEF LoopInv, Room, InBatch, S!Verifying
    <3>2. Len(out') <= Limit /\ (phase' = "verify" => Len(out') < Limit)
      BY <2>1, <2>2, <2>4, <2>5, <2>6, <2>10, <3>1
    <3> QED BY <2>1, <2>7, <2>10, <3>1, <3>2 DEF Room, InBatch
  <2>11. Room'
    BY <2>8, <2>9, <2>10 DEF LoopInv, OneText, S!Protocols
  <2> QED BY <2>1, <2>2, <2>3, <2>11 DEF LoopInv
<1>2. CASE S!CorrectTarget(pick)
  <2>1. /\ phase = "correct" /\ best' = best /\ proto' = proto /\ draft_tokens' = draft_tokens
        /\ batch' = batch /\ ki' = ki /\ out' = Append(out, pick) /\ phase' = "resync"
        /\ target' = Append(target, pick) /\ t_logits' = target'
    BY <1>2 DEF S!CorrectTarget
  <2>2. /\ S!OutputIsGreedy' /\ out' \in Seq(Token) /\ Len(out') = Len(out) + 1
        /\ Len(out) < Len(best) /\ pick = best[Len(out) + 1]
    BY <2>1, Outputs
  <2>3. OneText'
    BY <2>1, <2>2 DEF LoopInv, OneText
  <2>4. Room'
    BY <2>1, <2>2, HorizonBounds DEF LoopInv, OneText, Room, InBatch
  <2> QED BY <2>1, <2>2, <2>3, <2>4 DEF LoopInv
<1> QED BY <1>1, <1>2

\* What the target picks is a token.
LEMMA PicksAreTokens ==
  ASSUME S!SpecAssumption, LoopInv, S!Verifying \/ phase = "correct", NEW pick \in S!Picks(t_logits)
  PROVE  pick \in Token
<1>1. /\ Len(out) \in Nat /\ Len(out) < S!Horizon /\ pick = best[Len(out) + 1]
  BY InReach
<1> QED BY <1>1, HorizonBounds DEF LoopInv, OneText

\* Every step of the loop keeps the invariant and emits a greedy token or none.
LEMMA LoopStep ==
  ASSUME S!SpecAssumption, LoopInv, S!Next
  PROVE  LoopInv' /\ (G!Next \/ UNCHANGED <<best, out>>)
<1>1. CASE \E pick \in S!Picks(t_logits) : S!Accept(pick) \/ S!CorrectTarget(pick)
  BY <1>1, LoudStep DEF G!Next, G!Emit
<1>2. CASE \E pick \in S!Picks(t_logits) : S!Reject(pick)
  <2>1. PICK pick \in S!Picks(t_logits) : S!Reject(pick)
    BY <1>2
  <2>2. pick \in Token
    BY <2>1, PicksAreTokens DEF S!Reject
  <2> QED BY <2>1, <2>2, QuietStep
<1>3. CASE \/ S!Stop \/ S!Overrun \/ S!Sync \/ S!Resync \/ S!Fail
           \/ (\E t \in Token : S!Propose(t) \/ S!ForceToken(t) \/ S!Probe(t))
  BY <1>3, QuietStep
<1> QED BY <1>1, <1>2, <1>3 DEF S!Next, S!Work

\* A prefix that reaches into the second part of a concatenation.
LEMMA CutInto ==
  ASSUME NEW X, NEW r \in Seq(X), NEW t \in Seq(X), NEW n \in Nat, n <= Len(t)
  PROVE  SubSeq(r \o t, 1, Len(r) + n) = r \o SubSeq(t, 1, n)
<1>1. Len(r) \in Nat /\ Len(t) \in Nat /\ r \o t \in Seq(X) /\ Len(r \o t) = Len(r) + Len(t)
  OBVIOUS
<1>2. /\ SubSeq(r \o t, 1, Len(r) + n) \in Seq(X) /\ Len(SubSeq(r \o t, 1, Len(r) + n)) = Len(r) + n
      /\ SubSeq(t, 1, n) \in Seq(X) /\ Len(SubSeq(t, 1, n)) = n
  BY <1>1
<1>3. /\ r \o SubSeq(t, 1, n) \in Seq(X) /\ Len(r \o SubSeq(t, 1, n)) = Len(r) + n
  BY <1>1, <1>2
<1>4. ASSUME NEW i \in 1 .. Len(r) + n
      PROVE  SubSeq(r \o t, 1, Len(r) + n)[i] = (r \o SubSeq(t, 1, n))[i]
  BY <1>1, <1>2, <1>3
<1> QED BY <1>2, <1>3, <1>4, SeqEqual

\* A prefix of a prefix.
LEMMA CutTwice ==
  ASSUME NEW X, NEW t \in Seq(X), NEW k \in Nat, NEW n \in Nat, n <= k, k <= Len(t)
  PROVE  SubSeq(SubSeq(t, 1, k), 1, n) = SubSeq(t, 1, n)
OBVIOUS

\* What was appended is cut off again.
LEMMA CutAppended ==
  ASSUME NEW X, NEW s \in Seq(X), NEW e \in X
  PROVE  SubSeq(Append(s, e), 1, Len(s)) = s
OBVIOUS

LEMMA OneFurther ==
  ASSUME NEW X, NEW r \in Seq(X), NEW t \in Seq(X), NEW n \in Nat, n < Len(t)
  PROVE  Append(r \o SubSeq(t, 1, n), t[n + 1]) = r \o SubSeq(t, 1, n + 1)
<1>1. SubSeq(t, 1, n) \in Seq(X) /\ t[n + 1] \in X /\ SubSeq(t, 1, n + 1) = Append(SubSeq(t, 1, n), t[n + 1])
  OBVIOUS
<1>2. ASSUME NEW s \in Seq(X), NEW e \in X PROVE Append(r \o s, e) = r \o Append(s, e)
  OBVIOUS
<1>3. Append(r \o SubSeq(t, 1, n), t[n + 1]) = r \o Append(SubSeq(t, 1, n), t[n + 1])
  BY <1>1, <1>2, Zenon
<1> QED BY <1>1, <1>3, Zenon

-----------------------------------------------------------------------------
(***************************************************************************)
(* Where the draft is: level with the output between batches, ahead of it  *)
(* by what it has proposed and not yet been refused.                       *)
(***************************************************************************)
Between   == phase = "draft" /\ draft_tokens = <<>>
Proposing == \/ phase = "draft" /\ draft_tokens # <<>>
             \/ phase = "force"
Comparing == phase \in {"verify", "sync"}
Ahead(n) == SubSeq(draft_tokens, 1, n)

DraftInv ==
  /\ draft \in Seq(Token) /\ ref_at_p \in Seq(Token)
  /\ Between =>
       /\ Len(draft) = Len(out)
       /\ proto # "synth" => draft = out
       /\ proto = "natural" => d_logits = draft
  /\ Proposing =>
       /\ Len(draft) + 1 = Len(out) + Len(draft_tokens)
       /\ phase = "force" => Len(draft_tokens) = K /\ proto = "synth"
       /\ proto # "synth" => ref_at_p = out /\ draft = out \o Ahead(Len(draft_tokens) - 1)
  /\ Comparing =>
       /\ Len(draft_tokens) = K /\ ki <= K /\ Len(draft) + ki + 1 = Len(out) + K
       /\ phase = "sync" => ki = K
       /\ proto # "synth" => draft = ref_at_p \o Ahead(K - 1) /\ out = ref_at_p \o Ahead(ki)
  /\ phase = "correct" =>
       /\ Len(draft) = Len(out) /\ (proto = "natural" => draft = out)
  /\ phase = "resync" =>
       /\ Len(draft) + 1 = Len(out)
       /\ proto # "planted"
       /\ proto = "natural" => out = Append(draft, out[Len(out)])
  /\ phase = "probe" =>
       /\ proto = "planted" /\ draft = out /\ out = ref_at_p \o Ahead(ki)

LEMMA DraftInit == S!SpecAssumption /\ S!Init => DraftInv
BY EmptySeq DEF S!Init, DraftInv, Between, Proposing, Comparing

LEMMA DraftPropose ==
  ASSUME S!SpecAssumption, LoopInv, LoopInv', DraftInv, NEW t \in Token, S!Propose(t)
  PROVE  DraftInv'
<1>0. /\ draft \in Seq(Token) /\ ref_at_p \in Seq(Token) /\ draft_tokens \in Seq(Token)
      /\ out \in Seq(Token) /\ K \in Nat /\ K >= 1 /\ ki = 0
  BY HorizonBounds DEF LoopInv, OneText, DraftInv, Room, S!Propose
<1>1. /\ proto' = proto /\ out' = out /\ ki' = 0 /\ phase = "draft" /\ Len(draft_tokens) < K
      /\ draft_tokens' = Append(draft_tokens, t)
  BY <1>0 DEF S!Propose
<1>2. /\ draft_tokens' \in Seq(Token) /\ Len(draft_tokens') = Len(draft_tokens) + 1 /\ draft_tokens' # <<>>
      /\ SubSeq(draft_tokens', 1, Len(draft_tokens)) = draft_tokens
  BY <1>0, <1>1, CutAppended
<1>3. /\ draft' \in Seq(Token) /\ ref_at_p' \in Seq(Token)
      /\ Len(draft') = Len(out) + Len(draft_tokens)
      /\ proto # "synth" => ref_at_p' = out /\ draft' = out \o draft_tokens
  <2>1. CASE draft_tokens = <<>>
    <3>1. draft' = draft /\ ref_at_p' = draft /\ Between
      BY <1>1, <2>1 DEF S!Propose, Between
    <3>2. Len(draft) = Len(out) /\ (proto # "synth" => draft = out)
      BY <3>1 DEF DraftInv
    <3>3. out \o draft_tokens = out /\ Len(draft_tokens) = 0
      BY <1>0, <2>1
    <3> QED BY <1>0, <3>1, <3>2, <3>3
  <2>2. CASE draft_tokens # <<>>
    <3>0. Len(draft_tokens) \in Nat /\ Len(draft_tokens) >= 1 /\ draft_tokens[Len(draft_tokens)] \in Token
      BY <1>0, <2>2
    <3>1. draft' = Append(draft, draft_tokens[Len(draft_tokens)]) /\ ref_at_p' = ref_at_p /\ Proposing
      BY <1>1, <2>2 DEF S!Propose, Proposing
    <3>2. /\ Len(draft) + 1 = Len(out) + Len(draft_tokens)
          /\ proto # "synth" => ref_at_p = out /\ draft = out \o SubSeq(draft_tokens, 1, Len(draft_tokens) - 1)
      BY <3>1 DEF DraftInv, Ahead
    <3>3. SubSeq(draft_tokens, 1, Len(draft_tokens) - 1) \in Seq(Token)
      BY <1>0, <3>0
    <3>5. proto # "synth" => draft' = out \o draft_tokens
      <4>0. PICK n \in Nat : n + 1 = Len(draft_tokens) /\ n = Len(draft_tokens) - 1 /\ n < Len(draft_tokens)
        <5>1. /\ Len(draft_tokens) - 1 \in Nat /\ (Len(draft_tokens) - 1) + 1 = Len(draft_tokens)
              /\ Len(draft_tokens) - 1 < Len(draft_tokens)
          BY <3>0
        <5> QED BY <5>1
      <4>3. Append(out \o SubSeq(draft_tokens, 1, n), draft_tokens[n + 1]) = out \o SubSeq(draft_tokens, 1, n + 1)
        BY <1>0, <4>0, OneFurther
      <4>1. Append(out \o SubSeq(draft_tokens, 1, Len(draft_tokens) - 1), draft_tokens[Len(draft_tokens)])
              = out \o SubSeq(draft_tokens, 1, Len(draft_tokens))
        BY <4>0, <4>3, Zenon
      <4>2. SubSeq(draft_tokens, 1, Len(draft_tokens)) = draft_tokens
        BY <1>0
      <4> QED BY <3>1, <3>2, <4>1, <4>2
    <3>6. draft' \in Seq(Token) /\ Len(draft') = Len(draft) + 1
      BY <1>0, <3>0, <3>1
    <3>7. Len(draft') = Len(out) + Len(draft_tokens)
      BY <3>2, <3>6
    <3> QED BY <1>0, <3>1, <3>2, <3>5, <3>6, <3>7
  <2> QED BY <2>1, <2>2
<1>4. phase' = IF Len(draft_tokens') < K THEN "draft"
               ELSE IF proto = "synth" /\ batch' = 0 THEN "force" ELSE "verify"
  BY DEF S!Propose
<1>5. Len(draft_tokens) \in Nat /\ Len(out) \in Nat /\ Len(draft_tokens) <= K - 1
  BY <1>0, <1>1
<1>6. ~ Between' /\ phase' \notin {"correct", "resync", "probe", "sync"}
  BY <1>2, <1>4 DEF Between
<1>7. Proposing' =>
        /\ Len(draft') + 1 = Len(out') + Len(draft_tokens')
        /\ phase' = "force" => Len(draft_tokens') = K /\ proto' = "synth"
        /\ proto' # "synth" => ref_at_p' = out' /\ draft' = out' \o SubSeq(draft_tokens', 1, Len(draft_tokens') - 1)
  <2>1. Len(draft_tokens') - 1 = Len(draft_tokens)
    BY <1>2, <1>5
  <2>2. Len(draft') + 1 = Len(out') + Len(draft_tokens')
    BY <1>1, <1>2, <1>3, <1>5
  <2>3. Proposing' /\ phase' = "force" => Len(draft_tokens') = K /\ proto' = "synth"
    BY <1>0, <1>1, <1>2, <1>4, <1>5
  <2>4. proto' # "synth" => ref_at_p' = out' /\ draft' = out' \o SubSeq(draft_tokens', 1, Len(draft_tokens') - 1)
    BY <1>1, <1>2, <1>3, <2>1
  <2> QED BY <2>2, <2>3, <2>4
<1>8. Comparing' =>
        /\ Len(draft_tokens') = K /\ ki' <= K /\ Len(draft') + ki' + 1 = Len(out') + K
        /\ proto' # "synth" => /\ draft' = ref_at_p' \o SubSeq(draft_tokens', 1, K - 1)
                               /\ out' = ref_at_p' \o SubSeq(draft_tokens', 1, ki')
  <2> SUFFICES ASSUME Comparing' PROVE
        /\ Len(draft_tokens') = K /\ ki' <= K /\ Len(draft') + ki' + 1 = Len(out') + K
        /\ proto' # "synth" => /\ draft' = ref_at_p' \o SubSeq(draft_tokens', 1, K - 1)
                               /\ out' = ref_at_p' \o SubSeq(draft_tokens', 1, ki')
    OBVIOUS
  <2>1. Len(draft_tokens) = K - 1
    BY <1>0, <1>2, <1>4, <1>5 DEF Comparing
  <2>2. SubSeq(draft_tokens', 1, ki') = <<>> /\ out \o <<>> = out
    BY <1>0, <1>1, <1>2
  <2>3. Len(draft_tokens') = K /\ ki' <= K /\ Len(draft') + ki' + 1 = Len(out') + K
    BY <1>0, <1>1, <1>2, <1>3, <1>5, <2>1
  <2>4. ASSUME proto' # "synth"
        PROVE  /\ draft' = ref_at_p' \o SubSeq(draft_tokens', 1, K - 1)
               /\ out' = ref_at_p' \o SubSeq(draft_tokens', 1, ki')
    BY <1>1, <1>2, <1>3, <2>1, <2>2, <2>4
  <2> QED BY <2>3, <2>4
<1> QED BY <1>3, <1>6, <1>7, <1>8 DEF DraftInv, Ahead

LEMMA DraftForce ==
  ASSUME S!SpecAssumption, LoopInv, DraftInv, NEW t \in Token, S!ForceToken(t)
  PROVE  DraftInv'
<1>0. /\ draft_tokens \in Seq(Token) /\ out \in Seq(Token) /\ K \in Nat /\ K >= 1 /\ ki = 0
      /\ draft \in Seq(Token) /\ ref_at_p \in Seq(Token) /\ Proposing
  BY HorizonBounds DEF LoopInv, OneText, DraftInv, Room, S!ForceToken, Proposing
<1>1. /\ proto' = proto /\ out' = out /\ ki' = ki /\ draft' = draft /\ ref_at_p' = ref_at_p
      /\ phase = "force" /\ phase' = "verify" /\ draft_tokens' = [draft_tokens EXCEPT ![1] = t]
  BY DEF S!ForceToken, S!sessions
<1>2. Len(draft_tokens') = Len(draft_tokens)
  BY <1>0, <1>1
<1>3. Len(draft_tokens) = K /\ Len(draft) + 1 = Len(out) + Len(draft_tokens) /\ proto = "synth"
  BY <1>0, <1>1 DEF DraftInv
<1>4. ~ Between' /\ ~ Proposing' /\ Comparing'
  BY <1>1 DEF Between, Proposing, Comparing
<1>5. Len(draft_tokens') = K /\ ki' <= K /\ Len(draft') + ki' + 1 = Len(out') + K /\ proto' = "synth"
  BY <1>0, <1>1, <1>2, <1>3
<1> QED BY <1>0, <1>1, <1>4, <1>5 DEF DraftInv

LEMMA DraftAccept ==
  ASSUME S!SpecAssumption, LoopInv, DraftInv, NEW pick \in Token, S!Accept(pick)
  PROVE  DraftInv'
<1>0. /\ draft_tokens \in Seq(Token) /\ out \in Seq(Token) /\ K \in Nat /\ K >= 1 /\ ki \in Nat
      /\ draft \in Seq(Token) /\ ref_at_p \in Seq(Token) /\ Comparing /\ phase = "verify"
  BY HorizonBounds DEF LoopInv, OneText, DraftInv, S!Accept, Comparing, S!Verifying
<1>1. /\ proto' = proto /\ draft' = draft /\ ref_at_p' = ref_at_p /\ draft_tokens' = draft_tokens
      /\ out' = Append(out, pick) /\ ki' = ki + 1 /\ pick = draft_tokens[ki + 1]
  BY DEF S!Accept
<1>2. phase' = IF ki' = K THEN "sync"
               ELSE IF proto = "synth" /\ Len(out') >= Limit THEN "done" ELSE "verify"
  BY DEF S!Accept
<1>3. ki < K
  BY <1>0 DEF LoopInv, Room
<1>4. /\ Len(draft_tokens) = K /\ Len(draft) + ki + 1 = Len(out) + K
      /\ proto # "synth" => draft = ref_at_p \o SubSeq(draft_tokens, 1, K - 1) /\ out = ref_at_p \o SubSeq(draft_tokens, 1, ki)
  BY <1>0 DEF DraftInv, Ahead
<1>5. Len(out') = Len(out) + 1 /\ Len(out) \in Nat /\ Len(draft) \in Nat
  BY <1>0, <1>1
<1>6. proto # "synth" => out' = ref_at_p \o SubSeq(draft_tokens, 1, ki + 1)
  <2>1. Append(ref_at_p \o SubSeq(draft_tokens, 1, ki), draft_tokens[ki + 1])
          = ref_at_p \o SubSeq(draft_tokens, 1, ki + 1)
    BY <1>0, <1>3, <1>4, OneFurther
  <2> QED BY <1>1, <1>4, <2>1
<1>7. ~ Between' /\ ~ Proposing' /\ phase' \notin {"correct", "resync", "probe"} /\ (phase' = "sync" => ki' = K)
  BY <1>2 DEF Between, Proposing
<1>8. Len(draft_tokens') = K /\ ki' <= K /\ Len(draft') + ki' + 1 = Len(out') + K
  <2>1. Len(draft) + (ki + 1) + 1 = (Len(out) + 1) + K /\ ki + 1 <= K
    <3>1. /\ Len(draft) + ki + 1 = Len(out) + K /\ Len(out) \in Nat /\ Len(draft) \in Nat
          /\ ki \in Nat /\ K \in Nat /\ ki < K
      BY <1>0, <1>3, <1>4, <1>5
    <3> HIDE <1>0, <1>1, <1>2, <1>3, <1>4
    <3> QED BY <3>1
  <2> QED BY <1>1, <1>4, <1>5, <2>1
<1>9. proto' # "synth" => draft' = ref_at_p' \o SubSeq(draft_tokens', 1, K - 1) /\ out' = ref_at_p' \o SubSeq(draft_tokens', 1, ki')
  BY <1>1, <1>4, <1>6
<1> QED BY <1>0, <1>1, <1>7, <1>8, <1>9 DEF DraftInv, Ahead

LEMMA DraftReject ==
  ASSUME S!SpecAssumption, LoopInv, LoopInv', DraftInv, NEW pick \in Token, S!Reject(pick)
  PROVE  DraftInv'
<1>0. /\ draft_tokens \in Seq(Token) /\ out \in Seq(Token) /\ K \in Nat /\ K >= 1 /\ ki \in Nat
      /\ draft \in Seq(Token) /\ ref_at_p \in Seq(Token) /\ Comparing /\ phase = "verify" /\ ki < K
      /\ proto \in S!Protocols
  BY HorizonBounds DEF LoopInv, OneText, DraftInv, S!Reject, Comparing, S!Verifying, Room
<1>1. /\ proto' = proto /\ ref_at_p' = ref_at_p /\ out' = out /\ d_logits' = d_logits
      /\ draft' = SubSeq(draft, 1, Len(draft) - (K - 1 - ki))
  BY DEF S!Reject, S!Rewind
<1>2. /\ Len(draft_tokens) = K /\ Len(draft) + ki + 1 = Len(out) + K
      /\ proto # "synth" => draft = ref_at_p \o SubSeq(draft_tokens, 1, K - 1) /\ out = ref_at_p \o SubSeq(draft_tokens, 1, ki)
  BY <1>0 DEF DraftInv, Ahead
<1>3. draft' = SubSeq(draft, 1, Len(out)) /\ Len(out) \in Nat /\ Len(out) <= Len(draft) /\ Len(draft) \in Nat
  <2>1. Len(out) \in Nat /\ Len(draft) \in Nat
    BY <1>0
  <2>2. Len(draft) - (K - 1 - ki) = Len(out) /\ Len(out) <= Len(draft)
    BY <1>0, <1>2, <2>1
  <2> QED BY <1>1, <2>1, <2>2
<1>4. draft' \in Seq(Token) /\ Len(draft') = Len(out)
  BY <1>0, <1>3
<1>5. ASSUME proto # "synth" PROVE draft' = out
  <2>1. SubSeq(draft_tokens, 1, K - 1) \in Seq(Token) /\ Len(SubSeq(draft_tokens, 1, K - 1)) = K - 1
    BY <1>0, <1>2
  <2>2. SubSeq(draft_tokens, 1, ki) \in Seq(Token) /\ Len(SubSeq(draft_tokens, 1, ki)) = ki
    BY <1>0, <1>2
  <2>3. Len(out) = Len(ref_at_p) + ki
    BY <1>0, <1>2, <1>5, <2>2
  <2>4. SubSeq(SubSeq(draft_tokens, 1, K - 1), 1, ki) = SubSeq(draft_tokens, 1, ki)
    <3>1. K - 1 \in Nat /\ ki <= K - 1 /\ K - 1 <= Len(draft_tokens)
      BY <1>0, <1>2
    <3> QED BY <1>0, <3>1, CutTwice
  <2>5. SubSeq(ref_at_p \o SubSeq(draft_tokens, 1, K - 1), 1, Len(ref_at_p) + ki)
          = ref_at_p \o SubSeq(SubSeq(draft_tokens, 1, K - 1), 1, ki)
    <3>1. ki <= Len(SubSeq(draft_tokens, 1, K - 1))
      BY <1>0, <2>1
    <3> QED BY <1>0, <2>1, <3>1, CutInto
  <2> QED BY <1>2, <1>3, <1>5, <2>3, <2>4, <2>5
<1>6. CASE proto # "planted"
  <2>1. phase' = "correct"
    BY <1>6 DEF S!Reject
  <2>2. ~ Between' /\ ~ Proposing' /\ ~ Comparing'
    BY <2>1 DEF Between, Proposing, Comparing
  <2> QED BY <1>0, <1>1, <1>4, <1>5, <1>6, <2>1, <2>2 DEF DraftInv
<1>7. CASE proto = "planted" /\ ki < K - 1
  <2>1. phase' = "probe" /\ ki' = ki /\ draft_tokens' = draft_tokens
    BY <1>7 DEF S!Reject
  <2>2. ~ Between' /\ ~ Proposing' /\ ~ Comparing'
    BY <2>1 DEF Between, Proposing, Comparing
  <2> QED BY <1>0, <1>1, <1>2, <1>4, <1>5, <1>7, <2>1, <2>2 DEF DraftInv, Ahead
<1>8. CASE proto = "planted" /\ ~ (ki < K - 1)
  <2>1. phase' = "draft" /\ draft_tokens' = <<>>
    BY <1>8 DEF S!Reject, S!EndBatch
  <2>2. ~ Proposing' /\ ~ Comparing'
    BY <2>1 DEF Proposing, Comparing
  <2> QED BY <1>0, <1>1, <1>4, <1>5, <1>8, <2>1, <2>2 DEF DraftInv
<1> QED BY <1>6, <1>7, <1>8

\* Sync, Resync and Probe end the batch.
LEMMA DraftEnds ==
  ASSUME S!SpecAssumption, LoopInv, DraftInv,
         S!Sync \/ S!Resync \/ (\E t \in Token : S!Probe(t))
  PROVE  DraftInv'
<1>0. /\ draft_tokens \in Seq(Token) /\ out \in Seq(Token) /\ K \in Nat /\ K >= 1 /\ ki \in Nat
      /\ draft \in Seq(Token) /\ ref_at_p \in Seq(Token) /\ target = out
  BY HorizonBounds DEF LoopInv, OneText, DraftInv
<1>1. phase' = "draft" /\ draft_tokens' = <<>> /\ proto' = proto /\ out' = out
  BY DEF S!Sync, S!Resync, S!Probe, S!EndBatch
<1>2. Between' /\ ~ Proposing' /\ ~ Comparing'
  BY <1>1 DEF Between, Proposing, Comparing
<1>3. SUFFICES /\ draft' \in Seq(Token) /\ ref_at_p' \in Seq(Token) /\ Len(draft') = Len(out)
               /\ proto # "synth" => draft' = out
               /\ proto = "natural" => d_logits' = draft'
  BY <1>1, <1>2 DEF DraftInv
<1>4. CASE S!Sync
  <2>1. /\ draft' = Append(draft, draft_tokens[K]) /\ d_logits' = draft' /\ ref_at_p' = ref_at_p
        /\ phase = "sync" /\ Comparing
    BY <1>4 DEF S!Sync, Comparing
  <2>2. /\ Len(draft_tokens) = K /\ ki = K /\ Len(draft) + ki + 1 = Len(out) + K
        /\ proto # "synth" => draft = ref_at_p \o SubSeq(draft_tokens, 1, K - 1) /\ out = ref_at_p \o SubSeq(draft_tokens, 1, K)
    BY <2>1 DEF DraftInv, Ahead
  <2>3. draft_tokens[K] \in Token /\ SubSeq(draft_tokens, 1, K - 1) \in Seq(Token)
    BY <1>0, <2>2
  <2>4. Append(ref_at_p \o SubSeq(draft_tokens, 1, K - 1), draft_tokens[K]) = ref_at_p \o SubSeq(draft_tokens, 1, K)
    <3>1. PICK n \in Nat : n + 1 = K /\ n = K - 1 /\ n < Len(draft_tokens)
      <4>1. K - 1 \in Nat /\ (K - 1) + 1 = K /\ K - 1 < Len(draft_tokens)
        BY <1>0, <2>2
      <4> QED BY <4>1
    <3>2. Append(ref_at_p \o SubSeq(draft_tokens, 1, n), draft_tokens[n + 1]) = ref_at_p \o SubSeq(draft_tokens, 1, n + 1)
      BY <1>0, <3>1, OneFurther
    <3> QED BY <3>1, <3>2, Zenon
  <2>5. ASSUME proto # "synth" PROVE draft' = out
    <3>1. draft' = Append(draft, draft_tokens[K])
      BY <2>1
    <3>2. draft = ref_at_p \o SubSeq(draft_tokens, 1, K - 1) /\ out = ref_at_p \o SubSeq(draft_tokens, 1, K)
      BY <2>2, <2>5
    <3> QED BY <2>4, <3>1, <3>2, Zenon
  <2>6. Len(draft') = Len(out) /\ draft' \in Seq(Token)
    BY <1>0, <2>1, <2>2, <2>3
  <2> QED BY <1>0, <2>1, <2>5, <2>6
<1>5. CASE S!Resync
  <2>1. /\ draft' = Append(draft, out[Len(out)]) /\ d_logits' = draft' /\ ref_at_p' = ref_at_p
        /\ phase = "resync"
    BY <1>0, <1>5 DEF S!Resync
  <2>2. /\ Len(draft) + 1 = Len(out) /\ proto # "planted"
        /\ proto = "natural" => out = Append(draft, out[Len(out)])
    BY <2>1 DEF DraftInv
  <2>3. out[Len(out)] \in Token
    BY <1>0, <2>2
  <2>4. Len(draft') = Len(out) /\ draft' \in Seq(Token)
    BY <1>0, <2>1, <2>2, <2>3
  <2>5. proto # "synth" => proto = "natural"
    BY <2>2 DEF LoopInv, OneText, S!Protocols
  <2> QED BY <1>0, <2>1, <2>2, <2>4, <2>5
<1>6. ASSUME NEW t \in Token, S!Probe(t)
      PROVE  /\ draft' \in Seq(Token) /\ ref_at_p' \in Seq(Token) /\ Len(draft') = Len(out)
             /\ proto # "synth" => draft' = out
             /\ proto = "natural" => d_logits' = draft'
  <2>1. /\ proto = "planted" /\ draft = out /\ out = ref_at_p \o SubSeq(draft_tokens, 1, ki)
    BY <1>6 DEF S!Probe, DraftInv, Ahead
  <2>2. draft' = SubSeq(Append(out, t), 1, Len(Append(out, t)) - 1)
    BY <1>6, <2>1 DEF S!Probe, S!Rewind
  <2>3. ref_at_p' = SubSeq(Append(out, t), 1, Len(Append(out, t)) - 1)
    BY <1>6, <2>1 DEF S!Probe, S!Rewind
  <2>4. Len(Append(out, t)) - 1 = Len(out)
    BY <1>0
  <2>5. draft' = out /\ ref_at_p' = out
    BY <1>0, <2>2, <2>3, <2>4, CutAppended
  <2> QED BY <1>0, <2>1, <2>5
<1> QED BY <1>4, <1>5, <1>6

\* Giving up and correcting leave the draft alone.
LEMMA DraftQuiet ==
  ASSUME S!SpecAssumption, LoopInv, DraftInv,
         \/ S!Stop \/ S!Overrun \/ S!Fail
         \/ \E pick \in Token : S!CorrectTarget(pick)
  PROVE  DraftInv'
<1>0. /\ draft \in Seq(Token) /\ ref_at_p \in Seq(Token) /\ out \in Seq(Token)
  BY DEF DraftInv, LoopInv, OneText
<1>1. CASE S!Stop \/ S!Overrun \/ S!Fail
  <2>1. draft' = draft /\ ref_at_p' = ref_at_p /\ phase' \in {"done", "overrun", "failed"}
    BY <1>1 DEF S!Stop, S!Overrun, S!Fail, S!sessions
  <2>2. ~ Between' /\ ~ Proposing' /\ ~ Comparing'
    BY <2>1 DEF Between, Proposing, Comparing
  <2> QED BY <1>0, <2>1, <2>2 DEF DraftInv
<1>2. ASSUME NEW pick \in Token, S!CorrectTarget(pick) PROVE DraftInv'
  <2>1. /\ draft' = draft /\ ref_at_p' = ref_at_p /\ proto' = proto /\ out' = Append(out, pick)
        /\ phase = "correct" /\ phase' = "resync"
    BY <1>2 DEF S!CorrectTarget
  <2>2. ~ Between' /\ ~ Proposing' /\ ~ Comparing'
    BY <2>1 DEF Between, Proposing, Comparing
  <2>3. Len(draft) = Len(out) /\ (proto = "natural" => draft = out) /\ proto # "planted"
    BY <2>1 DEF DraftInv, LoopInv, Room
  <2>4. Len(out') = Len(out) + 1 /\ out'[Len(out')] = pick
    BY <1>0, <2>1
  <2> QED BY <1>0, <2>1, <2>2, <2>3, <2>4 DEF DraftInv
<1> QED BY <1>1, <1>2

LEMMA DraftStep ==
  ASSUME S!SpecAssumption, LoopInv, LoopInv', DraftInv, S!Next
  PROVE  DraftInv'
<1>1. ASSUME NEW t \in Token, S!Propose(t) \/ S!ForceToken(t) \/ S!Probe(t)
      PROVE  DraftInv'
  BY <1>1, DraftPropose, DraftForce, DraftEnds
<1>2. ASSUME NEW pick \in S!Picks(t_logits), S!Accept(pick) \/ S!Reject(pick) \/ S!CorrectTarget(pick)
      PROVE  DraftInv'
  <2>1. S!Verifying \/ phase = "correct"
    BY <1>2 DEF S!Accept, S!Reject, S!CorrectTarget
  <2>2. pick \in Token
    BY <2>1, PicksAreTokens
  <2> QED BY <1>2, <2>2, DraftAccept, DraftReject, DraftQuiet
<1>3. CASE S!Stop \/ S!Overrun \/ S!Fail
  BY <1>3, DraftQuiet
<1>4. CASE S!Sync \/ S!Resync
  BY <1>4, DraftEnds
<1> QED BY <1>1, <1>2, <1>3, <1>4 DEF S!Next, S!Work

LEMMA LoopHolds ==
  ASSUME LoopInv, DraftInv
  PROVE  S!OutputIsGreedy /\ S!InStep /\ S!RewindExact
<1>1. S!OutputIsGreedy
  BY DEF LoopInv
<1>2. S!InStep
  <2> SUFFICES ASSUME phase = "draft", draft_tokens = <<>>
               PROVE  /\ target = out /\ t_logits = target
                      /\ Len(draft) = Len(target)
                      /\ proto # "synth" => draft = target
                      /\ proto = "natural" => d_logits = draft
    BY DEF S!InStep
  <2>1. target = out /\ t_logits = out
    BY DEF LoopInv, OneText
  <2>2. /\ Len(draft) = Len(out) /\ (proto # "synth" => draft = out)
        /\ proto = "natural" => d_logits = draft
    BY DEF DraftInv, Between
  <2> QED BY <2>1, <2>2
<1>3. S!RewindExact
  BY DEF DraftInv, Ahead, S!RewindExact
<1> QED BY <1>1, <1>2, <1>3

-----------------------------------------------------------------------------
(* KAIROS *)

Content == A!Piece \cup {"contract", "frame"}
Names == {"noop_correct", "action_correct", "false_actions", "missed_events", "malformed"}
Tally == Names \cup {"ticks"}
Records == [expect : A!Decisions, decided : A!Parses, raw : Seq(A!Piece), held : Seq(Content)]

\* The definitions of FiniteSets that Kairos sees are those of the library.
LEMMA KairosCounts == \A X : A!Cardinality(X) = Cardinality(X)
BY DEF A!Cardinality, Cardinality

\* Each decision has one outcome.
LEMMA OutcomeNamed ==
  ASSUME NEW e \in A!Decisions, NEW d \in A!Parses
  PROVE  A!Outcome(e, d) \in Names
BY DEF A!Outcome, A!Decisions, A!Parses, Names

LEMMA ObserveCounts ==
  ASSUME NEW c \in [Tally -> Nat], NEW e \in A!Decisions, NEW d \in A!Parses
  PROVE  /\ A!Observe(c, e, d) \in [Tally -> Nat]
         /\ A!Observe(c, e, d)["ticks"] = c["ticks"] + 1
         /\ \A o \in Names :
              A!Observe(c, e, d)[o] = IF A!Outcome(e, d) = o THEN c[o] + 1 ELSE c[o]
<1>1. PICK x : x = A!Outcome(e, d)
  OBVIOUS
<1>2. x \in Names /\ x # "ticks" /\ x \in Tally /\ "ticks" \in Tally
  BY <1>1, OutcomeNamed DEF Names, Tally
<1>3. A!Observe(c, e, d) = [c EXCEPT !["ticks"] = @ + 1, ![x] = @ + 1]
  BY <1>1 DEF A!Observe
<1>4. \A o \in Names : o \in Tally /\ o # "ticks"
  BY DEF Names, Tally
<1> HIDE <1>1
<1>5. [c EXCEPT !["ticks"] = @ + 1, ![x] = @ + 1] \in [Tally -> Nat]
  BY <1>2
<1>6. [c EXCEPT !["ticks"] = @ + 1, ![x] = @ + 1]["ticks"] = c["ticks"] + 1
  BY <1>2
<1>7. \A o \in Names : [c EXCEPT !["ticks"] = @ + 1, ![x] = @ + 1][o] = IF x = o THEN c[o] + 1 ELSE c[o]
  BY <1>2, <1>4
<1> QED BY <1>1, <1>3, <1>5, <1>6, <1>7

-----------------------------------------------------------------------------
Told(o) == {i \in DOMAIN log : A!Outcome(log[i].expect, log[i].decided) = o}
Prev == A!Before(Len(log) + 1)
Counted == counters["ticks"] = Len(log) /\ \A o \in Names : counters[o] = Cardinality(Told(o))

KairosTypes ==
  /\ driver \in {"heartbeat", "alpha"}
  /\ tape \in Seq(A!Events) /\ session \in Seq(Content) /\ raw \in Seq(A!Piece)
  /\ log \in Seq(Records) /\ counters \in [Tally -> Nat] /\ decided \in A!Parses

\* A frame and its reply are at the end of the session while they are decided.
Played == Prev \o <<"frame">> \o A!Committed(raw)

OnTop ==
  /\ pc = "tick" => session = Prev
  /\ driver = "heartbeat" => pc \in {"tick", "done"}
  /\ pc \in {"decode", "parse", "report"} => tape # <<>>
  /\ pc = "decode" =>
       /\ session = Prev \o <<"frame">> \o raw /\ logits_at = session
       /\ ~ A!Stops(raw)
  /\ pc \in {"decode", "parse"} => pre_pos = Len(Prev)
  /\ pc = "parse" => session = Played
  /\ pc = "report" => session = IF prune /\ decided = "noop" THEN Prev ELSE Played

LogKept ==
  /\ driver = "alpha" /\ prune => \A i \in DOMAIN log : log[i].held = A!Kept(i)
  /\ driver = "heartbeat" => \A i \in DOMAIN log : log[i].decided = "noop" => log[i].held = A!Before(i)

Tallied ==
  /\ pc \in {"tick", "decode", "parse"} => Counted
  /\ pc = "report" =>
       /\ counters["ticks"] = Len(log) + 1
       /\ \A o \in Names :
            counters[o] = IF A!Outcome(Head(tape).expect, decided) = o THEN Cardinality(Told(o)) + 1
                          ELSE Cardinality(Told(o))

KairosInv == KairosTypes /\ OnTop /\ LogKept /\ Tallied

LEMMA PrevTyped == ASSUME KairosTypes PROVE Prev \in Seq(Content) /\ Len(log) \in Nat
<1>1. Len(log) \in Nat
  BY DEF KairosTypes
<1>2. CASE Len(log) = 0
  <2>1. Prev = A!Contract
    BY <1>2 DEF Prev, A!Before
  <2> QED BY <1>1, <2>1 DEF A!Contract, Content
<1>3. CASE Len(log) # 0
  <2>1. Prev = log[Len(log)].held
    BY <1>1, <1>3 DEF Prev, A!Before
  <2>2. log[Len(log)] \in Records
    BY <1>1, <1>3 DEF KairosTypes
  <2> QED BY <1>1, <2>1, <2>2 DEF Records
<1> QED BY <1>2, <1>3

\* The first event of what is left of the tape.
LEMMA EventTyped ==
  ASSUME KairosTypes, tape # <<>>
  PROVE  /\ Head(tape) \in A!Events /\ Head(tape).expect \in A!Decisions
         /\ Tail(tape) \in Seq(A!Events)
<1>1. Head(tape) \in A!Events /\ Tail(tape) \in Seq(A!Events)
  BY DEF KairosTypes
<1> QED BY <1>1 DEF A!Events

\* Where a record begins does not depend on later ones.
LEMMA BeforeStays ==
  ASSUME KairosTypes, NEW r, log' = Append(log, r)
  PROVE  /\ \A i \in 1 .. Len(log) + 1 : A!Before(i)' = A!Before(i)
         /\ Prev' = r.held /\ DOMAIN log = 1 .. Len(log) /\ DOMAIN log' = 1 .. Len(log) + 1
         /\ \A i \in DOMAIN log : log'[i] = log[i]
         /\ log'[Len(log) + 1] = r /\ Len(log') = Len(log) + 1
<1>1. log \in Seq(Records) /\ Len(log) \in Nat
  BY DEF KairosTypes
<1>2. /\ DOMAIN log = 1 .. Len(log) /\ DOMAIN log' = 1 .. Len(log) + 1 /\ Len(log') = Len(log) + 1
      /\ \A i \in DOMAIN log : log'[i] = log[i]
      /\ log'[Len(log) + 1] = r
  BY <1>1
<1>3. ASSUME NEW i \in 1 .. Len(log) + 1 PROVE A!Before(i)' = A!Before(i)
  <2>1. i # 1 => i - 1 \in DOMAIN log
    BY <1>1, <1>2
  <2> QED BY <1>2, <2>1 DEF A!Before
<1>4. Prev' = r.held
  <2>1. Prev' = log'[Len(log') + 1 - 1].held
    BY <1>1, <1>2 DEF Prev, A!Before
  <2> QED BY <1>1, <1>2, <2>1
<1> QED BY <1>2, <1>3, <1>4

\* A record more is counted under its own outcome.
LEMMA ToldMore ==
  ASSUME KairosTypes, NEW r, log' = Append(log, r), NEW o
  PROVE  /\ Cardinality(Told(o)) \in Nat
         /\ Cardinality(Told(o))' = IF A!Outcome(r.expect, r.decided) = o THEN Cardinality(Told(o)) + 1
                                    ELSE Cardinality(Told(o))
<1>0. /\ DOMAIN log = 1 .. Len(log) /\ DOMAIN log' = 1 .. Len(log) + 1 /\ Len(log) \in Nat
      /\ \A i \in DOMAIN log : log'[i] = log[i]
      /\ log'[Len(log) + 1] = r
  BY BeforeStays DEF KairosTypes
<1>1. IsFiniteSet(Told(o)) /\ Cardinality(Told(o)) \in Nat /\ Len(log) + 1 \notin Told(o)
  <2>1. IsFiniteSet(1 .. Len(log)) /\ Told(o) \subseteq 1 .. Len(log)
    BY <1>0, FS_Interval DEF Told
  <2> QED BY <1>0, <2>1, FS_Subset, FS_CardinalityType
<1>2. Told(o)' = {i \in DOMAIN log' : A!Outcome(log'[i].expect, log'[i].decided) = o}
  BY DEF Told, A!Outcome
<1>3. CASE A!Outcome(r.expect, r.decided) = o
  <2>1. Told(o)' = Told(o) \cup {Len(log) + 1}
    BY <1>0, <1>2, <1>3 DEF Told
  <2> QED BY <1>1, <1>3, <2>1, FS_AddElement
<1>4. CASE A!Outcome(r.expect, r.decided) # o
  <2>1. Told(o)' = Told(o)
    BY <1>0, <1>2, <1>4 DEF Told
  <2> QED BY <1>1, <1>4, <2>1
<1> QED BY <1>3, <1>4

LEMMA SameLog ==
  ASSUME log' = log
  PROVE  /\ Prev' = Prev /\ \A o : Told(o)' = Told(o)
         /\ \A i : A!Before(i)' = A!Before(i) /\ A!Kept(i)' = A!Kept(i)
         /\ driver' = driver /\ prune' = prune /\ LogKept => LogKept'
<1>1. Prev' = Prev /\ \A o : Told(o)' = Told(o)
  BY DEF Prev, A!Before, Told
<1>2. \A i : A!Before(i)' = A!Before(i)
  BY DEF A!Before
<1>3. \A i : A!Kept(i)' = A!Kept(i)
  BY <1>2 DEF A!Kept
<1> QED BY <1>1, <1>2, <1>3 DEF LogKept

LEMMA CommittedTyped ==
  ASSUME NEW s \in Seq(A!Piece)
  PROVE  A!Committed(s) \in Seq(A!Piece) /\ A!Committed(s) \in Seq(Content)
<1>1. \A n \in Int : SubSeq(s, 1, n) \in Seq(A!Piece) \/ n > Len(s)
  OBVIOUS
<1>2. A!Committed(s) \in Seq(A!Piece)
  BY DEF A!Committed, A!Front
<1>3. A!Piece \subseteq Content
  BY DEF Content
<1> QED BY <1>2, <1>3

\* A record of this tick keeps what is kept of the log.
LEMMA RecordKept ==
  ASSUME KairosTypes, LogKept, NEW r \in Records, log' = Append(log, r),
         driver' = driver, prune' = prune,
         driver = "alpha" /\ prune => r.held = IF r.decided = "noop" THEN Prev ELSE Prev \o <<"frame">> \o A!Committed(r.raw),
         driver = "heartbeat" /\ r.decided = "noop" => r.held = Prev
  PROVE  LogKept' /\ log' \in Seq(Records)
<1>1. log' \in Seq(Records) /\ Len(log) \in Nat
  BY DEF KairosTypes
<1>2. /\ \A i \in 1 .. Len(log) + 1 : A!Before(i)' = A!Before(i)
      /\ DOMAIN log = 1 .. Len(log) /\ DOMAIN log' = 1 .. Len(log) + 1
      /\ \A i \in DOMAIN log : log'[i] = log[i]
      /\ log'[Len(log) + 1] = r
  BY BeforeStays
<1>3. ASSUME driver = "alpha" /\ prune, NEW i \in DOMAIN log' PROVE log'[i].held = A!Kept(i)'
  <2>1. CASE i \in DOMAIN log
    <3>1. A!Kept(i)' = A!Kept(i)
      BY <1>1, <1>2, <2>1 DEF A!Kept
    <3> QED BY <1>2, <1>3, <2>1, <3>1 DEF LogKept
  <2>2. CASE i = Len(log) + 1
    <3>1. A!Before(i)' = Prev /\ log'[i] = r
      BY <1>1, <1>2, <2>2 DEF Prev
    <3>2. A!Kept(i)' = IF r.decided = "noop" THEN Prev ELSE Prev \o <<"frame">> \o A!Committed(r.raw)
      BY <3>1 DEF A!Kept
    <3> QED BY <1>3, <3>1, <3>2
  <2> QED BY <1>1, <1>2, <2>1, <2>2
<1>4. ASSUME driver = "heartbeat", NEW i \in DOMAIN log', log'[i].decided = "noop"
      PROVE  log'[i].held = A!Before(i)'
  <2>1. CASE i \in DOMAIN log
    BY <1>1, <1>2, <1>4, <2>1 DEF LogKept
  <2>2. CASE i = Len(log) + 1
    BY <1>1, <1>2, <1>4, <2>2 DEF Prev
  <2> QED BY <1>1, <1>2, <2>1, <2>2
<1> QED BY <1>1, <1>3, <1>4 DEF LogKept

LEMMA KairosBeat == ASSUME KairosInv, A!Beat PROVE KairosInv'
<1>1. PICK d \in A!Decisions : d = A!decide_stub(Head(tape))
  BY DEF A!decide_stub, A!Decisions
<1>2. /\ driver = "heartbeat" /\ pc = "tick" /\ pc' = "tick" /\ tape # <<>>
      /\ driver' = driver /\ prune' = prune /\ raw' = raw /\ decided' = decided
      /\ tape' = Tail(tape)
      /\ session' = (IF d = "action" THEN Append(session, "frame") ELSE session)
      /\ counters' = A!Observe(counters, Head(tape).expect, d)
      /\ log' = Append(log, A!Record(d, session'))
  BY <1>1 DEF A!Beat, A!Grown, A!fixed
<1>3. KairosTypes /\ session = Prev /\ LogKept /\ Counted
  BY <1>2 DEF KairosInv, OnTop, Tallied
<1>4. Head(tape).expect \in A!Decisions /\ Tail(tape) \in Seq(A!Events)
  BY <1>2, <1>3, EventTyped
<1>5. d \in A!Parses /\ session' \in Seq(Content)
  BY <1>1, <1>2, <1>3 DEF A!Parses, KairosTypes, Content
<1>6. PICK r : r = A!Record(d, session')
  OBVIOUS
<1>7. r \in Records /\ r.expect = Head(tape).expect /\ r.decided = d /\ r.held = session'
  BY <1>3, <1>4, <1>5, <1>6 DEF A!Record, Records, KairosTypes
<1>8. log' = Append(log, r)
  BY <1>2, <1>6
<1>9. d = "noop" => session' = Prev
  BY <1>2, <1>3
<1>10. LogKept' /\ log' \in Seq(Records)
  BY <1>2, <1>3, <1>7, <1>8, <1>9, RecordKept
<1>11. Prev' = session' /\ Len(log') = Len(log) + 1
  BY <1>3, <1>7, <1>8, BeforeStays
<1>12. /\ counters' \in [Tally -> Nat] /\ counters'["ticks"] = counters["ticks"] + 1
       /\ \A o \in Names : counters'[o] = IF A!Outcome(Head(tape).expect, d) = o THEN counters[o] + 1 ELSE counters[o]
  BY <1>2, <1>3, <1>4, <1>5, ObserveCounts DEF KairosTypes
<1>13. \A o \in Names : counters'[o] = Cardinality(Told(o))'
  <2> SUFFICES ASSUME NEW o \in Names PROVE counters'[o] = Cardinality(Told(o))'
    OBVIOUS
  <2>1. Cardinality(Told(o))' = IF A!Outcome(r.expect, r.decided) = o THEN Cardinality(Told(o)) + 1
                                ELSE Cardinality(Told(o))
    BY <1>3, <1>8, ToldMore
  <2> QED BY <1>3, <1>7, <1>12, <2>1 DEF Counted
<1>14. Counted'
  BY <1>3, <1>11, <1>12, <1>13 DEF Counted
<1>15. KairosTypes'
  BY <1>2, <1>3, <1>4, <1>5, <1>10, <1>12 DEF KairosTypes
<1>16. OnTop'
  BY <1>2, <1>11 DEF OnTop
<1>17. Tallied'
  BY <1>2, <1>14 DEF Tallied
<1> QED BY <1>10, <1>15, <1>16, <1>17 DEF KairosInv

LEMMA KairosFrame == ASSUME KairosInv, A!FrameTick PROVE KairosInv'
<1>1. /\ driver = "alpha" /\ pc = "tick" /\ pc' = "decode" /\ tape # <<>>
      /\ pre_pos' = Len(session) /\ session' = Append(session, "frame") /\ logits_at' = session'
      /\ raw' = <<>> /\ driver' = driver /\ prune' = prune /\ tape' = tape /\ decided' = decided
      /\ log' = log /\ counters' = counters
  BY DEF A!FrameTick, A!fixed
<1>2. KairosTypes /\ session = Prev /\ LogKept /\ Counted /\ Prev \in Seq(Content)
  BY <1>1, PrevTyped DEF KairosInv, OnTop, Tallied
<1>3. /\ Prev' = Prev /\ LogKept' /\ \A o : Told(o)' = Told(o)
  BY <1>1, <1>2, SameLog
<1>4. session' \in Seq(Content) /\ session' = Prev \o <<"frame">> \o <<>>
  BY <1>1, <1>2 DEF Content
<1>5. ~ A!Stops(raw')
  BY <1>1 DEF A!Stops, A!Range
<1>6. KairosTypes'
  BY <1>1, <1>2, <1>4 DEF KairosTypes
<1>7. OnTop'
  BY <1>1, <1>2, <1>3, <1>4, <1>5 DEF OnTop
<1>8. Counted'
  BY <1>1, <1>2, <1>3 DEF Counted
<1>9. Tallied'
  BY <1>1, <1>8 DEF Tallied
<1> QED BY <1>3, <1>6, <1>7, <1>9 DEF KairosInv

LEMMA KairosReply == ASSUME KairosInv, NEW t \in A!Piece, A!ReplyToken(t) PROVE KairosInv'
<1>1. /\ pc = "decode" /\ raw' = Append(raw, t)
      /\ pc' = (IF A!Stops(raw') \/ Len(raw') = MaxDecode THEN "parse" ELSE "decode")
      /\ A!Stops(raw') => session' = session /\ logits_at' = logits_at
      /\ ~ A!Stops(raw') => session' = Append(session, t) /\ logits_at' = session'
      /\ driver' = driver /\ prune' = prune /\ tape' = tape /\ decided' = decided
      /\ log' = log /\ counters' = counters /\ pre_pos' = pre_pos
  BY DEF A!ReplyToken, A!fixed
<1>2. /\ KairosTypes /\ LogKept /\ Counted /\ Prev \in Seq(Content) /\ tape # <<>> /\ driver # "heartbeat"
      /\ session = Prev \o <<"frame">> \o raw /\ pre_pos = Len(Prev)
  BY <1>1, PrevTyped DEF KairosInv, OnTop, Tallied
<1>3. /\ Prev' = Prev /\ LogKept' /\ \A o : Told(o)' = Told(o)
  BY <1>1, <1>2, SameLog
<1>4. raw \in Seq(A!Piece) /\ raw' \in Seq(A!Piece) /\ t \in Content /\ raw \in Seq(Content)
  BY <1>1, <1>2 DEF KairosTypes, Content
<1>5. CASE A!Stops(raw')
  <2>1. A!Committed(raw') = raw
    BY <1>1, <1>4, <1>5 DEF A!Committed, A!Front
  <2>2. session' = Prev \o <<"frame">> \o A!Committed(raw')
    BY <1>1, <1>2, <1>5, <2>1
  <2>3. OnTop'
    BY <1>1, <1>2, <1>3, <1>5, <2>2 DEF OnTop, Played
  <2>4. KairosTypes'
    BY <1>1, <1>2, <1>4, <1>5 DEF KairosTypes
  <2>5. Tallied'
    BY <1>1, <1>2, <1>3, <1>5 DEF Tallied, Counted
  <2> QED BY <1>3, <2>3, <2>4, <2>5 DEF KairosInv
<1>6. CASE ~ A!Stops(raw')
  <2>1. A!Committed(raw') = raw'
    BY <1>6 DEF A!Committed
  <2>2. session' = Prev \o <<"frame">> \o raw'
    <3>1. \A p, s \in Seq(Content), e \in Content : Append(p \o s, e) = p \o Append(s, e)
      OBVIOUS
    <3>2. Prev \o <<"frame">> \in Seq(Content)
      BY <1>2 DEF Content
    <3>3. Append((Prev \o <<"frame">>) \o raw, t) = (Prev \o <<"frame">>) \o Append(raw, t)
      BY <1>4, <3>1, <3>2
    <3> QED BY <1>1, <1>2, <1>6, <3>3
  <2>3. OnTop'
    BY <1>1, <1>2, <1>3, <1>6, <2>1, <2>2 DEF OnTop, Played
  <2>6. session' \in Seq(Content)
    <3>1. session \in Seq(Content)
      BY <1>2 DEF KairosTypes
    <3> QED BY <1>1, <1>4, <1>6, <3>1
  <2>4. KairosTypes'
    BY <1>1, <1>2, <1>4, <2>6 DEF KairosTypes
  <2>5. Tallied'
    BY <1>1, <1>2, <1>3, <1>6 DEF Tallied, Counted
  <2> QED BY <1>3, <2>3, <2>4, <2>5 DEF KairosInv
<1> QED BY <1>5, <1>6

LEMMA KairosDecide == ASSUME KairosInv, A!Decide PROVE KairosInv'
<1>1. /\ pc = "parse" /\ pc' = "report" /\ decided' = A!parse_decision(raw)
      /\ counters' = A!Observe(counters, Head(tape).expect, decided')
      /\ session' = (IF prune /\ decided' = "noop" THEN SubSeq(session, 1, pre_pos) ELSE session)
      /\ driver' = driver /\ prune' = prune /\ tape' = tape /\ raw' = raw /\ log' = log
  BY DEF A!Decide, A!fixed, A!RewindTo
<1>2. /\ KairosTypes /\ LogKept /\ Counted /\ Prev \in Seq(Content) /\ tape # <<>> /\ driver # "heartbeat"
      /\ session = Played /\ pre_pos = Len(Prev)
  BY <1>1, PrevTyped DEF KairosInv, OnTop, Tallied
<1>3. /\ Prev' = Prev /\ LogKept' /\ \A o : Told(o)' = Told(o)
  BY <1>1, <1>2, SameLog
<1>4. decided' \in A!Parses
  BY <1>1 DEF A!parse_decision, A!Parses, A!Decisions
<1>5. SubSeq(session, 1, pre_pos) = Prev
  <2>1. A!Committed(raw) \in Seq(Content)
    BY <1>2, CommittedTyped DEF KairosTypes
  <2>2. <<"frame">> \in Seq(Content)
    BY DEF Content
  <2>3. \A p, x \in Seq(Content) : SubSeq(p \o x, 1, Len(p)) = p
    OBVIOUS
  <2>4. \A p, q, x \in Seq(Content) : (p \o q) \o x = p \o (q \o x)
    OBVIOUS
  <2>7. \A q, x \in Seq(Content) : q \o x \in Seq(Content)
    OBVIOUS
  <2>8. Played = Prev \o (<<"frame">> \o A!Committed(raw))
    BY <1>2, <2>1, <2>2, <2>4, Zenon DEF Played
  <2>5. PICK x \in Seq(Content) : Played = Prev \o x
    BY <2>1, <2>2, <2>7, <2>8, Zenon
  <2>6. SubSeq(Prev \o x, 1, Len(Prev)) = Prev
    BY <1>2, <2>3
  <2> QED BY <1>2, <2>5, <2>6, Zenon
<1>6. Played' = Played
  BY <1>1, <1>3 DEF Played, A!Committed, A!Stops, A!Front, A!Range
<1>7. session' = (IF prune' /\ decided' = "noop" THEN Prev' ELSE Played')
  BY <1>1, <1>2, <1>3, <1>5, <1>6
<1>8. OnTop'
  BY <1>1, <1>2, <1>7 DEF OnTop
<1>9. Head(tape).expect \in A!Decisions
  BY <1>2, EventTyped
<1>10. /\ counters' \in [Tally -> Nat] /\ counters'["ticks"] = counters["ticks"] + 1
       /\ \A o \in Names : counters'[o] = IF A!Outcome(Head(tape).expect, decided') = o THEN counters[o] + 1 ELSE counters[o]
  BY <1>1, <1>2, <1>4, <1>9, ObserveCounts DEF KairosTypes
<1>11. Tallied'
  BY <1>1, <1>2, <1>3, <1>10 DEF Tallied, Counted
<1>12. KairosTypes'
  BY <1>1, <1>2, <1>4, <1>5, <1>10 DEF KairosTypes
<1> QED BY <1>3, <1>8, <1>11, <1>12 DEF KairosInv

LEMMA KairosReport == ASSUME KairosInv, A!Report PROVE KairosInv'
<1>1. /\ pc = "report" /\ pc' = "tick" /\ tape' = Tail(tape)
      /\ log' = Append(log, A!Record(decided, session))
      /\ driver' = driver /\ prune' = prune /\ session' = session /\ raw' = raw /\ decided' = decided
      /\ counters' = counters
  BY DEF A!Report, A!fixed
<1>2. /\ KairosTypes /\ LogKept /\ Tallied /\ tape # <<>> /\ driver # "heartbeat"
      /\ session = IF prune /\ decided = "noop" THEN Prev ELSE Played
  BY <1>1 DEF KairosInv, OnTop
<1>3. Head(tape).expect \in A!Decisions /\ Tail(tape) \in Seq(A!Events)
  BY <1>2, EventTyped
<1>4. PICK r : r = A!Record(decided, session)
  OBVIOUS
<1>5. /\ r \in Records /\ r.expect = Head(tape).expect /\ r.decided = decided /\ r.held = session /\ r.raw = raw
  BY <1>2, <1>3, <1>4 DEF A!Record, Records, KairosTypes
<1>6. log' = Append(log, r)
  BY <1>1, <1>4
<1>7. driver = "alpha" /\ prune => r.held = IF r.decided = "noop" THEN Prev ELSE Prev \o <<"frame">> \o A!Committed(r.raw)
  BY <1>2, <1>5 DEF Played
<1>8. LogKept' /\ log' \in Seq(Records)
  BY <1>1, <1>2, <1>5, <1>6, <1>7, RecordKept
<1>9. Prev' = session' /\ Len(log') = Len(log) + 1
  BY <1>1, <1>2, <1>5, <1>6, BeforeStays
<1>10. \A o \in Names : counters'[o] = Cardinality(Told(o))'
  <2> SUFFICES ASSUME NEW o \in Names PROVE counters'[o] = Cardinality(Told(o))'
    OBVIOUS
  <2>1. Cardinality(Told(o))' = IF A!Outcome(r.expect, r.decided) = o THEN Cardinality(Told(o)) + 1
                                ELSE Cardinality(Told(o))
    BY <1>2, <1>6, ToldMore
  <2> QED BY <1>1, <1>2, <1>5, <2>1 DEF Tallied
<1>11. Tallied'
  BY <1>1, <1>2, <1>9, <1>10 DEF Tallied, Counted
<1>12. KairosTypes'
  BY <1>1, <1>2, <1>3, <1>8 DEF KairosTypes
<1>13. OnTop'
  BY <1>1, <1>2, <1>9 DEF OnTop
<1> QED BY <1>8, <1>11, <1>12, <1>13 DEF KairosInv

\* What changes neither the session nor the log.
LEMMA KairosQuiet ==
  ASSUME KairosInv, A!EndOfSequence \/ A!Panic \/ A!End \/ A!Fail \/ A!Chat
  PROVE  KairosInv'
<1>1. /\ driver' = driver /\ prune' = prune /\ tape' = tape /\ session' = session /\ logits_at' = logits_at
      /\ pre_pos' = pre_pos /\ raw' = raw /\ decided' = decided /\ log' = log /\ counters' = counters
  BY DEF A!EndOfSequence, A!Panic, A!End, A!Fail, A!Chat, A!fixed
<1>2. KairosTypes /\ LogKept /\ OnTop /\ Tallied
  BY DEF KairosInv
<1>3. /\ Prev' = Prev /\ LogKept' /\ \A o : Told(o)' = Told(o)
  BY <1>1, <1>2, SameLog
<1>4. KairosTypes'
  BY <1>1, <1>2 DEF KairosTypes
<1>5. CASE A!EndOfSequence
  <2>1. pc = "decode" /\ pc' = "parse"
    BY <1>5 DEF A!EndOfSequence
  <2>2. A!Committed(raw) = raw /\ session = Prev \o <<"frame">> \o raw
    BY <1>2, <2>1 DEF OnTop, A!Committed
  <2>3. session' = Played'
    BY <1>1, <1>3, <2>2 DEF Played, A!Committed
  <2>4. OnTop'
    BY <1>1, <1>2, <1>3, <2>1, <2>3 DEF OnTop
  <2>5. Tallied'
    BY <1>1, <1>2, <1>3, <2>1 DEF Tallied, Counted
  <2> QED BY <1>3, <1>4, <2>4, <2>5 DEF KairosInv
<1>6. CASE A!Panic \/ A!End \/ A!Fail
  <2>1. pc' \in {"panicked", "done", "failed"} /\ (driver = "heartbeat" => pc' = "done")
    <3>1. A!Panic => driver # "heartbeat"
      BY <1>2 DEF A!Panic, OnTop
    <3> QED BY <1>6, <3>1 DEF A!Panic, A!End, A!Fail
  <2>2. OnTop'
    BY <1>1, <1>2, <2>1 DEF OnTop
  <2>3. Tallied'
    BY <2>1 DEF Tallied
  <2> QED BY <1>3, <1>4, <2>2, <2>3 DEF KairosInv
<1>7. CASE A!Chat
  <2>1. pc = "tick" /\ pc' = "tick"
    BY <1>7 DEF A!Chat
  <2>2. OnTop'
    BY <1>1, <1>2, <1>3, <2>1 DEF OnTop
  <2>3. Tallied'
    BY <1>1, <1>2, <1>3, <2>1 DEF Tallied, Counted
  <2> QED BY <1>3, <1>4, <2>2, <2>3 DEF KairosInv
<1> QED BY <1>5, <1>6, <1>7

LEMMA KairosStep == ASSUME KairosInv, A!Next PROVE KairosInv'
BY KairosBeat, KairosFrame, KairosReply, KairosDecide, KairosReport, KairosQuiet DEF A!Next, A!Tick

LEMMA KairosInit == A!Init => KairosInv
<1> SUFFICES ASSUME A!Init PROVE KairosInv
  OBVIOUS
<1>1. /\ driver \in {"heartbeat", "alpha"} /\ session = <<"contract">> /\ raw = <<>> /\ decided = "noop"
      /\ log = <<>> /\ counters = A!NewCounters /\ pc = "tick"
      /\ tape \in A!SeqOf(A!Events, MaxTicks)
  BY DEF A!Init, A!Contract
<1>2. tape \in Seq(A!Events)
  BY <1>1 DEF A!SeqOf
<1>3. counters \in [Tally -> Nat] /\ \A x \in Tally : counters[x] = 0
  BY <1>1 DEF A!NewCounters, Tally, Names
<1>4. KairosTypes
  BY <1>1, <1>2, <1>3 DEF KairosTypes, Content, A!Parses, A!Decisions
<1>5. Prev = session /\ DOMAIN log = {} /\ Len(log) = 0
  BY <1>1 DEF Prev, A!Before, A!Contract
<1>6. \A o : Cardinality(Told(o)) = 0
  <2>1. \A o : Told(o) = {}
    BY <1>5 DEF Told
  <2> QED BY <2>1, FS_EmptySet
<1>7. OnTop /\ LogKept
  BY <1>1, <1>5 DEF OnTop, LogKept
<1>8. Tallied
  BY <1>1, <1>3, <1>5, <1>6 DEF Tallied, Counted, Tally
<1> QED BY <1>4, <1>7, <1>8 DEF KairosInv

LEMMA KairosHolds == KairosInv => A!IdleLeavesNoTrace /\ A!IdleFlat /\ A!CountersMatchLog
<1> SUFFICES ASSUME KairosInv PROVE A!IdleLeavesNoTrace /\ A!IdleFlat /\ A!CountersMatchLog
  OBVIOUS
<1>1. A!IdleLeavesNoTrace
  BY DEF KairosInv, OnTop, LogKept, A!IdleLeavesNoTrace, Prev
<1>2. A!IdleFlat
  BY DEF KairosInv, KairosTypes, LogKept, A!IdleFlat, A!Kept
<1>3. A!CountersMatchLog
  <2>1. DOMAIN A!NewCounters \ {"ticks"} = Names
    BY DEF A!NewCounters, Names
  <2> QED BY <2>1, KairosCounts DEF KairosInv, Tallied, Counted, Told, A!CountersMatchLog
<1> QED BY <1>1, <1>2, <1>3

-----------------------------------------------------------------------------
(* The life of a daemon: what the commands know of the processes that live. *)

Commands == {D!Idle} \cup [do : {"write", "term", "remove"}, pid : Pid \cup {D!None}]

LifeTypes ==
  /\ DOMAIN proc = Pid /\ \A p \in D!Live : {"phase", "signalled"} \subseteq DOMAIN proc[p]
  /\ cmd \in [Operator -> Commands] /\ pid_file \in Pid \cup {D!None}

\* A process was told to stop, or the file or a command leads to it.
Led(p) ==
  \/ proc[p].signalled
  \/ pid_file = p /\ \A o \in Operator : cmd[o] = D!Idle
  \/ \E o \in Operator : cmd[o].do \in {"write", "term"} /\ cmd[o].pid = p

\* Unless commands crossed, one at most is under way.
Locating ==
  ~ crossed =>
    /\ \A o, q \in Operator : cmd[o] # D!Idle /\ cmd[q] # D!Idle => o = q
    /\ \A p \in D!Live : Led(p)

LifeInv == LifeTypes /\ Locating

LEMMA CommandIs ==
  ASSUME LifeTypes, NEW o \in Operator
  PROVE  /\ cmd[o] = D!Idle \/ cmd[o] \in [do : {"write", "term", "remove"}, pid : Pid \cup {D!None}]
         /\ cmd[o] = D!Idle <=> cmd[o].do = "idle"
         /\ cmd[o].do # "idle" => cmd[o].pid \in Pid \cup {D!None}
<1>1. cmd[o] = D!Idle \/ cmd[o] \in [do : {"write", "term", "remove"}, pid : Pid \cup {D!None}]
  BY DEF LifeTypes, Commands
<1>2. D!Idle.do = "idle"
  BY DEF D!Idle
<1> QED BY <1>1, <1>2

\* A step of a process ends it, or goes on with the same signal; commands see nothing of it.
Moves(p) ==
  /\ DOMAIN proc' = DOMAIN proc /\ \A q \in Pid : q # p => proc'[q] = proc[q]
  /\ \/ proc'[p].phase = "gone"
     \/ /\ p \in D!Live /\ DOMAIN proc'[p] = DOMAIN proc[p]
        /\ proc'[p].signalled = proc[p].signalled
  /\ cmd' = cmd /\ pid_file' = pid_file /\ crossed' = crossed

LEMMA EndedMoves ==
  ASSUME LifeTypes, NEW p \in Pid, D!Ended(p)
  PROVE  /\ DOMAIN proc' = DOMAIN proc /\ \A q \in Pid : q # p => proc'[q] = proc[q]
         /\ proc'[p].phase = "gone"
BY DEF LifeTypes, D!Ended, D!Gone

LEMMA LiveIs ==
  ASSUME NEW p \in Pid, D!Booting(p) \/ D!Phase(p) \in {"serving", "draining", "leaving"}
  PROVE  p \in D!Live
BY DEF D!Live, D!Booting, D!Phase

LEMMA BootMoves ==
  ASSUME LifeTypes, NEW p \in Pid, D!BootOK(p) \/ D!BootWithout(p) \/ D!BootPanics(p)
  PROVE  Moves(p)
<1>1. p \in D!Live
  BY LiveIs DEF D!BootOK, D!BootWithout, D!BootPanics
<1>2. DOMAIN proc = Pid /\ "signalled" \in DOMAIN proc[p]
  BY <1>1 DEF LifeTypes
<1>3. cmd' = cmd /\ pid_file' = pid_file /\ crossed' = crossed
  BY DEF D!BootOK, D!BootWithout, D!BootPanics
<1>4. CASE D!BootOK(p)
  <2>1. PICK x, y, z : proc' = [proc EXCEPT ![p].parts = x, ![p].left = y, ![p].phase = z]
    BY <1>4 DEF D!BootOK
  <2>2. /\ DOMAIN proc' = DOMAIN proc /\ \A q \in Pid : q # p => proc'[q] = proc[q]
        /\ DOMAIN proc'[p] = DOMAIN proc[p] /\ proc'[p].signalled = proc[p].signalled
    BY <1>2, <2>1
  <2> QED BY <1>1, <1>3, <2>2 DEF Moves
<1>5. CASE D!BootWithout(p)
  <2>1. PICK y : proc' = [proc EXCEPT ![p].left = y]
    BY <1>5 DEF D!BootWithout
  <2>2. /\ DOMAIN proc' = DOMAIN proc /\ \A q \in Pid : q # p => proc'[q] = proc[q]
        /\ DOMAIN proc'[p] = DOMAIN proc[p] /\ proc'[p].signalled = proc[p].signalled
    BY <1>2, <2>1
  <2> QED BY <1>1, <1>3, <2>2 DEF Moves
<1>6. CASE D!BootPanics(p)
  BY <1>3, <1>6, EndedMoves DEF D!BootPanics, Moves
<1> QED BY <1>4, <1>5, <1>6

LEMMA RequestMoves ==
  ASSUME LifeTypes, NEW p \in Pid, NEW r,
         D!Request(p, r) \/ D!ClientLeaves(p, r) \/ D!WorkerEnds(p, r) \/ D!ClientStalls(p) \/ D!ClientReads(p)
  PROVE  Moves(p)
<1>1. p \in D!Live
  <2>1. D!Request(p, r) => D!Phase(p) \in {"serving", "draining", "leaving"}
    BY DEF D!Request
  <2>2. D!Request(p, r) => p \in D!Live
    BY <2>1, LiveIs
  <2> QED BY <2>2 DEF D!ClientLeaves, D!WorkerEnds, D!ClientStalls, D!ClientReads
<1>2. DOMAIN proc = Pid /\ "signalled" \in DOMAIN proc[p]
  BY <1>1 DEF LifeTypes
<1>3. cmd' = cmd /\ pid_file' = pid_file /\ crossed' = crossed
  BY DEF D!Request, D!ClientLeaves, D!WorkerEnds, D!ClientStalls, D!ClientReads
<1>4. \/ \E x, y : proc' = [proc EXCEPT ![p].conn = x, ![p].worker = y]
      \/ \E x, y : proc' = [proc EXCEPT ![p].worker = x, ![p].conn = y]
      \/ \E x, y : proc' = [proc EXCEPT ![p].stalled = x, ![p].conn = y]
      \/ \E x, y : proc' = [proc EXCEPT ![p].conn = x, ![p].stalled = y]
      \/ \E x : proc' = [proc EXCEPT ![p].stalled = x]
  BY DEF D!Request, D!ClientLeaves, D!WorkerEnds, D!ClientStalls, D!ClientReads
<1> DEFINE Same == /\ DOMAIN proc' = DOMAIN proc /\ \A q \in Pid : q # p => proc'[q] = proc[q]
                   /\ DOMAIN proc'[p] = DOMAIN proc[p] /\ proc'[p].signalled = proc[p].signalled
<1>5. Same
  <2>1. ASSUME NEW x, NEW y, proc' = [proc EXCEPT ![p].conn = x, ![p].worker = y] PROVE Same
    BY <1>2, <2>1
  <2>2. ASSUME NEW x, NEW y, proc' = [proc EXCEPT ![p].worker = x, ![p].conn = y] PROVE Same
    BY <1>2, <2>2
  <2>3. ASSUME NEW x, NEW y, proc' = [proc EXCEPT ![p].stalled = x, ![p].conn = y] PROVE Same
    BY <1>2, <2>3
  <2>4. ASSUME NEW x, NEW y, proc' = [proc EXCEPT ![p].conn = x, ![p].stalled = y] PROVE Same
    BY <1>2, <2>4
  <2>5. ASSUME NEW x, proc' = [proc EXCEPT ![p].stalled = x] PROVE Same
    BY <1>2, <2>5
  <2> HIDE DEF Same
  <2> QED BY <1>4, <2>1, <2>2, <2>3, <2>4, <2>5
<1> QED BY <1>1, <1>3, <1>5 DEF Moves

LEMMA LeaveMoves ==
  ASSUME LifeTypes, NEW p \in Pid, D!Drain(p) \/ D!Drained(p)
  PROVE  Moves(p)
<1>1. p \in D!Live
  BY LiveIs DEF D!Drain, D!Drained
<1>2. DOMAIN proc = Pid /\ "signalled" \in DOMAIN proc[p]
  BY <1>1 DEF LifeTypes
<1>3. /\ cmd' = cmd /\ pid_file' = pid_file /\ crossed' = crossed
      /\ \E x : proc' = [proc EXCEPT ![p].phase = x]
  BY DEF D!Drain, D!Drained
<1>4. /\ DOMAIN proc' = DOMAIN proc /\ \A q \in Pid : q # p => proc'[q] = proc[q]
      /\ DOMAIN proc'[p] = DOMAIN proc[p] /\ proc'[p].signalled = proc[p].signalled
  BY <1>2, <1>3
<1> QED BY <1>1, <1>3, <1>4 DEF Moves

LEMMA ProcessMoves ==
  ASSUME LifeTypes, NEW p \in Pid, D!Process(p)
  PROVE  Moves(p)
<1>1. CASE D!Crash(p) \/ D!Exit(p)
  <2>1. D!Ended(p) /\ cmd' = cmd /\ pid_file' = pid_file /\ crossed' = crossed
    BY <1>1 DEF D!Crash, D!Exit
  <2> QED BY <2>1, EndedMoves DEF Moves
<1> QED BY <1>1, BootMoves, RequestMoves, LeaveMoves DEF D!Process, D!Closing

\* Such a step keeps the invariant.
LEMMA MovesKeep ==
  ASSUME LifeInv, NEW p \in Pid, Moves(p)
  PROVE  LifeInv'
<1>0. LifeTypes
  BY DEF LifeInv
<1>1. ASSUME NEW q \in D!Live' PROVE /\ q \in D!Live /\ DOMAIN proc'[q] = DOMAIN proc[q]
                                     /\ proc'[q].signalled = proc[q].signalled
  <2>1. q \in Pid /\ proc'[q].phase # "gone"
    BY <1>1 DEF D!Live, D!Phase
  <2>2. q # p => proc'[q] = proc[q]
    BY <2>1 DEF Moves
  <2> QED BY <2>1, <2>2 DEF Moves, D!Live, D!Phase
<1>2. LifeTypes'
  <2>1. DOMAIN proc' = Pid /\ cmd' = cmd /\ pid_file' = pid_file
    BY <1>0 DEF Moves, LifeTypes
  <2> QED BY <1>0, <1>1, <2>1 DEF LifeTypes, D!None, Commands, D!Idle
<1>3. Locating'
  <2>1. cmd' = cmd /\ pid_file' = pid_file /\ crossed' = crossed
    BY DEF Moves
  <2>2. ASSUME NEW q \in D!Live', Led(q) PROVE Led(q)'
    BY <1>1, <2>1, <2>2, Zenon DEF Led, D!Idle
  <2> QED BY <1>1, <2>1, <2>2 DEF LifeInv, Locating, D!Idle
<1> QED BY <1>2, <1>3 DEF LifeInv

-----------------------------------------------------------------------------
(* The commands. *)

LEMMA CommandSet ==
  ASSUME LifeTypes, NEW o \in Operator, NEW d \in Commands, cmd' = [cmd EXCEPT ![o] = d]
  PROVE  /\ cmd' \in [Operator -> Commands] /\ cmd'[o] = d
         /\ \A q \in Operator : q # o => cmd'[q] = cmd[q]
BY DEF LifeTypes

LEMMA SpawnKeeps ==
  ASSUME LifeInv, NEW o \in Operator, NEW p \in Pid, NEW c \in Config, D!Spawn(o, p, c)
  PROVE  LifeInv'
<1>0. LifeTypes
  BY DEF LifeInv
<1>1. PICK w : w = [phase |-> "boot", left |-> D!Boot(c), parts |-> {}, worker |-> {}, conn |-> {},
                    stalled |-> {}, signalled |-> FALSE]
  OBVIOUS
<1>2. PICK d : d = [do |-> "write", pid |-> p]
  OBVIOUS
<1>3. /\ proc' = [proc EXCEPT ![p] = w] /\ cmd' = [cmd EXCEPT ![o] = d] /\ pid_file' = pid_file
      /\ crossed' = ~ (D!Alone(o) /\ \A q \in D!Live : proc[q].signalled)
      /\ p \notin D!Live /\ cmd[o] = D!Idle
  BY <1>1, <1>2 DEF D!Spawn
<1>4. d \in Commands /\ d.do = "write" /\ d.pid = p
  BY <1>2 DEF Commands
<1>5. /\ cmd' \in [Operator -> Commands] /\ cmd'[o] = d
      /\ \A q \in Operator : q # o => cmd'[q] = cmd[q]
  BY <1>0, <1>3, <1>4, CommandSet
<1>6. /\ DOMAIN proc' = Pid /\ proc'[p] = w /\ \A q \in Pid : q # p => proc'[q] = proc[q]
  BY <1>0, <1>3 DEF LifeTypes
<1>7. ASSUME NEW q \in D!Live' PROVE q = p \/ (q \in D!Live /\ proc'[q] = proc[q])
  BY <1>6, <1>7 DEF D!Live, D!Phase
<1>8. LifeTypes'
  <2>1. {"phase", "signalled"} \subseteq DOMAIN w
    BY <1>1
  <2>2. \A q \in D!Live' : {"phase", "signalled"} \subseteq DOMAIN proc'[q]
    BY <1>0, <1>6, <1>7, <2>1 DEF LifeTypes
  <2> QED BY <1>0, <1>3, <1>5, <1>6, <2>2 DEF LifeTypes, D!None, Commands, D!Idle
<1>9. Locating'
  <2> SUFFICES ASSUME D!Alone(o), \A q \in D!Live : proc[q].signalled
               PROVE  /\ \A q, r \in Operator : cmd'[q] # D!Idle /\ cmd'[r] # D!Idle => q = r
                      /\ \A q \in D!Live' : Led(q)'
    BY <1>3 DEF Locating, D!Idle
  <2>1. \A q \in Operator : q # o => cmd'[q] = D!Idle
    BY <1>5 DEF D!Alone
  <2>2. ASSUME NEW q \in D!Live' PROVE Led(q)'
    <3>1. CASE q = p
      BY <1>4, <1>5, <3>1 DEF Led
    <3>2. CASE q \in D!Live /\ proc'[q] = proc[q]
      BY <3>2 DEF Led
    <3> QED BY <1>7, <3>1, <3>2
  <2> QED BY <2>1, <2>2
<1> QED BY <1>8, <1>9 DEF LifeInv

\* A command goes on and leaves the processes as they are.
LEMMA QuietCommand ==
  ASSUME LifeInv, NEW o \in Operator, proc' = proc,
         NEW d \in Commands, cmd' = [cmd EXCEPT ![o] = d], pid_file' \in Pid \cup {D!None},
         ~ crossed' => ~ crossed /\ (cmd[o] # D!Idle \/ D!Alone(o)),
         \A p \in D!Live : Led(p) /\ (\A q \in Operator : q # o => cmd[q] = D!Idle) =>
           \/ proc[p].signalled
           \/ pid_file' = p /\ d = D!Idle
           \/ d.do = "term" /\ d.pid = p
  PROVE  LifeInv'
<1>0. LifeTypes
  BY DEF LifeInv
<1>1. /\ cmd' \in [Operator -> Commands] /\ cmd'[o] = d
      /\ \A q \in Operator : q # o => cmd'[q] = cmd[q]
  BY <1>0, CommandSet
<1>2. D!Live' = D!Live
  BY DEF D!Live, D!Phase
<1>3. LifeTypes'
  BY <1>0, <1>1, <1>2 DEF LifeTypes, D!None, Commands, D!Idle
<1>4. Locating'
  <2> SUFFICES ASSUME ~ crossed'
               PROVE  /\ \A q, r \in Operator : cmd'[q] # D!Idle /\ cmd'[r] # D!Idle => q = r
                      /\ \A p \in D!Live : Led(p)'
    BY <1>2 DEF Locating, D!Idle
  <2>1. ~ crossed /\ (cmd[o] # D!Idle \/ D!Alone(o))
    OBVIOUS
  <2>2. \A q \in Operator : q # o => cmd[q] = D!Idle
    BY <2>1 DEF D!Alone, LifeInv, Locating
  <2>3. \A q, r \in Operator : cmd'[q] # D!Idle /\ cmd'[r] # D!Idle => q = r
    BY <1>1, <2>2
  <2>4. ASSUME NEW p \in D!Live PROVE Led(p)'
    <3>1. \/ proc[p].signalled
          \/ pid_file' = p /\ d = D!Idle
          \/ d.do = "term" /\ d.pid = p
      BY <2>1, <2>2 DEF LifeInv, Locating
    <3>2. CASE proc[p].signalled
      BY <3>2 DEF Led
    <3>3. CASE pid_file' = p /\ d = D!Idle
      <4>1. \A q \in Operator : cmd'[q] = D!Idle
        BY <1>1, <2>2, <3>3
      <4> QED BY <3>3, <4>1 DEF Led, D!Idle
    <3>4. CASE d.do = "term" /\ d.pid = p
      <4>1. cmd'[o].do \in {"write", "term"} /\ cmd'[o].pid = p
        BY <1>1, <3>4
      <4> QED BY <4>1 DEF Led
    <3> QED BY <3>1, <3>2, <3>3, <3>4
  <2> QED BY <2>3, <2>4
<1> QED BY <1>3, <1>4 DEF LifeInv

\* Where the processes are led from when one command alone may be under way.
LEMMA OneCommand ==
  ASSUME LifeTypes, NEW o \in Operator, NEW p, Led(p), \A q \in Operator : q # o => cmd[q] = D!Idle
  PROVE  \/ proc[p].signalled
         \/ pid_file = p /\ cmd[o] = D!Idle
         \/ cmd[o].do \in {"write", "term"} /\ cmd[o].pid = p
<1>1. \A q \in Operator : q # o => cmd[q].do = "idle"
  BY CommandIs
<1> QED BY <1>1 DEF Led

LEMMA FileCommands ==
  ASSUME LifeInv, NEW o \in Operator, D!WritePid(o) \/ D!ReadPid(o) \/ D!RemovePid(o)
  PROVE  LifeInv'
<1>0. LifeTypes /\ D!Idle \in Commands
  BY DEF LifeInv, Commands
<1>1. CASE D!WritePid(o)
  <2>1. /\ cmd[o].do = "write" /\ pid_file' = cmd[o].pid /\ cmd' = [cmd EXCEPT ![o] = D!Idle]
        /\ proc' = proc /\ crossed' = crossed
    BY <1>1 DEF D!WritePid
  <2>2. pid_file' \in Pid \cup {D!None} /\ cmd[o] # D!Idle
    BY <1>0, <2>1, CommandIs
  <2>3. \A p \in D!Live : Led(p) /\ (\A q \in Operator : q # o => cmd[q] = D!Idle) =>
          proc[p].signalled \/ pid_file' = p
    BY <1>0, <2>1, <2>2, OneCommand
  <2> QED BY <1>0, <2>1, <2>2, <2>3, QuietCommand
<1>2. CASE D!RemovePid(o)
  <2>1. /\ cmd[o].do = "remove" /\ pid_file' = D!None /\ cmd' = [cmd EXCEPT ![o] = D!Idle]
        /\ proc' = proc /\ crossed' = crossed
    BY <1>2 DEF D!RemovePid
  <2>2. pid_file' \in Pid \cup {D!None} /\ cmd[o] # D!Idle
    BY <1>0, <2>1, CommandIs
  <2>3. \A p \in D!Live : Led(p) /\ (\A q \in Operator : q # o => cmd[q] = D!Idle) =>
          proc[p].signalled
    BY <1>0, <2>1, <2>2, OneCommand
  <2> QED BY <1>0, <2>1, <2>2, <2>3, QuietCommand
<1>3. CASE D!ReadPid(o)
  <2>0. PICK d : d = [do |-> "term", pid |-> pid_file]
    OBVIOUS
  <2>1. /\ cmd[o] = D!Idle /\ pid_file' = pid_file /\ cmd' = [cmd EXCEPT ![o] = d]
        /\ proc' = proc /\ crossed' = (crossed \/ ~ D!Alone(o))
    BY <1>3, <2>0 DEF D!ReadPid
  <2>2. pid_file' \in Pid \cup {D!None} /\ cmd[o].do = "idle"
    BY <1>0, <2>1, CommandIs DEF LifeTypes, D!None
  <2>3. d \in Commands /\ d.do = "term" /\ d.pid = pid_file
    BY <2>0, <2>1, <2>2 DEF Commands
  <2>4. \A p \in D!Live : Led(p) /\ (\A q \in Operator : q # o => cmd[q] = D!Idle) =>
          proc[p].signalled \/ d.pid = p
    BY <1>0, <2>2, <2>3, OneCommand
  <2>5. ~ crossed' => ~ crossed /\ D!Alone(o)
    BY <2>1
  <2> QED BY <2>1, <2>2, <2>3, <2>4, <2>5, QuietCommand
<1> QED BY <1>1, <1>2, <1>3

\* A signal reaches a process that serves, ends one that boots, or finds none.
LEMMA TermKeeps ==
  ASSUME LifeInv, NEW o \in Operator, D!SendTerm(o)
  PROVE  LifeInv'
<1>0. LifeTypes
  BY DEF LifeInv
<1>1. /\ cmd[o].do = "term" /\ pid_file' = pid_file /\ cmd' = [cmd EXCEPT ![o].do = "remove"]
      /\ crossed' = crossed
  BY DEF D!SendTerm
<1>2. PICK p : p = cmd[o].pid
  OBVIOUS
<1>3. p \in Pid \cup {D!None} /\ cmd[o] # D!Idle
  BY <1>0, <1>1, <1>2, CommandIs
<1>4. PICK d : d = [do |-> "remove", pid |-> p]
  OBVIOUS
<1>5. d \in Commands /\ d.do = "remove" /\ cmd' = [cmd EXCEPT ![o] = d]
  <2>1. cmd[o] \in [do : {"write", "term", "remove"}, pid : Pid \cup {D!None}]
    BY <1>0, <1>3, CommandIs
  <2>2. [cmd[o] EXCEPT !.do = "remove"] = d
    BY <1>2, <1>4, <2>1
  <2>3. cmd' = [cmd EXCEPT ![o] = [cmd[o] EXCEPT !.do = "remove"]]
    BY <1>0, <1>1 DEF LifeTypes
  <2>4. d \in Commands /\ d.do = "remove"
    BY <1>3, <1>4 DEF Commands
  <2> QED BY <2>2, <2>3, <2>4
<1>6. /\ cmd' \in [Operator -> Commands] /\ cmd'[o] = d
      /\ \A q \in Operator : q # o => cmd'[q] = cmd[q]
  BY <1>0, <1>5, CommandSet
<1>7. \A q \in D!Live : Led(q) /\ (\A x \in Operator : x # o => cmd[x] = D!Idle) =>
        proc[q].signalled \/ q = p
  BY <1>0, <1>1, <1>2, <1>3, OneCommand
<1>8. CASE p \notin D!Live /\ proc' = proc
  <2>1. \A q \in D!Live : Led(q) /\ (\A x \in Operator : x # o => cmd[x] = D!Idle) => proc[q].signalled
    BY <1>7, <1>8
  <2>2. pid_file' \in Pid \cup {D!None}
    BY <1>0, <1>1 DEF LifeTypes
  <2> QED BY <1>1, <1>3, <1>5, <1>8, <2>1, <2>2, QuietCommand
<1>9. ASSUME p \in D!Live, DOMAIN proc' = Pid, \A q \in Pid : q # p => proc'[q] = proc[q],
             \/ proc'[p].phase = "gone"
             \/ proc'[p].signalled = TRUE /\ DOMAIN proc'[p] = DOMAIN proc[p]
      PROVE  LifeInv'
  <2>1. ASSUME NEW q \in D!Live' PROVE /\ q \in D!Live /\ DOMAIN proc'[q] = DOMAIN proc[q]
                                       /\ IF q = p THEN proc'[q].signalled ELSE proc'[q] = proc[q]
    <3>1. q \in Pid /\ proc'[q].phase # "gone"
      BY <2>1 DEF D!Live, D!Phase
    <3>2. q = p => proc'[q].signalled
      BY <1>9, <3>1
    <3> QED BY <1>9, <3>1, <3>2 DEF D!Live, D!Phase
  <2>2. LifeTypes'
    BY <1>0, <1>1, <1>6, <1>9, <2>1 DEF LifeTypes, D!None, Commands, D!Idle
  <2>3. Locating'
    <3> SUFFICES ASSUME ~ crossed
                 PROVE  /\ \A q, r \in Operator : cmd'[q] # D!Idle /\ cmd'[r] # D!Idle => q = r
                        /\ \A q \in D!Live' : proc'[q].signalled
      BY <1>1 DEF Locating, Led, D!Idle
    <3>1. \A x \in Operator : x # o => cmd[x] = D!Idle
      BY <1>3 DEF LifeInv, Locating
    <3>2. \A q \in D!Live : proc[q].signalled \/ q = p
      BY <1>7, <3>1 DEF LifeInv, Locating
    <3>3. \A q \in D!Live' : proc'[q].signalled
      BY <2>1, <3>2
    <3>4. \A q, r \in Operator : cmd'[q] # D!Idle /\ cmd'[r] # D!Idle => q = r
      BY <1>6, <3>1
    <3> QED BY <3>3, <3>4
  <2> QED BY <2>2, <2>3 DEF LifeInv
<1>10. CASE p \in D!Live /\ D!Ended(p)
  <2>1. p \in Pid
    BY <1>10 DEF D!Live
  <2> QED BY <1>0, <1>9, <1>10, <2>1, EndedMoves DEF LifeTypes
<1>11. CASE p \in D!Live /\ proc' = [proc EXCEPT ![p].signalled = TRUE]
  <2>1. p \in Pid /\ DOMAIN proc = Pid /\ "signalled" \in DOMAIN proc[p]
    BY <1>0, <1>11 DEF D!Live, LifeTypes
  <2>2. /\ DOMAIN proc' = Pid /\ \A q \in Pid : q # p => proc'[q] = proc[q]
        /\ proc'[p].signalled = TRUE /\ DOMAIN proc'[p] = DOMAIN proc[p]
    BY <1>11, <2>1
  <2> QED BY <1>9, <1>11, <2>2
<1> QED BY <1>2, <1>8, <1>10, <1>11 DEF D!SendTerm

LEMMA LifeStep == ASSUME LifeInv, D!Next PROVE LifeInv'
<1>1. ASSUME NEW o \in Operator, D!Command(o) PROVE LifeInv'
  BY <1>1, SpawnKeeps, FileCommands, TermKeeps DEF D!Command
<1>2. ASSUME NEW p \in Pid, D!Process(p) PROVE LifeInv'
  BY <1>2, ProcessMoves, MovesKeep DEF LifeInv
<1> QED BY <1>1, <1>2 DEF D!Next

LEMMA LifeInit == ASSUME D!Init PROVE LifeInv
<1>1. pid_file = D!None /\ cmd = [o \in Operator |-> D!Idle] /\ proc = [p \in Pid |-> D!Gone]
  BY DEF D!Init
<1>2. D!Live = {}
  BY <1>1 DEF D!Live, D!Phase, D!Gone
<1>3. \A o \in Operator : cmd[o] = D!Idle
  BY <1>1
<1> QED BY <1>1, <1>2, <1>3 DEF LifeInv, LifeTypes, Commands, Locating

LEMMA LifeHolds == ASSUME LifeInv PROVE D!Locatable
<1> SUFFICES ASSUME ~ crossed, \A o \in Operator : cmd[o] = D!Idle, NEW p \in D!Live
             PROVE  pid_file = p \/ proc[p].signalled
  BY DEF D!Locatable
<1>1. Led(p) /\ \A o \in Operator : cmd[o].do = "idle"
  BY CommandIs DEF LifeInv, Locating
<1> QED BY <1>1 DEF Led

-----------------------------------------------------------------------------
(* The one-shot programs on a K/V handle. *)

Sym == T!Tokens \cup {"prompt", "result", "text"} \cup UNION {{f[i] : i \in DOMAIN f} : f \in Frame}

LEMMA FrameIs == ASSUME T!ToolsAssumption PROVE \A f \in Frame : f \in Seq(Sym) /\ Len(f) \in Nat
<1> SUFFICES ASSUME NEW f \in Frame PROVE f \in Seq(Sym) /\ Len(f) \in Nat
  OBVIOUS
<1>1. f \in Seq({f[i] : i \in DOMAIN f})
  BY DEF T!ToolsAssumption
<1>2. {f[i] : i \in DOMAIN f} \subseteq Sym
  BY DEF Sym
<1>3. f \in [1 .. Len(f) -> Sym] /\ Len(f) \in Nat
  BY <1>1, <1>2
<1> QED BY <1>3

\* The longest common prefix exists.
LEMMA CommonIs ==
  ASSUME NEW X, NEW s \in Seq(X), NEW t \in Seq(X)
  PROVE  T!Common(s, t) \in 0 .. Len(s)
<1> DEFINE Agree(n) == n <= Len(t) /\ SubSeq(s, 1, n) = SubSeq(t, 1, n)
           Ns == {n \in 0 .. Len(s) : Agree(n)}
<1>0. Len(s) \in Nat /\ Len(t) \in Nat
  OBVIOUS
<1>1. 0 \in Ns
  BY <1>0
<1>2. \E n \in Ns : \A k \in Ns : k <= n
  <2>1. Ns \subseteq 0 .. Len(s)
    OBVIOUS
  <2>2. IsFiniteSet(Ns)
    <3>1. 0 \in Int /\ Len(s) \in Int
      BY <1>0
    <3>2. IsFiniteSet(0 .. Len(s))
      BY <3>1, FS_Interval
    <3> QED BY <2>1, <3>2, FS_Subset, Zenon
  <2>3. Ns \subseteq Nat /\ Ns # {}
    BY <1>0, <1>1, <2>1
  <2> HIDE DEF Ns
  <2> QED BY <2>2, <2>3, GreatestOf
<1>3. PICK n \in Ns : \A k \in Ns : k <= n
  BY <1>2
<1>4. n \in Nat /\ n <= Len(s) /\ Agree(n)
  BY <1>0
<1>5. n = Len(s) \/ n = Len(t) \/ s[n + 1] # t[n + 1]
  <2> SUFFICES ASSUME n # Len(s), n # Len(t), s[n + 1] = t[n + 1] PROVE FALSE
    OBVIOUS
  <2>1. n < Len(s) /\ n < Len(t)
    BY <1>0, <1>4
  <2>2. SubSeq(s, 1, n + 1) = Append(SubSeq(s, 1, n), s[n + 1])
    BY <1>4, <2>1, OneMore
  <2>3. SubSeq(t, 1, n + 1) = Append(SubSeq(t, 1, n), t[n + 1])
    BY <1>4, <2>1, OneMore
  <2>4. SubSeq(s, 1, n + 1) = SubSeq(t, 1, n + 1)
    BY <1>4, <2>2, <2>3, Zenon
  <2>5. n + 1 \in Ns
    BY <1>0, <1>4, <2>1, <2>4
  <2> QED BY <1>3, <1>4, <2>5
<1> DEFINE Longest(k) == /\ k <= Len(t) /\ SubSeq(s, 1, k) = SubSeq(t, 1, k)
                         /\ k = Len(s) \/ k = Len(t) \/ s[k + 1] # t[k + 1]
<1>6. \E k \in 0 .. Len(s) : Longest(k)
  BY <1>0, <1>4, <1>5
<1>7. T!Common(s, t) = CHOOSE k \in 0 .. Len(s) : Longest(k)
  BY DEF T!Common
<1> HIDE DEF Ns, Longest
<1> QED BY <1>6, <1>7

(***************************************************************************)
(* The tape programs: what the cache holds of the event that is worked on. *)
(***************************************************************************)
SayAts   == {"baseline", "prompt", "say", "round", "verify"}
TapAts   == {"tap", "probe", "wake"}
RollAts  == {"roll", "dump"}

ToolTypes ==
  /\ program \in T!Tools
  /\ todo \in Seq(Frame) /\ cache \in Seq(Sym)
  /\ prefix \in Nat /\ (program # "heartbeat" => prefix = 0)
  /\ fault \in BOOLEAN /\ drafting \in BOOLEAN

\* Which program is where.
Where ==
  /\ at \in SayAts => program \in T!Greedies
  /\ at \in {"contract", "event"} \cup TapAts \cup RollAts => program \notin T!Greedies
  /\ at = "contract" => program = "heartbeat" /\ prefix <= Len(Head(todo))
  /\ at \in {"contract"} \cup TapAts \cup RollAts => todo # <<>>
  /\ at \in TapAts => program # "rollout"
  /\ at \in RollAts => program = "rollout"
  /\ at = "wake" => program = "oracle"

\* While no call has failed, the cache holds the prefix that was prefilled
\* once and the delta of one frame.
Steady == program = "heartbeat" => ~ fault
Holds(c, f, n) == prefix <= Len(c) /\ c = SubSeq(c, 1, prefix) \o SubSeq(f, prefix + 1, n)
Taps ==
  /\ at = "event" /\ Steady => Len(T!Held) = prefix
  /\ at \in {"tap", "probe"} => prefix + 2 <= Len(Head(todo))
  /\ at = "tap" /\ Steady => Holds(cache, Head(todo), Len(Head(todo)) - 1)
  /\ at = "probe" => tap = cache
  /\ at = "probe" /\ Steady => Holds(cache, Head(todo), Len(Head(todo)))

TapeInv == ToolTypes /\ Where /\ Taps

LEMMA HeadIs ==
  ASSUME T!ToolsAssumption, todo \in Seq(Frame), todo # <<>>
  PROVE  /\ Head(todo) \in Frame /\ Tail(todo) \in Seq(Frame) /\ Head(todo) = todo[1]
         /\ Head(todo) \in Seq(Sym) /\ Len(Head(todo)) \in Nat
         /\ T!Last(Head(todo)) = Head(todo)[Len(Head(todo))]
<1>1. Head(todo) \in Frame /\ Tail(todo) \in Seq(Frame) /\ Head(todo) = todo[1]
  OBVIOUS
<1> QED BY <1>1, FrameIs DEF T!Last

\* What is held when an event begins is a sequence of tokens.
LEMMA HeldIs == ASSUME ToolTypes PROVE T!Held \in Seq(Sym) /\ Len(T!Held) \in Nat
BY DEF ToolTypes, T!Held

\* The last token of an event completes its frame.
LEMMA TapEnds ==
  ASSUME NEW f \in Seq(Sym), cache \in Seq(Sym), prefix \in Nat, prefix + 2 <= Len(f),
         NEW d, d = Append(cache, f[Len(f)])
  PROVE  /\ d \in Seq(Sym)
         /\ Holds(cache, f, Len(f) - 1) => Holds(d, f, Len(f)) /\ Len(d) = Len(f)
<1>0. f[Len(f)] \in Sym /\ Len(f) \in Nat /\ Len(cache) \in Nat
  OBVIOUS
<1>1. d \in Seq(Sym) /\ Len(d) = Len(cache) + 1
  BY <1>0
<1>2. ASSUME Holds(cache, f, Len(f) - 1)
      PROVE  Holds(d, f, Len(f)) /\ Len(d) = Len(f)
  <2>1. prefix <= Len(cache)
    BY <1>2 DEF Holds
  <2>2. PICK c : c = SubSeq(cache, 1, prefix)
    OBVIOUS
  <2>3. c \in Seq(Sym) /\ Len(c) = prefix
    BY <2>1, <2>2
  <2>4. cache = c \o SubSeq(f, prefix + 1, Len(f) - 1)
    BY <1>2, <2>2, Zenon DEF Holds
  <2>10. \A s : s = c \o SubSeq(f, prefix + 1, Len(f) - 1) =>
                 /\ Append(s, f[Len(f)]) = c \o SubSeq(f, prefix + 1, Len(f))
                 /\ Len(s) = Len(c) + Len(f) - 1 - prefix
                 /\ Len(c \o SubSeq(f, prefix + 1, Len(f))) = Len(c) + Len(f) - prefix
    <3>1. c \in Seq(Sym) /\ prefix \in Nat /\ f \in Seq(Sym) /\ prefix + 2 <= Len(f)
      BY <2>3
    <3> QED BY <3>1, DeltaEnds, Zenon
  <2>5. /\ Append(cache, f[Len(f)]) = c \o SubSeq(f, prefix + 1, Len(f))
        /\ Len(c \o SubSeq(f, prefix + 1, Len(f))) = Len(c) + Len(f) - prefix
    BY <2>4, <2>10, Zenon
  <2>6. d = c \o SubSeq(f, prefix + 1, Len(f))
    BY <2>5, Zenon
  <2>7. Len(d) = Len(f)
    BY <1>0, <2>3, <2>5, <2>6
  <2>8. SubSeq(d, 1, prefix) = c
    BY <1>0, <2>1, <2>2, PrefixOfAppended, Zenon
  <2>9. prefix <= Len(d)
    BY <1>0, <2>7
  <2> QED BY <2>6, <2>7, <2>8, <2>9, Zenon DEF Holds
<1> QED BY <1>1, <1>2

\* The contract, once; an empty tape ends; an error ends.
LEMMA TapeEdges ==
  ASSUME T!ToolsAssumption, TapeInv, T!Contract \/ T!EndTape \/ T!Fail
  PROVE  TapeInv'
<1>1. CASE T!Contract
  <2>1. /\ at = "contract" /\ at' = "event" /\ cache' = SubSeq(todo[1], 1, prefix)
        /\ UNCHANGED <<program, prefix, drafting, todo, tap, fault>>
    BY <1>1 DEF T!Contract, T!fixed
  <2>2. /\ program = "heartbeat" /\ todo # <<>> /\ prefix <= Len(Head(todo))
        /\ todo \in Seq(Frame) /\ prefix \in Nat
    BY <2>1 DEF TapeInv, Where, ToolTypes
  <2>3. PICK f \in Seq(Sym) : f = Head(todo) /\ f = todo[1] /\ Len(f) \in Nat
    BY <2>2, HeadIs
  <2>4. cache' \in Seq(Sym) /\ Len(cache') = prefix
    BY <2>1, <2>2, <2>3
  <2>5. ToolTypes'
    BY <2>1, <2>4 DEF TapeInv, ToolTypes
  <2>6. Where'
    BY <2>1, <2>2 DEF TapeInv, Where, SayAts, TapAts, RollAts, T!Greedies
  <2>7. Taps'
    BY <2>1, <2>2, <2>4 DEF Taps, T!Held
  <2> QED BY <2>5, <2>6, <2>7 DEF TapeInv
<1>2. CASE T!EndTape \/ T!Fail
  <2>1. /\ at' \in {"done", "failed"}
        /\ UNCHANGED <<program, prefix, drafting, todo, cache, tap, fault>>
    BY <1>2 DEF T!EndTape, T!Fail, T!fixed
  <2> QED BY <2>1 DEF TapeInv, ToolTypes, Where, Taps, SayAts, TapAts, RollAts
<1> QED BY <1>1, <1>2

\* A step that takes the next event of the tape and does not hold what is
\* left, or holds the prefix alone.
LEMMA NextBegins ==
  ASSUME T!ToolsAssumption, TapeInv, todo # <<>>, T!NextEvent, program \notin T!Greedies,
         UNCHANGED <<program, prefix, drafting>>, cache' \in Seq(Sym), fault' \in BOOLEAN,
         program = "heartbeat" /\ ~ fault' => Len(cache') = prefix
  PROVE  TapeInv'
<1>1. todo' \in Seq(Frame) /\ at' = "event"
  BY HeadIs DEF TapeInv, ToolTypes, T!NextEvent
<1>2. ToolTypes'
  BY <1>1 DEF TapeInv, ToolTypes
<1>3. Where'
  BY <1>1 DEF Where, SayAts, TapAts, RollAts
<1>4. Taps'
  <2>1. program # "heartbeat" => prefix = 0
    BY DEF TapeInv, ToolTypes
  <2>2. Len(<<>>) = 0
    OBVIOUS
  <2>3. Steady' => Len(T!Held') = prefix
    BY <2>1, <2>2 DEF Steady, T!Held
  <2> QED BY <1>1, <2>3 DEF Taps
<1> QED BY <1>2, <1>3, <1>4 DEF TapeInv

LEMMA PrefillStep ==
  ASSUME T!ToolsAssumption, TapeInv, T!Prefill
  PROVE  TapeInv'
<1>1. /\ at = "event" /\ todo # <<>> /\ T!Feed(Head(todo)) # <<>>
      /\ cache' = T!Held \o T!Feed(Head(todo))
      /\ UNCHANGED <<program, prefix, drafting, todo, tap, fault>>
      /\ program = "rollout" => at' \in {"roll", "dump"}
      /\ program # "rollout" => at' = "tap"
  BY DEF T!Prefill, T!fixed
<1>2. PICK f \in Seq(Sym) : f = Head(todo) /\ Len(f) \in Nat
  BY <1>1, HeadIs DEF TapeInv, ToolTypes
<1>3. prefix \in Nat
  BY DEF TapeInv, ToolTypes
<1>4. PICK d : d = SubSeq(f, prefix + 1, Len(f) - 1)
  OBVIOUS
<1>5. d \in Seq(Sym) /\ prefix + 2 <= Len(f)
  BY <1>1, <1>2, <1>3, <1>4, FeedIs DEF T!Feed
<1>6. T!Held \in Seq(Sym) /\ Len(T!Held) \in Nat
  BY HeldIs DEF TapeInv
<1>7. PICK h \in Seq(Sym) : h = T!Held
  BY <1>6
<1>8. cache' = h \o d
  BY <1>1, <1>2, <1>4, <1>7, Zenon DEF T!Feed
<1>9. cache' \in Seq(Sym) /\ Len(cache') = Len(h) + Len(d) /\ Len(h) \in Nat /\ Len(d) \in Nat
  BY <1>5, <1>7, <1>8
<1>10. ToolTypes'
  BY <1>1, <1>9 DEF TapeInv, ToolTypes
<1>11. program \notin T!Greedies
  BY <1>1 DEF TapeInv, Where
<1>12. Where'
  BY <1>1, <1>11 DEF Where, SayAts, TapAts, RollAts
<1>13. ASSUME Steady PROVE Holds(cache', f, Len(f) - 1)
  <2>1. Len(h) = prefix
    BY <1>1, <1>7, <1>13 DEF TapeInv, Taps
  <2>2. SubSeq(h \o d, 1, Len(h)) = h
    <3>1. SubSeq(h \o d, 1, Len(h)) = SubSeq(h, 1, Len(h))
      BY <1>5, <1>7, <1>9, PrefixOf
    <3>2. SubSeq(h, 1, Len(h)) = h
      BY <1>7, SubSeqFull
    <3> QED BY <3>1, <3>2, Zenon
  <2>3. prefix <= Len(cache')
    BY <1>9, <2>1
  <2>4. SubSeq(cache', 1, prefix) = h
    BY <1>8, <2>1, <2>2, Zenon
  <2> QED BY <1>4, <1>8, <2>3, <2>4, Zenon DEF Holds
<1>14. Taps'
  <2>1. Steady' => Steady
    BY <1>1 DEF Steady
  <2>2. (Holds(cache, Head(todo), Len(Head(todo)) - 1))' = Holds(cache', f, Len(f) - 1)
    BY <1>1, <1>2 DEF Holds
  <2>3. at' \in {"tap", "roll", "dump"}
    BY <1>1
  <2> QED BY <1>1, <1>2, <1>5, <1>13, <2>1, <2>2, <2>3 DEF Taps
<1> QED BY <1>10, <1>12, <1>14 DEF TapeInv

LEMMA PassOverStep ==
  ASSUME T!ToolsAssumption, TapeInv, T!PassOver
  PROVE  TapeInv'
<1>1. PICK n \in 0 .. Len(T!Feed(Head(todo))) :
        /\ cache' = T!Held \o SubSeq(T!Feed(Head(todo)), 1, n)
        /\ fault' = (fault \/ n > 0)
  BY DEF T!PassOver
<1>2. /\ at = "event" /\ todo # <<>> /\ T!NextEvent
      /\ UNCHANGED <<program, prefix, drafting>>
  BY DEF T!PassOver, T!fixed
<1>3. PICK f \in Seq(Sym) : f = Head(todo)
  BY <1>2, HeadIs DEF TapeInv, ToolTypes
<1>4. T!Feed(f) \in Seq(Sym)
  BY FeedIs DEF TapeInv, ToolTypes, T!Feed
<1>5. PICK d \in Seq(Sym) : d = T!Feed(f)
  BY <1>4
<1>6. n \in Nat /\ n <= Len(d) /\ cache' = T!Held \o SubSeq(d, 1, n)
  <2>1. n \in 0 .. Len(d) /\ Len(d) \in Nat
    BY <1>1, <1>3, <1>5
  <2> QED BY <1>1, <1>3, <1>5, <2>1
<1>7. PICK h \in Seq(Sym) : h = T!Held
  BY HeldIs DEF TapeInv
<1>8. SubSeq(d, 1, n) \in Seq(Sym) /\ Len(SubSeq(d, 1, n)) = n
  BY <1>5, <1>6
<1>9. cache' \in Seq(Sym) /\ Len(cache') = Len(h) + n /\ Len(h) \in Nat
  BY <1>6, <1>7, <1>8
<1>10. fault' \in BOOLEAN /\ (~ fault' => ~ fault /\ n = 0)
  <2>1. fault \in BOOLEAN
    BY DEF TapeInv, ToolTypes
  <2>2. ~ (n > 0) => n = 0
    BY <1>6
  <2>3. fault' = (fault \/ n > 0)
    BY <1>1
  <2> QED BY <2>1, <2>2, <2>3, Zenon
<1>11. ASSUME program = "heartbeat", ~ fault' PROVE Len(cache') = prefix
  <2>1. Len(h) = prefix
    BY <1>2, <1>7, <1>10, <1>11 DEF TapeInv, Taps, Steady
  <2> QED BY <1>9, <1>10, <1>11, <2>1
<1>12. program \notin T!Greedies
  BY <1>2 DEF TapeInv, Where
<1> QED BY <1>2, <1>9, <1>10, <1>11, <1>12, NextBegins

LEMMA TapStep ==
  ASSUME T!ToolsAssumption, TapeInv, T!Tap
  PROVE  TapeInv'
<1>1. /\ at = "tap" /\ at' = "probe" /\ tap' = cache'
      /\ cache' = Append(cache, T!Last(Head(todo)))
      /\ UNCHANGED <<program, prefix, drafting, todo, fault>>
  BY DEF T!Tap, T!fixed
<1>2. todo # <<>> /\ todo \in Seq(Frame)
  BY <1>1 DEF TapeInv, Where, ToolTypes, TapAts
<1>3. PICK f \in Seq(Sym) : f = Head(todo) /\ T!Last(Head(todo)) = f[Len(f)]
  BY <1>2, HeadIs
<1>4. /\ prefix + 2 <= Len(f) /\ prefix \in Nat /\ cache \in Seq(Sym)
      /\ cache' = Append(cache, f[Len(f)])
  BY <1>1, <1>3 DEF TapeInv, Taps, ToolTypes
<1>5. /\ cache' \in Seq(Sym)
      /\ Holds(cache, f, Len(f) - 1) => Holds(cache', f, Len(f)) /\ Len(cache') = Len(f)
  BY <1>4, TapEnds
<1>6. ToolTypes'
  BY <1>1, <1>5 DEF TapeInv, ToolTypes
<1>7. Where'
  BY <1>1 DEF TapeInv, Where, SayAts, TapAts, RollAts
<1>8. Steady' => Holds(cache', f, Len(f))
  BY <1>1, <1>3, <1>5 DEF TapeInv, Taps, Steady
<1>9. (Holds(cache, Head(todo), Len(Head(todo))))' = Holds(cache', f, Len(f))
  BY <1>1, <1>3 DEF Holds
<1>10. Taps'
  BY <1>1, <1>3, <1>4, <1>8, <1>9 DEF Taps
<1> QED BY <1>6, <1>7, <1>10 DEF TapeInv

LEMMA ProbeStep ==
  ASSUME T!ToolsAssumption, TapeInv, T!Probe
  PROVE  TapeInv'
<1>1. at = "probe" /\ UNCHANGED <<program, prefix, drafting, fault, tap>>
  BY DEF T!Probe, T!fixed
<1>2. todo # <<>> /\ todo \in Seq(Frame) /\ cache \in Seq(Sym) /\ fault \in BOOLEAN /\ prefix \in Nat
  BY <1>1 DEF TapeInv, Where, ToolTypes, TapAts
<1>3. program \notin T!Greedies
  BY <1>1 DEF TapeInv, Where, TapAts
<1>4. CASE program = "heartbeat" /\ cache' = T!Rewound /\ T!NextEvent
  <2>1. PICK f \in Seq(Sym) : f = Head(todo) /\ Len(f) \in Nat
    BY <1>2, HeadIs
  <2>2. prefix + 2 <= Len(f)
    BY <1>1, <2>1 DEF TapeInv, Taps
  <2>3. PICK n \in Int : n = Len(cache) - (Len(f) - prefix) /\ n <= Len(cache)
    <3>1. Len(cache) \in Nat
      BY <1>2
    <3>2. /\ Len(cache) - (Len(f) - prefix) \in Int
          /\ Len(cache) - (Len(f) - prefix) <= Len(cache)
      BY <1>2, <2>1, <2>2, <3>1
    <3> QED BY <3>2, Zenon
  <2>4. cache' = SubSeq(cache, 1, n)
    BY <1>4, <2>1, <2>3 DEF T!Rewound
  <2>5. cache' \in Seq(Sym)
    BY <1>2, <2>3, <2>4
  <2>6. ASSUME ~ fault' PROVE Len(cache') = prefix
    <3>1. Holds(cache, f, Len(f))
      BY <1>1, <2>1, <2>6 DEF TapeInv, Taps, Steady
    <3>2. prefix <= Len(cache)
      BY <3>1 DEF Holds
    <3>3. PICK c : c = SubSeq(cache, 1, prefix)
      OBVIOUS
    <3>4. c \in Seq(Sym) /\ Len(c) = prefix
      BY <1>2, <3>2, <3>3
    <3>5. cache = c \o SubSeq(f, prefix + 1, Len(f))
      BY <3>1, <3>3, Zenon DEF Holds
    <3>6. SubSeq(f, prefix + 1, Len(f)) \in Seq(Sym) /\ Len(SubSeq(f, prefix + 1, Len(f))) = Len(f) - prefix
      BY <1>2, <2>1, <2>2, PartOf
    <3>7. Len(cache) = Len(c) + (Len(f) - prefix)
      BY <3>4, <3>5, <3>6
    <3>8. n = prefix
      BY <1>2, <2>1, <2>3, <3>4, <3>7
    <3> QED BY <2>4, <3>3, <3>4, <3>8
  <2> QED BY <1>1, <1>2, <1>3, <1>4, <2>5, <2>6, NextBegins
<1>5. CASE program = "oracle" /\ UNCHANGED cache /\ T!NextEvent
  BY <1>1, <1>2, <1>3, <1>5, NextBegins
<1>6. CASE program = "oracle" /\ UNCHANGED <<cache, todo>> /\ at' = "wake"
  <2>1. ToolTypes'
    BY <1>1, <1>6 DEF TapeInv, ToolTypes
  <2>2. Where'
    BY <1>1, <1>2, <1>3, <1>6 DEF Where, SayAts, TapAts, RollAts
  <2> QED BY <1>6, <2>1, <2>2 DEF TapeInv, Taps
<1> QED BY <1>4, <1>5, <1>6 DEF T!Probe

\* A failed tap, what the oracle says, a captured row and a dumped roll end
\* their event.
LEMMA EventEnds ==
  ASSUME T!ToolsAssumption, TapeInv, T!TapFails \/ T!Wake \/ T!Capture \/ T!Dump
  PROVE  TapeInv'
<1>1. CASE T!TapFails
  <2>1. /\ at = "tap" /\ fault' = TRUE /\ T!NextEvent
        /\ UNCHANGED <<program, prefix, drafting, cache>>
    BY <1>1 DEF T!TapFails, T!fixed
  <2>2. todo # <<>> /\ cache \in Seq(Sym) /\ program \notin T!Greedies
    BY <2>1 DEF TapeInv, Where, ToolTypes, TapAts
  <2> QED BY <2>1, <2>2, NextBegins
<1>2. CASE T!Capture \/ T!Dump
  <2>1. /\ at \in {"probe", "dump"} /\ T!NextEvent /\ program # "heartbeat"
        /\ UNCHANGED <<program, prefix, drafting, cache, fault>>
    BY <1>2 DEF T!Capture, T!Dump, T!fixed, T!Captures, TapeInv, Where, RollAts
  <2>2. todo # <<>> /\ cache \in Seq(Sym) /\ program \notin T!Greedies /\ fault \in BOOLEAN
    BY <2>1 DEF TapeInv, Where, ToolTypes, TapAts, RollAts
  <2> QED BY <2>1, <2>2, NextBegins
<1>3. CASE T!Wake
  <2>1. PICK said \in {<<>>} \cup {<<t>> : t \in Word} : cache' = cache \o said
    BY <1>3 DEF T!Wake
  <2>2. /\ at = "wake" /\ T!NextEvent /\ UNCHANGED <<program, prefix, drafting, fault>>
    BY <1>3 DEF T!Wake, T!fixed
  <2>3. /\ todo # <<>> /\ cache \in Seq(Sym) /\ program \notin T!Greedies /\ fault \in BOOLEAN
        /\ program = "oracle"
    BY <2>2 DEF TapeInv, Where, ToolTypes, TapAts
  <2>4. said \in Seq(Sym)
    <3>1. \A t \in Word : t \in Sym
      BY DEF Sym, T!Tokens
    <3>2. \A t \in Word : <<t>> \in Seq(Sym)
      BY <3>1
    <3>3. <<>> \in Seq(Sym)
      OBVIOUS
    <3> QED BY <2>1, <3>2, <3>3, Zenon
  <2>5. cache' \in Seq(Sym)
    BY <2>1, <2>3, <2>4
  <2> QED BY <2>2, <2>3, <2>5, NextBegins
<1> QED BY <1>1, <1>2, <1>3

-----------------------------------------------------------------------------
(***************************************************************************)
(* The arrays.  A capture appends to the columns of one row together; a    *)
(* rollout appends what it has just decoded.                               *)
(***************************************************************************)
Columns == {"feat", "label", "latent", "sig", "att"}
Parallel ==
  /\ DOMAIN rows = Columns
  /\ rows.feat = rows.label
  /\ drafting => rows.latent = rows.label /\ rows.sig = rows.label

RollRows == [feat : Seq(Seq(Sym)), label : Seq(T!Tokens), latent : {<<>>}, sig : {<<>>}, att : Seq(Nat)]
RollOn(r, c, l, a) == [r EXCEPT !.feat = Append(@, c), !.label = Append(@, l), !.att = Append(@, a)]

\* Row i of a rollout of frame f over the cache c.
RowIs(r, c, f, i) ==
  /\ r.att[i] = Len(f) + i - 1
  /\ r.feat[i] = SubSeq(c, 1, Len(f) + i - 1)
  /\ i < Len(r.label) => r.label[i] = c[Len(f) + i]
Rolled(r, c, f, next) ==
  /\ r \in RollRows /\ next \in Sym /\ Len(f) >= 2
  /\ Len(r.feat) = Len(r.label) /\ Len(r.att) = Len(r.label)
  /\ Len(c) = Len(f) - 1 + Len(r.label)
  /\ \A i \in 1 .. Len(r.label) : RowIs(r, c, f, i)
  /\ Len(r.label) > 0 => next = r.label[Len(r.label)]

BestIs == best \in [1 .. (NDecode + DraftLen + 1) -> T!Tokens]

RowsInv ==
  /\ program \in T!Captures => Parallel
  /\ program = "rollout" => BestIs
  /\ at \in RollAts => Rolled(rows, cache, Head(todo), g)
  /\ at = "roll" => Len(rows.label) < NDecode

\* q is r and one more row.
RowPlus(r, c, l, a, q) ==
  /\ q \in RollRows /\ q.feat = Append(r.feat, c) /\ q.label = Append(r.label, l)
  /\ q.att = Append(r.att, a)

LEMMA RollOnIs ==
  ASSUME NEW r \in RollRows, NEW c \in Seq(Sym), NEW l \in T!Tokens, NEW a \in Nat,
         NEW q, q = RollOn(r, c, l, a)
  PROVE  RowPlus(r, c, l, a, q)
<1>1. /\ r.feat \in Seq(Seq(Sym)) /\ r.label \in Seq(T!Tokens) /\ r.att \in Seq(Nat)
      /\ r.latent = <<>> /\ r.sig = <<>>
  BY DEF RollRows
<1>2. PICK x : x = Append(r.feat, c)
  OBVIOUS
<1>3. PICK y : y = Append(r.label, l)
  OBVIOUS
<1>4. PICK z : z = Append(r.att, a)
  OBVIOUS
<1>7. x \in Seq(Seq(Sym)) /\ y \in Seq(T!Tokens) /\ z \in Seq(Nat)
  BY <1>1, <1>2, <1>3, <1>4
<1>5. q = [r EXCEPT !.feat = x, !.label = y, !.att = z]
  BY <1>2, <1>3, <1>4 DEF RollOn, RollRows
<1>6. q \in RollRows /\ q.feat = x /\ q.label = y /\ q.att = z
  BY <1>5, <1>7 DEF RollRows
<1> QED BY <1>2, <1>3, <1>4, <1>6, Zenon DEF RowPlus

\* d is c and one more token.
Longer(c, d, next) ==
  /\ d \in Seq(Sym) /\ Len(d) = Len(c) + 1 /\ d[Len(c) + 1] = next
  /\ \A i \in 1 .. Len(c) : d[i] = c[i]
  /\ \A p \in Nat : p <= Len(c) => SubSeq(d, 1, p) = SubSeq(c, 1, p)

LEMMA AppendIsLonger ==
  ASSUME NEW c \in Seq(Sym), NEW next \in Sym, NEW d, d = Append(c, next)
  PROVE  Longer(c, d, next)
<1>1. /\ d \in Seq(Sym) /\ Len(d) = Len(c) + 1 /\ d[Len(c) + 1] = next
      /\ \A i \in 1 .. Len(c) : d[i] = c[i]
  OBVIOUS
<1>2. ASSUME NEW p \in Nat, p <= Len(c) PROVE SubSeq(d, 1, p) = SubSeq(c, 1, p)
  BY <1>2, PrefixOfAppended, Zenon
<1> QED BY <1>1, <1>2 DEF Longer

\* A decoded token adds a row that agrees with the longer cache, and the rows
\* before it still do.
LEMMA RowAdded ==
  ASSUME NEW r, NEW c \in Seq(Sym), NEW f \in Seq(Sym), NEW next, Rolled(r, c, f, next),
         NEW l \in T!Tokens, NEW d, Longer(c, d, next),
         NEW a, a = Len(f) + Len(r.label), NEW q, RowPlus(r, d, l, a, q)
  PROVE  Rolled(q, d, f, l) /\ Len(q.label) = Len(r.label) + 1
<1>1. /\ r \in RollRows /\ next \in Sym /\ Len(f) >= 2
      /\ Len(r.feat) = Len(r.label) /\ Len(r.att) = Len(r.label)
      /\ Len(c) = Len(f) - 1 + Len(r.label)
      /\ Len(r.label) > 0 => next = r.label[Len(r.label)]
  BY DEF Rolled
<1>2. PICK n \in Nat : n = Len(r.label)
  BY <1>1 DEF RollRows
<1>3. PICK k \in Nat : k = Len(f) /\ k >= 2
  BY <1>1
<1>4. Len(c) = k - 1 + n
  BY <1>1, <1>2, <1>3
<1>5. d \in Seq(Sym) /\ Len(d) = k + n /\ d[k + n] = next
  <2>1. Len(c) + 1 = k + n
    BY <1>3, <1>2, <1>4
  <2> QED BY <2>1 DEF Longer
<1>7. /\ q \in RollRows /\ q.feat = Append(r.feat, d) /\ q.label = Append(r.label, l)
      /\ q.att = Append(r.att, k + n)
  BY <1>2, <1>3 DEF RowPlus
<1>8. /\ r.feat \in Seq(Seq(Sym)) /\ r.label \in Seq(T!Tokens) /\ r.att \in Seq(Nat)
      /\ Len(r.feat) = n /\ Len(r.att) = n /\ Len(r.label) = n
  BY <1>1, <1>2 DEF RollRows
<1>9. /\ Len(q.feat) = n + 1 /\ Len(q.label) = n + 1 /\ Len(q.att) = n + 1
      /\ \A i \in 1 .. n : q.feat[i] = r.feat[i] /\ q.label[i] = r.label[i] /\ q.att[i] = r.att[i]
      /\ q.feat[n + 1] = d /\ q.label[n + 1] = l /\ q.att[n + 1] = k + n
  <2>1. k + n \in Nat
    BY <1>2, <1>3
  <2>2. /\ Len(q.feat) = n + 1 /\ q.feat[n + 1] = d
        /\ \A i \in 1 .. n : q.feat[i] = r.feat[i]
    <3>1. PICK s \in Seq(Seq(Sym)) : s = r.feat /\ Len(s) = n
      BY <1>8
    <3>2. PICK e \in Seq(Sym) : e = d
      BY <1>5
    <3>3. PICK t : t = Append(s, e)
      OBVIOUS
    <3>4. Len(t) = n + 1 /\ t[n + 1] = e /\ \A i \in 1 .. n : t[i] = s[i]
      <4>1. n \in Nat /\ Len(s) = n /\ t = Append(s, e) /\ s \in Seq(Seq(Sym)) /\ e \in Seq(Sym)
        BY <1>2, <3>1, <3>2, <3>3
      <4>2. Len(t) = n + 1
        BY <4>1, Appended
      <4>3. t[n + 1] = e
        BY <4>1, Appended
      <4>4. \A i \in 1 .. n : t[i] = s[i]
        BY <4>1, Appended
      <4> QED BY <4>2, <4>3, <4>4
    <3> QED BY <1>7, <3>1, <3>2, <3>3, <3>4, Zenon
  <2>3. /\ Len(q.label) = n + 1 /\ q.label[n + 1] = l
        /\ \A i \in 1 .. n : q.label[i] = r.label[i]
    BY <1>2, <1>7, <1>8
  <2>4. /\ Len(q.att) = n + 1 /\ q.att[n + 1] = k + n
        /\ \A i \in 1 .. n : q.att[i] = r.att[i]
    <3>1. PICK e : e = k + n
      OBVIOUS
    <3>2. e \in Nat /\ q.att = Append(r.att, e)
      BY <1>7, <2>1, <3>1
    <3>3. Len(q.att) = n + 1 /\ q.att[n + 1] = e /\ \A i \in 1 .. n : q.att[i] = r.att[i]
      <4>1. /\ n \in Nat /\ r.att \in Seq(Nat) /\ Len(r.att) = n
            /\ e \in Nat /\ q.att = Append(r.att, e)
        BY <1>2, <1>8, <3>2
      <4> QED BY <4>1, Appended
    <3> QED BY <3>1, <3>3
  <2> QED BY <2>2, <2>3, <2>4
<1>10. ASSUME NEW i \in 1 .. n + 1 PROVE RowIs(q, d, f, i)
  <2>1. CASE i = n + 1
    <3>1. q.att[i] = k + i - 1 /\ k + i - 1 = k + n
      BY <1>2, <1>3, <1>9, <2>1
    <3>2. SubSeq(d, 1, k + n) = d
      BY <1>5, SubSeqFull
    <3>3. ~ (i < Len(q.label))
      BY <1>2, <1>9, <2>1
    <3> QED BY <1>3, <1>9, <2>1, <3>1, <3>2, <3>3, Zenon DEF RowIs
  <2>2. CASE i # n + 1
    <3>1. i \in 1 .. n /\ i \in Nat /\ 1 <= i /\ i <= n
      BY <1>2, <2>2
    <3>2. RowIs(r, c, f, i)
      BY <1>2, <3>1 DEF Rolled
    <3>3. q.att[i] = k + i - 1
      BY <1>3, <1>9, <3>1, <3>2 DEF RowIs
    <3>4. k + i - 1 \in Nat /\ k + i - 1 <= Len(c)
      BY <1>3, <1>4, <3>1
    <3>5. SubSeq(d, 1, k + i - 1) = SubSeq(c, 1, k + i - 1)
      BY <3>4 DEF Longer
    <3>6. q.feat[i] = SubSeq(d, 1, k + i - 1)
      BY <1>3, <1>9, <3>1, <3>2, <3>5, Zenon DEF RowIs
    <3>7. q.label[i] = d[k + i]
      <4>1. CASE i = n
        <5>1. r.label[i] = next
          BY <1>1, <1>2, <3>1, <4>1
        <5> QED BY <1>5, <1>9, <3>1, <4>1, <5>1
      <4>2. CASE i # n
        <5>1. i < n
          BY <1>2, <3>1, <4>2
        <5>2. r.label[i] = c[k + i]
          BY <1>2, <1>3, <3>2, <5>1 DEF RowIs
        <5>3. k + i \in 1 .. Len(c)
          BY <1>2, <1>3, <1>4, <3>1, <5>1
        <5>4. d[k + i] = c[k + i]
          BY <5>3 DEF Longer
        <5> QED BY <1>9, <3>1, <5>2, <5>4
      <4> QED BY <4>1, <4>2
    <3> QED BY <1>3, <3>3, <3>6, <3>7 DEF RowIs
  <2> QED BY <2>1, <2>2
<1>11. Rolled(q, d, f, l)
  <2>1. l \in Sym
    BY DEF Sym
  <2>2. Len(d) = Len(f) - 1 + Len(q.label)
    BY <1>2, <1>3, <1>5, <1>9
  <2>3. Len(q.label) > 0 => l = q.label[Len(q.label)]
    BY <1>9
  <2> QED BY <1>1, <1>7, <1>9, <1>10, <2>1, <2>2, <2>3 DEF Rolled
<1>13. Len(q.label) = Len(r.label) + 1
  BY <1>2, <1>9
<1> QED BY <1>11, <1>13

LEMMA RolledAligned ==
  ASSUME RowsInv, at = "dump", NEW i \in DOMAIN rows.label
  PROVE  /\ rows.feat[i] = SubSeq(cache, 1, rows.att[i])
         /\ i < Len(rows.label) => rows.label[i] = cache[rows.att[i] + 1]
<1>1. Rolled(rows, cache, Head(todo), g)
  BY DEF RowsInv, RollAts
<1>2. rows.label \in Seq(T!Tokens)
  BY <1>1 DEF Rolled, RollRows
<1>3. i \in 1 .. Len(rows.label)
  BY <1>2
<1>4. RowIs(rows, cache, Head(todo), i)
  BY <1>1, <1>3 DEF Rolled
<1>5. PICK k : k = Len(Head(todo))
  OBVIOUS
<1>6. k \in Int
  <2>1. Len(rows.label) \in Nat
    BY <1>2
  <2> QED BY <1>1, <1>5, <2>1 DEF Rolled
<1>7. i \in Int /\ (k + i - 1) + 1 = k + i
  BY <1>3, <1>6
<1> QED BY <1>4, <1>5, <1>7 DEF RowIs

LEMMA BaseIs ==
  /\ program = "rollout" => T!Base = Head(todo)
  /\ program \in {"return", "loop"} => T!Base = T!Prompt \o T!Result
  /\ program \in {"accept", "native"} => T!Base = T!Prompt
<1>1. ASSUME program = "rollout" PROVE T!Base = Head(todo)
  BY <1>1 DEF T!Base
<1>2. ASSUME program \in {"return", "loop"} PROVE T!Base = T!Prompt \o T!Result
  BY <1>2 DEF T!Base
<1>3. ASSUME program \in {"accept", "native"} PROVE T!Base = T!Prompt
  BY <1>3 DEF T!Base
<1> QED BY <1>1, <1>2, <1>3

\* As long as the reference reaches, what the target picks is a token.
LEMMA PickIsToken ==
  ASSUME T!ToolsAssumption, BestIs, NEW b \in Nat, b = Len(T!Base), NEW c, NEW k \in Nat, k = Len(c),
         k <= b + NDecode + DraftLen, NEW t \in T!Picks(c)
  PROVE  t \in T!Tokens
<1>1. NDecode \in Nat /\ DraftLen \in Nat
  BY DEF T!ToolsAssumption
<1>2. CASE k - b >= 0 /\ c = T!Base \o SubSeq(best, 1, k - b)
  <2>1. t = best[k - b + 1]
    BY <1>2 DEF T!Picks
  <2>2. k - b + 1 \in 1 .. NDecode + DraftLen + 1
    BY <1>1, <1>2
  <2> QED BY <2>1, <2>2 DEF BestIs
<1>3. CASE ~ (k - b >= 0 /\ c = T!Base \o SubSeq(best, 1, k - b))
  BY <1>3 DEF T!Picks
<1> QED BY <1>2, <1>3

\* The rollout's own steps.
LEMMA RollBegins ==
  ASSUME T!ToolsAssumption, TapeInv, RowsInv, T!Prefill, program = "rollout"
  PROVE  RowsInv'
<1>1. /\ at = "event" /\ todo # <<>> /\ T!Feed(Head(todo)) # <<>>
      /\ cache' = T!Held \o T!Feed(Head(todo))
      /\ UNCHANGED <<program, best, prefix, todo>>
      /\ at' = IF NDecode = 0 THEN "dump" ELSE "roll"
      /\ g' = T!Last(Head(todo)) /\ rows' = T!NoRows
  BY DEF T!Prefill, T!fixed
<1>2. PICK f \in Seq(Sym) : f = Head(todo) /\ Len(f) \in Nat /\ T!Last(Head(todo)) = f[Len(f)]
  BY <1>1, HeadIs DEF TapeInv, ToolTypes
<1>3. prefix = 0 /\ T!Held = <<>>
  BY DEF TapeInv, ToolTypes, T!Held
<1>4. PICK d : d = SubSeq(f, 0 + 1, Len(f) - 1)
  OBVIOUS
<1>5. d = T!Feed(f)
  BY <1>3, <1>4 DEF T!Feed
<1>6. d \in Seq(Sym) /\ 2 <= Len(f) /\ Len(d) = Len(f) - 1
  <2>1. d \in Seq(Sym) /\ 0 + 2 <= Len(f) /\ Len(d) = Len(f) - 1 - 0
    BY <1>1, <1>2, <1>4, <1>5, FeedIs
  <2> QED BY <1>2, <2>1
<1>7. cache' = d
  BY <1>1, <1>2, <1>3, <1>5, <1>6
<1>8. g' \in Sym
  BY <1>1, <1>2, <1>6
<1>9. rows' \in RollRows /\ rows'.feat = <<>> /\ rows'.label = <<>> /\ rows'.att = <<>>
  BY <1>1 DEF T!NoRows, RollRows
<1>10. Rolled(rows', cache', f, g')
  <2>1. Len(<<>>) = 0 /\ 1 .. 0 = {}
    OBVIOUS
  <2> QED BY <1>2, <1>6, <1>7, <1>8, <1>9, <2>1 DEF Rolled
<1>11. Rolled(rows, cache, Head(todo), g)' = Rolled(rows', cache', f, g')
  BY <1>1, <1>2 DEF Rolled, RowIs
<1>12. at' = "roll" => Len(rows'.label) < NDecode
  <2>1. NDecode \in Nat
    BY DEF T!ToolsAssumption
  <2> QED BY <1>1, <1>9, <2>1
<1> QED BY <1>1, <1>10, <1>11, <1>12 DEF RowsInv, BestIs, T!Captures

LEMMA RollStep ==
  ASSUME T!ToolsAssumption, TapeInv, RowsInv, T!Roll
  PROVE  TapeInv' /\ RowsInv'
<1>1. /\ at = "roll" /\ cache' = Append(cache, g) /\ g' \in T!Picks(cache')
      /\ rows' = [rows EXCEPT !.feat = Append(@, cache'), !.label = Append(@, g'),
                              !.att = Append(@, Len(Head(todo)) + Len(rows.label))]
      /\ at' = IF g' = T!Eos \/ Len(rows'.label) = NDecode THEN "dump" ELSE "roll"
      /\ UNCHANGED <<program, best, prefix, drafting, todo, tap, fault>>
  BY DEF T!Roll, T!fixed
<1>2. program = "rollout" /\ todo # <<>> /\ todo \in Seq(Frame) /\ cache \in Seq(Sym)
  BY <1>1 DEF TapeInv, Where, ToolTypes, RollAts
<1>3. PICK f \in Seq(Sym) : f = Head(todo) /\ Len(f) \in Nat
  BY <1>2, HeadIs
<1>4. Rolled(rows, cache, f, g) /\ Len(rows.label) < NDecode /\ BestIs
  BY <1>1, <1>2, <1>3 DEF RowsInv, RollAts
<1>5. /\ rows \in RollRows /\ g \in Sym /\ Len(f) >= 2 /\ Len(cache) = Len(f) - 1 + Len(rows.label)
  BY <1>4 DEF Rolled
<1>6. PICK n \in Nat : n = Len(rows.label)
  BY <1>5 DEF RollRows
<1>7. PICK d : d = cache'
  OBVIOUS
<1>8. Longer(cache, d, g)
  BY <1>1, <1>2, <1>5, <1>7, AppendIsLonger
<1>9. d \in Seq(Sym) /\ Len(d) = Len(f) + n
  <2>1. d \in Seq(Sym) /\ Len(d) = Len(cache) + 1
    BY <1>8 DEF Longer
  <2> QED BY <1>3, <1>5, <1>6, <2>1
<1>10. g' \in T!Tokens
  <2>1. Len(f) = Len(T!Base) /\ Len(f) \in Nat
    BY <1>2, <1>3, BaseIs
  <2>2. NDecode \in Nat /\ DraftLen \in Nat
    BY DEF T!ToolsAssumption
  <2>3. PICK k \in Nat : k = Len(d)
    BY <1>9
  <2>4. k <= Len(f) + NDecode + DraftLen
    BY <1>4, <1>6, <1>9, <2>1, <2>2, <2>3
  <2>5. g' \in T!Picks(d)
    BY <1>1, <1>7
  <2> QED BY <1>4, <2>1, <2>3, <2>4, <2>5, PickIsToken
<1>11. PICK l \in T!Tokens : l = g'
  BY <1>10
<1>12. PICK a \in Nat : a = Len(f) + Len(rows.label)
  BY <1>3, <1>6
<1>13. PICK q : q = rows'
  OBVIOUS
<1>14. q = RollOn(rows, d, l, a)
  BY <1>1, <1>3, <1>7, <1>11, <1>12, <1>13 DEF RollOn
<1>15. RowPlus(rows, d, l, a, q)
  BY <1>5, <1>9, <1>14, RollOnIs
<1>16. Rolled(q, d, f, l) /\ Len(q.label) = Len(rows.label) + 1
  BY <1>2, <1>4, <1>8, <1>12, <1>15, RowAdded
<1>17. Rolled(rows, cache, Head(todo), g)' = Rolled(q, d, f, l)
  BY <1>1, <1>3, <1>7, <1>11, <1>13 DEF Rolled, RowIs
<1>18. at' = "roll" => Len(rows'.label) < NDecode
  <2>1. Len(q.label) <= NDecode /\ NDecode \in Nat /\ Len(q.label) \in Nat
    BY <1>4, <1>6, <1>16 DEF T!ToolsAssumption
  <2> QED BY <1>1, <1>13, <2>1
<1>19. at' \in RollAts
  BY <1>1 DEF RollAts
<1>20. RowsInv'
  BY <1>1, <1>2, <1>4, <1>16, <1>17, <1>18 DEF RowsInv, BestIs, T!Captures
<1>21. TapeInv'
  <2>1. ToolTypes'
    BY <1>1, <1>7, <1>9 DEF TapeInv, ToolTypes
  <2>2. Where'
    BY <1>1, <1>2, <1>19 DEF Where, SayAts, TapAts, RollAts, T!Greedies
  <2> QED BY <1>19, <2>1, <2>2 DEF TapeInv, Taps, RollAts
<1> QED BY <1>20, <1>21

\* A rollout that ends early keeps its rows.
LEMMA RollEnds ==
  ASSUME T!ToolsAssumption, TapeInv, RowsInv, T!RollFails
  PROVE  TapeInv' /\ RowsInv'
<1>1. /\ at = "roll" /\ at' = "dump"
      /\ UNCHANGED <<program, best, prefix, drafting, g, todo, cache, tap, rows, fault>>
  BY DEF T!RollFails, T!fixed, T!greedy
<1>2. RowsInv'
  BY <1>1 DEF RowsInv, RollAts, Rolled, RowIs, Parallel, BestIs
<1>3. TapeInv'
  BY <1>1 DEF TapeInv, ToolTypes, Where, Taps, SayAts, TapAts, RollAts
<1> QED BY <1>2, <1>3

\* A captured event is a row of every column that is kept.
LEMMA CaptureRows ==
  ASSUME RowsInv, T!Capture
  PROVE  RowsInv'
<1>1. /\ at = "probe" /\ program \in T!Captures /\ at' = "event"
      /\ UNCHANGED <<program, best, prefix, drafting>>
  BY DEF T!Capture, T!fixed, T!NextEvent
<1>2. Parallel
  BY <1>1 DEF RowsInv
<1>3. Parallel'
  <2>1. CASE rows' = T!Pushed({"feat", "label"} \cup (IF drafting THEN {"latent", "sig"} ELSE {}))
    <3>1. PICK x : x = Head(todo)
      OBVIOUS
    <3>2. PICK K0 : K0 = {"feat", "label"} \cup (IF drafting THEN {"latent", "sig"} ELSE {})
      OBVIOUS
    <3>3. rows' = [a \in Columns |-> IF a \in K0 THEN Append(rows[a], x) ELSE rows[a]]
      BY <1>2, <2>1, <3>1, <3>2 DEF T!Pushed, Parallel
    <3>4. "feat" \in K0 /\ "label" \in K0 /\ (drafting => "latent" \in K0 /\ "sig" \in K0)
      BY <3>2
    <3>5. DOMAIN rows' = Columns
      BY <3>3
    <3>6. rows'.feat = Append(rows.feat, x) /\ rows'.label = Append(rows.label, x)
      BY <3>3, <3>4 DEF Columns
    <3>7. drafting => rows'.latent = Append(rows.latent, x) /\ rows'.sig = Append(rows.sig, x)
      BY <3>3, <3>4 DEF Columns
    <3> QED BY <1>1, <1>2, <3>5, <3>6, <3>7 DEF Parallel
  <2>2. CASE UNCHANGED rows
    BY <1>1, <1>2, <2>2 DEF Parallel
  <2> QED BY <2>1, <2>2 DEF T!Capture
<1> QED BY <1>1, <1>3 DEF RowsInv, RollAts, T!Captures

-----------------------------------------------------------------------------
(***************************************************************************)
(* The greedy programs: the cache is the prompt and the output, the output *)
(* the target's own continuation, and the accept lengths count it.         *)
(***************************************************************************)
Slots(s) == UNION {{i} \X (1 .. T!Given(s[i])) : i \in DOMAIN s}

LEMMA ToolsCount == \A X : T!Cardinality(X) = Cardinality(X)
BY DEF T!Cardinality, Cardinality

LEMMA NoSlots == IsFiniteSet(Slots(<<>>)) /\ Cardinality(Slots(<<>>)) = 0
<1>1. Slots(<<>>) = {}
  BY DEF Slots
<1> QED BY <1>1, FS_EmptySet

\* A round adds as many slots as tokens it gave out.
LEMMA SlotsAdded ==
  ASSUME NEW s \in Seq(Nat), NEW k \in Nat, IsFiniteSet(Slots(s))
  PROVE  /\ IsFiniteSet(Slots(Append(s, k)))
         /\ Cardinality(Slots(Append(s, k))) = Cardinality(Slots(s)) + T!Given(k)
<1>1. PICK n \in Nat : n = Len(s)
  OBVIOUS
<1>2. PICK j \in Nat : j = T!Given(k)
  BY DEF T!Given
<1>3. PICK t : t = Append(s, k)
  OBVIOUS
<1>4. /\ DOMAIN s = 1 .. n /\ DOMAIN t = 1 .. n + 1 /\ t[n + 1] = k
      /\ \A i \in 1 .. n : t[i] = s[i]
  BY <1>1, <1>3
<1>5. PICK N : N = {n + 1} \X (1 .. j)
  OBVIOUS
<1>6. Slots(t) = Slots(s) \cup N
  <2>1. ASSUME NEW x \in Slots(t) PROVE x \in Slots(s) \cup N
    <3>1. PICK i \in 1 .. n + 1 : x \in {i} \X (1 .. T!Given(t[i]))
      BY <1>4 DEF Slots
    <3>2. CASE i = n + 1
      BY <1>2, <1>4, <1>5, <3>1, <3>2
    <3>3. CASE i # n + 1
      <4>1. i \in 1 .. n
        BY <1>1, <3>3
      <4> QED BY <1>4, <3>1, <4>1 DEF Slots
    <3> QED BY <3>2, <3>3
  <2>2. ASSUME NEW x \in Slots(s) PROVE x \in Slots(t)
    <3>1. PICK i \in 1 .. n : x \in {i} \X (1 .. T!Given(s[i]))
      BY <1>4 DEF Slots
    <3>2. i \in 1 .. n + 1
      BY <1>1
    <3> QED BY <1>4, <3>1, <3>2 DEF Slots
  <2>3. N \subseteq Slots(t)
    <3>1. n + 1 \in 1 .. n + 1
      BY <1>1
    <3> QED BY <1>2, <1>4, <1>5, <3>1 DEF Slots
  <2> QED BY <2>1, <2>2, <2>3
<1>7. Slots(s) \cap N = {}
  <2> SUFFICES ASSUME NEW x \in Slots(s), x \in N PROVE FALSE
    OBVIOUS
  <2>1. PICK i \in 1 .. n : x \in {i} \X (1 .. T!Given(s[i]))
    BY <1>4 DEF Slots
  <2>2. x[1] = i /\ x[1] = n + 1
    BY <1>5, <2>1
  <2> QED BY <1>1, <2>2
<1>8. IsFiniteSet(N) /\ Cardinality(N) = j
  <2>1. IsFiniteSet({n + 1}) /\ Cardinality({n + 1}) = 1
    BY FS_Singleton
  <2>2. IsFiniteSet(1 .. j) /\ Cardinality(1 .. j) = j
    <3>1. Cardinality(1 .. j) = IF 1 > j THEN 0 ELSE j - 1 + 1
      <4>1. 1 \in Int /\ j \in Int
        OBVIOUS
      <4> QED BY <4>1, FS_Interval, Zenon
    <3>2. IsFiniteSet(1 .. j)
      <4>1. 1 \in Int /\ j \in Int
        OBVIOUS
      <4> QED BY <4>1, FS_Interval, Zenon
    <3> QED BY <1>2, <3>1, <3>2
  <2>3. IsFiniteSet(N) /\ Cardinality(N) = 1 * j
    <3>1. IsFiniteSet({n + 1} \X (1 .. j))
      BY <2>1, <2>2, FS_Product
    <3>2. Cardinality({n + 1} \X (1 .. j)) = Cardinality({n + 1}) * Cardinality(1 .. j)
      BY <2>1, <2>2, FS_Product
    <3> QED BY <1>5, <2>1, <2>2, <3>1, <3>2
  <2> QED BY <1>2, <2>3
<1>9. /\ IsFiniteSet(Slots(s) \cup N)
      /\ Cardinality(Slots(s) \cup N) = Cardinality(Slots(s)) + Cardinality(N) - Cardinality(Slots(s) \cap N)
  BY <1>8, FS_Union
<1>10. Cardinality(Slots(s) \cap N) = 0 /\ Cardinality(Slots(s)) \in Nat
  BY <1>7, FS_EmptySet, FS_CardinalityType
<1> QED BY <1>2, <1>3, <1>6, <1>8, <1>9, <1>10

Accounted(n) == /\ accept_lens \in Seq(Nat) /\ IsFiniteSet(Slots(accept_lens))
              /\ Len(out) = Cardinality(Slots(accept_lens)) + n

Saying ==
  /\ cache = T!Base \o out
  /\ out \in Seq(T!Tokens) /\ Len(out) <= NDecode + DraftLen
  /\ out = SubSeq(best, 1, Len(out)) /\ g = best[Len(out) + 1]

GreedyInv ==
  /\ program \in T!Greedies => BestIs
  /\ at \in {"baseline", "prompt"} => out = <<>> /\ accept_lens = <<>>
  /\ at \in {"say", "round", "verify"} => Saying
  /\ at = "round" => Accounted(0)
  /\ at = "verify" => m \in Nat /\ m <= DraftLen /\ Len(out) < NDecode + m /\ Accounted(m)

\* The prompt, with the tool's result where there is one.
LEMMA BaseWhole ==
  ASSUME program \in T!Greedies
  PROVE  T!Base \in Seq(Sym)
<1>1. "prompt" \in Sym /\ "result" \in Sym /\ "text" \in Sym
  BY DEF Sym
<1>2. T!Prompt \in Seq(Sym) /\ T!Result \in Seq(Sym)
  BY <1>1 DEF T!Prompt, T!Result
<1>3. T!Prompt \o T!Result \in Seq(Sym)
  BY <1>2
<1> QED BY <1>2, <1>3, BaseIs DEF T!Greedies

\* The reference as a sequence.
LEMMA BestSeq ==
  ASSUME T!ToolsAssumption, BestIs
  PROVE  /\ best \in Seq(T!Tokens) /\ Len(best) = NDecode + DraftLen + 1
         /\ NDecode \in Nat /\ DraftLen \in Nat
<1>1. NDecode \in Nat /\ DraftLen \in Nat
  BY DEF T!ToolsAssumption
<1> QED BY <1>1 DEF BestIs

\* What the target picks after its own continuation is the next of it.
LEMMA PickIsBest ==
  ASSUME NEW o \in Seq(T!Tokens), T!Base \in Seq(Sym), o = SubSeq(best, 1, Len(o)),
         NEW t \in T!Picks(T!Base \o o)
  PROVE  t = best[Len(o) + 1]
<1>1. PICK n \in Nat : n = Len(o)
  BY LenProperties, Zenon
<1>2. o \in Seq(Sym)
  BY DEF Sym
<1>3. Len(T!Base \o o) - Len(T!Base) = n
  BY <1>1, <1>2
<1>4. T!Base \o o = T!Base \o SubSeq(best, 1, n)
  BY <1>1, Zenon
<1>5. T!Picks(T!Base \o o) = {best[n + 1]}
  <2>1. n >= 0
    BY <1>1
  <2> QED BY <1>3, <1>4, <2>1 DEF T!Picks
<1> QED BY <1>1, <1>5

\* A token given out is the next of the reference, and the logits are then
\* those of the longer output.
LEMMA CommitSays ==
  ASSUME T!ToolsAssumption, program \in T!Greedies, BestIs, Saying, Len(out) < NDecode + DraftLen,
         T!Commit, UNCHANGED <<program, todo, best>>
  PROVE  Saying' /\ Len(out') = Len(out) + 1 /\ G!Next
<1>1. /\ best \in Seq(T!Tokens) /\ Len(best) = NDecode + DraftLen + 1
      /\ NDecode \in Nat /\ DraftLen \in Nat
  BY BestSeq
<1>2. PICK n \in Nat : n = Len(out) /\ n < NDecode + DraftLen
  <2>1. out \in Seq(T!Tokens)
    BY DEF Saying
  <2>2. Len(out) \in Nat
    BY <2>1, LenProperties, Zenon
  <2> QED BY <2>2, Zenon
<1>3. out' = Append(out, g) /\ cache' = Append(cache, g) /\ g' \in T!Picks(cache')
  BY DEF T!Commit
<1>4. out \in Seq(T!Tokens) /\ cache = T!Base \o out /\ out = SubSeq(best, 1, n) /\ g = best[n + 1]
  BY <1>2 DEF Saying
<1>5. g \in T!Tokens /\ n < Len(best)
  BY <1>1, <1>2, <1>4
<1>6. out' \in Seq(T!Tokens) /\ Len(out') = n + 1
  BY <1>2, <1>3, <1>4, <1>5
<1>7. out' = SubSeq(best, 1, n + 1)
  <2>1. SubSeq(best, 1, n + 1) = Append(SubSeq(best, 1, n), best[n + 1])
    BY <1>1, <1>5, OneMore
  <2> QED BY <1>3, <1>4, <2>1, Zenon
<1>8. T!Base \in Seq(Sym) /\ T!Base' = T!Base
  BY BaseWhole DEF T!Base
<1>9. cache' = T!Base \o out'
  <2>1. out \in Seq(Sym) /\ g \in Sym
    BY <1>4, <1>5 DEF Sym
  <2>2. PICK o \in Seq(Sym) : o = out
    BY <2>1
  <2>3. \A y \in Sym : Append(T!Base \o o, y) = T!Base \o Append(o, y)
    <3>1. T!Base \in Seq(Sym)
      BY <1>8
    <3>2. PICK b \in Seq(Sym) : b = T!Base
      BY <3>1
    <3>3. \A y \in Sym : /\ Append(b \o o, y) = b \o Append(o, y)
                        /\ Len(b \o Append(o, y)) = Len(b) + (Len(o) + 1)
      BY <3>2, <2>2, AppendOver, Zenon
    <3> QED BY <3>2, <3>3, Zenon
  <2> QED BY <1>3, <1>4, <2>1, <2>2, <2>3, Zenon
<1>10. g' = best[n + 2]
  <2>1. PICK o \in Seq(T!Tokens) : o = out'
    BY <1>6
  <2>2. o = SubSeq(best, 1, Len(o)) /\ g' \in T!Picks(T!Base \o o) /\ Len(o) = n + 1
    BY <1>3, <1>6, <1>7, <1>9, <2>1
  <2>3. g' = best[Len(o) + 1]
    BY <1>8, <2>2, PickIsBest
  <2>4. (n + 1) + 1 = n + 2
    OBVIOUS
  <2> QED BY <2>2, <2>3, <2>4
<1>11. Saying'
  <2>1. Len(out') <= NDecode + DraftLen
    BY <1>1, <1>2, <1>6
  <2>2. cache' = (T!Base \o out)'
    BY <1>8, <1>9
  <2>3. g' = best'[Len(out') + 1]
    <3>1. (n + 1) + 1 = n + 2
      OBVIOUS
    <3> QED BY <1>6, <1>10, <3>1
  <2>4. out' = SubSeq(best', 1, Len(out'))
    BY <1>6, <1>7
  <2> QED BY <1>6, <2>1, <2>2, <2>3, <2>4 DEF Saying
<1>12. G!Next
  BY <1>2, <1>3, <1>4, <1>5 DEF G!Next, G!Emit
<1> QED BY <1>2, <1>6, <1>11, <1>12

ToolInv == TapeInv /\ RowsInv /\ GreedyInv

\* A greedy program leaves the tape and the arrays alone.
LEMMA GreedyKeeps ==
  ASSUME ToolInv, program \in T!Greedies, at \in SayAts,
         UNCHANGED <<program, best, prefix, drafting, todo, fault>>, cache' \in Seq(Sym),
         at' \in SayAts \cup {"done", "failed"}
  PROVE  TapeInv' /\ RowsInv' /\ BestIs /\ BestIs'
<1>1. BestIs /\ BestIs'
  BY DEF ToolInv, GreedyInv, BestIs
<1>2. ToolTypes'
  BY DEF ToolInv, TapeInv, ToolTypes
<1>3. Where'
  BY DEF Where, SayAts, TapAts, RollAts
<1>4. Taps'
  BY DEF Taps, SayAts
<1>5. RowsInv'
  BY DEF RowsInv, RollAts, SayAts, T!Captures, T!Greedies
<1> QED BY <1>1, <1>2, <1>3, <1>4, <1>5 DEF TapeInv

LEMMA GreedyAt == ASSUME ToolInv, at \in SayAts PROVE program \in T!Greedies /\ cache \in Seq(Sym)
BY DEF ToolInv, TapeInv, Where, ToolTypes

\* The answer before the tool, and the prompt.
LEMMA GreedyBegins ==
  ASSUME T!ToolsAssumption, ToolInv, T!Baseline \/ T!Prime
  PROVE  ToolInv' /\ UNCHANGED <<best, out>>
<1>1. CASE T!Baseline
  <2>1. /\ at = "baseline" /\ at' = "prompt"
        /\ UNCHANGED <<program, best, prefix, drafting, todo, fault, out, accept_lens>>
    BY <1>1 DEF T!Baseline, T!fixed, T!greedy
  <2>2. at \in SayAts /\ at' \in SayAts
    BY <2>1 DEF SayAts
  <2>3. cache' \in Seq(Sym)
    <3>1. PICK said \in {<<>>} \cup {<<t>> : t \in Word} : cache' = T!Prompt \o said
      BY <1>1 DEF T!Baseline
    <3>2. \A t \in Word : t \in Sym
      BY DEF Sym, T!Tokens
    <3>3. \A t \in Word : <<t>> \in Seq(Sym)
      BY <3>2
    <3>4. <<>> \in Seq(Sym)
      OBVIOUS
    <3>5. said \in Seq(Sym)
      BY <3>1, <3>3, <3>4, Zenon
    <3>6. "prompt" \in Sym
      BY DEF Sym
    <3>7. T!Prompt \in Seq(Sym)
      BY <3>6 DEF T!Prompt
    <3> QED BY <3>1, <3>5, <3>7
  <2>4. TapeInv' /\ RowsInv' /\ BestIs'
    BY <2>1, <2>2, <2>3, GreedyAt, GreedyKeeps
  <2>5. GreedyInv'
    BY <2>1, <2>4 DEF ToolInv, GreedyInv
  <2> QED BY <2>1, <2>4, <2>5 DEF ToolInv
<1>2. CASE T!Prime
  <2>1. /\ at = "prompt" /\ at' \in {"round", "say"} /\ cache' = T!Base /\ g' \in T!Picks(cache')
        /\ UNCHANGED <<program, best, prefix, drafting, todo, fault, out, accept_lens>>
    BY <1>2 DEF T!Prime, T!fixed
  <2>2. at \in SayAts /\ at' \in SayAts
    BY <2>1 DEF SayAts
  <2>3. program \in T!Greedies /\ T!Base \in Seq(Sym) /\ T!Base' = T!Base
    BY <2>1, <2>2, GreedyAt, BaseWhole DEF T!Base
  <2>4. TapeInv' /\ RowsInv' /\ BestIs' /\ BestIs
    BY <2>1, <2>2, <2>3, GreedyKeeps
  <2>5. out = <<>> /\ accept_lens = <<>>
    BY <2>1 DEF ToolInv, GreedyInv
  <2>6. Saying'
    <3>1. PICK o \in Seq(T!Tokens) : o = <<>>
      BY EmptySeq, Zenon
    <3>2. Len(o) = 0 /\ T!Base \o o = T!Base
      BY <2>3, <3>1
    <3>3. SubSeq(best, 1, 0) = <<>>
      BY SubSeqEmpty
    <3>4. o = SubSeq(best, 1, Len(o)) /\ g' \in T!Picks(T!Base \o o)
      BY <2>1, <3>1, <3>2, <3>3
    <3>5. g' = best[0 + 1]
      BY <2>3, <3>2, <3>4, PickIsBest
    <3>6. 0 <= NDecode + DraftLen
      BY DEF T!ToolsAssumption
    <3>7. cache' = (T!Base \o out)'
      BY <2>1, <2>3, <2>5, <3>1, <3>2
    <3>8. /\ out' = o /\ best' = best
      BY <2>1, <2>5, <3>1
    <3> QED BY <3>2, <3>4, <3>5, <3>6, <3>7, <3>8 DEF Saying
  <2>7. Accounted(0)'
    <3>1. accept_lens' = <<>> /\ out' = <<>>
      BY <2>1, <2>5
    <3>2. Len(<<>>) = 0 /\ <<>> \in Seq(Nat)
      OBVIOUS
    <3> QED BY <3>1, <3>2, NoSlots DEF Accounted
  <2>8. GreedyInv'
    BY <2>1, <2>4, <2>6, <2>7 DEF GreedyInv
  <2> QED BY <2>1, <2>4, <2>8 DEF ToolInv
<1> QED BY <1>1, <1>2

\* A step that gives nothing out.
LEMMA GreedyIdle ==
  ASSUME T!ToolsAssumption, ToolInv, T!Enough \/ T!Round
  PROVE  ToolInv' /\ UNCHANGED <<best, out>>
<1>1. UNCHANGED <<program, best, prefix, drafting, todo, fault, cache, out, accept_lens, g>>
  BY DEF T!Enough, T!Round, T!fixed, T!greedy
<1>2. at \in SayAts /\ at' \in SayAts \cup {"done", "failed"}
  BY DEF T!Enough, T!Round, SayAts
<1>3. program \in T!Greedies /\ cache' \in Seq(Sym)
  BY <1>1, <1>2, GreedyAt
<1>4. TapeInv' /\ RowsInv' /\ BestIs'
  BY <1>1, <1>2, <1>3, GreedyKeeps
<1>5. CASE T!Enough
  <2>1. at' = "done"
    BY <1>5 DEF T!Enough
  <2> QED BY <1>1, <1>4, <2>1 DEF GreedyInv, ToolInv
<1>6. CASE T!Round
  <2>1. at = "round" /\ at' = "verify" /\ m' = 0 /\ Len(out) < NDecode
    BY <1>6 DEF T!Round
  <2>2. Saying /\ Accounted(0)
    BY <2>1 DEF ToolInv, GreedyInv
  <2>3. Saying'
    BY <1>1, <2>2 DEF Saying, T!Base
  <2>4. Accounted(m)'
    BY <1>1, <2>1, <2>2 DEF Accounted
  <2>5. NDecode \in Nat /\ DraftLen \in Nat
    BY DEF T!ToolsAssumption
  <2>6. m' \in Nat /\ m' <= DraftLen /\ Len(out') < NDecode + m'
    BY <1>1, <2>1, <2>5
  <2>7. GreedyInv'
    BY <1>4, <2>1, <2>3, <2>4, <2>6 DEF GreedyInv
  <2> QED BY <1>1, <1>4, <2>7 DEF ToolInv
<1> QED BY <1>5, <1>6

\* A step that gives out the target's next token.
LEMMA GreedySays ==
  ASSUME T!ToolsAssumption, ToolInv, at \in {"say", "verify"}, T!Commit, Len(out) < NDecode + DraftLen,
         UNCHANGED <<program, best, prefix, drafting, todo, fault>>, at' \in SayAts
  PROVE  TapeInv' /\ RowsInv' /\ BestIs' /\ Saying' /\ Len(out') = Len(out) + 1 /\ G!Next
<1>1. at \in SayAts
  BY DEF SayAts
<1>2. program \in T!Greedies
  BY <1>1, GreedyAt
<1>3. Saying /\ BestIs
  BY <1>2 DEF ToolInv, GreedyInv
<1>4. Saying' /\ Len(out') = Len(out) + 1 /\ G!Next
  BY <1>2, <1>3, CommitSays
<1>5. cache' \in Seq(Sym)
  <2>1. cache' = (T!Base \o out)' /\ out' \in Seq(T!Tokens)
    BY <1>4 DEF Saying
  <2>2. T!Base \in Seq(Sym) /\ T!Base' = T!Base
    BY <1>2, BaseWhole DEF T!Base
  <2>3. out' \in Seq(Sym)
    BY <2>1 DEF Sym
  <2> QED BY <2>1, <2>2, <2>3
<1>6. TapeInv' /\ RowsInv' /\ BestIs'
  BY <1>1, <1>2, <1>5, GreedyKeeps
<1> QED BY <1>4, <1>6

LEMMA SayStep ==
  ASSUME T!ToolsAssumption, ToolInv, T!Say
  PROVE  ToolInv' /\ G!Next
<1>1. /\ at = "say" /\ at' = "say" /\ Len(out) < NDecode /\ T!Commit
      /\ UNCHANGED <<program, best, prefix, drafting, todo, fault>>
  BY DEF T!Say, T!fixed, T!Commit
<1>2. Len(out) < NDecode + DraftLen
  <2>1. NDecode \in Nat /\ DraftLen \in Nat
    BY DEF T!ToolsAssumption
  <2>2. out \in Seq(T!Tokens)
    BY <1>1 DEF ToolInv, GreedyInv, Saying
  <2>3. Len(out) \in Nat
    BY <2>2, LenProperties, Zenon
  <2> QED BY <1>1, <2>1, <2>3
<1>3. at' \in SayAts /\ at \in {"say", "verify"}
  BY <1>1 DEF SayAts
<1>4. TapeInv' /\ RowsInv' /\ BestIs' /\ Saying' /\ G!Next
  BY <1>1, <1>2, <1>3, GreedySays
<1>5. GreedyInv'
  BY <1>1, <1>4 DEF GreedyInv
<1> QED BY <1>4, <1>5 DEF ToolInv

\* The token of a decode that fails is out already.
LEMMA BreakStep ==
  ASSUME T!ToolsAssumption, ToolInv, T!Break
  PROVE  ToolInv' /\ G!Next
<1>1. /\ at \in {"say", "verify"} /\ at' = "done" /\ out' = Append(out, g)
      /\ (at = "say" => Len(out) < NDecode)
      /\ UNCHANGED <<program, best, prefix, drafting, todo, fault, cache>>
  BY DEF T!Break, T!fixed
<1>2. at \in SayAts
  BY <1>1 DEF SayAts
<1>3. program \in T!Greedies /\ cache' \in Seq(Sym)
  BY <1>1, <1>2, GreedyAt
<1>4. TapeInv' /\ RowsInv' /\ BestIs' /\ BestIs
  BY <1>1, <1>2, <1>3, GreedyKeeps
<1>5. GreedyInv'
  BY <1>1, <1>4 DEF GreedyInv
<1>6. Len(out) < Len(best)
  <2>1. Len(best) = NDecode + DraftLen + 1 /\ NDecode \in Nat /\ DraftLen \in Nat
    BY <1>4, BestSeq
  <2>2. out \in Seq(T!Tokens) /\ Len(out) <= NDecode + DraftLen
    BY <1>1 DEF ToolInv, GreedyInv, Saying
  <2>3. Len(out) \in Nat
    BY <2>2, LenProperties, Zenon
  <2> QED BY <2>1, <2>2, <2>3
<1>7. g = best[Len(out) + 1]
  BY <1>1 DEF ToolInv, GreedyInv, Saying
<1>8. G!Next
  BY <1>1, <1>6, <1>7 DEF G!Next, G!Emit
<1> QED BY <1>4, <1>5, <1>8 DEF ToolInv

\* An accepted draft.
LEMMA MatchStep ==
  ASSUME T!ToolsAssumption, ToolInv, T!Match
  PROVE  ToolInv' /\ G!Next
<1>1. /\ at = "verify" /\ at' = "verify" /\ T!Commit /\ m < DraftLen /\ m' = m + 1
      /\ UNCHANGED <<program, best, prefix, drafting, todo, fault, accept_lens>>
  BY DEF T!Match, T!Agrees, T!fixed
<1>2. m \in Nat /\ m <= DraftLen /\ Len(out) < NDecode + m /\ Accounted(m) /\ Saying
  BY <1>1 DEF ToolInv, GreedyInv
<1>3. Len(out) \in Nat /\ NDecode \in Nat /\ DraftLen \in Nat
  <2>1. out \in Seq(T!Tokens)
    BY <1>2 DEF Saying
  <2>2. Len(out) \in Nat
    BY <2>1, LenProperties, Zenon
  <2> QED BY <2>2 DEF T!ToolsAssumption
<1>4. Len(out) < NDecode + DraftLen
  BY <1>2, <1>3
<1>5. at' \in SayAts /\ at \in {"say", "verify"}
  BY <1>1 DEF SayAts
<1>6. TapeInv' /\ RowsInv' /\ BestIs' /\ Saying' /\ Len(out') = Len(out) + 1 /\ G!Next
  BY <1>1, <1>4, <1>5, GreedySays
<1>7. m' \in Nat /\ m' <= DraftLen /\ Len(out') < NDecode + m'
  BY <1>1, <1>2, <1>3, <1>6
<1>8. Accounted(m)'
  <2>1. Cardinality(Slots(accept_lens)) \in Nat /\ Len(out) = Cardinality(Slots(accept_lens)) + m
    BY <1>2, FS_CardinalityType DEF Accounted
  <2>2. Len(out') = Cardinality(Slots(accept_lens)) + m'
    BY <1>1, <1>2, <1>6, <2>1
  <2> QED BY <1>1, <1>2, <2>2 DEF Accounted
<1>9. GreedyInv'
  BY <1>1, <1>6, <1>7, <1>8 DEF GreedyInv
<1> QED BY <1>6, <1>9 DEF ToolInv

\* The end of a round, with the target's own token when it accepted none.
LEMMA MissStep ==
  ASSUME T!ToolsAssumption, ToolInv, T!Miss
  PROVE  ToolInv' /\ (G!Next \/ UNCHANGED <<best, out>>)
<1>1. /\ at = "verify" /\ at' = "round" /\ accept_lens' = Append(accept_lens, m)
      /\ (m = 0 => T!Commit) /\ (m # 0 => UNCHANGED <<g, cache, out>>)
      /\ UNCHANGED <<program, best, prefix, drafting, todo, fault>>
  BY DEF T!Miss, T!fixed
<1>2. m \in Nat /\ m <= DraftLen /\ Len(out) < NDecode + m /\ Accounted(m) /\ Saying
  BY <1>1 DEF ToolInv, GreedyInv
<1>3. Len(out) \in Nat /\ NDecode \in Nat /\ DraftLen \in Nat
  <2>1. out \in Seq(T!Tokens)
    BY <1>2 DEF Saying
  <2>2. Len(out) \in Nat
    BY <2>1, LenProperties, Zenon
  <2> QED BY <2>2 DEF T!ToolsAssumption
<1>4. at' \in SayAts /\ at \in {"say", "verify"} /\ at \in SayAts
  BY <1>1 DEF SayAts
<1>5. /\ accept_lens' \in Seq(Nat) /\ IsFiniteSet(Slots(accept_lens'))
      /\ Cardinality(Slots(accept_lens')) = Cardinality(Slots(accept_lens)) + T!Given(m)
  <2>1. accept_lens \in Seq(Nat) /\ IsFiniteSet(Slots(accept_lens))
    BY <1>2 DEF Accounted
  <2>2. accept_lens' \in Seq(Nat)
    BY <1>1, <1>2, <2>1
  <2> QED BY <1>1, <1>2, <2>1, <2>2, SlotsAdded
<1>6. Len(out) = Cardinality(Slots(accept_lens)) + m /\ Cardinality(Slots(accept_lens)) \in Nat
  BY <1>2, FS_CardinalityType DEF Accounted
<1>7. CASE m = 0
  <2>1. Len(out) < NDecode + DraftLen
    BY <1>2, <1>3, <1>7
  <2>2. TapeInv' /\ RowsInv' /\ BestIs' /\ Saying' /\ Len(out') = Len(out) + 1 /\ G!Next
    BY <1>1, <1>4, <1>7, <2>1, GreedySays
  <2>3. T!Given(m) = 1
    BY <1>7 DEF T!Given
  <2>4. Len(out') = Cardinality(Slots(accept_lens')) + 0
    BY <1>5, <1>6, <1>7, <2>2, <2>3
  <2>5. Accounted(0)'
    BY <1>5, <2>4 DEF Accounted
  <2>6. GreedyInv'
    BY <1>1, <2>2, <2>5 DEF GreedyInv
  <2> QED BY <2>2, <2>6 DEF ToolInv
<1>8. CASE m # 0
  <2>1. program \in T!Greedies /\ cache' \in Seq(Sym)
    BY <1>1, <1>4, <1>8, GreedyAt
  <2>2. TapeInv' /\ RowsInv' /\ BestIs'
    BY <1>1, <1>4, <2>1, GreedyKeeps
  <2>3. Saying'
    BY <1>1, <1>2, <1>8 DEF Saying, T!Base
  <2>4. T!Given(m) = m
    BY <1>8 DEF T!Given
  <2>5. Len(out') = Cardinality(Slots(accept_lens')) + 0
    BY <1>1, <1>2, <1>5, <1>6, <1>8, <2>4
  <2>6. Accounted(0)'
    BY <1>5, <2>5 DEF Accounted
  <2>7. GreedyInv'
    BY <1>1, <2>2, <2>3, <2>6 DEF GreedyInv
  <2> QED BY <1>1, <1>8, <2>2, <2>7 DEF ToolInv
<1> QED BY <1>7, <1>8

\* A step of a tape says nothing.
LEMMA TapeSays ==
  ASSUME ToolInv, at \notin SayAts, at' \notin SayAts, UNCHANGED <<program, best>>
  PROVE  GreedyInv'
<1>1. program \in T!Greedies => BestIs'
  BY DEF ToolInv, GreedyInv, BestIs
<1> QED BY <1>1 DEF GreedyInv, SayAts

LEMMA TapeStep ==
  ASSUME T!ToolsAssumption, ToolInv,
         \/ T!Contract \/ T!EndTape \/ T!Prefill \/ T!PassOver \/ T!Tap \/ T!TapFails \/ T!Probe
         \/ T!Wake \/ T!Capture \/ T!Roll \/ T!RollFails \/ T!Dump
  PROVE  ToolInv' /\ UNCHANGED <<best, out>>
<1>1. TapeInv /\ RowsInv
  BY DEF ToolInv
<1>2. UNCHANGED <<program, best, drafting, out>> /\ at \notin SayAts /\ at' \notin SayAts
  BY DEF T!Contract, T!EndTape, T!Prefill, T!PassOver, T!Tap, T!TapFails, T!Probe, T!Wake, T!Capture,
         T!Roll, T!RollFails, T!Dump, T!fixed, T!greedy, T!NextEvent, SayAts
<1>3. GreedyInv'
  BY <1>2, TapeSays
<1>4. TapeInv' /\ RowsInv'
  <2>1. CASE \/ T!Contract \/ T!EndTape \/ T!PassOver \/ T!Tap \/ T!TapFails \/ T!Probe \/ T!Wake
             \/ T!Dump \/ (T!Prefill /\ program # "rollout")
    <3>1. TapeInv'
      BY <1>1, <2>1, TapeEdges, PrefillStep, PassOverStep, TapStep, ProbeStep, EventEnds
    <3>2. rows' = rows /\ at' \notin RollAts
      BY <2>1 DEF T!Contract, T!EndTape, T!Prefill, T!PassOver, T!Tap, T!TapFails, T!Probe, T!Wake,
                  T!Dump, T!NextEvent, RollAts
    <3>3. RowsInv'
      BY <1>1, <1>2, <3>2 DEF RowsInv, Parallel, BestIs, RollAts
    <3> QED BY <3>1, <3>3
  <2>2. CASE T!Prefill /\ program = "rollout"
    BY <1>1, <2>2, PrefillStep, RollBegins
  <2>3. CASE T!Capture
    BY <1>1, <2>3, EventEnds, CaptureRows
  <2>4. CASE T!Roll \/ T!RollFails
    BY <1>1, <2>4, RollStep, RollEnds
  <2> QED BY <2>1, <2>2, <2>3, <2>4
<1> QED BY <1>2, <1>3, <1>4 DEF ToolInv

LEMMA ToolStep ==
  ASSUME T!ToolsAssumption, ToolInv, T!Next
  PROVE  ToolInv' /\ (G!Next \/ UNCHANGED <<best, out>>)
<1>1. CASE \/ T!Contract \/ T!EndTape \/ T!Prefill \/ T!PassOver \/ T!Tap \/ T!TapFails \/ T!Probe
           \/ T!Wake \/ T!Capture \/ T!Roll \/ T!RollFails \/ T!Dump
  BY <1>1, TapeStep
<1>2. CASE T!Baseline \/ T!Prime
  BY <1>2, GreedyBegins
<1>3. CASE T!Enough \/ T!Round
  BY <1>3, GreedyIdle
<1>4. CASE T!Say \/ T!Break \/ T!Match \/ T!Miss
  BY <1>4, SayStep, BreakStep, MatchStep, MissStep
<1>5. CASE T!Fail
  <2>1. /\ at' = "failed" /\ UNCHANGED <<program, best, prefix, drafting, out, rows>>
    BY <1>5 DEF T!Fail, T!fixed, T!greedy
  <2>2. TapeInv'
    BY <1>5, TapeEdges DEF ToolInv
  <2>3. RowsInv'
    BY <2>1 DEF ToolInv, RowsInv, Parallel, BestIs, RollAts
  <2>4. GreedyInv'
    BY <2>1 DEF ToolInv, GreedyInv, BestIs
  <2> QED BY <2>1, <2>2, <2>3, <2>4 DEF ToolInv
<1> QED BY <1>1, <1>2, <1>3, <1>4, <1>5 DEF T!Next, T!Work

LEMMA ToolInit == ASSUME T!ToolsAssumption, T!Init PROVE ToolInv /\ out = <<>>
<1>1. /\ program \in T!Tools /\ cache = <<>> /\ rows = T!NoRows /\ fault = FALSE /\ out = <<>>
      /\ accept_lens = <<>> /\ todo \in T!Tapes(program)
      /\ best \in IF program \in T!Greedies \cup {"rollout"}
                  THEN [1 .. (NDecode + DraftLen + 1) -> T!Tokens] ELSE {<<>>}
      /\ prefix = IF program = "heartbeat" THEN T!Common(todo[1], todo[2]) ELSE 0
  BY DEF T!Init
<1>2. /\ program = "heartbeat" => at = "contract"
      /\ program \in T!Greedies => at \in {"baseline", "prompt"}
      /\ program # "heartbeat" /\ program \notin T!Greedies => at = "event"
  BY DEF T!Init, T!Greedies
<1>3. drafting \in BOOLEAN
  <2>1. CASE program = "capture"
    BY <2>1 DEF T!Init
  <2>2. CASE program # "capture"
    <3>1. drafting = (program \in {"gate", "accept"})
      BY <2>2 DEF T!Init
    <3> QED BY <3>1
  <2> QED BY <2>1, <2>2
<1>4. todo \in Seq(Frame) /\ (program = "heartbeat" => Len(todo) >= 2)
  <2>1. MaxTape \in Nat
    BY DEF T!ToolsAssumption
  <2>2. \A s \in T!SeqOf(Frame, MaxTape) : s \in Seq(Frame)
    BY <2>1 DEF T!SeqOf
  <2>3. CASE program = "heartbeat"
    <3>1. T!Tapes("heartbeat") = {s \in T!SeqOf(Frame, MaxTape) : Len(s) >= 2}
      BY DEF T!Tapes, T!Greedies
    <3>2. todo \in T!SeqOf(Frame, MaxTape) /\ Len(todo) >= 2
      BY <1>1, <2>3, <3>1
    <3> QED BY <2>2, <3>2
  <2>4. CASE program \in T!Greedies
    <3>1. todo = <<>> /\ program # "heartbeat"
      BY <1>1, <2>4 DEF T!Tapes, T!Greedies
    <3> QED BY <3>1
  <2>5. CASE program # "heartbeat" /\ program \notin T!Greedies
    BY <1>1, <2>2, <2>5 DEF T!Tapes
  <2> QED BY <2>3, <2>4, <2>5
<1>5. /\ prefix \in Nat /\ (program # "heartbeat" => prefix = 0)
      /\ program = "heartbeat" => prefix <= Len(Head(todo)) /\ todo # <<>>
  <2>1. CASE program = "heartbeat"
    <3>1. todo # <<>> /\ Head(todo) = todo[1] /\ todo[1] \in Frame /\ todo[2] \in Frame
      BY <1>4, <2>1
    <3>2. todo[1] \in Seq(Sym) /\ todo[2] \in Seq(Sym) /\ Len(todo[1]) \in Nat
      BY <3>1, FrameIs
    <3>3. T!Common(todo[1], todo[2]) \in 0 .. Len(todo[1])
      BY <3>2, CommonIs
    <3>4. prefix \in 0 .. Len(todo[1])
      BY <1>1, <2>1, <3>3
    <3> QED BY <2>1, <3>1, <3>2, <3>4
  <2>2. CASE program # "heartbeat"
    BY <1>1, <2>2
  <2> QED BY <2>1, <2>2
<1>6. ToolTypes
  <2>1. cache \in Seq(Sym)
    BY <1>1
  <2>2. fault \in BOOLEAN
    BY <1>1
  <2> QED BY <1>1, <1>3, <1>4, <1>5, <2>1, <2>2 DEF ToolTypes
<1>7. Where
  <2>1. program \in T!Greedies => program # "heartbeat"
    BY DEF T!Greedies
  <2> QED BY <1>2, <1>5, <2>1 DEF Where, SayAts, TapAts, RollAts
<1>8. Taps
  <2>1. at = "event" => T!Held = <<>> /\ prefix = 0
    BY <1>1, <1>2, <1>5 DEF T!Held
  <2>2. Len(<<>>) = 0 /\ at \in {"contract", "baseline", "prompt", "event"}
    BY <1>2
  <2> QED BY <2>1, <2>2 DEF Taps
<1>9. RowsInv
  <2>1. Parallel
    BY <1>1 DEF Parallel, T!NoRows, Columns
  <2>2. program = "rollout" => BestIs
    BY <1>1 DEF BestIs
  <2>3. at \notin RollAts
    BY <1>2 DEF RollAts
  <2> QED BY <2>1, <2>2, <2>3 DEF RowsInv, RollAts
<1>10. GreedyInv
  <2>1. program \in T!Greedies => BestIs
    BY <1>1 DEF BestIs
  <2>2. at \in {"contract", "baseline", "prompt", "event"}
    BY <1>2
  <2> QED BY <1>1, <2>1, <2>2 DEF GreedyInv
<1> QED BY <1>1, <1>6, <1>7, <1>8, <1>9, <1>10 DEF ToolInv, TapeInv

\* What the invariant says of latents, rows and accept lengths.
LEMMA ToolHolds ==
  ASSUME T!ToolsAssumption, ToolInv
  PROVE  T!TapsOwnFrame /\ T!RowsAligned /\ T!AcceptsAccount
<1>1. T!TapsOwnFrame
  <2> SUFFICES ASSUME at = "probe", T!Clean PROVE tap = Head(todo)
    BY DEF T!TapsOwnFrame
  <2>1. todo # <<>> /\ todo \in Seq(Frame) /\ prefix \in Nat /\ cache \in Seq(Sym)
    BY DEF ToolInv, TapeInv, Where, ToolTypes, TapAts
  <2>2. PICK f \in Seq(Sym) : f = Head(todo) /\ Len(f) \in Nat
    BY <2>1, HeadIs
  <2>3. Steady
    BY DEF T!Clean, Steady
  <2>4. Holds(cache, f, Len(f)) /\ tap = cache /\ prefix + 2 <= Len(f)
    BY <2>2, <2>3 DEF ToolInv, TapeInv, Taps
  <2>5. SubSeq(f, 1, prefix) = SubSeq(cache, 1, prefix)
    <3>1. CASE program = "heartbeat"
      BY <2>2, <3>1 DEF T!Clean
    <3>2. CASE program # "heartbeat"
      <4>1. prefix = 0
        BY <3>2 DEF ToolInv, TapeInv, ToolTypes
      <4>2. SubSeq(f, 1, 0) = <<>> /\ SubSeq(cache, 1, 0) = <<>>
        BY SubSeqEmpty
      <4> QED BY <4>1, <4>2
    <3> QED BY <3>1, <3>2
  <2>6. cache = SubSeq(f, 1, prefix) \o SubSeq(f, prefix + 1, Len(f))
    BY <2>4, <2>5, Zenon DEF Holds
  <2>7. prefix <= Len(f)
    BY <2>1, <2>2, <2>4
  <2>8. SubSeq(f, 1, prefix) \o SubSeq(f, prefix + 1, Len(f)) = f
    BY <2>1, <2>7, FrameWhole, Zenon
  <2> QED BY <2>2, <2>4, <2>6, <2>8, Zenon
<1>2. T!RowsAligned
  <2>1. ASSUME program \in T!Captures PROVE Parallel
    BY <2>1 DEF ToolInv, RowsInv
  <2>2. ASSUME at = "dump", NEW i \in DOMAIN rows.label
        PROVE  /\ rows.feat[i] = SubSeq(cache, 1, rows.att[i])
               /\ i < Len(rows.label) => rows.label[i] = cache[rows.att[i] + 1]
    BY <2>2, RolledAligned DEF ToolInv
  <2> QED BY <2>1, <2>2, Zenon DEF T!RowsAligned, Parallel
<1>3. T!AcceptsAccount
  <2> SUFFICES ASSUME at = "round" PROVE Len(out) = T!Cardinality(Slots(accept_lens))
    BY DEF T!AcceptsAccount, Slots
  <2>1. Accounted(0)
    BY DEF ToolInv, GreedyInv
  <2>2. Cardinality(Slots(accept_lens)) \in Nat
    BY <2>1, FS_CardinalityType DEF Accounted
  <2> QED BY <2>1, <2>2, ToolsCount DEF Accounted
<1> QED BY <1>1, <1>2, <1>3

-----------------------------------------------------------------------------
(***************************************************************************)
(* The process: the invariant of whichever program it runs, and of the     *)
(* operator's PID file.                                                    *)
(***************************************************************************)
ProgramInv ==
  /\ program = "spec_validate" => LoopInv /\ DraftInv
  /\ program = "kairos" => KairosInv
  /\ program \in T!Tools => ToolInv
  /\ LifeInv

\* The programs are different ones.
LEMMA ProgramsDiffer ==
  /\ "spec_validate" \notin T!Tools /\ "kairos" \notin T!Tools /\ "daemon" \notin T!Tools
BY DEF T!Tools, T!Gated, T!Captures, T!Greedies

\* What a step leaves alone keeps its part of the invariant.
LEMMA SpecKept ==
  ASSUME LoopInv, DraftInv, UNCHANGED <<greedyVars, specVars>>
  PROVE  LoopInv' /\ DraftInv'
<1>1. /\ proto' = proto /\ target' = target /\ draft' = draft /\ ref_at_p' = ref_at_p
      /\ t_logits' = t_logits /\ d_logits' = d_logits /\ draft_tokens' = draft_tokens
      /\ ki' = ki /\ batch' = batch /\ phase' = phase /\ best' = best /\ out' = out
  BY DEF greedyVars, specVars
<1>2. LoopInv'
  BY <1>1 DEF LoopInv, OneText, S!OutputIsGreedy, Room, InBatch
<1>3. DraftInv'
  BY <1>1 DEF DraftInv, Between, Proposing, Comparing, Ahead
<1> QED BY <1>2, <1>3

LEMMA KairosKept ==
  ASSUME KairosInv, UNCHANGED kairosVars
  PROVE  KairosInv'
<1>1. /\ driver' = driver /\ prune' = prune /\ tape' = tape /\ session' = session
      /\ logits_at' = logits_at /\ pre_pos' = pre_pos /\ raw' = raw /\ decided' = decided
      /\ log' = log /\ counters' = counters /\ pc' = pc
  BY DEF kairosVars
<1>2. /\ Prev' = Prev /\ \A o : Told(o)' = Told(o)
      /\ LogKept'
  BY <1>1, SameLog DEF KairosInv
<1>3. KairosTypes' /\ OnTop'
  BY <1>1, <1>2 DEF KairosInv, KairosTypes, OnTop, Played
<1>4. Tallied'
  BY <1>1, <1>2 DEF KairosInv, Tallied, Counted
<1> QED BY <1>2, <1>3, <1>4 DEF KairosInv

LEMMA ToolKept ==
  ASSUME ToolInv, UNCHANGED <<program, toolVars, greedyVars>>
  PROVE  ToolInv'
<1>1. /\ program' = program /\ todo' = todo /\ cache' = cache /\ tap' = tap /\ rows' = rows
      /\ prefix' = prefix /\ drafting' = drafting /\ fault' = fault /\ g' = g /\ drafts' = drafts
      /\ m' = m /\ accept_lens' = accept_lens /\ at' = at /\ best' = best /\ out' = out
  BY DEF toolVars, greedyVars
<1>2. TapeInv'
  BY <1>1 DEF ToolInv, TapeInv, ToolTypes, Where, Taps, Steady, Holds, T!Held
<1>3. RowsInv'
  BY <1>1 DEF ToolInv, RowsInv, Parallel, BestIs, Rolled, RowIs
<1>4. GreedyInv'
  BY <1>1 DEF ToolInv, GreedyInv, BestIs, Saying, Accounted, Slots, T!Base, T!Greedies
<1> QED BY <1>2, <1>3, <1>4 DEF ToolInv

LEMMA LifeKept ==
  ASSUME LifeInv, UNCHANGED lifeVars
  PROVE  LifeInv'
<1>1. pid_file' = pid_file /\ cmd' = cmd /\ proc' = proc /\ crossed' = crossed
  BY DEF lifeVars
<1>2. D!Live' = D!Live
  BY <1>1 DEF D!Live, D!Phase
<1>3. LifeTypes'
  BY <1>1, <1>2 DEF LifeInv, LifeTypes, D!None, Commands, D!Idle
<1>4. Locating'
  <2>1. \A p \in D!Live : Led(p) => Led(p)'
    BY <1>1, Zenon DEF Led, D!Idle
  <2> QED BY <1>1, <1>2, <2>1 DEF LifeInv, Locating, D!Idle
<1> QED BY <1>3, <1>4 DEF LifeInv

LEMMA ProgramInit == Init => ProgramInv /\ out = <<>>
<1> SUFFICES ASSUME Init PROVE ProgramInv /\ out = <<>>
  OBVIOUS
<1>1. S!SpecAssumption /\ T!ToolsAssumption /\ D!LifeAssumption
  BY ProgramsAssumption
<1>2. LifeInv
  BY <1>1, LifeInit DEF Init
<1>3. CASE program = "spec_validate"
  <2>1. S!Init
    BY <1>3 DEF Init
  <2>2. LoopInv /\ DraftInv /\ out = <<>>
    BY <2>1, <1>1, LoopInit, DraftInit DEF S!Init
  <2> QED BY <1>2, <1>3, <2>2, ProgramsDiffer DEF ProgramInv
<1>4. CASE program \in T!Tools
  <2>1. T!Init
    BY <1>4 DEF Init
  <2>2. ToolInv /\ out = <<>>
    BY <2>1, <1>1, ToolInit
  <2> QED BY <1>2, <1>4, <2>2, ProgramsDiffer DEF ProgramInv
<1>5. CASE program \notin T!Tools \cup {"spec_validate"}
  <2>1. out = <<>> /\ (program = "kairos" => A!Init)
    BY <1>5 DEF Init
  <2> QED BY <1>2, <1>5, <2>1, KairosInit DEF ProgramInv
<1> QED BY <1>3, <1>4, <1>5

\* A step of each program keeps the invariant and is one of greedy decoding, if
\* it concerns its text at all.
Decodes == G!Next \/ UNCHANGED <<best, out>>

LEMMA SpecProgram ==
  ASSUME ProgramInv, program = "spec_validate", S!Next, SpecOnly
  PROVE  ProgramInv' /\ Decodes
<1>1. S!SpecAssumption /\ LoopInv /\ DraftInv /\ LifeInv
  BY ProgramsAssumption DEF ProgramInv
<1>2. LoopInv' /\ Decodes
  BY <1>1, LoopStep DEF Decodes
<1>3. DraftInv'
  BY <1>1, <1>2, DraftStep
<1>4. program' = program /\ LifeInv'
  BY <1>1, LifeKept DEF SpecOnly
<1> QED BY <1>2, <1>3, <1>4, ProgramsDiffer DEF ProgramInv

LEMMA KairosProgram ==
  ASSUME ProgramInv, program = "kairos", A!Next, KairosOnly
  PROVE  ProgramInv' /\ Decodes
<1>1. KairosInv /\ LifeInv
  BY DEF ProgramInv
<1>2. KairosInv'
  BY <1>1, KairosStep
<1>3. program' = program /\ LifeInv' /\ Decodes
  BY <1>1, LifeKept DEF KairosOnly, Decodes, greedyVars
<1> QED BY <1>2, <1>3, ProgramsDiffer DEF ProgramInv

LEMMA ToolProgram ==
  ASSUME ProgramInv, program \in T!Tools, T!Next, ToolOnly
  PROVE  ProgramInv' /\ Decodes
<1>1. T!ToolsAssumption /\ ToolInv /\ LifeInv
  BY ProgramsAssumption DEF ProgramInv
<1>2. ToolInv' /\ Decodes
  BY <1>1, ToolStep DEF Decodes
<1>3. program' \in T!Tools
  <2>1. ToolTypes'
    BY <1>2 DEF ToolInv, TapeInv
  <2> QED BY <2>1 DEF ToolTypes, T!Tools, T!Gated, T!Captures, T!Greedies
<1>4. LifeInv'
  BY <1>1, LifeKept DEF ToolOnly
<1>5. program' # "spec_validate" /\ program' # "kairos"
  BY <1>3, ProgramsDiffer DEF T!Tools, T!Gated, T!Captures, T!Greedies
<1> QED BY <1>2, <1>4, <1>5 DEF ProgramInv

LEMMA DaemonProgram ==
  ASSUME ProgramInv, program = "daemon", D!Next, DaemonOnly
  PROVE  ProgramInv' /\ Decodes
<1>1. D!LifeAssumption /\ LifeInv
  BY ProgramsAssumption DEF ProgramInv
<1>2. LifeInv'
  BY <1>1, LifeStep
<1>3. program' = program /\ Decodes
  BY DEF DaemonOnly, Decodes, greedyVars
<1> QED BY <1>2, <1>3, ProgramsDiffer DEF ProgramInv

LEMMA ProgramStep ==
  ASSUME ProgramInv, [Next]_vars
  PROVE  ProgramInv' /\ Decodes
<1>1. CASE Next
  BY <1>1, SpecProgram, KairosProgram, ToolProgram, DaemonProgram DEF Next
<1>2. CASE UNCHANGED vars
  <2>1. /\ UNCHANGED program /\ UNCHANGED greedyVars /\ UNCHANGED specVars /\ UNCHANGED kairosVars
        /\ UNCHANGED toolVars /\ UNCHANGED lifeVars
    BY <1>2 DEF vars
  <2>2. program' = program /\ LifeInv' /\ Decodes
    BY <2>1, LifeKept DEF ProgramInv, Decodes, greedyVars
  <2>3. program = "spec_validate" => LoopInv' /\ DraftInv'
    BY <2>1, SpecKept DEF ProgramInv
  <2>4. program = "kairos" => KairosInv'
    BY <2>1, KairosKept DEF ProgramInv
  <2>5. program \in T!Tools => ToolInv'
    BY <2>1, ToolKept DEF ProgramInv
  <2>6. program' \in T!Tools => program \in T!Tools
    BY <2>2 DEF T!Tools, T!Gated, T!Captures, T!Greedies
  <2> QED BY <2>2, <2>3, <2>4, <2>5, <2>6 DEF ProgramInv
<1> QED BY <1>1, <1>2

LEMMA ProgramKept == Spec => []ProgramInv
<1>1. Init => ProgramInv
  BY ProgramInit
<1>2. ProgramInv /\ [Next]_vars => ProgramInv'
  BY ProgramStep
<1> QED BY <1>1, <1>2, PTL DEF Spec

LEMMA ProgramHolds ==
  ProgramInv => SpeculationExact /\ IdleLeavesNoTrace /\ TapsOwnFrame /\ RowsAligned /\ Locatable
<1> SUFFICES ASSUME ProgramInv
             PROVE  SpeculationExact /\ IdleLeavesNoTrace /\ TapsOwnFrame /\ RowsAligned /\ Locatable
  OBVIOUS
<1>1. SpeculationExact
  BY LoopHolds DEF ProgramInv, SpeculationExact
<1>2. IdleLeavesNoTrace
  BY KairosHolds DEF ProgramInv, IdleLeavesNoTrace
<1>3. TapsOwnFrame /\ RowsAligned
  BY ToolHolds, ProgramsAssumption DEF ProgramInv, TapsOwnFrame, RowsAligned
<1>4. Locatable
  BY LifeHolds DEF ProgramInv, Locatable
<1> QED BY <1>1, <1>2, <1>3, <1>4

-----------------------------------------------------------------------------
\* Speculative decoding outputs the target's own greedy tokens; after a batch the
\* two sessions and their logits are in step, and a draft rewound after a
\* rejection holds what one holds that never overshot (spec_validate's loops,
\* sp_session_rewind).
THEOREM SpeculationIsExact == Spec => []SpeculationExact
<1>1. ProgramInv => SpeculationExact
  BY ProgramHolds
<1> QED BY <1>1, ProgramKept, PTL

\* The validator's loops, the drafted decode and the plain decodes implement one
\* greedy decoding of the target: each of their steps appends its next token or
\* none (spec_validate.rs, eagle_accept.rs).
THEOREM DecodingIsGreedy == Spec => ImplementsGreedy
<1>1. Init => G!Init
  BY ProgramInit DEF G!Init
<1>2. ProgramInv /\ [Next]_vars => [G!Next]_<<best, out>>
  BY ProgramStep DEF Decodes
<1> QED BY <1>1, <1>2, ProgramKept, PTL DEF Spec, ImplementsGreedy, G!Spec

\* An idle tick of KAIROS rewinds to what the session held before it, so that a
\* tape of idle ticks grows nothing, and every tick is counted once, under what
\* it was expected to do and did (kairos.rs' tick, kairos_runner.rs' counters).
THEOREM IdleTicksLeaveNothing == Spec => []IdleLeavesNoTrace
<1>1. ProgramInv => IdleLeavesNoTrace
  BY ProgramHolds
<1> QED BY <1>1, ProgramKept, PTL

\* A latent is tapped over its own event's frame and nothing else, in every
\* program of eagle_accept.rs, the heartbeat's shared prefix included.
THEOREM TapsAreOwn == Spec => []TapsOwnFrame
<1>1. ProgramInv => TapsOwnFrame
  BY ProgramHolds
<1> QED BY <1>1, ProgramKept, PTL

\* The training arrays stay parallel, row by row, and agree with the cache
\* dumped beside them; the accept lengths of the drafted decode account for its
\* output (eagle_accept.rs).
THEOREM RowsAreAligned == Spec => []RowsAligned
<1>1. ProgramInv => RowsAligned
  BY ProgramHolds
<1> QED BY <1>1, ProgramKept, PTL

\* Between commands the PID file names every daemon that nobody told to stop,
\* after crashes, failed boots and daemons still draining, unless the last start
\* came over such a daemon or two commands crossed (daemon.rs' start and stop).
THEOREM DaemonLocatable == Spec => []Locatable
<1>1. ProgramInv => Locatable
  BY ProgramHolds
<1> QED BY <1>1, ProgramKept, PTL

=============================================================================

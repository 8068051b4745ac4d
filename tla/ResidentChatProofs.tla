------------------------- MODULE ResidentChatProofs -------------------------
(***************************************************************************)
(* Proofs about ResidentChat: for every set of prompts, every rewind bound *)
(* and every length of answer, whatever calls are refused, the record of a *)
(* finished turn agrees with the cache whenever their lengths do and it is *)
(* intact, and an answer that is neither astray nor on the word of another *)
(* turn's record is decoded from its own prompt, or from what a daemon     *)
(* without a resident cache could have put in its place.                   *)
(*                                                                         *)
(* The two claims need each other: an answer starts from the record's      *)
(* rows only because the record was right when the turn began, and the     *)
(* record is right only because the answer was decoded from the prompt     *)
(* that the turn then writes down.  ChatInv says what the cache holds at   *)
(* each point of a turn, counted from the prompt's first token.            *)
(***************************************************************************)
EXTENDS ResidentChat, SequenceTheorems, WellFoundedInduction, TLAPS

Before == {ss \in Nat \X Nat : ss[1] < ss[2]}

LEMMA BeforeWellFounded == IsWellFoundedOn(Before, Nat)
BY NatLessThanWellFounded DEF OpToRel, Before

\* A bounded set of naturals that is not empty has a greatest element.
LEMMA Greatest ==
  ASSUME NEW T \in SUBSET Nat, NEW b \in Nat, \A n \in T : n <= b, T # {}
  PROVE  \E m \in T : \A n \in T : n <= m
<1> DEFINE U == {b - n : n \in T}
<1>1. U \subseteq Nat
  <2>1. ASSUME NEW u \in U PROVE u \in Nat
    <3>1. PICK n \in T : u = b - n
      BY <2>1
    <3> QED BY <3>1
  <2> QED BY <2>1
<1>2. U # {}
  <2>1. PICK n \in T : TRUE
    OBVIOUS
  <2>2. b - n \in U
    BY <2>1
  <2> QED BY <2>2
<1> HIDE DEF U
<1>3. PICK x \in U : \A y \in U : ~ (<<y, x>> \in Before)
  BY <1>1, <1>2, BeforeWellFounded, WFMin
<1>4. PICK m \in T : x = b - m
  BY <1>3 DEF U
<1>5. ASSUME NEW n \in T PROVE n <= m
  <2>1. b - n \in U
    BY DEF U
  <2>2. b - n \in Nat /\ x \in Nat
    BY <2>1, <1>1, <1>3
  <2>3. ~ (b - n < x)
    BY <2>1, <2>2, <1>3 DEF Before
  <2> QED BY <2>2, <2>3, <1>4
<1> QED BY <1>5

\* The prefix the code keeps exists, and its tokens are the record's.
LEMMA LcpPrefix ==
  ASSUME committed \in Seq(Token), NEW p \in Seq(Token), p # <<>>
  PROVE  Lcp(p) \in 0 .. Len(p) - 1 /\ Lcp(p) <= Len(committed) /\ Agree(p, Lcp(p))
<1> DEFINE T == {n \in 0 .. Len(p) - 1 : n <= Len(committed) /\ Agree(p, n)}
<1>1. Len(p) \in Nat /\ Len(p) >= 1 /\ Len(committed) \in Nat
  OBVIOUS
<1>2. T \in SUBSET Nat /\ \A n \in T : n <= Len(p)
  BY <1>1
<1>3. 0 \in T
  BY <1>1 DEF Agree
<1>4. PICK m \in T : \A n \in T : n <= m
  <2> HIDE DEF T
  <2>1. T # {}
    BY <1>3
  <2> QED BY <2>1, <1>1, <1>2, Greatest
<1>5. m < Len(p) - 1 /\ m < Len(committed) => p[m + 1] # committed[m + 1]
  <2>1. SUFFICES ASSUME m < Len(p) - 1, m < Len(committed), p[m + 1] = committed[m + 1]
                 PROVE  FALSE
    OBVIOUS
  <2>2. m \in Nat /\ Agree(p, m)
    BY <1>4
  <2>3. Agree(p, m + 1)
    <3>1. ASSUME NEW i \in 1 .. m + 1 PROVE p[i] = committed[i]
      <4>1. i = m + 1 \/ i \in 1 .. m
        BY <2>2
      <4> QED BY <4>1, <2>1, <2>2 DEF Agree
    <3> QED BY <3>1 DEF Agree
  <2>4. m + 1 \in T
    BY <2>1, <2>2, <2>3, <1>1
  <2> QED BY <2>2, <2>4, <1>4
<1>6. \E n \in 0 .. Len(p) - 1 :
        /\ n <= Len(committed) /\ Agree(p, n)
        /\ n < Len(p) - 1 /\ n < Len(committed) => p[n + 1] # committed[n + 1]
  BY <1>4, <1>5
<1> QED BY <1>6 DEF Lcp

-----------------------------------------------------------------------------
LEMMA ConcatAppend ==
  ASSUME NEW a \in Seq(Token), NEW b \in Seq(Token), NEW t \in Token
  PROVE  (a \o b) \o <<t>> = a \o Append(b, t)
<1>1. <<t>> \in Seq(Token)
  OBVIOUS
<1>2. (a \o b) \o <<t>> = a \o (b \o <<t>>)
  BY <1>1, ConcatAssociative
<1>3. Append(b, t) = b \o <<t>>
  BY AppendIsConcat
<1> QED BY <1>2, <1>3

\* A prompt is its kept prefix, the head that is computed and its last token.
LEMMA PromptSplit ==
  ASSUME NEW p \in Seq(Token), NEW k \in 0 .. Len(p) - 1
  PROVE  /\ SubSeq(p, 1, k) \in Seq(Token)
         /\ SubSeq(p, k + 1, Len(p) - 1) \in Seq(Token)
         /\ SubSeq(p, 1, k) \o SubSeq(p, k + 1, Len(p) - 1) = SubSeq(p, 1, Len(p) - 1)
         /\ SubSeq(p, 1, Len(p) - 1) \o <<p[Len(p)]>> = p
         /\ SubSeq(p, 1, Len(p) - 1) \in Seq(Token)
         /\ p[Len(p)] \in Token
<1>1. Len(p) \in Nat /\ Len(p) >= 1 /\ k \in Nat /\ k <= Len(p) - 1
  <2>1. Len(p) \in Nat
    OBVIOUS
  <2> QED BY <2>1
<1>2. SubSeq(p, 1, k) \in Seq(Token) /\ SubSeq(p, 1, Len(p) - 1) \in Seq(Token)
  BY <1>1
<1>3. SubSeq(p, k + 1, Len(p) - 1) \in Seq(Token)
  BY <1>1
<1>4. p[Len(p)] \in Token
  BY <1>1
<1>5. SubSeq(p, 1, k) \o SubSeq(p, k + 1, Len(p) - 1) = SubSeq(p, 1, Len(p) - 1)
  <2>1. /\ 1 \in 1 .. Len(p) + 1 /\ k \in 1 - 1 .. Len(p)
        /\ Len(p) - 1 \in k .. Len(p)
    BY <1>1
  <2> QED BY <2>1, ConcatAdjacentSubSeq
<1>6. SubSeq(p, 1, Len(p) - 1) \o <<p[Len(p)]>> = p
  <2>1. 1 \in 1 .. Len(p) /\ Len(p) \in 1 .. Len(p)
    BY <1>1
  <2>2. SubSeq(p, 1, Len(p)) = SubSeq(p, 1, Len(p) - 1) \o <<p[Len(p)]>>
    BY <2>1, SubSeqRecursiveSecond
  <2>3. SubSeq(p, 1, Len(p)) = p
    BY SubSeqFull
  <2> QED BY <2>2, <2>3
<1> QED BY <1>2, <1>3, <1>4, <1>5, <1>6

LEMMA PromptParts ==
  ASSUME NEW p \in Prompt
  PROVE  /\ p \in Seq(Token) /\ p # <<>> /\ Len(p) \in Nat /\ Len(p) >= 1
         /\ Body(p) \in Seq(Token) /\ p[Len(p)] \in Token
         /\ Body(p) \o <<p[Len(p)]>> = p
<1>1. p \in Seq(Token) /\ p # <<>>
  BY ChatAssumption
<1>2. Len(p) \in Nat /\ Len(p) >= 1
  BY <1>1
<1>3. 0 \in 0 .. Len(p) - 1
  BY <1>2
<1> QED BY <1>1, <1>2, <1>3, PromptSplit DEF Body, Upto

LEMMA UptoType ==
  ASSUME NEW s \in Seq(Token), NEW n \in 0 .. Len(s)
  PROVE  Upto(s, n) \in Seq(Token)
BY DEF Upto

-----------------------------------------------------------------------------
(***************************************************************************)
(* The inductive invariant.  Of a turn that is not Lost it says which rows *)
(* the cache holds: the kept prefix, the prompt short of its last token,   *)
(* that and the request's frames, what a FreshChat may answer from.  An    *)
(* answer of its Own has the prompt and what was generated; a token whose  *)
(* step failed is in the turn's list and not in the cache.                 *)
(***************************************************************************)
Last == turn.prompt[Len(turn.prompt)]

Framed == IF turn.kind = "frames" THEN Body(turn.prompt) \o Episode ELSE Body(turn.prompt)

Due(c) == IF turn.kind = "replay" THEN c \o Episode ELSE c

Starts(c) == c \o <<turn.syn_last>> \in Fresh!Contexts(turn.prompt, turn.kind)

Unrecalled ==
  turn.pc \in {"head", "frames", "recall"} => ~ turn.recalled /\ turn.syn_last = Last

NotYet == turn.pc \in PCs \ {"loop", "failed"} => turn.gen = <<>>

AtHead ==
  At("head") => /\ ~ turn.astray
                /\ ~ turn.foreign => cache = Upto(turn.prompt, turn.prefill_from)

AtFrames == At("frames") => ~ turn.astray /\ (~ turn.foreign => cache = Body(turn.prompt))

AtRecall == At("recall") /\ ~ Lost => cache = Framed

AtReplay ==
  At("replay") /\ ~ Lost =>
    Starts(Due(cache)) /\ (Own => cache = Body(turn.prompt) /\ turn.syn_last = Last)

AtSyn ==
  At("syn") /\ ~ Lost =>
    Starts(cache) /\ (Own => cache = Body(turn.prompt) /\ turn.syn_last = Last)

AtLoop == At("loop") /\ Own /\ ~ Lost => cache = turn.prompt \o turn.gen

AtFailed ==
  At("failed") /\ Own /\ ~ Lost => Len(cache) < Len(turn.prompt) + Len(turn.gen)

ChatInv ==
  /\ TypeOK /\ RecordMatches /\ Unrecalled /\ NotYet /\ AtHead /\ AtFrames /\ AtRecall
  /\ AtReplay /\ AtSyn /\ AtLoop /\ AtFailed
  /\ Answering => cache # <<>>

Busy ==
  [pc : PCs, prompt : Prompt, kind : Kind, prefill_from : Nat, recalled : BOOLEAN,
   syn_last : Token, gen : Seq(Token), astray : BOOLEAN, foreign : BOOLEAN]

Request == IF At("idle") \/ Lost THEN <<>> ELSE <<turn.prompt, turn.kind>>
Context == IF Answering /\ ~ Lost THEN cache ELSE <<>>

ServesStep == [Fresh!Next]_(Fresh!freshVars)

\* A turn in progress carries its request.
LEMMA InTurn ==
  ASSUME ChatInv, ~ At("idle")
  PROVE  /\ turn \in Busy /\ turn.prompt \in Prompt /\ turn.prompt \in Seq(Token)
         /\ turn.kind \in Kind /\ turn.pc \in PCs
         /\ turn.prefill_from \in 0 .. Len(turn.prompt) - 1
         /\ turn.recalled \in BOOLEAN /\ turn.syn_last \in Token /\ turn.gen \in Seq(Token)
         /\ turn.astray \in BOOLEAN /\ turn.foreign \in BOOLEAN
         /\ Body(turn.prompt) \in Seq(Token) /\ Last \in Token
         /\ Body(turn.prompt) \o <<Last>> = turn.prompt
         /\ cache \in Seq(Token)
<1>1. turn \in Busy /\ turn.prefill_from < Len(turn.prompt) /\ cache \in Seq(Token)
  BY DEF ChatInv, TypeOK, Busy, At, NoTurn
<1>2. /\ turn.prompt \in Prompt /\ turn.kind \in Kind /\ turn.pc \in PCs
      /\ turn.recalled \in BOOLEAN /\ turn.syn_last \in Token /\ turn.gen \in Seq(Token)
      /\ turn.astray \in BOOLEAN /\ turn.foreign \in BOOLEAN /\ turn.prefill_from \in Nat
  BY <1>1 DEF Busy
<1>3. /\ turn.prompt \in Seq(Token) /\ Len(turn.prompt) \in Nat
      /\ Body(turn.prompt) \in Seq(Token) /\ Last \in Token
      /\ Body(turn.prompt) \o <<Last>> = turn.prompt
  BY <1>2, PromptParts DEF Last
<1>4. turn.prefill_from \in 0 .. Len(turn.prompt) - 1
  BY <1>1, <1>2, <1>3
<1> QED BY <1>1, <1>2, <1>3, <1>4

\* The turn in progress changes these five of its fields.
GoesOn(pc, rec, last, gen, ast) ==
  turn' = [turn EXCEPT !.pc = pc, !.recalled = rec, !.syn_last = last, !.gen = gen,
                       !.astray = ast]

\* A turn that goes on keeps its shape and its request.
Kept ==
  /\ turn'.prompt = turn.prompt /\ turn'.kind = turn.kind
  /\ turn'.prefill_from = turn.prefill_from /\ turn'.foreign = turn.foreign

LEMMA Onward ==
  ASSUME ChatInv, ~ At("idle"), UNCHANGED persist, UNCHANGED <<committed, intact>>,
         cache' \in Seq(Token), NEW pc \in PCs, NEW rec \in BOOLEAN,
         NEW last \in Token, NEW gen \in Seq(Token), NEW ast \in BOOLEAN,
         GoesOn(pc, rec, last, gen, ast)
  PROVE  /\ TypeOK' /\ RecordMatches' /\ Kept
         /\ turn'.pc = pc /\ turn'.recalled = rec /\ turn'.syn_last = last
         /\ turn'.gen = gen /\ turn'.astray = ast
<1>1. turn \in Busy /\ turn.prefill_from \in 0 .. Len(turn.prompt) - 1
      /\ turn.prompt \in Seq(Token)
  BY InTurn
<1>2. /\ turn' \in Busy /\ Kept
      /\ turn'.pc = pc /\ turn'.recalled = rec /\ turn'.syn_last = last
      /\ turn'.gen = gen /\ turn'.astray = ast
  BY <1>1 DEF Busy, GoesOn, Kept
<1>3. turn'.prefill_from < Len(turn'.prompt)
  <2>1. Len(turn.prompt) \in Nat
    BY <1>1
  <2>2. turn.prefill_from < Len(turn.prompt)
    BY <1>1, <2>1
  <2> QED BY <2>2, <1>2 DEF Kept
<1>4. TypeOK'
  BY <1>2, <1>3 DEF ChatInv, TypeOK, Busy
<1>5. RecordMatches'
  BY <1>2 DEF RecordMatches, At, PCs
<1> QED BY <1>2, <1>4, <1>5

\* A turn that goes on without answering: the request stays, or is lost or
\* taken up again with its rows.
LEMMA StayStep ==
  ASSUME ChatInv, ~ At("idle"), ~ Answering, Kept,
         turn'.pc \notin {"idle", "loop", "failed"}
  PROVE  ServesStep
<1>1. turn.prompt \in Prompt /\ turn.kind \in Kind
  BY InTurn
<1>2. Context = <<>> /\ Context' = <<>>
  BY DEF Context, Answering
<1>3. CASE Lost = Lost'
  <2>1. UNCHANGED <<Request, Context>>
    BY <1>2, <1>3 DEF Request, At, Kept
  <2> QED BY <2>1 DEF ServesStep, Fresh!freshVars, Request, Context
<1>4. CASE Lost /\ ~ Lost'
  <2>1. Request = <<>> /\ Request' = <<turn.prompt, turn.kind>>
    BY <1>4 DEF Request, At, Kept
  <2>2. Fresh!Ask(turn.prompt, turn.kind)
    BY <2>1, <1>2 DEF Fresh!Ask, Request, Context
  <2> QED BY <2>2, <1>1 DEF ServesStep, Fresh!Next
<1>5. CASE ~ Lost /\ Lost'
  <2>1. Request # <<>> /\ Request' = <<>>
    BY <1>5 DEF Request, At
  <2>2. Fresh!Close
    BY <2>1, <1>2 DEF Fresh!Close, Request, Context
  <2> QED BY <2>2 DEF ServesStep, Fresh!Next
<1>6. Lost \in BOOLEAN /\ Lost' \in BOOLEAN
  BY DEF Lost
<1> QED BY <1>3, <1>4, <1>5, <1>6

\* A turn that ends closes its request.
LEMMA CloseStep ==
  ASSUME ~ At("idle"), turn' = NoTurn
  PROVE  ServesStep
<1>1. turn'.pc = "idle"
  BY DEF NoTurn
<1>2. Request' = <<>> /\ Context' = <<>>
  BY <1>1 DEF Request, Context, Answering, At
<1>3. CASE Lost
  <2>1. UNCHANGED <<Request, Context>>
    BY <1>2, <1>3 DEF Request, Context
  <2> QED BY <2>1 DEF ServesStep, Fresh!freshVars, Request, Context
<1>4. CASE ~ Lost
  <2>1. Request # <<>>
    BY <1>4 DEF Request
  <2>2. Fresh!Close
    BY <2>1, <1>2 DEF Fresh!Close, Request, Context
  <2> QED BY <2>2 DEF ServesStep, Fresh!Next
<1> QED BY <1>3, <1>4

\* The turn is over, and says nothing about the rows that are left, unless
\* the record is theirs.
LEMMA OverStep ==
  ASSUME ChatInv, ~ At("idle"), UNCHANGED persist, turn' = NoTurn,
         cache' \in Seq(Token), committed' \in Seq(Token), intact' \in BOOLEAN,
         intact' /\ Len(cache') = Len(committed') => cache' = committed'
  PROVE  ChatInv' /\ ServesStep
<1>1. turn'.pc = "idle"
  BY DEF NoTurn
<1>2. TypeOK'
  BY DEF ChatInv, TypeOK
<1>3. RecordMatches'
  BY DEF RecordMatches
<1> QED BY <1>1, <1>2, <1>3, CloseStep
        DEF ChatInv, Unrecalled, NotYet, AtHead, AtFrames, AtRecall, AtReplay, AtSyn,
            AtLoop, AtFailed, Answering, At, PCs

-----------------------------------------------------------------------------
\* What a FreshChat may answer from, in parts.
LEMMA ContextsAre ==
  ASSUME NEW p \in Prompt, NEW kind
  PROVE  /\ kind = "replay" =>
              (Body(p) \o Episode) \o <<p[Len(p)]>> \in Fresh!Contexts(p, kind)
         /\ kind = "frames" =>
              /\ (Body(p) \o Episode) \o <<p[Len(p)]>> \in Fresh!Contexts(p, kind)
              /\ ((Body(p) \o Episode) \o Episode) \o <<p[Len(p)]>> \in Fresh!Contexts(p, kind)
              /\ AugHead \o <<AugLast>> \in Fresh!Contexts(p, kind)
         /\ kind \notin {"replay", "frames"} =>
              /\ Body(p) \o <<p[Len(p)]>> \in Fresh!Contexts(p, kind)
              /\ (Body(p) \o Episode) \o <<p[Len(p)]>> \in Fresh!Contexts(p, kind)
              /\ AugHead \o <<AugLast>> \in Fresh!Contexts(p, kind)
<1>1. Append(AugHead, AugLast) = AugHead \o <<AugLast>>
  BY ChatAssumption, AppendIsConcat
<1>2. Body(p) \o <<p[Len(p)]>> = p
  BY PromptParts
<1>3. Fresh!Body(p) = Body(p) /\ Fresh!End(p) = <<p[Len(p)]>>
  BY DEF Fresh!Body, Fresh!End, Body, Upto
<1>4. CASE kind = "replay"
  BY <1>3, <1>4 DEF Fresh!Contexts
<1>5. CASE kind = "frames"
  BY <1>1, <1>3, <1>5 DEF Fresh!Contexts
<1>6. CASE kind \notin {"replay", "frames"}
  BY <1>1, <1>2, <1>3, <1>6 DEF Fresh!Contexts
<1> QED BY <1>4, <1>5, <1>6

LEMMA ChatInit == Init => ChatInv /\ Fresh!Init
<1> SUFFICES ASSUME Init PROVE ChatInv /\ Fresh!Init
  OBVIOUS
<1>1. turn.pc = "idle" /\ cache = <<>> /\ committed = <<>>
  BY DEF Init, NoTurn
<1>2. TypeOK
  BY DEF Init, TypeOK
<1>3. Request = <<>> /\ Context = <<>>
  BY <1>1 DEF Request, Context, Answering, At
<1>4. Fresh!Init
  BY <1>3 DEF Fresh!Init, Request, Context
<1>5. ChatInv
  BY <1>1, <1>2
     DEF ChatInv, RecordMatches, Unrecalled, NotYet, AtHead, AtFrames, AtRecall, AtReplay,
         AtSyn, AtLoop, AtFailed, Answering, At, PCs
<1> QED BY <1>4, <1>5

\* Begin keeps a prefix that an intact record vouches for, or nothing.
LEMMA BeginStep ==
  ASSUME ChatInv, UNCHANGED persist, NEW p \in Prompt, NEW kind \in Kind, Begin(p, kind)
  PROVE  ChatInv' /\ ServesStep
<1> DEFINE L == IF Reusable(p, kind) THEN Lcp(p) ELSE 0
           f == Reusable(p, kind) /\ ~ intact
<1>1. /\ turn.pc = "idle" /\ At("idle") /\ committed' = committed /\ intact' = intact
      /\ committed \in Seq(Token) /\ cache \in Seq(Token) /\ intact \in BOOLEAN
      /\ persist \in BOOLEAN /\ turn' = Begun(p, kind, L, f)
  BY DEF Begin, ChatInv, TypeOK, At
<1>2. /\ p \in Seq(Token) /\ p # <<>> /\ Len(p) \in Nat /\ Len(p) >= 1 /\ p[Len(p)] \in Token
  BY PromptParts
<1>3. /\ cache' \in Seq(Token) /\ L \in 0 .. Len(p) - 1 /\ f \in BOOLEAN
      /\ ~ f => cache' = Upto(p, L)
  <2>1. CASE Reusable(p, kind)
    <3>1. cache' = Upto(cache, Lcp(p)) /\ L = Lcp(p) /\ f = ~ intact
          /\ Len(cache) = Len(committed)
      BY <2>1 DEF Begin, Reusable
    <3>2. Lcp(p) \in 0 .. Len(p) - 1 /\ Lcp(p) <= Len(committed) /\ Agree(p, Lcp(p))
      BY <1>1, <1>2, LcpPrefix
    <3>3. Lcp(p) \in Nat /\ Lcp(p) <= Len(p) /\ Lcp(p) \in 0 .. Len(cache)
      <4>1. Len(cache) \in Nat
        BY <1>1
      <4> QED BY <4>1, <3>1, <3>2, <1>2
    <3>4. cache' \in Seq(Token)
      BY <1>1, <3>1, <3>3, UptoType
    <3>5. ASSUME ~ f PROVE cache' = Upto(p, L)
      <4>1. cache = committed
        BY <3>1, <3>5, <1>1 DEF ChatInv, RecordMatches
      <4>2. \A i \in 1 .. Lcp(p) : cache[i] = p[i]
        BY <4>1, <3>2 DEF Agree
      <4> DEFINE n == Lcp(p)
                 u == Upto(cache, n)
                 v == Upto(p, n)
      <4>3. n \in Nat /\ n <= Len(p) /\ n <= Len(cache)
        BY <3>3
      <4> HIDE DEF n
      <4>4. u \in Seq(Token) /\ Len(u) = n /\ \A i \in 1 .. n : u[i] = cache[i]
        BY <4>3, <1>1 DEF Upto
      <4>5. v \in Seq(Token) /\ Len(v) = n /\ \A i \in 1 .. n : v[i] = p[i]
        BY <4>3, <1>2 DEF Upto
      <4>6. \A i \in 1 .. n : u[i] = v[i]
        BY <4>2, <4>4, <4>5 DEF n
      <4> HIDE DEF u, v
      <4>7. u = v
        BY <4>4, <4>5, <4>6, SeqEqual
      <4> QED BY <4>7, <3>1 DEF u, v, n
    <3> QED BY <3>1, <3>2, <3>4, <3>5, <1>1
  <2>2. CASE ~ Reusable(p, kind)
    <3>1. cache' = <<>> /\ L = 0 /\ f = FALSE
      BY <2>2 DEF Begin
    <3>2. Upto(p, 0) = <<>> /\ 0 \in 0 .. Len(p) - 1 /\ <<>> \in Seq(Token)
      BY <1>2 DEF Upto
    <3> QED BY <3>1, <3>2
  <2> QED BY <2>1, <2>2
<1> HIDE DEF L, f
<1>4. turn' = [pc |-> "head", prompt |-> p, kind |-> kind, prefill_from |-> L,
               recalled |-> FALSE, syn_last |-> p[Len(p)], gen |-> <<>>,
               astray |-> FALSE, foreign |-> f]
  BY <1>1 DEF Begun
<1>5. turn' \in Busy /\ turn'.prefill_from < Len(turn'.prompt)
  BY <1>2, <1>3, <1>4 DEF Busy, PCs
<1>6. TypeOK'
  BY <1>1, <1>3, <1>5 DEF ChatInv, TypeOK, Busy
<1>7. /\ turn'.pc = "head" /\ turn'.kind = kind /\ turn'.prompt = p /\ turn'.prefill_from = L
      /\ ~ turn'.recalled /\ turn'.syn_last = p[Len(p)] /\ turn'.gen = <<>>
      /\ turn'.astray = FALSE /\ turn'.foreign = f
  BY <1>4
<1>8. Unrecalled' /\ NotYet' /\ AtHead'
  BY <1>3, <1>7 DEF Unrecalled, NotYet, AtHead, Last
<1>9. ChatInv'
  BY <1>6, <1>7, <1>8
     DEF ChatInv, RecordMatches, AtFrames, AtRecall, AtReplay, AtSyn, AtLoop, AtFailed,
         Answering, At
<1>10. ServesStep
  <2>1. Request = <<>> /\ Context = <<>> /\ Context' = <<>>
    BY <1>1, <1>7 DEF Request, Context, Answering, At
  <2>2. CASE f
    <3>1. UNCHANGED <<Request, Context>>
      BY <2>1, <2>2, <1>7 DEF Request, Lost
    <3> QED BY <3>1 DEF ServesStep, Fresh!freshVars, Request, Context
  <2>3. CASE ~ f
    <3>1. Request' = <<p, kind>>
      BY <2>3, <1>7 DEF Request, Lost, At
    <3>2. Fresh!Ask(p, kind)
      BY <2>1, <3>1 DEF Fresh!Ask, Request, Context
    <3> QED BY <3>2 DEF ServesStep, Fresh!Next
  <2> QED BY <2>2, <2>3
<1> QED BY <1>9, <1>10

\* The head of the prompt is computed after the kept prefix.
LEMMA PrefillStep ==
  ASSUME ChatInv, UNCHANGED persist, PrefillHead
  PROVE  ChatInv' /\ ServesStep
<1> DEFINE p == turn.prompt
           k == turn.prefill_from
<1>1. /\ turn.pc = "head" /\ ~ At("idle") /\ ~ Answering /\ UNCHANGED <<committed, intact>>
      /\ cache' = cache \o PromptHead /\ turn' = [turn EXCEPT !.pc = "frames"]
  BY DEF PrefillHead, At, Answering
<1>2. /\ turn \in Busy /\ p \in Seq(Token) /\ k \in 0 .. Len(p) - 1 /\ cache \in Seq(Token)
      /\ turn.recalled \in BOOLEAN /\ turn.syn_last \in Token /\ turn.gen \in Seq(Token)
      /\ turn.astray \in BOOLEAN
  BY <1>1, InTurn
<1>3. /\ SubSeq(p, 1, k) \in Seq(Token) /\ PromptHead \in Seq(Token)
      /\ SubSeq(p, 1, k) \o PromptHead = Body(p)
  BY <1>2, PromptSplit DEF PromptHead, Body, Upto
<1>4. cache' \in Seq(Token)
  BY <1>1, <1>2, <1>3
<1>5. GoesOn("frames", turn.recalled, turn.syn_last, turn.gen, turn.astray)
  BY <1>1, <1>2 DEF Busy, GoesOn
<1>6. /\ TypeOK' /\ RecordMatches' /\ Kept
      /\ turn'.pc = "frames" /\ turn'.recalled = turn.recalled
      /\ turn'.syn_last = turn.syn_last /\ turn'.gen = turn.gen /\ turn'.astray = turn.astray
  BY <1>1, <1>2, <1>4, <1>5, Onward DEF PCs
<1>7. ~ turn.astray /\ (~ turn.foreign => cache = SubSeq(p, 1, k))
  BY <1>1 DEF ChatInv, AtHead, At, Upto
<1>8. AtFrames'
  BY <1>1, <1>3, <1>6, <1>7 DEF AtFrames, Kept
<1>9. Unrecalled' /\ NotYet'
  BY <1>1, <1>6 DEF ChatInv, Unrecalled, NotYet, Last, Kept, PCs
<1>10. ChatInv'
  BY <1>6, <1>8, <1>9
     DEF ChatInv, AtHead, AtRecall, AtReplay, AtSyn, AtLoop, AtFailed, Answering, At
<1> QED BY <1>1, <1>6, <1>10, StayStep

\* A request's own frames follow its prompt.
LEMMA FramesStep ==
  ASSUME ChatInv, UNCHANGED persist, InjectFrames
  PROVE  ChatInv' /\ ServesStep
<1>1. /\ turn.pc = "frames" /\ ~ At("idle") /\ ~ Answering /\ UNCHANGED <<committed, intact>>
      /\ cache' = IF turn.kind = "frames" THEN cache \o Episode ELSE cache
      /\ turn' = [turn EXCEPT !.pc = "recall"]
  BY DEF InjectFrames, At, Answering
<1>2. /\ turn \in Busy /\ cache \in Seq(Token) /\ Episode \in Seq(Token)
      /\ turn.recalled \in BOOLEAN /\ turn.syn_last \in Token /\ turn.gen \in Seq(Token)
      /\ turn.astray \in BOOLEAN
  BY <1>1, InTurn, ChatAssumption
<1>3. cache' \in Seq(Token)
  BY <1>1, <1>2
<1>4. GoesOn("recall", turn.recalled, turn.syn_last, turn.gen, turn.astray)
  BY <1>1, <1>2 DEF Busy, GoesOn
<1>5. /\ TypeOK' /\ RecordMatches' /\ Kept
      /\ turn'.pc = "recall" /\ turn'.recalled = turn.recalled
      /\ turn'.syn_last = turn.syn_last /\ turn'.gen = turn.gen /\ turn'.astray = turn.astray
  BY <1>1, <1>2, <1>3, <1>4, Onward DEF PCs
<1>6. AtRecall'
  <2>1. ~ turn.foreign => cache = Body(turn.prompt)
    BY <1>1 DEF ChatInv, AtFrames, At
  <2> QED BY <2>1, <1>1, <1>5 DEF AtRecall, Lost, Framed, Kept
<1>7. Unrecalled' /\ NotYet'
  BY <1>1, <1>5 DEF ChatInv, Unrecalled, NotYet, Last, Kept, PCs
<1>8. ChatInv'
  BY <1>5, <1>6, <1>7
     DEF ChatInv, AtHead, AtFrames, AtReplay, AtSyn, AtLoop, AtFailed, Answering, At
<1> QED BY <1>1, <1>5, <1>8, StayStep

-----------------------------------------------------------------------------
\* A recall that leaves the turn where it is: the cache is anything, and the
\* turn astray unless it is the prompt's.
LEMMA TriedStep ==
  ASSUME ChatInv, UNCHANGED persist, UNCHANGED <<committed, intact>>, At("recall"),
         cache' \in Seq(Token), NEW ast \in BOOLEAN, turn' = [turn EXCEPT !.astray = ast],
         ~ ast /\ ~ turn.foreign => cache' = Framed
  PROVE  ChatInv' /\ ServesStep
<1>1. turn.pc = "recall" /\ ~ At("idle") /\ ~ Answering
  BY DEF At, Answering
<1>2. /\ turn \in Busy
      /\ turn.recalled \in BOOLEAN /\ turn.syn_last \in Token /\ turn.gen \in Seq(Token)
  BY <1>1, InTurn
<1>3. GoesOn("recall", turn.recalled, turn.syn_last, turn.gen, ast)
  BY <1>1, <1>2 DEF Busy, GoesOn
<1>4. /\ TypeOK' /\ RecordMatches' /\ Kept
      /\ turn'.pc = "recall" /\ turn'.recalled = turn.recalled
      /\ turn'.syn_last = turn.syn_last /\ turn'.gen = turn.gen /\ turn'.astray = ast
  BY <1>1, <1>2, <1>3, Onward DEF PCs
<1>5. AtRecall'
  BY <1>4 DEF AtRecall, Lost, Framed, Kept
<1>6. Unrecalled' /\ NotYet'
  BY <1>1, <1>4 DEF ChatInv, Unrecalled, NotYet, Last, Kept, PCs
<1>7. ChatInv'
  BY <1>4, <1>5, <1>6
     DEF ChatInv, AtHead, AtFrames, AtReplay, AtSyn, AtLoop, AtFailed, Answering, At
<1> QED BY <1>1, <1>4, <1>7, StayStep

LEMMA SideStep ==
  ASSUME ChatInv, UNCHANGED persist, NEW n \in 0 .. Len(SideText), SidePass(n)
  PROVE  ChatInv' /\ ServesStep
<1>1. /\ At("recall") /\ UNCHANGED <<committed, intact>> /\ cache' = Upto(SideText, n)
      /\ turn' = [turn EXCEPT !.astray = TRUE]
  BY DEF SidePass, Recalling
<1>2. cache' \in Seq(Token)
  BY <1>1, ChatAssumption, UptoType
<1> QED BY <1>1, <1>2, TriedStep

\* The judge's restored prompt is the turn's when it is whole.
LEMMA RestoreStep ==
  ASSUME ChatInv, UNCHANGED persist, NEW n \in 0 .. Len(turn.prompt) - 1, Restore(n)
  PROVE  ChatInv' /\ ServesStep
<1> DEFINE ast == (cache' # Body(turn.prompt) \/ turn.kind = "frames")
<1>1. /\ At("recall") /\ UNCHANGED <<committed, intact>>
      /\ cache' = Upto(Body(turn.prompt), n) /\ turn' = [turn EXCEPT !.astray = ast]
  BY DEF Restore, Recalling
<1>2. cache' \in Seq(Token)
  <2>1. ~ At("idle")
    BY <1>1 DEF At
  <2>2. Body(turn.prompt) \in Seq(Token) /\ turn.prompt \in Seq(Token)
    BY <2>1, InTurn
  <2>3. n \in 0 .. Len(Body(turn.prompt))
    BY <2>2 DEF Body, Upto
  <2> QED BY <1>1, <2>2, <2>3, UptoType
<1>3. ~ ast => cache' = Framed
  BY DEF Framed
<1>4. ast \in BOOLEAN
  OBVIOUS
<1> HIDE DEF ast
<1> QED BY <1>1, <1>2, <1>3, <1>4, TriedStep

LEMMA TextRefusedStep ==
  ASSUME ChatInv, UNCHANGED persist, NEW n \in 0 .. Len(AugHead), TextRefused(n)
  PROVE  ChatInv' /\ ServesStep
<1>1. /\ At("recall") /\ UNCHANGED <<committed, intact>> /\ cache' = Upto(AugHead, n)
      /\ turn' = [turn EXCEPT !.astray = TRUE]
  BY DEF TextRefused, Recalling
<1>2. cache' \in Seq(Token)
  BY <1>1, ChatAssumption, UptoType
<1> QED BY <1>1, <1>2, TriedStep

\* An episode that is refused before its first row leaves the turn as it was.
LEMMA EpisodeRefusedStep ==
  ASSUME ChatInv, UNCHANGED persist, NEW n \in 0 .. Len(Episode), EpisodeRefused(n)
  PROVE  ChatInv' /\ ServesStep
<1> DEFINE ast == (n > 0)
<1>1. /\ At("recall") /\ ~ turn.astray /\ UNCHANGED <<committed, intact>>
      /\ cache' = cache \o Upto(Episode, n) /\ turn' = [turn EXCEPT !.astray = ast]
  BY DEF EpisodeRefused, Recalling
<1>2. cache \in Seq(Token) /\ Upto(Episode, n) \in Seq(Token)
  BY ChatAssumption, UptoType DEF ChatInv, TypeOK
<1>3. cache' \in Seq(Token)
  BY <1>1, <1>2
<1>4. ASSUME ~ ast, ~ turn.foreign PROVE cache' = Framed
  <2>1. n = 0
    BY <1>4
  <2>2. Upto(Episode, 0) = <<>>
    BY ChatAssumption DEF Upto
  <2>3. cache' = cache
    BY <2>1, <2>2, <1>1, <1>2
  <2>4. cache = Framed
    BY <1>1, <1>4 DEF ChatInv, AtRecall, Lost
  <2> QED BY <2>3, <2>4
<1>5. ast \in BOOLEAN
  OBVIOUS
<1> HIDE DEF ast
<1> QED BY <1>1, <1>3, <1>4, <1>5, TriedStep

\* A recall that is done, with what it leaves to be replayed and answered.
LEMMA RecalledStep ==
  ASSUME ChatInv, UNCHANGED persist, UNCHANGED <<committed, intact>>, At("recall"),
         cache' \in Seq(Token), NEW rec \in BOOLEAN, NEW last \in Token, NEW ast \in BOOLEAN,
         GoesOn("replay", rec, last, turn.gen, ast),
         ~ ast /\ ~ turn.foreign =>
           /\ Due(cache') \o <<last>> \in Fresh!Contexts(turn.prompt, turn.kind)
           /\ turn.kind \in {"plain", "single"} /\ ~ rec =>
                cache' = Body(turn.prompt) /\ last = Last
  PROVE  ChatInv' /\ ServesStep
<1>1. turn.pc = "recall" /\ ~ At("idle") /\ ~ Answering
  BY DEF At, Answering
<1>2. turn \in Busy /\ turn.gen \in Seq(Token)
  BY <1>1, InTurn
<1>3. /\ TypeOK' /\ RecordMatches' /\ Kept
      /\ turn'.pc = "replay" /\ turn'.recalled = rec
      /\ turn'.syn_last = last /\ turn'.gen = turn.gen /\ turn'.astray = ast
  BY <1>1, <1>2, Onward DEF PCs
<1>4. AtReplay'
  <2>1. Due(cache)' = Due(cache')
    BY <1>3 DEF Due, Kept
  <2> QED BY <2>1, <1>3 DEF AtReplay, Lost, Own, Starts, Last, Kept
<1>5. NotYet'
  BY <1>1, <1>3 DEF ChatInv, NotYet, PCs
<1>6. ChatInv'
  BY <1>3, <1>4, <1>5
     DEF ChatInv, Unrecalled, AtHead, AtFrames, AtRecall, AtSyn, AtLoop, AtFailed,
         Answering, At
<1> QED BY <1>1, <1>3, <1>6, StayStep

LEMMA NullStep ==
  ASSUME ChatInv, UNCHANGED persist, NullRecall
  PROVE  ChatInv' /\ ServesStep
<1>1. /\ At("recall") /\ turn.pc = "recall" /\ ~ At("idle")
      /\ UNCHANGED <<committed, intact>> /\ cache' = cache
      /\ turn' = [turn EXCEPT !.pc = "replay"]
  BY DEF NullRecall, At
<1>2. /\ turn \in Busy /\ turn.prompt \in Prompt /\ cache \in Seq(Token)
      /\ turn.recalled \in BOOLEAN /\ turn.syn_last \in Token /\ turn.astray \in BOOLEAN
      /\ Body(turn.prompt) \in Seq(Token) /\ Body(turn.prompt) \o <<Last>> = turn.prompt
  BY <1>1, InTurn
<1>3. GoesOn("replay", turn.recalled, turn.syn_last, turn.gen, turn.astray)
  BY <1>1, <1>2 DEF Busy, GoesOn
<1>4. ~ turn.recalled /\ turn.syn_last = Last
  BY <1>1 DEF ChatInv, Unrecalled
<1>5. ASSUME ~ turn.astray, ~ turn.foreign
      PROVE  /\ Due(cache') \o <<turn.syn_last>> \in Fresh!Contexts(turn.prompt, turn.kind)
             /\ turn.kind \in {"plain", "single"} => cache' = Body(turn.prompt)
  <2>1. cache' = Framed
    BY <1>1, <1>5 DEF ChatInv, AtRecall, Lost
  <2> QED BY <2>1, <1>2, <1>4, ContextsAre DEF Due, Framed, Last
<1> QED BY <1>1, <1>2, <1>3, <1>4, <1>5, RecalledStep

LEMMA TextStep ==
  ASSUME ChatInv, UNCHANGED persist, DeliverText
  PROVE  ChatInv' /\ ServesStep
<1>1. /\ At("recall") /\ turn.kind # "replay" /\ ~ At("idle")
      /\ UNCHANGED <<committed, intact>> /\ cache' = AugHead
      /\ turn' = [turn EXCEPT !.pc = "replay", !.recalled = TRUE, !.syn_last = AugLast,
                              !.astray = FALSE]
  BY DEF DeliverText, Recalling, At
<1>2. turn \in Busy /\ turn.prompt \in Prompt
  BY <1>1, InTurn
<1>3. GoesOn("replay", TRUE, AugLast, turn.gen, FALSE)
  BY <1>1, <1>2 DEF Busy, GoesOn
<1>4. AugHead \in Seq(Token) /\ AugLast \in Token
  BY ChatAssumption
<1>5. Due(cache') \o <<AugLast>> \in Fresh!Contexts(turn.prompt, turn.kind)
  BY <1>1, <1>2, ContextsAre DEF Due
<1> QED BY <1>1, <1>3, <1>4, <1>5, RecalledStep

LEMMA EpisodeStep ==
  ASSUME ChatInv, UNCHANGED persist, DeliverEpisode
  PROVE  ChatInv' /\ ServesStep
<1>1. /\ At("recall") /\ turn.pc = "recall" /\ turn.kind # "replay" /\ ~ At("idle")
      /\ UNCHANGED <<committed, intact>> /\ cache' = cache \o Episode
      /\ turn' = [turn EXCEPT !.pc = "replay", !.recalled = TRUE]
  BY DEF DeliverEpisode, Recalling, At
<1>2. /\ turn \in Busy /\ turn.prompt \in Prompt /\ cache \in Seq(Token)
      /\ turn.syn_last \in Token /\ turn.astray \in BOOLEAN /\ Episode \in Seq(Token)
  BY <1>1, InTurn, ChatAssumption
<1>3. GoesOn("replay", TRUE, turn.syn_last, turn.gen, turn.astray)
  BY <1>1, <1>2 DEF Busy, GoesOn
<1>4. cache' \in Seq(Token)
  BY <1>1, <1>2
<1>5. turn.syn_last = Last
  BY <1>1 DEF ChatInv, Unrecalled
<1>6. ASSUME ~ turn.astray, ~ turn.foreign
      PROVE  Due(cache') \o <<turn.syn_last>> \in Fresh!Contexts(turn.prompt, turn.kind)
  <2>1. cache' = Framed \o Episode
    BY <1>1, <1>6 DEF ChatInv, AtRecall, Lost
  <2> QED BY <2>1, <1>1, <1>2, <1>5, ContextsAre DEF Due, Framed, Last
<1> QED BY <1>1, <1>2, <1>3, <1>4, <1>6, RecalledStep

\* The episode a "replay" request names.
LEMMA ReplayStep ==
  ASSUME ChatInv, UNCHANGED persist, Replay
  PROVE  ChatInv' /\ ServesStep
<1>1. /\ turn.pc = "replay" /\ ~ At("idle") /\ ~ Answering /\ UNCHANGED <<committed, intact>>
      /\ cache' = Due(cache) /\ turn' = [turn EXCEPT !.pc = "syn"]
  BY DEF Replay, At, Answering, Due
<1>2. /\ turn \in Busy /\ cache \in Seq(Token) /\ Episode \in Seq(Token)
      /\ turn.recalled \in BOOLEAN /\ turn.syn_last \in Token /\ turn.gen \in Seq(Token)
      /\ turn.astray \in BOOLEAN
  BY <1>1, InTurn, ChatAssumption
<1>3. cache' \in Seq(Token)
  BY <1>1, <1>2 DEF Due
<1>4. GoesOn("syn", turn.recalled, turn.syn_last, turn.gen, turn.astray)
  BY <1>1, <1>2 DEF Busy, GoesOn
<1>5. /\ TypeOK' /\ RecordMatches' /\ Kept
      /\ turn'.pc = "syn" /\ turn'.recalled = turn.recalled
      /\ turn'.syn_last = turn.syn_last /\ turn'.gen = turn.gen /\ turn'.astray = turn.astray
  BY <1>1, <1>2, <1>3, <1>4, Onward DEF PCs
<1>6. AtSyn'
  <2>1. ASSUME ~ Lost
        PROVE  /\ Starts(Due(cache))
               /\ Own => cache = Body(turn.prompt) /\ turn.syn_last = Last
    BY <2>1, <1>1 DEF ChatInv, AtReplay, At
  <2>2. Lost' = Lost /\ Own' = Own /\ Last' = Last
    BY <1>5 DEF Lost, Own, Last, Kept
  <2>3. Starts(cache)' = Starts(Due(cache))
    BY <1>1, <1>5 DEF Starts, Kept
  <2>4. Own => cache' = cache
    BY <1>1 DEF Own, Due
  <2> QED BY <2>1, <2>2, <2>3, <2>4, <1>5 DEF AtSyn, Kept
<1>7. NotYet'
  BY <1>1, <1>5 DEF ChatInv, NotYet, PCs
<1>8. ChatInv'
  BY <1>5, <1>6, <1>7
     DEF ChatInv, Unrecalled, AtHead, AtFrames, AtRecall, AtReplay, AtLoop, AtFailed,
         Answering, At
<1> QED BY <1>1, <1>5, <1>8, StayStep

-----------------------------------------------------------------------------
\* The last token completes the prompt, and the answer's context.
LEMMA LastStep ==
  ASSUME ChatInv, UNCHANGED persist, DecodeLast
  PROVE  ChatInv' /\ ServesStep
<1>1. /\ turn.pc = "syn" /\ ~ At("idle") /\ ~ Answering /\ UNCHANGED <<committed, intact>>
      /\ cache' = Append(cache, turn.syn_last) /\ turn' = [turn EXCEPT !.pc = "loop"]
  BY DEF DecodeLast, At, Answering
<1>2. /\ turn \in Busy /\ cache \in Seq(Token) /\ turn.prompt \in Seq(Token)
      /\ turn.recalled \in BOOLEAN /\ turn.syn_last \in Token /\ turn.gen \in Seq(Token)
      /\ turn.astray \in BOOLEAN /\ Body(turn.prompt) \o <<Last>> = turn.prompt
  BY <1>1, InTurn
<1>3. /\ cache' = cache \o <<turn.syn_last>> /\ cache' \in Seq(Token) /\ cache' # <<>>
  <2>1. Append(cache, turn.syn_last) = cache \o <<turn.syn_last>>
    BY <1>2, AppendIsConcat
  <2> QED BY <2>1, <1>1, <1>2
<1>4. GoesOn("loop", turn.recalled, turn.syn_last, turn.gen, turn.astray)
  BY <1>1, <1>2 DEF Busy, GoesOn
<1>5. /\ TypeOK' /\ RecordMatches' /\ Kept
      /\ turn'.pc = "loop" /\ turn'.recalled = turn.recalled
      /\ turn'.syn_last = turn.syn_last /\ turn'.gen = turn.gen /\ turn'.astray = turn.astray
  BY <1>1, <1>2, <1>3, <1>4, Onward DEF PCs
<1>6. Lost' = Lost /\ Own' = Own
  BY <1>5 DEF Lost, Own, Kept
<1>7. AtLoop'
  <2>1. ASSUME Own, ~ Lost PROVE cache' = turn.prompt \o turn.gen
    <3>1. cache = Body(turn.prompt) /\ turn.syn_last = Last
      BY <2>1, <1>1 DEF ChatInv, AtSyn, At
    <3>2. cache' = turn.prompt
      BY <3>1, <1>2, <1>3
    <3>3. turn.gen = <<>>
      BY <1>1 DEF ChatInv, NotYet, PCs
    <3> QED BY <3>2, <3>3, <1>2
  <2> QED BY <2>1, <1>5, <1>6 DEF AtLoop, Kept
<1>8. ChatInv'
  BY <1>3, <1>5, <1>7
     DEF ChatInv, Unrecalled, NotYet, AtHead, AtFrames, AtRecall, AtReplay, AtSyn, AtFailed,
         Answering, At
<1>9. CASE Lost
  <2>1. UNCHANGED <<Request, Context>>
    BY <1>6, <1>9 DEF Request, Context
  <2> QED BY <2>1, <1>8 DEF ServesStep, Fresh!freshVars, Request, Context
<1>10. CASE ~ Lost
  <2>1. cache' \in Fresh!Contexts(turn.prompt, turn.kind)
    BY <1>1, <1>3, <1>10 DEF ChatInv, AtSyn, At, Starts
  <2>2. /\ Request = <<turn.prompt, turn.kind>> /\ Context = <<>>
        /\ Request' = Request /\ Context' = cache'
    BY <1>1, <1>5, <1>6, <1>10 DEF Request, Context, Answering, At, Kept
  <2>3. Request # <<>> /\ Request[1] = turn.prompt /\ Request[2] = turn.kind
    BY <2>2
  <2>4. Fresh!Answer
    BY <2>1, <2>2, <2>3 DEF Fresh!Answer, Request, Context
  <2> QED BY <2>4, <1>8 DEF ServesStep, Fresh!Next
<1> QED BY <1>9, <1>10

\* A sampled token that is stepped follows the prompt and its predecessors.
LEMMA GenerateStep ==
  ASSUME ChatInv, UNCHANGED persist, NEW t \in Token, Generate(t)
  PROVE  ChatInv' /\ ServesStep
<1>1. /\ turn.pc = "loop" /\ ~ At("idle") /\ Answering /\ UNCHANGED <<committed, intact>>
      /\ cache' = Append(cache, t) /\ turn' = [turn EXCEPT !.gen = Append(turn.gen, t)]
  BY DEF Generate, At, Answering
<1>2. /\ turn \in Busy /\ cache \in Seq(Token) /\ turn.prompt \in Seq(Token)
      /\ turn.recalled \in BOOLEAN /\ turn.syn_last \in Token /\ turn.gen \in Seq(Token)
      /\ turn.astray \in BOOLEAN
  BY <1>1, InTurn
<1>3. Append(turn.gen, t) \in Seq(Token) /\ cache' \in Seq(Token) /\ cache' # <<>>
  BY <1>1, <1>2
<1>4. GoesOn("loop", turn.recalled, turn.syn_last, Append(turn.gen, t), turn.astray)
  BY <1>1, <1>2 DEF Busy, GoesOn
<1>5. /\ TypeOK' /\ RecordMatches' /\ Kept
      /\ turn'.pc = "loop" /\ turn'.recalled = turn.recalled
      /\ turn'.syn_last = turn.syn_last /\ turn'.gen = Append(turn.gen, t)
      /\ turn'.astray = turn.astray
  <2> DEFINE g == Append(turn.gen, t)
  <2>1. g \in Seq(Token) /\ GoesOn("loop", turn.recalled, turn.syn_last, g, turn.astray)
    BY <1>3, <1>4
  <2> HIDE DEF g
  <2>2. /\ TypeOK' /\ RecordMatches' /\ Kept
        /\ turn'.pc = "loop" /\ turn'.recalled = turn.recalled
        /\ turn'.syn_last = turn.syn_last /\ turn'.gen = g /\ turn'.astray = turn.astray
    BY <2>1, <1>1, <1>2, <1>3, Onward DEF PCs
  <2> QED BY <2>2 DEF g
<1>6. Lost' = Lost /\ Own' = Own
  BY <1>5 DEF Lost, Own, Kept
<1>7. AtLoop'
  <2>1. ASSUME Own, ~ Lost PROVE cache' = turn.prompt \o Append(turn.gen, t)
    <3>1. cache = turn.prompt \o turn.gen
      BY <2>1, <1>1 DEF ChatInv, AtLoop, At
    <3>2. Append(cache, t) = cache \o <<t>>
      BY <1>2, AppendIsConcat
    <3>3. (turn.prompt \o turn.gen) \o <<t>> = turn.prompt \o Append(turn.gen, t)
      BY <1>2, ConcatAppend
    <3> QED BY <3>1, <3>2, <3>3, <1>1
  <2> QED BY <2>1, <1>5, <1>6 DEF AtLoop, Kept
<1>8. ChatInv'
  BY <1>3, <1>5, <1>7
     DEF ChatInv, Unrecalled, NotYet, AtHead, AtFrames, AtRecall, AtReplay, AtSyn, AtFailed,
         Answering, At
<1>9. CASE Lost
  <2>1. UNCHANGED <<Request, Context>>
    BY <1>6, <1>9 DEF Request, Context
  <2> QED BY <2>1, <1>8 DEF ServesStep, Fresh!freshVars, Request, Context
<1>10. CASE ~ Lost
  <2>1. /\ Request' = Request /\ Context = cache /\ Context' = Append(Context, t)
    BY <1>1, <1>5, <1>6, <1>10 DEF Request, Context, Answering, At, Kept
  <2>2. Context # <<>>
    BY <2>1, <1>1 DEF ChatInv
  <2>3. Fresh!Emit(t)
    BY <2>1, <2>2 DEF Fresh!Emit, Request, Context
  <2> QED BY <2>3, <1>8 DEF ServesStep, Fresh!Next
<1> QED BY <1>9, <1>10

\* A sampled token whose step failed is listed and has no row.
LEMMA GenerateFailsStep ==
  ASSUME ChatInv, UNCHANGED persist, NEW t \in Token, GenerateFails(t)
  PROVE  ChatInv' /\ ServesStep
<1>1. /\ turn.pc = "loop" /\ ~ At("idle") /\ Answering /\ UNCHANGED <<committed, intact>>
      /\ cache' = cache
      /\ turn' = [turn EXCEPT !.gen = Append(turn.gen, t), !.pc = "failed"]
  BY DEF GenerateFails, At, Answering
<1>2. /\ turn \in Busy /\ cache \in Seq(Token) /\ turn.prompt \in Seq(Token)
      /\ turn.recalled \in BOOLEAN /\ turn.syn_last \in Token /\ turn.gen \in Seq(Token)
      /\ turn.astray \in BOOLEAN
  BY <1>1, InTurn
<1>3. /\ Append(turn.gen, t) \in Seq(Token) /\ cache' \in Seq(Token)
      /\ Len(Append(turn.gen, t)) = Len(turn.gen) + 1
  BY <1>1, <1>2
<1>4. GoesOn("failed", turn.recalled, turn.syn_last, Append(turn.gen, t), turn.astray)
  BY <1>1, <1>2 DEF Busy, GoesOn
<1>5. /\ TypeOK' /\ RecordMatches' /\ Kept
      /\ turn'.pc = "failed" /\ turn'.recalled = turn.recalled
      /\ turn'.gen = Append(turn.gen, t) /\ turn'.astray = turn.astray
  <2> DEFINE g == Append(turn.gen, t)
  <2>1. g \in Seq(Token) /\ GoesOn("failed", turn.recalled, turn.syn_last, g, turn.astray)
    BY <1>3, <1>4
  <2> HIDE DEF g
  <2>2. /\ TypeOK' /\ RecordMatches' /\ Kept
        /\ turn'.pc = "failed" /\ turn'.recalled = turn.recalled
        /\ turn'.gen = g /\ turn'.astray = turn.astray
    BY <2>1, <1>1, <1>2, <1>3, Onward DEF PCs
  <2> QED BY <2>2 DEF g
<1>6. Lost' = Lost /\ Own' = Own
  BY <1>5 DEF Lost, Own, Kept
<1>7. AtFailed'
  <2>1. ASSUME Own, ~ Lost PROVE Len(cache) < Len(turn.prompt) + (Len(turn.gen) + 1)
    <3>1. cache = turn.prompt \o turn.gen
      BY <2>1, <1>1 DEF ChatInv, AtLoop, At
    <3>2. /\ Len(cache) = Len(turn.prompt) + Len(turn.gen)
          /\ Len(turn.prompt) \in Nat /\ Len(turn.gen) \in Nat
      BY <3>1, <1>2
    <3>3. \A i, j \in Nat : i + j < i + (j + 1)
      OBVIOUS
    <3> QED BY <3>2, <3>3
  <2> QED BY <2>1, <1>1, <1>3, <1>5, <1>6 DEF AtFailed, Kept
<1>8. ChatInv'
  <2>1. cache' # <<>>
    BY <1>1 DEF ChatInv
  <2> QED BY <2>1, <1>5, <1>7
     DEF ChatInv, Unrecalled, NotYet, AtHead, AtFrames, AtRecall, AtReplay, AtSyn, AtLoop,
         Answering, At
<1>9. UNCHANGED <<Request, Context>>
  BY <1>1, <1>5, <1>6 DEF Request, Context, Answering, At, Kept
<1> QED BY <1>8, <1>9 DEF ServesStep, Fresh!freshVars, Request, Context

\* The record a turn leaves is what its cache holds, or of another length.
LEMMA EndStep ==
  ASSUME ChatInv, UNCHANGED persist, End
  PROVE  ChatInv' /\ ServesStep
<1>1. /\ turn.pc \in {"loop", "failed"} /\ turn' = NoTurn /\ cache' = cache /\ ~ At("idle")
      /\ intact' = (PersistKV(turn.kind) /\ ~ turn.astray /\ ~ turn.foreign)
      /\ committed' = IF ~ PersistKV(turn.kind) THEN committed
                      ELSE IF turn.recalled THEN <<>>
                      ELSE turn.prompt \o turn.gen
      /\ committed \in Seq(Token)
  BY DEF End, At, ChatInv, TypeOK
<1>2. cache \in Seq(Token) /\ turn.prompt \in Seq(Token) /\ turn.gen \in Seq(Token)
  BY <1>1, InTurn
<1>3. committed' \in Seq(Token) /\ intact' \in BOOLEAN
  <2>1. turn.prompt \o turn.gen \in Seq(Token) /\ <<>> \in Seq(Token)
    BY <1>2
  <2> QED BY <2>1, <1>1
<1>4. ASSUME intact', Len(cache') = Len(committed') PROVE cache' = committed'
  <2>1. PersistKV(turn.kind) /\ turn.kind = "plain" /\ ~ Lost
    BY <1>1, <1>4 DEF PersistKV, Lost
  <2>2. CASE turn.recalled
    <3>1. committed' = <<>>
      BY <1>1, <2>1, <2>2
    <3> QED BY <3>1, <1>1, <1>2, <1>4
  <2>3. CASE ~ turn.recalled
    <3>1. Own /\ committed' = turn.prompt \o turn.gen
      BY <1>1, <2>1, <2>3 DEF Own
    <3>2. Len(cache) = Len(turn.prompt \o turn.gen)
      BY <3>1, <1>1, <1>4
    <3>3. /\ Len(turn.prompt \o turn.gen) = Len(turn.prompt) + Len(turn.gen)
          /\ Len(turn.prompt) \in Nat /\ Len(turn.gen) \in Nat
      BY <1>2
    <3>4. turn.pc # "failed"
      <4>1. turn.pc = "failed" => Len(cache) < Len(turn.prompt) + Len(turn.gen)
        BY <2>1, <3>1 DEF ChatInv, AtFailed, At
      <4>2. \A i, j \in Nat : ~ (i + j < i + j)
        OBVIOUS
      <4> QED BY <3>2, <3>3, <4>1, <4>2
    <3>5. cache = turn.prompt \o turn.gen
      BY <3>1, <3>4, <2>1, <1>1 DEF ChatInv, AtLoop, At
    <3> QED BY <3>1, <3>5, <1>1
  <2> QED BY <2>2, <2>3
<1> QED BY <1>1, <1>2, <1>3, <1>4, OverStep

\* A turn cut short leaves its rows, and a record that is of others.
LEMMA CutStep ==
  ASSUME ChatInv, UNCHANGED persist, ~ At("idle"), Returns, cache' \in Seq(Token)
  PROVE  ChatInv' /\ ServesStep
<1>1. turn' = NoTurn /\ intact' = FALSE /\ committed' = committed
  BY DEF Returns
<1>2. committed' \in Seq(Token) /\ intact' \in BOOLEAN
  BY <1>1 DEF ChatInv, TypeOK
<1> QED BY <1>1, <1>2, OverStep

\* The cache is cleared: its length is an empty record's alone.
LEMMA DeclineStep ==
  ASSUME ChatInv, UNCHANGED persist, Decline
  PROVE  ChatInv' /\ ServesStep
<1>1. /\ ~ At("idle") /\ turn' = NoTurn /\ cache' = <<>> /\ committed' = committed
      /\ intact' = intact /\ committed \in Seq(Token) /\ intact \in BOOLEAN
  BY DEF Decline, Recalling, At, ChatInv, TypeOK
<1>2. cache' \in Seq(Token) /\ (Len(cache') = Len(committed') => cache' = committed')
  BY <1>1
<1> QED BY <1>1, <1>2, OverStep

LEMMA InterruptedStep ==
  ASSUME ChatInv, UNCHANGED persist, Interrupted
  PROVE  ChatInv' /\ ServesStep
<1>1. cache \in Seq(Token)
  BY DEF ChatInv, TypeOK
<1>2. ASSUME NEW n \in 0 .. Len(PromptHead), PrefillFails(n) PROVE ChatInv' /\ ServesStep
  <2>1. ~ At("idle") /\ cache' = cache \o Upto(PromptHead, n) /\ Returns
    BY <1>2 DEF PrefillFails, At
  <2>2. PromptHead \in Seq(Token)
    BY <2>1, InTurn, PromptSplit DEF PromptHead
  <2>3. cache' \in Seq(Token)
    <3>1. Upto(PromptHead, n) \in Seq(Token)
      BY <2>2, UptoType
    <3> QED BY <3>1, <2>1, <1>1
  <2> QED BY <2>1, <2>3, CutStep
<1>3. ASSUME NEW n \in 0 .. Len(Episode), EpisodeFails(n) PROVE ChatInv' /\ ServesStep
  <2>1. ~ At("idle") /\ cache' = cache \o Upto(Episode, n) /\ Returns
    BY <1>3 DEF EpisodeFails, At
  <2>2. Upto(Episode, n) \in Seq(Token)
    BY ChatAssumption, UptoType
  <2>3. cache' \in Seq(Token)
    BY <2>1, <2>2, <1>1
  <2> QED BY <2>1, <2>3, CutStep
<1>4. ASSUME Abandon PROVE ChatInv' /\ ServesStep
  <2>1. ~ At("idle") /\ cache' = cache /\ Returns
    BY <1>4 DEF Abandon, At
  <2> QED BY <2>1, <1>1, CutStep
<1> QED BY <1>2, <1>3, <1>4 DEF Interrupted

-----------------------------------------------------------------------------
\* Every step of a turn.
LEMMA ChatStep == ChatInv /\ [Next]_vars => ChatInv' /\ ServesStep
<1> SUFFICES ASSUME ChatInv, [Next]_vars PROVE ChatInv' /\ ServesStep
  OBVIOUS
<1>1. CASE UNCHANGED vars
  <2>1. /\ TypeOK' /\ RecordMatches' /\ Unrecalled' /\ NotYet'
        /\ (Answering => cache # <<>>)'
    <3>1. TypeOK'
      BY <1>1 DEF vars, ChatInv, TypeOK
    <3>2. RecordMatches' /\ Unrecalled' /\ NotYet'
      BY <1>1 DEF vars, ChatInv, RecordMatches, Unrecalled, NotYet, Last, At
    <3>3. (Answering => cache # <<>>)'
      BY <1>1 DEF vars, ChatInv, Answering
    <3> QED BY <3>1, <3>2, <3>3
  <2>5. AtHead' /\ AtFrames' /\ AtRecall'
    BY <1>1 DEF vars, ChatInv, AtHead, AtFrames, AtRecall, Lost, Framed, At
  <2>6. AtLoop' /\ AtFailed'
    BY <1>1 DEF vars, ChatInv, AtLoop, AtFailed, Lost, Own, At
  <2>2. AtReplay' /\ AtSyn'
    <3>1. Due(cache)' = Due(cache)
      BY <1>1 DEF vars, Due
    <3>2. Starts(cache)' = Starts(cache) /\ Starts(Due(cache))' = Starts(Due(cache))
      BY <1>1, <3>1 DEF vars, Starts
    <3> QED BY <1>1, <3>2 DEF vars, ChatInv, AtReplay, AtSyn, Lost, Own, Last, At
  <2>3. ChatInv'
    BY <2>1, <2>2, <2>5, <2>6 DEF ChatInv
  <2>4. UNCHANGED <<Request, Context>>
    BY <1>1 DEF vars, Request, Context, Answering, Lost, At
  <2> QED BY <2>3, <2>4 DEF ServesStep, Fresh!freshVars, Request, Context
<1>2. ASSUME Complete, UNCHANGED persist PROVE ChatInv' /\ ServesStep
  <2>1. ASSUME NEW p \in Prompt, NEW kind \in Kind, Begin(p, kind)
        PROVE  ChatInv' /\ ServesStep
    BY <1>2, <2>1, BeginStep
  <2>2. ASSUME NEW t \in Token, Generate(t) PROVE ChatInv' /\ ServesStep
    BY <1>2, <2>2, GenerateStep
  <2> QED BY <1>2, <2>1, <2>2, PrefillStep, FramesStep, NullStep, TextStep, EpisodeStep,
             DeclineStep, ReplayStep, LastStep, EndStep DEF Complete
<1>3. ASSUME Sides, UNCHANGED persist PROVE ChatInv' /\ ServesStep
  BY <1>3, SideStep DEF Sides
<1>4. ASSUME Refused, UNCHANGED persist PROVE ChatInv' /\ ServesStep
  BY <1>4, RestoreStep, TextRefusedStep, EpisodeRefusedStep, GenerateFailsStep DEF Refused
<1> QED BY <1>1, <1>2, <1>3, <1>4, InterruptedStep DEF Next

(***************************************************************************)
(* The invariant on which the claims rest holds for ever.                  *)
(***************************************************************************)
THEOREM ChatInvariant == Spec => []ChatInv
BY ChatInit, ChatStep, PTL DEF Spec

(***************************************************************************)
(* An answer that recalled nothing, that no refused recall led astray and  *)
(* that does not reuse rows on the word of a record another turn belied,   *)
(* is decoded from its own prompt, however much of an earlier turn's cache *)
(* run_kvdecode_chat kept and whatever it cut short before.                *)
(***************************************************************************)
THEOREM AnswersOwnPrompt == Spec => []AnswersPrompt
<1>1. ChatInv => AnswersPrompt
  BY DEF ChatInv, AtLoop, AnswersPrompt
<1> QED BY <1>1, ChatInvariant, PTL

(***************************************************************************)
(* Between turns KV_COMMITTED and the resident cache agree wherever the    *)
(* guard of the next turn's reuse looks, unless the last turn changed the  *)
(* cache and not the record.                                               *)
(***************************************************************************)
THEOREM RecordIsSound == Spec => []RecordMatches
<1>1. ChatInv => RecordMatches
  BY DEF ChatInv
<1> QED BY <1>1, ChatInvariant, PTL

(***************************************************************************)
(* Every answer of run_kvdecode_chat that is neither astray nor foreign is *)
(* decoded over rows that a daemon without a resident cache could have     *)
(* computed for the same request: its own prompt, its own episode or       *)
(* frames, or one delivered memory, whatever was reused, refused, put back *)
(* or cut short.                                                           *)
(***************************************************************************)
THEOREM ServesAsFresh == Spec => ServesFresh
<1>1. Init => ChatInv /\ Fresh!Init
  BY ChatInit
<1>2. ChatInv /\ [Next]_vars => ChatInv' /\ [Fresh!Next]_(Fresh!freshVars)
  BY ChatStep DEF ServesStep
<1> QED BY <1>1, <1>2, PTL DEF Spec, ServesFresh, Fresh!Spec
=============================================================================

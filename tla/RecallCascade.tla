---------------------------- MODULE RecallCascade ----------------------------
(***************************************************************************)
(* Which memory an auto-recall turn puts in the context, and what of the   *)
(* answer reaches the client (run_kvdecode_chat in routes.rs, spine.rs).   *)
(*                                                                         *)
(* Between the prefill of the prompt and the first sampled token a ladder  *)
(* of stages may take the turn: a causal probe of every candidate (INT2),  *)
(* a learned head (WC), word overlap (JACCARD), L5 cosine with its gates   *)
(* and side passes, a generative judge, the disposer, the q.K threshold.   *)
(* Each is switched by an environment variable; spine.rs is a second       *)
(* implementation of two of them.  Every stage works in the resident cache *)
(* and leaves it to the next.                                              *)
(*                                                                         *)
(* Scores are ranks: a memory whose cosine is at least Tau matches, two    *)
(* equal cosines at the top are an ambiguous margin.  What the other       *)
(* selectors compute is an arbitrary choice.                               *)
(***************************************************************************)
EXTENDS Integers, Sequences, FiniteSets

CONSTANTS
  Memory,   \* episodes: registry and nightshift
  None,     \* no episode
  Live,     \* those of nightshift; the others are curated
  Strict,   \* those whose policy is attr-gate-strict (private-secret)
  Sidecar,  \* those with ep.secret and ep.tok, which INT2 can probe
  NPos,     \* rows of an episode's K/V
  NSecret,  \* tokens of its secret, or of the continuation a probe decodes
  NHead,    \* rows of the prompt short of its last token
  Jmax,     \* depth of the undo journal (SP_G4_KV_JMAX)
  JudgeK, JudgeR,  \* the judge's working set, and its share of recent episodes
  Configs,  \* sets of switches the daemon may be started with
  View,     \* what the selectors may see of a request
  MaxDraft  \* bound on the chunks of an answer

\* What a row of the cache is computed for, but for memories.
Note == {"head", "frame", "side", "judge", "payload", "prompt", "thought"}

CascadeAssumption ==
  /\ None \notin Memory /\ Memory \intersect Note = {} /\ IsFiniteSet(Memory)
  /\ Live \subseteq Memory /\ Strict \subseteq Memory /\ Sidecar \subseteq Memory
  /\ NPos \in [Memory -> Nat] /\ NSecret \in Nat
  /\ NHead \in Nat /\ Jmax \in Nat \ {0} /\ MaxDraft \in Nat
  /\ JudgeK \in Nat /\ JudgeR \in Nat
  /\ View # {}
  /\ \A v \in View : /\ v.cos \in [Memory -> Nat] /\ v.absent \subseteq Memory
                     /\ v.entity \in BOOLEAN /\ v.question \in BOOLEAN

Tau == 1    \* SP_RECALL_L5_TAU

VARIABLES
  cfg,      \* the switches that are on
  retired,  \* episodes whose lifecycle is superseded
  steer,    \* steering is armed on the resident session
  cache,    \* rows of the resident cache and the journal's baseline
  turn,     \* the turn that holds the cache
  sent      \* what the client of the last turn has received

vars == <<cfg, retired, steer, cache, turn, sent>>

On(switch) == switch \in cfg
At(pc) == turn.pc = pc

-----------------------------------------------------------------------------
(***************************************************************************)
(* The cache.  A row is tagged with what it was computed for.  With a ring *)
(* a rewind may not pass the baseline, which slides ahead of long spans,   *)
(* and an episode must fit in the journal; one without rows is refused     *)
(* too.  Refusals are ignored.                                             *)
(***************************************************************************)
Slide(n, commit) == IF On("ring") /\ n > commit + Jmax THEN n - Jmax ELSE commit

Stepped(c, tag, n) ==
  [rows   |-> c.rows \o [i \in 1 .. n |-> tag],
   commit |-> IF n = 0 THEN c.commit ELSE Slide(Len(c.rows) + n, c.commit)]

Empty == [rows |-> <<>>, commit |-> 0]
HeadRows == Stepped(Empty, "head", NHead)
AugRows(e) == Stepped(Stepped(Empty, "frame", 1), e, 1)

Fits(c, e) == /\ NPos[e] > 0
              /\ On("ring") => Len(c.rows) - c.commit + NPos[e] <= Jmax

Rewound(c, n) ==
  IF On("ring") /\ n > Len(c.rows) - c.commit THEN c
  ELSE [c EXCEPT !.rows = SubSeq(@, 1, Len(@) - n)]

\* The episodes that an answer decoded now attends to.
Recited(c) == {e \in Memory : \E i \in DOMAIN c.rows : c.rows[i] = e}

-----------------------------------------------------------------------------
\* The L5 stage as the ladder has it.
Match(S, v) == CHOOSE e \in S : \A f \in S : v.cos[f] <= v.cos[e]
Ambiguous(S, v) ==
  \E e, f \in S : e # f /\ v.cos[e] = v.cos[Match(S, v)] /\ v.cos[f] = v.cos[e]

Pass       == [do |-> "pass", mem |-> None]
Deliver(e) == [do |-> "deliver", mem |-> e]
Refuse(e)  == [do |-> "decline", mem |-> e]

Ranked == Memory \ retired

SkipsStatement(v) == On("qonly") /\ ~ v.question

Secret(e) == On("policy") /\ e \in Strict

Declines(e, v) ==
  /\ On("attr") \/ Secret(e)
  /\ e \in v.absent
  /\ Secret(e) \/ v.entity

\* What the stage does with the match e, its own or a side pass's.
LadderGate(e, v) ==
  IF Declines(e, v) THEN Refuse(e)
  ELSE IF On("margin") /\ Ambiguous(Ranked, v) THEN Pass
  ELSE Deliver(e)

Ladder(v) ==
  IF SkipsStatement(v) \/ Ranked = {} THEN Pass
  ELSE IF v.cos[Match(Ranked, v)] < Tau THEN Pass
  ELSE LadderGate(Match(Ranked, v), v)

-----------------------------------------------------------------------------
(***************************************************************************)
(* The spine: deciders folded in order over the decision so far.  A        *)
(* selector refines Pass, the attribute gate refines Deliver.              *)
(***************************************************************************)
HeadSelector(winner) == IF winner = None THEN Pass ELSE Deliver(winner)

L5Recall(d, v) ==
  IF d # Pass \/ SkipsStatement(v) \/ Memory = {} THEN d
  ELSE IF v.cos[Match(Memory, v)] < Tau THEN d
  ELSE IF On("margin") /\ Ambiguous(Memory, v) THEN d
  ELSE Deliver(Match(Memory, v))

AttrGate(d, v) ==
  IF On("attr") /\ d.do = "deliver" /\ d.mem \in v.absent /\ v.entity
  THEN Refuse(d.mem) ELSE d

Spine(winner, v) == AttrGate(L5Recall(HeadSelector(winner), v), v)


-----------------------------------------------------------------------------
Chunk == {"plain", "value"}   \* "value": it uses a word that only the record has

Idle == [pc |-> "idle", view |-> CHOOSE v \in View : TRUE, todo |-> {}, best |-> None,
         decided |-> FALSE, recalled |-> None, decline |-> FALSE, fact |-> None,
         text |-> <<>>, held |-> <<>>, stepped |-> FALSE,
         vetoed |-> FALSE]

Stages == <<"int2", "wc", "jaccard", "l5", "judge", "disp", "qk">>

RunsUngated(t, s) == On(s) /\ ~ t.decided                  \* mutant of Runs

\* A stage stands down once INT2 has decided; three also once a memory was recalled.
Runs(t, s) ==
  CASE s = "int2" -> On(s)
    [] s \in {"jaccard", "l5", "judge"} -> On(s) /\ ~ t.decided /\ t.recalled = None
    [] s = "qk" -> On(s) /\ ~ On("disp") /\ ~ t.decided
    [] OTHER -> On(s) /\ ~ t.decided

\* The turn t once the first i stages are behind it.
Onward(t, i) ==
  LET left == {j \in i + 1 .. Len(Stages) : Runs(t, Stages[j])}
      next == IF left = {} THEN "announce"
              ELSE Stages[CHOOSE j \in left : \A k \in left : j <= k]
  IN [t EXCEPT !.pc = next,
               !.todo = CASE next = "int2" -> Sidecar
                          [] next = "disp" -> Memory \ Live
                          [] OTHER -> {},
               !.best = None]

Init ==
  /\ cfg \in Configs
  /\ retired = {} /\ steer = FALSE
  /\ cache = Empty /\ turn = Idle /\ sent = <<>>

\* Between two turns a live episode may be superseded.
Supersede(e) ==
  /\ At("idle") /\ e \in Live \ retired
  /\ retired' = retired \cup {e}
  /\ UNCHANGED <<cfg, steer, cache, turn, sent>>

\* The coder model answers; the resident cache is not touched.
Delegate ==
  /\ At("idle") /\ On("telepathy")
  /\ sent' = <<<<"delegate", None>>, <<"done", None>>>>
  /\ UNCHANGED <<cfg, retired, steer, cache, turn>>

Begin(v) ==
  LET t == [Idle EXCEPT !.view = v] IN
  /\ At("idle")
  /\ cache' = HeadRows
  /\ turn' = IF On("spine") THEN [t EXCEPT !.pc = "spine"] ELSE Onward(t, 0)
  /\ sent' = <<>>
  /\ UNCHANGED <<cfg, retired, steer>>

(***************************************************************************)
(* Two ways to deliver, each with the outcomes it may have: the memory's   *)
(* text in a new prompt, which may not template or not fit, and its K/V    *)
(* appended to the cache.                                                  *)
(***************************************************************************)
TextOutcome(e) == {[ok |-> TRUE,  cache |-> AugRows(e)],
                   [ok |-> FALSE, cache |-> cache],
                   [ok |-> FALSE, cache |-> Empty]}

ReplayOutcome(e) ==
  {[ok |-> FALSE, cache |-> cache]} \cup
  (IF Fits(cache, e) THEN {[ok |-> TRUE, cache |-> Stepped(cache, e, NPos[e])]} ELSE {})

\* Stage i ends with the outcome o of delivering e; a failure recalls nothing.
Concluded(t, i, o, e) ==
  /\ cache' = o.cache
  /\ turn' = Onward(IF o.ok THEN [t EXCEPT !.recalled = e] ELSE t, i)
  /\ UNCHANGED <<cfg, retired, steer, sent>>

Passed(t, i) ==
  /\ turn' = Onward(t, i)
  /\ UNCHANGED <<cfg, retired, steer, cache, sent>>

SpineTurn(winner) ==
  LET d == Spine(winner, turn.view) IN
  /\ At("spine") /\ (winner = None \/ On("head"))
  /\ CASE d.do = "pass" -> Passed(turn, Len(Stages))
       [] d.do = "decline" -> Passed([turn EXCEPT !.decline = TRUE], Len(Stages))
       [] d.do = "deliver" -> \E o \in TextOutcome(d.mem) :
                                Concluded(turn, Len(Stages), o, d.mem)

-----------------------------------------------------------------------------
(***************************************************************************)
(* A probe: the memory is replayed, n1 tokens are decoded and taken back,  *)
(* its source rows are ablated, n2 tokens are decoded again, and both go.  *)
(* The other disposer (dcont) takes the memory back after the first pass   *)
(* and replays it with its values zeroed.  A decode may fail at any token. *)
(***************************************************************************)
Ablation(c, e, n1, n2) ==
  LET once == Rewound(Stepped(Stepped(c, e, NPos[e]), "payload", n1), n1) IN
  IF n1 = 0 THEN Rewound(once, NPos[e])
  ELSE Rewound(Stepped(once, "payload", n2), n2 + NPos[e])

Continuation(c, e, n1, n2) ==
  LET leg(d, n) == Rewound(Stepped(Stepped(d, e, NPos[e]), "payload", n), n + NPos[e])
      once == leg(c, n1)
  IN IF n1 = 0 \/ ~ Fits(once, e) THEN once ELSE leg(once, n2)

ProbeableAll(e) == TRUE                                 \* mutant of Probeable
Probeable(e) == At("int2") => NPos[e] + NSecret <= Jmax

\* The probe of e may leave the rows of c.
ProbeOutcome(c, e) ==
  {c} \cup
  (IF Fits(c, e)
   THEN {IF At("disp") /\ On("dcont") THEN Continuation(c, e, n1, n2) ELSE Ablation(c, e, n1, n2) :
           n1 \in 0 .. NSecret, n2 \in 0 .. NSecret}
   ELSE {})

Probe(e) ==
  /\ At("int2") \/ At("disp")
  /\ e \in turn.todo
  /\ IF Probeable(e)
     THEN /\ cache' \in ProbeOutcome(cache, e)
          /\ \E b \in {turn.best, e} :
               turn' = [turn EXCEPT !.todo = @ \ {e}, !.best = b]
     ELSE /\ turn' = [turn EXCEPT !.todo = @ \ {e}]
          /\ UNCHANGED cache
  /\ UNCHANGED <<cfg, retired, steer, sent>>

\* The best collapse clears the threshold and its memory is replayed, or not.
\* INT2 has then decided, whatever became of the replay.
Weigh(s, i, t) ==
  /\ At(s) /\ turn.todo = {}
  /\ \/ Passed(t, i)
     \/ /\ turn.best # None
        /\ \E o \in ReplayOutcome(turn.best) : Concluded(t, i, o, turn.best)

Int2 == Weigh("int2", 1, [turn EXCEPT !.decided = TRUE])
Disposer == ~ On("dcont") /\ Weigh("disp", 6, turn)
Continued == On("dcont") /\ Weigh("disp", 6, turn)

-----------------------------------------------------------------------------
\* The learned head: an episode beats the NULL slot, or none does.
LearnedHead ==
  /\ At("wc")
  /\ \/ Passed(turn, 2)
     \/ \E e \in Memory :
          \E o \in IF On("wctext") /\ e \notin Live THEN TextOutcome(e) ELSE ReplayOutcome(e) :
            Concluded(turn, 2, o, e)

\* Word overlap.
Jaccard ==
  /\ At("jaccard")
  /\ \/ Passed(turn, 3)
     \/ \E e \in Memory : \E o \in TextOutcome(e) : Concluded(turn, 3, o, e)

\* A side pass over an ambiguous match resets the cache to its own prompt, and
\* may name another episode: this is what e and c may then be.
SidePass ==
  LET first == Match(Ranked, turn.view) IN
  IF On("side") /\ Ambiguous(Ranked, turn.view)
  THEN {[mem |-> e, cache |-> Stepped(Empty, "side", 2)] : e \in Ranked} \cup
       {[mem |-> first, cache |-> c] : c \in {cache, Empty}}
  ELSE {[mem |-> first, cache |-> cache]}

\* The record that the draft is tested against.
Grounded(t, o, e) == [t EXCEPT !.fact = IF o.ok THEN e ELSE @]

L5 ==
  LET v == turn.view IN
  /\ At("l5")
  /\ IF SkipsStatement(v) \/ Ranked = {} THEN Passed(turn, 4)
     ELSE IF v.cos[Match(Ranked, v)] < Tau THEN Passed(turn, 4)
     ELSE \E p \in SidePass :
            LET d == IF v.cos[p.mem] < Tau THEN Pass ELSE LadderGate(p.mem, v)
                left == [ok |-> d.do = "decline", cache |-> p.cache]
            IN IF d.do # "deliver"
               THEN Concluded([turn EXCEPT !.decline = left.ok], 4, left, p.mem)
               ELSE \E o \in TextOutcome(p.mem) :
                      LET at == IF o.ok \/ o.cache = Empty THEN o ELSE [o EXCEPT !.cache = p.cache]
                      IN Concluded(Grounded(turn, o, p.mem), 4, at, p.mem)

\* What the judge may be shown: the most recent live episodes, at most JudgeR,
\* then all the others if they fit or as many as there are slots; none of those
\* if the query's keys cannot be read.
WorkingSets ==
  LET kept == CHOOSE k \in 0 .. JudgeR :
                /\ k <= JudgeK /\ k <= Cardinality(Live)
                /\ \A j \in 0 .. JudgeR : j <= JudgeK /\ j <= Cardinality(Live) => j <= k
      slots == JudgeK - kept
      cold(r) == LET rest == Memory \ r IN
                 IF Cardinality(rest) <= slots THEN {rest}
                 ELSE {{}} \cup {c \in SUBSET rest : Cardinality(c) = slots}
  IN UNION {{r \cup c : c \in cold(r)} : r \in {r \in SUBSET Live : Cardinality(r) = kept}}

\* The judge reads their texts in the resident cache.
JudgeRead ==
  /\ At("judge")
  /\ \/ Passed(turn, 5)
     \/ \E w \in WorkingSets, c \in {Empty, Stepped(Empty, "judge", NHead + 1)} :
          /\ cache' = c
          /\ turn' = [turn EXCEPT !.pc = "judged", !.todo = w]
          /\ UNCHANGED <<cfg, retired, steer, sent>>

\* Then the prompt is restored cold, unless its prefill is refused: the error is
\* only logged.  A verified pick delivers the L5 match, or itself; what does not
\* template or fit is given up, after one more restore that may be refused too.
Restored == {HeadRows, Empty}

\* The match over all the memories, superseded or not, if the judge is only to
\* veto it; the pick itself otherwise.
Delivered(pick) == IF On("judgel5") THEN Match(Memory, turn.view) ELSE pick

JudgePick ==
  /\ At("judged")
  /\ \/ \E c \in Restored : Concluded(turn, 5, [ok |-> FALSE, cache |-> c], None)
     \/ \E pick \in turn.todo :
          LET e == Delivered(pick) IN
          Concluded(turn, 5, [ok |-> TRUE, cache |-> AugRows(e)], e)

\* The best of the q.K scan, above its threshold: curated episodes only.
Scanned == Memory \ Live

QK ==
  /\ At("qk")
  /\ \/ Passed(turn, 7)
     \/ \E e \in Scanned : \E o \in ReplayOutcome(e) : Concluded(turn, 7, o, e)

-----------------------------------------------------------------------------
\* The client hears which memory was recalled.  A decline answers without the
\* model and leaves the cache cold.
Announce ==
  /\ At("announce")
  /\ IF turn.decline
     THEN /\ sent' = sent \o <<<<"recall", turn.recalled>>, <<"decline", None>>, <<"done", None>>>>
          /\ cache' = Empty /\ turn' = [turn EXCEPT !.pc = "end"]
     ELSE /\ sent' = Append(sent, <<"recall", turn.recalled>>)
          /\ turn' = [turn EXCEPT !.pc = "steer"] /\ UNCHANGED cache
  /\ UNCHANGED <<cfg, retired, steer>>

Held == On("spectest") /\ turn.fact # None

\* Steering is armed for a recall turn and disarmed for any other.
Steer ==
  /\ At("steer")
  /\ steer' = (On("steer") /\ turn.recalled # None)
  /\ turn' = [turn EXCEPT !.pc = "seed"]
  /\ UNCHANGED <<cfg, retired, cache, sent>>

\* The last token of the prompt, which may fail, then the continuous thoughts,
\* of which any may fail.
Seed ==
  /\ At("seed")
  /\ \/ /\ sent' = Append(sent, <<"error", None>>)
        /\ turn' = [turn EXCEPT !.pc = "end"]
        /\ UNCHANGED cache
     \/ \E n \in IF On("coconut") THEN 0 .. 1 ELSE {0} :
          /\ cache' = Stepped(Stepped(cache, "prompt", 1), "thought", n)
          /\ turn' = [turn EXCEPT !.pc = "decode"]
          /\ UNCHANGED sent
  /\ UNCHANGED <<cfg, retired, steer>>

\* A piece of text goes to the client, or is held while the draft is tested.
Shown(t, c) ==
  IF Held THEN /\ turn' = [t EXCEPT !.held = Append(@, c)] /\ UNCHANGED sent
  ELSE /\ turn' = t /\ sent' = Append(sent, <<c, None>>)

\* A token is decoded; its text is complete, or waits in the buffer.
Decode ==
  /\ At("decode")
  /\ \/ /\ turn' = [turn EXCEPT !.stepped = TRUE]
        /\ UNCHANGED sent
     \/ /\ Len(turn.text) < MaxDraft
        /\ \E c \in Chunk, ok \in BOOLEAN :
             Shown([turn EXCEPT !.text = Append(@, c), !.stepped = @ \/ ok,
                                !.pc = IF ok THEN "decode" ELSE "flush"], c)
  /\ UNCHANGED <<cfg, retired, steer, cache>>

\* The client has gone; nothing more is sent.
ClientGone ==
  /\ At("decode") /\ ~ Held
  /\ turn' = [turn EXCEPT !.pc = "end"]
  /\ UNCHANGED <<cfg, retired, steer, cache, sent>>

\* The loop ends: at its budget, a stop token or, for a judged turn, a newline;
\* or inside a stop string, whose text ahead of it is shown but not recorded.
Stop ==
  /\ At("decode")
  /\ \/ turn' = [turn EXCEPT !.pc = "flush"] /\ UNCHANGED sent
     \/ \E c \in Chunk : Shown([turn EXCEPT !.pc = "flush"], c)
  /\ UNCHANGED <<cfg, retired, steer, cache>>

FlushDirect ==                                              \* mutant of Flush
  /\ At("flush")
  /\ turn' = [turn EXCEPT !.pc = IF Held THEN "test" ELSE "done"]
  /\ \E c \in Chunk : sent' = Append(sent, <<c, None>>)
  /\ UNCHANGED <<cfg, retired, steer, cache>>

\* What the buffer still holds.
Flush ==
  LET t == [turn EXCEPT !.pc = IF Held THEN "test" ELSE "done"] IN
  /\ At("flush")
  /\ \/ turn' = t /\ UNCHANGED sent
     \/ \E c \in Chunk : Shown([t EXCEPT !.text = Append(@, c)], c)
  /\ UNCHANGED <<cfg, retired, steer, cache>>

Ungrounded == \A i \in DOMAIN turn.text : turn.text[i] # "value"

\* The linear head decides if it scored, which needs a decoded token; the
\* words decide otherwise.  A vetoed draft is replaced by the record.
Test ==
  /\ At("test")
  /\ \E veto \in IF On("testhead") /\ turn.stepped THEN BOOLEAN ELSE {Ungrounded} :
       IF veto
       THEN /\ sent' = Append(sent, <<"record", turn.fact>>)
            /\ turn' = [turn EXCEPT !.pc = "done", !.vetoed = TRUE, !.text = <<>>]
       ELSE /\ \E n \in 0 .. Len(turn.held) :      \* a client that leaves gets a prefix
                 sent' = sent \o [i \in 1 .. n |-> <<turn.held[i], None>>]
            /\ turn' = [turn EXCEPT !.pc = "done"]
  /\ UNCHANGED <<cfg, retired, steer, cache>>

Done ==
  /\ At("done")
  /\ \E last \in {"done", "cancelled"} : sent' = Append(sent, <<last, None>>)
  /\ turn' = [turn EXCEPT !.pc = "end"]
  /\ UNCHANGED <<cfg, retired, steer, cache>>

\* The cache is unlocked.
End ==
  /\ At("end") /\ turn' = Idle
  /\ UNCHANGED <<cfg, retired, steer, cache, sent>>

Stage ==
  \/ \E w \in Memory \cup {None} : SpineTurn(w)
  \/ \E e \in Memory : Probe(e)
  \/ Int2 \/ LearnedHead \/ Jaccard \/ L5 \/ JudgeRead \/ JudgePick
  \/ Disposer \/ Continued \/ QK

Answer == \/ Announce \/ Steer \/ Seed \/ Decode \/ ClientGone \/ Stop \/ Flush
          \/ Test \/ Done \/ End

Next ==
  \/ \E e \in Live : Supersede(e)
  \/ Delegate \/ \E v \in View : Begin(v)
  \/ Stage \/ Answer

Spec == Init /\ [][Next]_vars

-----------------------------------------------------------------------------
TypeOK ==
  /\ cfg \in Configs /\ retired \subseteq Live /\ steer \in BOOLEAN
  /\ cache.commit \in 0 .. Len(cache.rows)
  /\ turn.view \in View /\ turn.todo \subseteq Memory
  /\ {turn.best, turn.recalled, turn.fact} \subseteq Memory \cup {None}
  /\ turn.fact # None => turn.recalled = turn.fact

(***************************************************************************)
(* The answer is decoded over at most one memory, and the memory announced *)
(* to the client is the one in the context: no stage delivers on top of    *)
(* another, whatever order the switches leave them in.                     *)
(***************************************************************************)
OneMemory ==
  At("seed") \/ At("decode") =>
    Recited(cache) = IF turn.recalled = None THEN {} ELSE {turn.recalled}

(***************************************************************************)
(* INT2 and the disposer probe in the resident cache and net to their      *)
(* anchor: the rows are those from before, for a failed replay, a payload  *)
(* cut short and an episode that only just fits in the undo journal.  With *)
(* a ring the disposer needs probes that fit the journal: only INT2 skips  *)
(* those that do not.                                                      *)
(***************************************************************************)
Fitting == On("ring") => \A e \in turn.todo : NPos[e] + NSecret <= Jmax

ProbeNets ==
  /\ At("int2") /\ turn'.recalled = None => cache'.rows = cache.rows
  /\ At("disp") /\ turn'.pc = "disp" /\ Fitting => cache'.rows = cache.rows
ProbesRestore == [][ProbeNets]_vars

(***************************************************************************)
(* The nested pass of the judge, which runs over the prompt's own cache,   *)
(* leaves no row of itself: after it the context is the memory it recalls, *)
(* or the prompt, or nothing if a prefill was refused.                     *)
(***************************************************************************)
JudgeNets ==
  At("judged") =>
    \/ cache'.rows \in {HeadRows.rows, <<>>} /\ turn'.recalled = turn.recalled
    \/ \E e \in Memory : cache'.rows = AugRows(e).rows /\ turn'.recalled = e

(***************************************************************************)
(* spine.rs "reproduces the live one-config stack": without superseded     *)
(* episodes, policies and the margin it decides as the ladder does.        *)
(***************************************************************************)
SpineAgrees ==
  At("spine") /\ retired = {} /\ ~ On("policy") /\ ~ On("margin")
    => Spine(None, turn.view) = Ladder(turn.view)

(***************************************************************************)
(* Nothing of a vetoed draft reaches the client, from any of the places    *)
(* that emit text, and a declined turn sends no word of the model's.       *)
(***************************************************************************)
VetoedNeverSent ==
  turn.vetoed \/ turn.decline => \A i \in DOMAIN sent : sent[i][1] \notin Chunk

(***************************************************************************)
(* An answer is decoded with steering on only if its own turn recalled: an *)
(* arm from an earlier turn never reaches a later turn's tokens.           *)
(***************************************************************************)
SteerOnlyRecall == At("decode") /\ steer => turn.recalled # None

=============================================================================

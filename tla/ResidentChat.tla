---------------------------- MODULE ResidentChat ----------------------------
(***************************************************************************)
(* One chat turn at a time on the process-wide resident K/V cache          *)
(* (run_kvdecode_chat in tools/sp_daemon/src/routes.rs).                   *)
(*                                                                         *)
(* A turn holds the cache's Mutex from Begin to its end.  KV_COMMITTED     *)
(* remembers the tokens a turn left in the cache, so that the next one can *)
(* keep the common prefix and compute the rest: the record and the cache   *)
(* are two accounts of the same thing, updated at different moments.       *)
(*                                                                         *)
(* The cache is the sequence of its rows, a row being the token it was     *)
(* computed for; which kernels computed it (byteexact) is left out.        *)
(*                                                                         *)
(* What a recall decides is RecallCascade's; here it leaves the cache      *)
(* alone, appends an episode, runs a prompt of its own in the cache, or    *)
(* rebuilds it from another prompt, and each of these may be refused.      *)
(***************************************************************************)
EXTENDS Integers, Sequences

CONSTANTS
  Prompt,       \* prompts a request can carry: non-empty sequences of tokens
  Token,        \* tokens the model can sample
  AugHead,      \* an augmented prompt (memory text in context), without its
  AugLast,      \*   last token, and that token
  SideText,     \* what a CANON, RERANK or JUDGE side pass leaves in the cache
  Episode,      \* rows appended by a replayed or injected episode
  Kind,         \* kinds of request, among "plain", "single", "frames", "replay"
  REWIND_BOUND, \* longest tail of the record a turn rewinds
  MaxTokens     \* bound on the tokens generated in a turn

ASSUME ChatAssumption ==
  /\ Prompt \subseteq Seq(Token) \ {<<>>}
  /\ AugHead \in Seq(Token) /\ AugLast \in Token
  /\ SideText \in Seq(Token) /\ Episode \in Seq(Token)
  /\ REWIND_BOUND \in Nat /\ MaxTokens \in Nat

VARIABLES
  persist,    \* SP_PERSIST_KV, without what excludes it: judge, disposer, INT2, ...
  cache,      \* rows of the resident cache; its position is their number
  committed,  \* KV_COMMITTED
  turn,       \* the turn that holds the Mutex
  intact      \* history: the record is of the rows that the last turn left

vars == <<persist, cache, committed, turn, intact>>

Upto(s, n) == SubSeq(s, 1, n)

NoTurn == [pc |-> "idle"]

\* astray: the rows are not of the prompt, nor of a text that stands for it.
\* foreign: the turn reuses rows on the word of a record that is not intact.
Begun(p, kind, from, foreign) ==
  [pc |-> "head", prompt |-> p, kind |-> kind, prefill_from |-> from, recalled |-> FALSE,
   syn_last |-> p[Len(p)], gen |-> <<>>, astray |-> FALSE, foreign |-> foreign]

At(pc) == turn.pc = pc

Init ==
  /\ persist \in BOOLEAN /\ intact = TRUE
  /\ cache = <<>> /\ committed = <<>> /\ turn = NoTurn

-----------------------------------------------------------------------------
(***************************************************************************)
(* Reuse or reset.  Only a plain request can have persist_kv.  Lcp(p) is   *)
(* the longest common prefix of the record and the prompt short of its     *)
(* last token, which is always decoded for its logits.                     *)
(***************************************************************************)
Agree(p, n) == \A i \in 1 .. n : p[i] = committed[i]

LcpWhole(p) ==                                                \* mutant of Lcp
  CHOOSE n \in 0 .. Len(p) :
    /\ n <= Len(committed) /\ Agree(p, n)
    /\ n < Len(p) /\ n < Len(committed) => p[n + 1] # committed[n + 1]

Lcp(p) ==
  CHOOSE n \in 0 .. Len(p) - 1 :
    /\ n <= Len(committed) /\ Agree(p, n)
    /\ n < Len(p) - 1 /\ n < Len(committed) => p[n + 1] # committed[n + 1]

PersistKV(kind) == persist /\ kind = "plain"

Reusable(p, kind) ==
  /\ PersistKV(kind)
  /\ Len(committed) >= 1
  /\ Len(cache) = Len(committed)
  /\ Lcp(p) >= 1
  /\ Len(committed) - Lcp(p) <= REWIND_BOUND

\* The common prefix is kept and the rest rewound; any other prompt resets.
\* A rewind or a reset that is refused ends the turn and changes nothing.
Begin(p, kind) ==
  /\ At("idle")
  /\ \/ /\ Reusable(p, kind)
        /\ cache' = Upto(cache, Lcp(p))
        /\ turn' = Begun(p, kind, Lcp(p), ~ intact)
     \/ /\ ~ Reusable(p, kind)
        /\ cache' = <<>>
        /\ turn' = Begun(p, kind, 0, FALSE)
  /\ UNCHANGED <<committed, intact>>

\* The part of the prompt that has to be computed before the last token.
Body(p)    == Upto(p, Len(p) - 1)
PromptHead == SubSeq(turn.prompt, turn.prefill_from + 1, Len(turn.prompt) - 1)

\* prefill, or inject_tokens for "single", which mints the same rows.
PrefillHead ==
  /\ At("head")
  /\ cache' = cache \o PromptHead
  /\ turn' = [turn EXCEPT !.pc = "frames"]
  /\ UNCHANGED <<committed, intact>>

\* The turn returns over the rows it has made; the record stays.
Returns ==
  /\ turn' = NoTurn /\ intact' = FALSE
  /\ UNCHANGED committed

\* A device error after n rows.
PrefillFails(n) ==
  /\ At("head")
  /\ cache' = cache \o Upto(PromptHead, n)
  /\ Returns

\* The residual frames of a "frames" request follow its prompt.
InjectFrames ==
  /\ At("frames")
  /\ cache' = IF turn.kind = "frames" THEN cache \o Episode ELSE cache
  /\ turn' = [turn EXCEPT !.pc = "recall"]
  /\ UNCHANGED <<committed, intact>>

-----------------------------------------------------------------------------
(***************************************************************************)
(* Autonomous recall, stage by stage.  Scoring peeks at the cache and      *)
(* leaves it alone.  A refusal is logged and the turn goes on, over the    *)
(* rows that are there.                                                    *)
(***************************************************************************)
Recalling == At("recall") /\ turn.kind # "replay" /\ UNCHANGED <<committed, intact>>

NullRecall ==
  /\ At("recall")
  /\ turn' = [turn EXCEPT !.pc = "replay"]
  /\ UNCHANGED <<cache, committed, intact>>

\* A side pass runs a prompt of its own after a reset, or n rows of it.
SidePass(n) ==
  /\ Recalling
  /\ cache' = Upto(SideText, n)
  /\ turn' = [turn EXCEPT !.astray = TRUE]

\* The judge alone puts the prompt back, or n rows of it; without the frames.
Restore(n) ==
  /\ Recalling /\ ~ persist /\ turn.astray
  /\ cache' = Upto(Body(turn.prompt), n)
  /\ turn' = [turn EXCEPT !.astray = (cache' # Body(turn.prompt) \/ turn.kind = "frames")]

\* Text in context: the cache is rebuilt from the augmented prompt.
DeliverText ==
  /\ Recalling
  /\ cache' = AugHead
  /\ turn' = [turn EXCEPT !.pc = "replay", !.recalled = TRUE, !.syn_last = AugLast,
                          !.astray = FALSE]

\* The cache is reset and its rebuilding refused after n rows.
TextRefused(n) ==
  /\ Recalling
  /\ cache' = Upto(AugHead, n)
  /\ turn' = [turn EXCEPT !.astray = TRUE]

\* K/V of a chosen episode, appended by replay or attenuated injection.
DeliverEpisode ==
  /\ Recalling
  /\ cache' = cache \o Episode
  /\ turn' = [turn EXCEPT !.pc = "replay", !.recalled = TRUE]

\* An injection may leave n rows; it comes before what resets the cache.
EpisodeRefused(n) ==
  /\ Recalling /\ ~ turn.astray
  /\ cache' = cache \o Upto(Episode, n)
  /\ turn' = [turn EXCEPT !.astray = (n > 0)]

\* Symbolic decline: the answer is a fixed string, the cache is cleared.
Decline ==
  /\ Recalling
  /\ cache' = <<>>
  /\ turn' = NoTurn

\* The episode a "replay" request names.
Replay ==
  /\ At("replay")
  /\ cache' = IF turn.kind = "replay" THEN cache \o Episode ELSE cache
  /\ turn' = [turn EXCEPT !.pc = "syn"]
  /\ UNCHANGED <<committed, intact>>

\* A device error after n rows of a request's own frames or episode.
EpisodeFails(n) ==
  /\ \/ turn.pc = "frames" /\ turn.kind = "frames"
     \/ turn.pc = "replay" /\ turn.kind = "replay"
  /\ cache' = cache \o Upto(Episode, n)
  /\ Returns

-----------------------------------------------------------------------------
\* decode_step of the last prompt token, whose logits start the answer.
DecodeLast ==
  /\ At("syn")
  /\ cache' = Append(cache, turn.syn_last)
  /\ turn' = [turn EXCEPT !.pc = "loop"]
  /\ UNCHANGED <<committed, intact>>

\* One sampled token: noted in committed_gen, then stepped.
Generate(t) ==
  /\ At("loop")
  /\ Len(turn.gen) < MaxTokens
  /\ cache' = Append(cache, t)
  /\ turn' = [turn EXCEPT !.gen = Append(@, t)]
  /\ UNCHANGED <<committed, intact>>

GenerateFails(t) ==
  /\ At("loop")
  /\ Len(turn.gen) < MaxTokens
  /\ turn' = [turn EXCEPT !.gen = Append(@, t), !.pc = "failed"]
  /\ UNCHANGED <<cache, committed, intact>>

\* The client has gone, or decode_step of the last token failed.
Abandon ==
  /\ At("loop") \/ At("syn")
  /\ UNCHANGED cache
  /\ Returns

EndKeepsRecalled ==                                           \* mutant of End
  /\ At("loop") \/ At("failed")
  /\ committed' = IF ~ PersistKV(turn.kind) THEN committed
                  ELSE turn.prompt \o turn.gen
  /\ intact' = (PersistKV(turn.kind) /\ ~ turn.astray /\ ~ turn.foreign)
  /\ turn' = NoTurn
  /\ UNCHANGED cache

\* End of the answer; a plain turn replaces the record.
End ==
  /\ At("loop") \/ At("failed")
  /\ committed' = IF ~ PersistKV(turn.kind) THEN committed
                  ELSE IF turn.recalled THEN <<>>
                  ELSE turn.prompt \o turn.gen
  /\ intact' = (PersistKV(turn.kind) /\ ~ turn.astray /\ ~ turn.foreign)
  /\ turn' = NoTurn
  /\ UNCHANGED cache

-----------------------------------------------------------------------------
\* Turns whose calls succeed and whose clients stay.
Complete ==
  \/ \E p \in Prompt, kind \in Kind : Begin(p, kind)
  \/ PrefillHead \/ InjectFrames
  \/ NullRecall \/ DeliverText \/ DeliverEpisode \/ Decline
  \/ Replay \/ DecodeLast
  \/ \E t \in Token : Generate(t)
  \/ End

Sides == \E n \in 0 .. Len(SideText) : SidePass(n)

\* Calls that are refused in a turn that goes on.
Refused ==
  \/ At("recall") /\ \E n \in 0 .. Len(turn.prompt) - 1 : Restore(n)
  \/ \E n \in 0 .. Len(AugHead) : TextRefused(n)
  \/ \E n \in 0 .. Len(Episode) : EpisodeRefused(n)
  \/ \E t \in Token : GenerateFails(t)

\* Turns cut short by a device error or by their client.
Interrupted ==
  \/ At("head") /\ \E n \in 0 .. Len(PromptHead) : PrefillFails(n)
  \/ \E n \in 0 .. Len(Episode) : EpisodeFails(n)
  \/ Abandon

Next == (Complete \/ Sides \/ Refused \/ Interrupted) /\ UNCHANGED persist

Spec == Init /\ [][Next]_vars

\* No side pass and no refusal, but turns cut short; and the other way round.
InterruptedSpec == Init /\ persist = TRUE /\ [][(Complete \/ Interrupted) /\ UNCHANGED persist]_vars
SideSpec        == Init /\ [][(Complete \/ Sides) /\ UNCHANGED persist]_vars

-----------------------------------------------------------------------------
PCs == {"head", "frames", "recall", "replay", "syn", "loop", "failed"}

(***************************************************************************)
(* The record and the cache have the shapes above; a turn in progress      *)
(* carries its request.                                                    *)
(***************************************************************************)
TypeOK ==
  /\ persist \in BOOLEAN /\ intact \in BOOLEAN
  /\ cache \in Seq(Token)
  /\ committed \in Seq(Token)
  /\ \/ turn = NoTurn
     \/ /\ turn \in [pc : PCs, prompt : Prompt, kind : Kind, prefill_from : Nat,
                     recalled : BOOLEAN, syn_last : Token, gen : Seq(Token),
                     astray : BOOLEAN, foreign : BOOLEAN]
        /\ turn.prefill_from < Len(turn.prompt)

Answering == turn.pc \in {"loop", "failed"}
Own       == turn.kind \in {"plain", "single"} /\ ~ turn.recalled

(***************************************************************************)
(* The answer to a request that recalled nothing is decoded from its own   *)
(* prompt and what was generated so far ("the committed sequence always    *)
(* mirrors the cache exactly", "run the clean prompt").                    *)
(***************************************************************************)
PromptFidelity == At("loop") /\ Own => cache = turn.prompt \o turn.gen

(***************************************************************************)
(* That is so but in two cases: a recall of the turn went astray, or the   *)
(* turn reuses what a record says after another turn changed the rows.     *)
(* Whatever was reused, refused, rewound or cut short, nothing else makes  *)
(* a turn answer another prompt.                                           *)
(***************************************************************************)
Lost == turn.astray \/ turn.foreign

AnswersPrompt == At("loop") /\ Own /\ ~ Lost => cache = turn.prompt \o turn.gen

(***************************************************************************)
(* Between turns the guard of the next one is sound, as long as the last   *)
(* turn that changed the cache is the one that wrote the record: a cache   *)
(* whose position is the record's length holds the record's tokens.        *)
(***************************************************************************)
RecordMatches ==
  At("idle") /\ intact /\ Len(cache) = Len(committed) => cache = committed

Fresh == INSTANCE FreshChat WITH
  request <- IF At("idle") \/ Lost THEN <<>> ELSE <<turn.prompt, turn.kind>>,
  context <- IF Answering /\ ~ Lost THEN cache ELSE <<>>

(***************************************************************************)
(* With reuse every other answer has a context it could have had without   *)
(* it: the daemon implements one that forgets everything between turns.    *)
(***************************************************************************)
ServesFresh == Fresh!Spec
=============================================================================

------------------------------ MODULE LatentTools ------------------------------
(***************************************************************************)
(* The one-shot programs of eagle_accept.rs, each alone on one K/V handle. *)
(* The drafted decode accepts a prefix of what a draft proposes; native,   *)
(* return and loop are plain greedy decodes, the latter two behind a tool  *)
(* result injected into the cache.  The heartbeat, the oracle, the memory  *)
(* gate and the capture play a tape of events and tap a latent per event;  *)
(* the rollout writes the training rows of a corpus.                       *)
(*                                                                         *)
(* A cache is the sequence of tokens it holds; a latent, and a row's       *)
(* feature, is the content of the cache it was tapped at.                  *)
(***************************************************************************)
EXTENDS Naturals, FiniteSets, SequencesExt

CONSTANTS Word,      \* the vocabulary without its end of sequence
          Frame,     \* events framed as prompts: contract, body, close
          MaxTape,   \* bound: events on a tape, lines of a corpus
          DraftLen,  \* SP_EAGLE_K
          NDecode    \* SP_EAGLE_N, SP_TELEPATHY_NGEN, SP_EAGLE_GEN

ToolsAssumption ==
    /\ \A f \in Frame : f \in Seq({f[i] : i \in DOMAIN f})
    /\ MaxTape \in Nat /\ DraftLen \in Nat /\ NDecode \in Nat

VARIABLES tool,        \* the program
          todo,        \* events or lines left
          best, out,   \* the target's greedy continuation; what is output
          cache,       \* tokens the handle holds
          tap,         \* the latent
          rows,        \* parallel arrays that a capture writes
          prefix,      \* lcp: tokens of the contract prefilled once
          drafting,    \* a draft model is loaded
          fault,       \* a call failed and the program went on without it
          g,           \* the target's next token
          drafts, m,   \* proposals, and how many were accepted
          accept_lens,
          at

vars == <<tool, todo, best, out, cache, tap, rows, prefix, drafting, fault, g,
          drafts, m, accept_lens, at>>
fixed == <<tool, best, prefix, drafting>>
greedy == <<g, drafts, m, accept_lens, out>>

Eos   == "eos"
Tokens == Word \cup {Eos}
Over  == {"done", "failed"}

Prompt == <<"prompt">>
Result == <<"result", "text">>

Gated    == {"heartbeat", "oracle"}
Captures == {"capture", "gate"}
Greedies == {"accept", "native", "return", "loop"}
Tools    == Gated \cup Captures \cup Greedies \cup {"rollout"}

NoRows == [feat |-> <<>>, label |-> <<>>, latent |-> <<>>, sig |-> <<>>, att |-> <<>>]

\* The longest common prefix of the first two events alone.
Common(s, t) ==
    CHOOSE n \in 0..Len(s) :
        /\ n <= Len(t) /\ SubSeq(s, 1, n) = SubSeq(t, 1, n)
        /\ n = Len(s) \/ n = Len(t) \/ s[n + 1] # t[n + 1]

Tapes(t) ==
    CASE t = "heartbeat"       -> {s \in SeqOf(Frame, MaxTape) : Len(s) >= 2}
      [] t \in Greedies        -> {<<>>}
      [] OTHER                 -> SeqOf(Frame, MaxTape) \ {<<>>}

Init ==
    /\ tool \in Tools
    /\ todo \in Tapes(tool)
    /\ best \in IF tool \in Greedies \cup {"rollout"} THEN [1..(NDecode + DraftLen + 1) -> Tokens]
                ELSE {<<>>}
    /\ prefix = IF tool = "heartbeat" THEN Common(todo[1], todo[2]) ELSE 0
    /\ drafting \in IF tool = "capture" THEN BOOLEAN ELSE {tool \in {"gate", "accept"}}
    /\ cache = <<>> /\ tap = <<>> /\ rows = NoRows /\ fault = FALSE
    /\ g = Eos /\ drafts = <<>> /\ m = 0 /\ accept_lens = <<>> /\ out = <<>>
    /\ at = CASE tool = "heartbeat" -> "contract"
              [] tool \in Greedies  -> IF tool = "return" THEN "baseline" ELSE "prompt"
              [] OTHER              -> "event"

\* What the next greedy output follows.
Base == CASE tool \in {"return", "loop"} -> Prompt \o Result
          [] tool = "rollout"            -> Head(todo)
          [] OTHER                       -> Prompt

\* The argmax of the logits at c: the reference on its own path, any token
\* elsewhere.
Picks(c) ==
    LET n == Len(c) - Len(Base) IN
    IF n >= 0 /\ c = Base \o SubSeq(best, 1, n) THEN {best[n + 1]} ELSE Tokens

\* An error that the program returns.
Fail ==
    /\ at \notin Over
    /\ at' = "failed"
    /\ UNCHANGED <<fixed, greedy, todo, cache, tap, rows, fault>>

----------------------------------------------------------------------------
(* Tapes. *)

Contract ==
    /\ at = "contract"
    /\ cache' = SubSeq(todo[1], 1, prefix)
    /\ at' = "event"
    /\ UNCHANGED <<fixed, greedy, todo, tap, rows, fault>>

EndTape ==
    /\ at = "event" /\ todo = <<>>
    /\ at' = "done"
    /\ UNCHANGED <<fixed, greedy, todo, cache, tap, rows, fault>>

\* The heartbeat adds an event's delta to what it holds; the others reset.
Held    == IF tool = "heartbeat" THEN cache ELSE <<>>
Feed(f) == SubSeq(f, prefix + 1, Len(f) - 1)

NextEvent == todo' = Tail(todo) /\ at' = "event"

Prefill ==
    /\ at = "event" /\ todo # <<>> /\ Feed(Head(todo)) # <<>>
    /\ cache' = Held \o Feed(Head(todo))
    /\ IF tool = "rollout"
         THEN /\ at' = IF NDecode = 0 THEN "dump" ELSE "roll"
              /\ g' = Last(Head(todo)) /\ rows' = NoRows
         ELSE at' = "tap" /\ UNCHANGED <<g, rows>>
    /\ UNCHANGED <<fixed, todo, tap, fault, drafts, m, accept_lens, out>>

\* continue: nothing to add, or a prefill that fails with some of its rows in.
PassOver ==
    /\ at = "event" /\ todo # <<>>
    /\ \E n \in 0..Len(Feed(Head(todo))) :
         /\ cache' = Held \o SubSeq(Feed(Head(todo)), 1, n)
         /\ fault' = (fault \/ n > 0)
    /\ NextEvent
    /\ UNCHANGED <<fixed, greedy, tap, rows>>

Tap ==
    /\ at = "tap"
    /\ cache' = Append(cache, Last(Head(todo))) /\ tap' = cache'
    /\ at' = "probe"
    /\ UNCHANGED <<fixed, greedy, todo, rows, fault>>

\* The heartbeat goes on without taking the delta back.
TapFails ==
    /\ at = "tap"
    /\ fault' = TRUE
    /\ NextEvent
    /\ UNCHANGED <<fixed, greedy, cache, tap, rows>>

\* The probe's class is any; an idle event is not decoded.
RewoundDelta == SubSeq(cache, 1, Len(cache) - (Len(Head(todo)) - 1 - prefix))   \* mutant of Rewound
Rewound == SubSeq(cache, 1, Len(cache) - (Len(Head(todo)) - prefix))
Probe ==
    /\ at = "probe" /\ tool \in Gated
    /\ \/ tool = "heartbeat" /\ cache' = Rewound /\ NextEvent
       \/ tool = "oracle" /\ UNCHANGED cache /\ NextEvent
       \/ tool = "oracle" /\ UNCHANGED <<cache, todo>> /\ at' = "wake"
    /\ UNCHANGED <<fixed, greedy, tap, rows, fault>>

Wake ==
    /\ at = "wake"
    /\ \E said \in {<<>>} \cup {<<t>> : t \in Word} : cache' = cache \o said
    /\ NextEvent
    /\ UNCHANGED <<fixed, greedy, tap, rows, fault>>

\* A row of the arrays.  Latent and signature need the draft's body and the
\* cache's keys, and either call may fail.
Pushed(fields) == [a \in DOMAIN rows |-> IF a \in fields THEN Append(rows[a], Head(todo)) ELSE rows[a]]
KeepLatent ==                                                     \* mutant of Capture
    /\ at = "probe" /\ tool \in Captures
    /\ \/ rows' = Pushed({"feat", "label"} \cup (IF drafting THEN {"latent", "sig"} ELSE {}))
       \/ drafting /\ rows' = Pushed({"latent"})
    /\ NextEvent
    /\ UNCHANGED <<fixed, greedy, cache, tap, fault>>
Capture ==
    /\ at = "probe" /\ tool \in Captures
    /\ \/ rows' = Pushed({"feat", "label"} \cup (IF drafting THEN {"latent", "sig"} ELSE {}))
       \/ drafting /\ UNCHANGED rows
    /\ NextEvent
    /\ UNCHANGED <<fixed, greedy, cache, tap, fault>>

----------------------------------------------------------------------------
(* The rollout: feature, label and the number of cache rows a draft attends. *)

Roll ==
    /\ at = "roll"
    /\ cache' = Append(cache, g) /\ g' \in Picks(cache')
    /\ rows' = [rows EXCEPT !.feat = Append(@, cache'), !.label = Append(@, g'),
                            !.att = Append(@, Len(Head(todo)) + Len(rows.label))]
    /\ at' = IF g' = Eos \/ Len(rows'.label) = NDecode THEN "dump" ELSE "roll"
    /\ UNCHANGED <<fixed, todo, tap, fault, drafts, m, accept_lens, out>>

RollFails ==
    /\ at = "roll" /\ at' = "dump"
    /\ UNCHANGED <<fixed, greedy, todo, cache, tap, rows, fault>>

Dump ==
    /\ at = "dump" /\ NextEvent
    /\ UNCHANGED <<fixed, greedy, cache, tap, rows, fault>>

----------------------------------------------------------------------------
(* Greedy output. *)

\* The return path first lets the model answer alone, then resets.
Baseline ==
    /\ at = "baseline"
    /\ \E said \in {<<>>} \cup {<<t>> : t \in Word} : cache' = Prompt \o said
    /\ at' = "prompt"
    /\ UNCHANGED <<fixed, greedy, todo, tap, rows, fault>>

\* The tool result enters as cache rows, its last token decoded.  That the
\* prompt's own last token was decoded is not checked: what is said without it
\* is not followed here.
Prime ==
    /\ at = "prompt"
    /\ cache' = Base
    /\ g' \in Picks(cache')
    /\ at' = IF tool = "accept" THEN "round" ELSE "say"
    /\ UNCHANGED <<fixed, todo, tap, rows, fault, drafts, m, accept_lens, out>>

Say ==
    /\ at = "say" /\ g # Eos /\ Len(out) < NDecode
    /\ out' = Append(out, g)
    /\ cache' = Append(cache, g) /\ g' \in Picks(cache')
    /\ UNCHANGED <<fixed, todo, tap, rows, fault, drafts, m, accept_lens, at>>

\* A decode that fails ends the loop, its token output already.
Break ==
    /\ at \in {"say", "verify"} /\ g # Eos
    /\ at = "say" => Len(out) < NDecode
    /\ at = "verify" => m = 0 \/ (m < DraftLen /\ drafts[m + 1] = g)
    /\ out' = Append(out, g)
    /\ at' = "done"
    /\ UNCHANGED <<fixed, todo, cache, tap, rows, fault, g, drafts, m, accept_lens>>

EnoughLate ==                                                     \* mutant of Enough
    /\ at \in {"say", "round"} /\ (g = Eos \/ Len(out) > NDecode)
    /\ at' = "done"
    /\ UNCHANGED <<fixed, greedy, todo, cache, tap, rows, fault>>
Enough ==
    /\ at \in {"say", "round"} /\ (g = Eos \/ Len(out) >= NDecode)
    /\ at' = "done"
    /\ UNCHANGED <<fixed, greedy, todo, cache, tap, rows, fault>>

Round ==
    /\ at = "round" /\ g # Eos /\ Len(out) < NDecode
    /\ drafts' \in [1..DraftLen -> Tokens] /\ m' = 0
    /\ at' = "verify"
    /\ UNCHANGED <<fixed, todo, cache, tap, rows, fault, g, accept_lens, out>>

\* The target decodes each draft it agrees with; NDecode is not looked at.
Agrees == m < DraftLen /\ drafts[m + 1] = g /\ g # Eos
Commit ==
    /\ out' = Append(out, g)
    /\ cache' = Append(cache, g) /\ g' \in Picks(cache')

Match ==
    /\ at = "verify" /\ Agrees
    /\ Commit /\ m' = m + 1
    /\ UNCHANGED <<fixed, todo, tap, rows, fault, drafts, accept_lens, at>>

\* After a round without a match the target's own token is taken.
Miss ==
    /\ at = "verify" /\ ~Agrees
    /\ IF m = 0 THEN Commit ELSE UNCHANGED <<g, cache, out>>
    /\ accept_lens' = Append(accept_lens, m)
    /\ at' = "round"
    /\ UNCHANGED <<fixed, todo, tap, rows, fault, drafts, m>>

----------------------------------------------------------------------------
Work ==
    \/ Contract \/ EndTape \/ Prefill \/ PassOver \/ Tap \/ TapFails \/ Probe \/ Wake \/ Capture
    \/ Roll \/ RollFails \/ Dump
    \/ Baseline \/ Prime \/ Say \/ Break \/ Enough \/ Round \/ Match \/ Miss

Next == Work \/ Fail

Spec == Init /\ [][Next]_vars /\ WF_vars(Work)

----------------------------------------------------------------------------
(***************************************************************************)
(* A latent is tapped at the end of its own event's frame and of nothing   *)
(* else, whatever ran before: in the heartbeat, as long as the frames      *)
(* begin with the prefix that was prefilled once and no call has failed.   *)
(***************************************************************************)
Clean == tool = "heartbeat" =>
           ~fault /\ SubSeq(Head(todo), 1, prefix) = SubSeq(cache, 1, prefix)
TapsOwnFrame == at = "probe" /\ Clean => tap = Head(todo)

(***************************************************************************)
(* The arrays of a capture stay parallel, row by row of one event, and the *)
(* rows of a rollout agree with the cache that is dumped beside them: a    *)
(* feature is that of the rows its draft may attend, its label the token   *)
(* that comes next.                                                        *)
(***************************************************************************)
RowsAligned ==
    /\ tool \in Captures =>
         /\ rows.feat = rows.label
         /\ drafting => rows.latent = rows.label /\ rows.sig = rows.label
    /\ at = "dump" =>
         \A i \in DOMAIN rows.label :
           /\ rows.feat[i] = SubSeq(cache, 1, rows.att[i])
           /\ i < Len(rows.label) => rows.label[i] = cache[rows.att[i] + 1]

(***************************************************************************)
(* Every output token of the drafted decode is an accepted draft or the    *)
(* correction of a round that accepted none, and only those.               *)
(***************************************************************************)
Given(n) == IF n = 0 THEN 1 ELSE n
AcceptsAccount ==
    at = "round" =>
      Len(out) = Cardinality(UNION {{i} \X (1 .. Given(accept_lens[i])) : i \in DOMAIN accept_lens})
================================================================================

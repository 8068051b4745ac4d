-------------------------------- MODULE Kairos ---------------------------------
(***************************************************************************)
(* The KAIROS kernel plays a tape of events, one tick each, and is to do   *)
(* nothing on most of them.  Two drivers: the heartbeat of kairos.rs,      *)
(* which decides by salience and yields to a chat in progress, and the     *)
(* runner of kairos_runner.rs, which decides by decoding on one persistent *)
(* session and takes an idle tick back out of it.                          *)
(*                                                                         *)
(* A session is the sequence of tokens it holds; a frame is one token.     *)
(***************************************************************************)
EXTENDS Naturals, FiniteSets, SequencesExt

CONSTANTS MaxTape,    \* bound: events on the tape
          MaxDecode,  \* MAX_DECISION_TOKENS (24)
          Cut         \* bytes of a reply that are logged (48)

KairosAssumption == MaxTape \in Nat /\ MaxDecode \in Nat \ {0} /\ Cut \in Nat

VARIABLES driver,     \* "heartbeat" or "alpha"
          prune,      \* SP_KAIROS_PRUNE
          tape,       \* what is left of the events
          inference_active,
          session,    \* what the session, or the heartbeat's stand-in for one, holds
          logits_at,  \* the content the logits were computed at
          pre_pos, raw, decided,
          log, counters,
          pc

vars == <<driver, prune, tape, inference_active, session, logits_at, pre_pos,
          raw, decided, log, counters, pc>>
fixed == <<driver, prune>>

Decisions == {"noop", "action"}
Parses == Decisions \cup {"malformed"}
Over == {"done", "failed", "panicked"}
Events == [salient : BOOLEAN, expect : Decisions]
Contract == <<"contract">>

\* The pieces a reply is made of.  "wide" is a character of three bytes.
Piece == {"NO_OP", "<ACTION>", "</ACTION>", "word", "wide"}
Width(t) == IF t = "wide" THEN 3 ELSE 1
Bytes(s) == FoldSeq(LAMBDA t, n : n + Width(t), 0, s)

NewCounters == [ticks |-> 0, noop_correct |-> 0, action_correct |-> 0,
                false_actions |-> 0, missed_events |-> 0, malformed |-> 0]

Init ==
    /\ driver \in {"heartbeat", "alpha"} /\ prune \in BOOLEAN
    /\ tape \in SeqOf(Events, MaxTape)
    /\ inference_active = FALSE
    /\ session = Contract /\ logits_at = Contract
    /\ pre_pos = 0 /\ raw = <<>> /\ decided = "noop"
    /\ log = <<>> /\ counters = NewCounters
    /\ pc = "tick"

\* The outcomes of AlphaCounters; GateCounters keeps the two errors only.
Outcome(expect, d) ==
    CASE d = "malformed"                     -> "malformed"
      [] expect = "noop" /\ d = "noop"       -> "noop_correct"
      [] expect = "action" /\ d = "action"   -> "action_correct"
      [] expect = "noop" /\ d = "action"     -> "false_actions"
      [] expect = "action" /\ d = "noop"     -> "missed_events"
Observe(c, expect, d) == [c EXCEPT !.ticks = @ + 1, ![Outcome(expect, d)] = @ + 1]

\* The position that is logged is the length of what is held here.
Record(d, s) == [expect |-> Head(tape).expect, decided |-> d, raw |-> raw, held |-> s]

----------------------------------------------------------------------------
(* The heartbeat. *)

decide_stub(ev) == IF ev.salient THEN "action" ELSE "noop"

Grown(d) == IF d = "action" THEN Append(session, "frame") ELSE session

Beat ==
    /\ driver = "heartbeat" /\ pc = "tick" /\ tape # <<>>
    /\ ~inference_active
    /\ LET d == decide_stub(Head(tape)) IN
         /\ session' = Grown(d)
         /\ counters' = Observe(counters, Head(tape).expect, d)
         /\ log' = Append(log, Record(d, session'))
    /\ tape' = Tail(tape)
    /\ UNCHANGED <<fixed, inference_active, logits_at, pre_pos, raw, decided, pc>>

\* A chat begins or ends (routes.rs); the runner has its process to itself.
Chat ==
    /\ driver = "heartbeat" /\ pc = "tick"
    /\ inference_active' = ~inference_active
    /\ UNCHANGED <<fixed, tape, session, logits_at, pre_pos, raw, decided, log, counters, pc>>

----------------------------------------------------------------------------
(* The runner. *)

\* The event's frame goes into the session; its position before is the anchor.
FrameTick ==
    /\ driver = "alpha" /\ pc = "tick" /\ tape # <<>>
    /\ pre_pos' = Len(session)
    /\ session' = Append(session, "frame") /\ logits_at' = session'
    /\ raw' = <<>>
    /\ pc' = "decode"
    /\ UNCHANGED <<fixed, tape, inference_active, decided, log, counters>>

\* Early stop: the reply can be parsed.
Stops(s) == "</ACTION>" \in Range(s) \/ "NO_OP" \in Range(s)

\* One greedy token.  The token that completes a decision is not decoded into
\* the session; without one the reply ends after MaxDecode tokens.
ReplyToken(t) ==
    /\ pc = "decode"
    /\ raw' = Append(raw, t)
    /\ IF Stops(raw')
         THEN UNCHANGED <<session, logits_at>>
         ELSE session' = Append(session, t) /\ logits_at' = session'
    /\ pc' = IF Stops(raw') \/ Len(raw') = MaxDecode THEN "parse" ELSE "decode"
    /\ UNCHANGED <<fixed, tape, inference_active, pre_pos, decided, log, counters>>

EndOfSequence ==
    /\ pc = "decode" /\ pc' = "parse"
    /\ UNCHANGED <<fixed, tape, inference_active, session, logits_at, pre_pos, raw,
                   decided, log, counters>>

\* An <ACTION> tag wins over a NO_OP.
parse_decision(s) ==
    CASE "<ACTION>" \in Range(s)                            -> "action"
      [] "<ACTION>" \notin Range(s) /\ "NO_OP" \in Range(s) -> "noop"
      [] OTHER                                              -> "malformed"

RewindReply(s, pos) == SubSeq(s, 1, Len(s) - Len(raw) + 1)
RewindTo(s, pos) == SubSeq(s, 1, pos)

Decide ==
    /\ pc = "parse"
    /\ decided' = parse_decision(raw)
    /\ counters' = Observe(counters, Head(tape).expect, decided')
    /\ session' = IF prune /\ decided' = "noop" THEN RewindTo(session, pre_pos) ELSE session
    /\ pc' = "report"
    /\ UNCHANGED <<fixed, tape, inference_active, logits_at, pre_pos, raw, log>>

\* The reply's first bytes are printed, and the record is kept.  The slice
\* &raw[..48] panics inside a character.
Sliceable(s) == Bytes(s) <= Cut \/ \E n \in 0..Len(s) : Bytes(SubSeq(s, 1, n)) = Cut
Report ==
    /\ pc = "report" /\ Sliceable(raw)
    /\ log' = Append(log, Record(decided, session))
    /\ tape' = Tail(tape)
    /\ pc' = "tick"
    /\ UNCHANGED <<fixed, inference_active, session, logits_at, pre_pos, raw, decided, counters>>
Panic ==
    /\ pc = "report" /\ ~Sliceable(raw)
    /\ pc' = "panicked"
    /\ UNCHANGED <<fixed, tape, inference_active, session, logits_at, pre_pos, raw,
                   decided, log, counters>>

\* A failed call ends the run.
Fail ==
    /\ driver = "alpha" /\ pc \in {"tick", "decode", "parse"} /\ tape # <<>>
    /\ pc' = "failed"
    /\ UNCHANGED <<fixed, tape, inference_active, session, logits_at, pre_pos, raw,
                   decided, log, counters>>

End ==
    /\ pc = "tick" /\ tape = <<>>
    /\ pc' = "done"
    /\ UNCHANGED <<fixed, tape, inference_active, session, logits_at, pre_pos, raw,
                   decided, log, counters>>

Tick ==
    \/ Beat \/ FrameTick \/ EndOfSequence \/ Decide \/ Report \/ Panic \/ End
    \/ \E t \in Piece : ReplyToken(t)

Next == Tick \/ Chat \/ Fail

\* Each driver is a loop of its own; calls that fail and chats owe nothing.
Spec == Init /\ [][Next]_vars /\ WF_vars(Tick)

----------------------------------------------------------------------------
TypeOK ==
    /\ driver \in {"heartbeat", "alpha"} /\ prune \in BOOLEAN /\ inference_active \in BOOLEAN
    /\ Range(tape) \subseteq Events
    /\ Range(session) \subseteq Piece \cup {"contract", "frame"} /\ IsPrefix(Contract, session)
    /\ pre_pos <= Len(session) /\ Len(raw) <= MaxDecode /\ Range(raw) \subseteq Piece
    /\ decided \in Parses
    /\ pc \in {"tick", "decode", "parse", "report", "done", "failed", "panicked"}

\* What a reply leaves in the session: all but the token it stopped at.
Committed(s) == IF Stops(s) THEN Front(s) ELSE s
Before(i) == IF i = 1 THEN Contract ELSE log[i - 1].held   \* what tick i began with
Kept(i) == IF log[i].decided = "noop" THEN Before(i)
           ELSE Before(i) \o <<"frame">> \o Committed(log[i].raw)

\* kairos_runner.rs:252 ("the model never knows it has been waiting"): with
\* pruning, a tick starts from the session of a run on which the idle ticks had
\* never happened, frames and replies of the others one after another, and its
\* reply is read off logits of that very session.
IdleLeavesNoTrace ==
    /\ driver = "alpha" /\ prune =>
         /\ \A i \in DOMAIN log : log[i].held = Kept(i)
         /\ pc = "tick" => session = Before(Len(log) + 1)
    /\ pc = "decode" => logits_at = session

\* kairos.rs:374: an idle tick does not grow the persistent state.
IdleFlat ==
    driver = "heartbeat" \/ prune =>
        \A i \in DOMAIN log :
            log[i].decided = "noop" =>
                Len(log[i].held) = Len(Before(i))

\* kairos.rs:280 and kairos_runner.rs:124: the counters are those of the
\* records, each tick in exactly one of them.
CountersMatchLog ==
    pc = "tick" =>
        /\ counters.ticks = Len(log)
        /\ \A o \in DOMAIN NewCounters \ {"ticks"} :
             counters[o] = Cardinality({i \in DOMAIN log : Outcome(log[i].expect, log[i].decided) = o})
==============================================================================

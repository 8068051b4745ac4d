------------------------------ MODULE SpecDecode -------------------------------
(***************************************************************************)
(* Speculative decoding: spec_step (spec.rs) and the loops around it in    *)
(* bin/spec_validate.rs.  A draft session proposes K tokens, the target    *)
(* session accepts a prefix of them, and on a rejection the draft is       *)
(* rewound to the target's position and both take the target's token.      *)
(*                                                                         *)
(* A session is the sequence of tokens it holds after the prompt; a        *)
(* logits buffer is the content of the session it was computed at.         *)
(***************************************************************************)
EXTENDS Naturals, Sequences

CONSTANTS Token,    \* the common vocabulary of both models
          K,        \* tokens a batch speculates
          Limit,    \* tokens protocols C and C-synth produce (500 and 200)
          Steps     \* batches of protocol A+B (100)

SpecAssumption == K \in Nat \ {0} /\ Limit \in Nat /\ Steps \in Nat

\* The reference reaches one token past what a run outputs: Limit tokens, or up
\* to K in every batch of A+B.
Horizon == 1 + (IF Limit < K * Steps THEN K * Steps ELSE Limit)

VARIABLES proto,     \* "planted" (A+B), "natural" (C) or "synth" (C-synth)
          best,      \* reference_tokens: the target's own greedy continuation
          target, draft, ref_at_p,   \* sessions
          t_logits, d_logits,
          draft_tokens,
          ki,        \* proposals the target has accepted of this batch
          out,       \* tokens output so far
          batch,     \* batches begun; outside A+B only its remainder by 3 is used
          phase      \* where the loop is

sessions == <<target, draft, ref_at_p, t_logits, d_logits>>
vars == <<proto, best, sessions, draft_tokens, ki, out, batch, phase>>

Protocols == {"planted", "natural", "synth"}
Ended == {"done", "failed", "overrun"}

\* sp_session_rewind.
Rewind(s, n) == SubSeq(s, 1, Len(s) - n)

\* The argmax of logits computed by the target at s: the reference on its own
\* path, any token elsewhere.
Picks(s) == IF s = SubSeq(best, 1, Len(s)) THEN {best[Len(s) + 1]} ELSE Token

Init ==
    /\ proto \in Protocols
    /\ best \in [1..Horizon -> Token]
    /\ target = <<>> /\ draft = <<>> /\ ref_at_p = <<>>
    /\ t_logits = <<>> /\ d_logits = <<>>
    /\ draft_tokens = <<>> /\ ki = 0
    /\ out = <<>> /\ batch = 0
    /\ phase = "draft"

\* Whether the loop goes round again.
MoreLimit == Len(out) < Limit
MoreSteps == batch < Steps
More == IF proto = "planted" THEN MoreSteps ELSE MoreLimit

EndBatch == ki' = 0 /\ draft_tokens' = <<>> /\ phase' = "draft"

Stop ==
    /\ phase = "draft" /\ draft_tokens = <<>> /\ ~More
    /\ phase' = "done"
    /\ UNCHANGED <<proto, best, sessions, draft_tokens, ki, out, batch>>

\* The draft's next proposal; its predecessor is decoded first, so that the
\* draft holds one token less than it has proposed.  A planted proposal is the
\* test's, not the draft's, and the draft is cloned before it overshoots.
Propose(t) ==
    /\ phase = "draft" /\ Len(draft_tokens) < K
    /\ draft_tokens = <<>> => More
    /\ IF draft_tokens = <<>>
         THEN /\ UNCHANGED <<draft, d_logits>>
              /\ ref_at_p' = draft
              /\ batch' = IF proto = "planted" THEN batch + 1 ELSE (batch + 1) % 3
         ELSE /\ draft' = Append(draft, draft_tokens[Len(draft_tokens)])
              /\ d_logits' = draft'
              /\ UNCHANGED <<ref_at_p, batch>>
    /\ draft_tokens' = Append(draft_tokens, t)
    /\ phase' = IF Len(draft_tokens') < K THEN "draft"
                ELSE IF proto = "synth" /\ batch' = 0 THEN "force" ELSE "verify"
    /\ UNCHANGED <<proto, best, target, t_logits, ki, out>>

\* C-synth replaces the first proposal of every third batch by another token.
ForceToken(t) ==
    /\ phase = "force" /\ t # draft_tokens[1]
    /\ draft_tokens' = [draft_tokens EXCEPT ![1] = t]
    /\ phase' = "verify"
    /\ UNCHANGED <<proto, best, sessions, ki, out, batch>>

\* C-synth leaves in the middle of a batch once it has its tokens; C does not
\* look, and the next comparison reads past its reference.
Full == Len(out) >= Limit
Overrun ==
    /\ phase = "verify" /\ proto = "natural" /\ Full
    /\ phase' = "overrun"
    /\ UNCHANGED <<proto, best, sessions, draft_tokens, ki, out, batch>>
Verifying == phase = "verify" /\ ~(proto = "natural" /\ Full)

AcceptBlind(pick) ==
    /\ Verifying
    /\ target' = Append(target, draft_tokens[ki + 1]) /\ t_logits' = target'
    /\ out' = Append(out, draft_tokens[ki + 1])
    /\ ki' = ki + 1
    /\ phase' = IF ki' = K THEN "sync" ELSE "verify"
    /\ UNCHANGED <<proto, best, draft, ref_at_p, d_logits, draft_tokens, batch>>
Accept(pick) ==
    /\ Verifying /\ pick = draft_tokens[ki + 1]
    /\ target' = Append(target, pick) /\ t_logits' = target'
    /\ out' = Append(out, pick)
    /\ ki' = ki + 1
    /\ phase' = IF ki' = K THEN "sync"
                ELSE IF proto = "synth" /\ Len(out') >= Limit THEN "done" ELSE "verify"
    /\ UNCHANGED <<proto, best, draft, ref_at_p, d_logits, draft_tokens, batch>>

\* All K accepted: the draft takes the last of them too.
Sync ==
    /\ phase = "sync"
    /\ draft' = Append(draft, draft_tokens[K]) /\ d_logits' = draft'
    /\ EndBatch
    /\ UNCHANGED <<proto, best, target, ref_at_p, t_logits, out, batch>>

Reject(pick) ==
    /\ Verifying /\ pick # draft_tokens[ki + 1]
    /\ draft' = Rewind(draft, K - 1 - ki)
    /\ IF proto # "planted" THEN phase' = "correct" /\ UNCHANGED <<ki, draft_tokens>>
       ELSE IF ki < K - 1 THEN phase' = "probe" /\ UNCHANGED <<ki, draft_tokens>>
       ELSE EndBatch
    /\ UNCHANGED <<proto, best, target, ref_at_p, t_logits, d_logits, out, batch>>

\* The caller's part: the target's token into both sessions.
CorrectWithDraft(pick) ==
    /\ phase = "correct"
    /\ target' = Append(target, draft_tokens[ki + 1]) /\ t_logits' = target'
    /\ out' = Append(out, draft_tokens[ki + 1])
    /\ phase' = "resync"
    /\ UNCHANGED <<proto, best, draft, ref_at_p, d_logits, draft_tokens, ki, batch>>
CorrectTarget(pick) ==
    /\ phase = "correct"
    /\ target' = Append(target, pick) /\ t_logits' = target'
    /\ out' = Append(out, pick)
    /\ phase' = "resync"
    /\ UNCHANGED <<proto, best, draft, ref_at_p, d_logits, draft_tokens, ki, batch>>
Resync ==
    /\ phase = "resync"
    /\ draft' = Append(draft, target[Len(target)]) /\ d_logits' = draft'
    /\ EndBatch
    /\ UNCHANGED <<proto, best, target, ref_at_p, t_logits, out, batch>>

\* A+B brings the clone to the rewound draft's position, decodes one token in
\* both, compares the logits and takes the token back.
Probe(t) ==
    /\ phase = "probe"
    /\ ref_at_p' = Rewind(Append(ref_at_p \o SubSeq(draft_tokens, 1, ki), t), 1)
    /\ draft' = Rewind(Append(draft, t), 1)
    /\ EndBatch
    /\ UNCHANGED <<proto, best, target, t_logits, d_logits, out, batch>>

\* Any call into a session may fail; spec_step returns and spec_validate stops.
Fail ==
    /\ phase \notin Ended
    /\ phase' = "failed"
    /\ UNCHANGED <<proto, best, sessions, draft_tokens, ki, out, batch>>

Work ==
    \/ Stop
    \/ \E t \in Token : Propose(t) \/ ForceToken(t) \/ Probe(t)
    \/ Overrun
    \/ \E pick \in Picks(t_logits) : Accept(pick) \/ Reject(pick) \/ CorrectTarget(pick)
    \/ Sync \/ Resync

Next == Work \/ Fail

Spec == Init /\ [][Next]_vars
FairSpec == Spec /\ WF_vars(Work)

----------------------------------------------------------------------------
TypeOK ==
    /\ proto \in Protocols
    /\ best \in [1..Horizon -> Token]
    /\ {target, draft, ref_at_p, t_logits, d_logits, draft_tokens, out} \subseteq Seq(Token)
    /\ ki \in 0..K /\ batch \in 0..(IF Steps < 2 THEN 2 ELSE Steps)
    /\ phase \in {"draft", "force", "verify", "sync", "correct", "resync", "probe"} \cup Ended

\* spec_validate.rs:261 (M_SPEC_1): whatever the draft proposes, and wherever a
\* call fails, what is output is a prefix of the target's own greedy output.
OutputIsGreedy == out = SubSeq(best, 1, Len(out))

\* spec.rs:31: after a batch both sessions are at one position.  They hold the
\* same tokens as well, those that were output, and both logits are those of
\* the present position; only a forced proposal that the target happens to
\* accept leaves the draft with the token it had proposed itself.
InStep ==
    phase = "draft" /\ draft_tokens = <<>> =>
        /\ target = out /\ t_logits = target
        /\ Len(draft) = Len(target)
        /\ proto # "synth" => draft = target
        /\ proto = "natural" => d_logits = draft

\* Corollary T8.1 as spec_validate.rs:186 compares it: the rewound draft holds
\* what a session holds that never overshot.
RewindExact == phase = "probe" => draft = ref_at_p \o SubSeq(draft_tokens, 1, ki)

\* The detailed loop implements plain greedy decoding.
G == INSTANCE Greedy
ImplementsGreedy == G!Spec
=============================================================================

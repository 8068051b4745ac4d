-------------------------------- MODULE Curator --------------------------------
(***************************************************************************)
(* The offline curator of live episodes (nightshift_curator.rs).  Of each  *)
(* episode it extracts the secret, replays the episode into a K/V handle   *)
(* of its own, scores the secret's tokens after it, takes them back,       *)
(* ablates the rows of the episode that hold such a token, scores again    *)
(* and takes everything back.  The episode is admitted if the score        *)
(* collapses: if its rows, and not the model, know the secret.             *)
(*                                                                         *)
(* A row of the cache is the token that it was made of, or Gone when it is *)
(* ablated; a score is the cache it was taken at.  A step past the         *)
(* handle's room is refused; a device fault may leave its row behind, and  *)
(* every later step fails.                                                 *)
(***************************************************************************)
EXTENDS Naturals, Sequences, FiniteSets

CONSTANTS
  Episodes,        \* the episodes of the live directory: sequences of tokens
  Secrets,     \* what the model, or the last sentence, gives as a secret
  Gone,
  MinTokens,   \* 4
  Spare,       \* 64: room of the handle beyond the episode
  MaxTargets   \* 12

CuratorAssumption ==
  /\ {MinTokens, Spare, MaxTargets} \subseteq Nat /\ MinTokens > 1
  /\ Episodes \union Secrets \subseteq Seq(Nat)

VARIABLES
  queue,    \* episodes not yet visited
  stage,
  ep, secret,
  held,     \* the rows of the handle, or Closed
  lpe, lpa, \* the scores before and after the ablation
  targets,  \* the rows that were ablated
  broken,   \* the device failed
  accepted, rejected

vars == <<queue, stage, ep, secret, held, lpe, lpa, targets, broken, accepted, rejected>>
scores == <<lpe, lpa, targets>>
counts == <<accepted, rejected>>

Closed == <<"closed">>
npos   == Len(ep)

Init ==
  /\ queue \in SUBSET Episodes /\ stage = "next" /\ ep = <<>> /\ secret = <<>> /\ held = Closed
  /\ lpe = <<>> /\ lpa = <<>> /\ targets = {} /\ broken = FALSE
  /\ accepted = {} /\ rejected = {}

-----------------------------------------------------------------------------
\* Unreadable episodes, and short ones, are passed over.
Visit ==
  /\ stage = "next"
  /\ \E e \in queue :
       /\ queue' = queue \ {e}
       /\ \/ stage' = "next" /\ UNCHANGED <<ep, secret>>
          \/ Len(e) >= MinTokens /\ ep' = e /\ secret' \in Secrets /\ stage' = "open"
  /\ lpe' = <<>> /\ lpa' = <<>> /\ targets' = {}
  /\ UNCHANGED <<held, broken, counts>>

Open ==
  /\ stage = "open"
  /\ \/ ~broken /\ held' = <<>> /\ stage' = "replay"
     \/ stage' = "next" /\ UNCHANGED held
  /\ UNCHANGED <<queue, ep, secret, scores, broken, counts>>

\* The episode is rejected and the handle closed.
Skip == held' = Closed /\ stage' = "next" /\ rejected' = rejected \union {ep} /\ UNCHANGED accepted

Replay ==
  /\ stage = "replay"
  /\ \/ Skip
     \/ secret # <<>> /\ held' = ep /\ stage' = "score" /\ UNCHANGED counts
  /\ UNCHANGED <<queue, ep, secret, scores, broken>>

-----------------------------------------------------------------------------
\* The inputs of a pass: the episode's last token, then the secret.
Fed(i) == IF i = 1 THEN ep[npos] ELSE secret[i - 1]

HasRoom == Len(held) + 1 < npos + Spare

Advance(s, n) ==
  /\ Len(s) < n /\ ~broken /\ HasRoom
  /\ held' = Append(held, Fed(Len(s) + 1))

\* decode_step fails: for want of room, or with the device.
Faults(s, n) ==
  /\ Len(s) < n
  /\ \/ (broken \/ ~HasRoom) /\ UNCHANGED <<held, broken>>
     \/ ~broken /\ HasRoom /\ broken' = TRUE /\ held' \in {held, Append(held, Fed(Len(s) + 1))}

Score ==
  /\ stage = "score"
  /\ \/ Advance(lpe, Len(secret)) /\ lpe' = Append(lpe, held') /\ UNCHANGED <<stage, broken>>
     \/ Faults(lpe, Len(secret)) /\ stage' = "back" /\ UNCHANGED lpe
     \/ Len(lpe) = Len(secret) /\ stage' = "back" /\ UNCHANGED <<lpe, held, broken>>
  /\ UNCHANGED <<queue, ep, secret, lpa, targets, counts>>

NotRewound(n) == held                                                   \* mutant
Rewound(n) == SubSeq(held, 1, Len(held) - n)

\* The first MaxTargets rows whose token is among those scored.
Targets ==
  LET hits == {p \in 1 .. npos : \E i \in 1 .. Len(lpe) : secret[i] = ep[p]} IN
  {p \in hits : Cardinality({q \in hits : q < p}) < MaxTargets}

Ablated(rows, ps) == [i \in DOMAIN rows |-> IF i \in ps THEN Gone ELSE rows[i]]

\* Taking the pass back; the ablation's own failure is ignored.
Back ==
  /\ stage = "back"
  /\ IF lpe = <<>> THEN Skip /\ UNCHANGED targets
     ELSE /\ stage' = "again"
          /\ targets' \in {Targets, {}}
          /\ held' = Ablated(Rewound(Len(lpe)), targets')
          /\ UNCHANGED counts
  /\ UNCHANGED <<queue, ep, secret, lpe, lpa, broken>>

Again ==
  /\ stage = "again"
  /\ \/ Advance(lpa, Len(lpe)) /\ lpa' = Append(lpa, held') /\ UNCHANGED <<stage, broken>>
     \/ Faults(lpa, Len(lpe)) /\ stage' = "judge" /\ UNCHANGED lpa
     \/ Len(lpa) = Len(lpe) /\ stage' = "judge" /\ UNCHANGED <<lpa, held, broken>>
  /\ UNCHANGED <<queue, ep, secret, lpe, targets, counts>>

(***************************************************************************)
(* The collapse is summed over what both passes scored; scores taken at    *)
(* the same cache are the same, so it is nothing when no row differs.      *)
(***************************************************************************)
Differs == \E j \in 1 .. Len(lpa) : lpa[j] # lpe[j]

Judge ==
  /\ stage = "judge" /\ stage' = "next"
  /\ held' = Closed
  /\ \/ Differs /\ accepted' = accepted \union {ep} /\ UNCHANGED rejected
     \/ rejected' = rejected \union {ep} /\ UNCHANGED accepted
  /\ UNCHANGED <<queue, ep, secret, scores, broken>>

Next == Visit \/ Open \/ Replay \/ Score \/ Back \/ Again \/ Judge

Spec == Init /\ [][Next]_vars

-----------------------------------------------------------------------------
(***************************************************************************)
(* The two passes score the same tokens at the same rows, but for those    *)
(* that were ablated, and a pass that no fault broke leaves the handle     *)
(* where the replay did; so an episode is admitted only if a token of its  *)
(* secret is in it.                                                        *)
(***************************************************************************)
AblationOnly ==
  /\ \A j \in 1 .. Len(lpa) : j \in DOMAIN lpe /\ lpa[j] = Ablated(lpe[j], targets)
  /\ stage = "judge" /\ ~broken => Rewound(Len(lpa)) = Ablated(ep, targets)
  /\ stage \in {"next", "open"} <=> held = Closed
  /\ \A e \in accepted : \E s \in Secrets : \E i \in DOMAIN s, p \in DOMAIN e : s[i] = e[p]
================================================================================

-------------------------------- MODULE Programs --------------------------------
(***************************************************************************)
(* What a process of the sp-daemon executable is (main.rs): the            *)
(* environment picks one of its programs, the first gate that is set, and  *)
(* without one the command line starts, stops or is the daemon.  The       *)
(* validator of speculative decoding is an executable of its own.  Each    *)
(* program has a module, but for the curator of the memories; only the      *)
(* variables of the chosen one change.                                     *)
(***************************************************************************)
EXTENDS Naturals, Sequences, FiniteSets

CONSTANTS
  Token, K, Limit, Steps,                                    \* SpecDecode
  MaxTicks, MaxDecode, Cut,                                  \* Kairos
  Word, Frame, MaxTape, DraftLen, NDecode,                   \* LatentTools
  Pid, Operator, Config, Graceful, MaxStarts                 \* DaemonLife

VARIABLES
  program,
  best, out,
  proto, target, draft, ref_at_p, t_logits, d_logits, draft_tokens, ki, batch, phase,
  driver, prune, tape, inference_active, session, logits_at, pre_pos, raw, decided,
  log, counters, pc,
  todo, cache, tap, rows, prefix, drafting, fault, g, drafts, m, accept_lens, at,
  pid_file, cmd, proc, port, starts, crossed

S == INSTANCE SpecDecode
A == INSTANCE Kairos WITH MaxTape <- MaxTicks
T == INSTANCE LatentTools WITH tool <- program
D == INSTANCE DaemonLife

ASSUME ProgramsAssumption ==
  S!SpecAssumption /\ A!KairosAssumption /\ T!ToolsAssumption /\ D!LifeAssumption

greedyVars == <<best, out>>
specVars   == <<proto, target, draft, ref_at_p, t_logits, d_logits, draft_tokens, ki, batch, phase>>
toolVars   == <<todo, cache, tap, rows, prefix, drafting, fault, g, drafts, m, accept_lens, at>>
kairosVars == <<driver, prune, tape, inference_active, session, logits_at, pre_pos, raw,
                decided, log, counters, pc>>
lifeVars   == <<pid_file, cmd, proc, port, starts, crossed>>
vars == <<program, greedyVars, specVars, kairosVars, toolVars, lifeVars>>

-----------------------------------------------------------------------------
\* The gates, in the order in which main looks at them, and their programs.
Gates == <<"SP_NIGHTSHIFT_OFFLINE", "SP_KAIROS_ALPHA", "SP_EAGLE_ACCEPT", "SP_EAGLE_CAPTURE", "SP_LI_CAPTURE",
           "SP_LI_ORACLE", "SP_LI_HEARTBEAT", "SP_MH_GATE", "SP_LI_RETURN", "SP_TH_LOOP",
           "SP_TELEPATHY_NATIVE">>
Gated == <<"curator", "kairos", "accept", "rollout", "capture", "oracle", "heartbeat", "gate", "return",
           "loop", "native">>

\* set: the gates that are set; given: those whose paths are given too.
Chosen(set, given) ==
  LET on == {i \in DOMAIN Gates : Gates[i] \in set}
      i  == CHOOSE j \in on : \A k \in on : j <= k
  IN IF on = {} THEN "daemon"
      ELSE IF Gates[i] \in given THEN Gated[i] ELSE "usage"

GateNames == {Gates[i] : i \in DOMAIN Gates}
Main == program \in {Chosen({x, y}, IF ok THEN {x, y} ELSE {}) :
                       x \in GateNames \cup {"none"}, y \in GateNames, ok \in BOOLEAN}
                    \cup {Chosen({}, {})}

Unused(x) == x = "unused"

Init ==
  /\ Main \/ program = "spec_validate"
  /\ IF program = "spec_validate" THEN S!Init
     ELSE /\ Unused(proto) /\ Unused(target) /\ Unused(draft) /\ Unused(ref_at_p)
          /\ Unused(t_logits) /\ Unused(d_logits) /\ Unused(draft_tokens) /\ Unused(ki)
          /\ Unused(batch) /\ Unused(phase)
  /\ IF program = "kairos" THEN A!Init
     ELSE /\ Unused(driver) /\ Unused(prune) /\ Unused(tape) /\ inference_active = FALSE
          /\ Unused(session) /\ Unused(logits_at) /\ Unused(pre_pos) /\ Unused(raw)
          /\ Unused(decided) /\ Unused(log) /\ Unused(counters) /\ Unused(pc)
  /\ IF program \in T!Tools THEN T!Init
     ELSE /\ Unused(todo) /\ Unused(cache) /\ Unused(tap) /\ Unused(rows) /\ Unused(prefix)
          /\ Unused(drafting) /\ Unused(fault) /\ Unused(g) /\ Unused(drafts) /\ Unused(m)
          /\ Unused(accept_lens) /\ Unused(at)
  /\ program \notin T!Tools \cup {"spec_validate"} => best = <<>> /\ out = <<>>
  /\ D!Init

\* What a step of each program leaves alone.
SpecOnly   == UNCHANGED <<program, kairosVars, toolVars, lifeVars>>
KairosOnly == UNCHANGED <<program, greedyVars, specVars, toolVars, lifeVars>>
ToolOnly   == UNCHANGED <<specVars, kairosVars, lifeVars>>
DaemonOnly == UNCHANGED <<program, greedyVars, specVars, kairosVars, toolVars>>

Next ==
  \/ program = "spec_validate" /\ S!Next /\ SpecOnly
  \/ program = "kairos" /\ A!Next /\ KairosOnly
  \/ program \in T!Tools /\ T!Next /\ ToolOnly
  \/ program = "daemon" /\ D!Next /\ DaemonOnly

Fairness ==
  /\ WF_vars(program = "spec_validate" /\ S!Work /\ SpecOnly)
  /\ WF_vars(program = "kairos" /\ A!Tick /\ KairosOnly)
  /\ WF_vars(program \in T!Tools /\ T!Work /\ ToolOnly)
  /\ \A p \in Pid :
       /\ WF_vars(program = "daemon" /\ D!Drain(p) /\ DaemonOnly)
       /\ WF_vars(program = "daemon" /\ D!Closing(p) /\ DaemonOnly)
       /\ \A r \in D!Requests : WF_vars(program = "daemon" /\ D!FreeWorkerEnds(p, r) /\ DaemonOnly)

Spec == Init /\ [][Next]_vars /\ Fairness
-----------------------------------------------------------------------------
(***************************************************************************)
(* Speculative decoding outputs the target's own greedy tokens, both       *)
(* sessions and their logits are in step after a batch, and a rewound      *)
(* draft holds what one holds that never overshot.                         *)
(***************************************************************************)
SpeculationExact ==
  program = "spec_validate" => S!OutputIsGreedy /\ S!InStep /\ S!RewindExact

(***************************************************************************)
(* The validator's loops, the drafted decode of eagle_accept.rs and its    *)
(* plain decodes implement one greedy decoding of the target.              *)
(***************************************************************************)
G == INSTANCE Greedy
ImplementsGreedy == G!Spec

(***************************************************************************)
(* KAIROS: an idle tick leaves nothing behind, nor grows the state, and    *)
(* each tick is counted once (kairos.rs, kairos_runner.rs).                *)
(***************************************************************************)
IdleLeavesNoTrace ==
  program = "kairos" => A!IdleLeavesNoTrace /\ A!IdleFlat /\ A!CountersMatchLog

(***************************************************************************)
(* A latent is tapped over its own event's frame alone (eagle_accept.rs).  *)
(***************************************************************************)
TapsOwnFrame == program \in T!Tools => T!TapsOwnFrame

(***************************************************************************)
(* The training arrays stay parallel and agree with the dumped cache, and  *)
(* the accept lengths add up to the output (eagle_accept.rs).              *)
(***************************************************************************)
RowsAligned == program \in T!Tools => T!RowsAligned /\ T!AcceptsAccount

(***************************************************************************)
(* The PID file names the daemon that runs, so that it can be stopped      *)
(* (daemon.rs).                                                            *)
(***************************************************************************)
Locatable == program = "daemon" => D!Locatable

(***************************************************************************)
(* A one-shot program's end: what it returns from (spec_validate.rs,       *)
(* kairos.rs, eagle_accept.rs).                                            *)
(***************************************************************************)
Finished ==
  \/ program \in {"daemon", "usage", "curator"}
  \/ phase \in S!Ended \/ pc \in A!Over \/ at \in T!Over

(***************************************************************************)
(* Every program ends: a one-shot one whatever is proposed, a heartbeat    *)
(* unless a chat holds it off for good, a daemon told to stop unless a     *)
(* client holds it by an events stream or a chat left unread.              *)
(***************************************************************************)
Ends ==
  /\ <>[](~inference_active) => <>Finished
  /\ program = "daemon" => D!StopEnds
=============================================================================

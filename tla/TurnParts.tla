------------------------------- MODULE TurnParts -------------------------------
(***************************************************************************)
(* The parts of the system that stand beside the resident turn and share   *)
(* no state with one another: the episodic memory and what rewrites it, the *)
(* cascade that recalls from it, the stream from messages to text, the     *)
(* taps behind the cache's handle, the exact integer products of the DSP   *)
(* programs, the bridge to the DSP, the offline curator of episodes, and   *)
(* the captures that write an episode's rows.                              *)
(* Each has a module; in a behaviour one of them is in play and only its   *)
(* variables change.                                                       *)
(***************************************************************************)
EXTENDS Naturals, Sequences

CONSTANTS
  Parts,   \* the parts that may be in play
  Fact, Addr, Curated, Body, MaxTurns, MaxEdits, MaxCrashes,  \* MemoryStore
  Memory, None, Live, Strict, Sidecar, NPos, NSecret, NHead, Jmax,
  JudgeK, JudgeR, Configs, View, MaxDraft,                    \* RecallCascade
  Setup, Surface, Piped,                                      \* TextStream
  Pmax, Prompt, Rail, Thought, MaxAnswer,                     \* KvHandle
  N, QBits, Q1, Q2, QMax, Jobs,                               \* DualNtt
  Layers, Caller, Size, MaxPayload, MaxNtt, MaxRounds, MaxTime, \* DspBridge
  Episodes, Secrets, Gone, MinTokens, Spare, MaxTargets,      \* Curator
  Turns, Posts                                                \* Captures

VARIABLES
  part,
  turn,   \* the turn, as the part in play sees it
  lifecycle, booted, live, file, tail, concepts, keys, clock, scan, forgotten, victims, torn,
  stored, shorn, merged, turns, edits, crashes,
  cfg, retired, steer, cache, sent,
  setup, at, history, top, buf, shown, fed,
  handle, rail, dpos, tap, mem, got, due, late, pc, thoughts, answer,
  job, phase, tables, lane, done, out,
  prog, step, tied, sess, heap, call, refs, l1, counts, fails, exit, pair, now, together, rounds,
  queue, stage, ep, secret, held, lpe, lpa, targets, broken, accepted, rejected,
  kv, env, work, disk, outcome

M == INSTANCE MemoryStore
R == INSTANCE RecallCascade
T == INSTANCE TextStream
H == INSTANCE KvHandle
X == INSTANCE DualNtt
D == INSTANCE DspBridge
C == INSTANCE Curator
E == INSTANCE Captures

ASSUME PartsAssumption ==
  /\ Parts \subseteq {"memory", "recall", "stream", "handle", "products", "bridge", "curator", "capture"}
  /\ M!MemoryAssumption /\ R!CascadeAssumption /\ T!StreamAssumption /\ H!HandleAssumption
  /\ X!DualNttAssumption /\ D!BridgeAssumption /\ C!CuratorAssumption
  /\ E!CapturesAssumption

memoryVars   == <<lifecycle, booted, live, file, tail, concepts, keys, clock, scan, forgotten, victims,
                  torn, stored, shorn, merged, turns, edits, crashes>>
recallVars   == <<cfg, retired, steer, cache, sent>>
streamVars   == <<setup, at, history, top, buf, shown, fed>>
handleVars   == <<handle, rail, dpos, tap, mem, got, due, late, pc, thoughts, answer>>
productVars  == <<job, phase, tables, lane, done, out>>
bridgeVars   == <<prog, step, tied, sess, heap, call, refs, l1, counts, fails, exit, pair, now,
                  together, rounds>>
curatorVars  == <<queue, stage, ep, secret, held, lpe, lpa, targets, broken, accepted, rejected>>
captureVars  == <<kv, env, work, disk, outcome>>
vars == <<part, turn, memoryVars, recallVars, streamVars, handleVars, productVars, bridgeVars,
          curatorVars, captureVars>>

Unused(x) == x = "unused"

Init ==
  /\ part \in Parts
  /\ IF part = "memory" THEN M!Init
     ELSE /\ Unused(lifecycle) /\ Unused(booted) /\ Unused(live) /\ Unused(file) /\ Unused(tail)
          /\ Unused(concepts) /\ Unused(keys) /\ Unused(clock) /\ Unused(scan) /\ Unused(forgotten)
          /\ Unused(victims) /\ Unused(torn) /\ Unused(stored)
          /\ Unused(shorn) /\ Unused(merged)
          /\ Unused(turns) /\ Unused(edits) /\ Unused(crashes)
  /\ IF part = "recall" THEN R!Init
     ELSE Unused(cfg) /\ Unused(retired) /\ Unused(steer) /\ Unused(cache) /\ Unused(sent)
  /\ IF part = "stream" THEN T!Init
     ELSE /\ Unused(setup) /\ Unused(at) /\ Unused(history) /\ Unused(top)
          /\ Unused(buf) /\ Unused(shown) /\ Unused(fed)
  /\ IF part = "handle" THEN H!Init
     ELSE /\ Unused(handle) /\ Unused(rail) /\ Unused(dpos) /\ Unused(tap) /\ Unused(mem)
          /\ Unused(got) /\ Unused(due) /\ Unused(late)
          /\ Unused(pc) /\ Unused(thoughts) /\ Unused(answer)
  /\ IF part = "products" THEN X!Init
     ELSE /\ Unused(job) /\ Unused(phase) /\ Unused(tables)
          /\ Unused(lane) /\ Unused(done) /\ Unused(out)
  /\ IF part = "bridge" THEN D!Init
     ELSE /\ Unused(prog) /\ Unused(step) /\ Unused(tied) /\ Unused(sess) /\ Unused(heap)
          /\ Unused(call) /\ Unused(refs) /\ Unused(l1) /\ Unused(counts) /\ Unused(fails)
          /\ Unused(exit) /\ Unused(pair) /\ Unused(now) /\ Unused(together) /\ Unused(rounds)
  /\ IF part = "curator" THEN C!Init
     ELSE /\ Unused(queue) /\ Unused(stage) /\ Unused(ep) /\ Unused(secret) /\ Unused(held)
          /\ Unused(lpe) /\ Unused(lpa) /\ Unused(targets) /\ Unused(broken)
          /\ Unused(accepted) /\ Unused(rejected)
  /\ IF part = "capture" THEN E!Init
     ELSE Unused(kv) /\ Unused(env) /\ Unused(work) /\ Unused(disk) /\ Unused(outcome)
  /\ part \in {"products", "bridge", "curator", "capture"} => Unused(turn)

\* What a step of each part leaves alone.
MemoryOnly ==
  part = "memory" /\ UNCHANGED <<part, recallVars, streamVars, handleVars, productVars, bridgeVars, curatorVars, captureVars>>
RecallOnly ==
  part = "recall" /\ UNCHANGED <<part, memoryVars, streamVars, handleVars, productVars, bridgeVars, curatorVars, captureVars>>
StreamOnly ==
  part = "stream" /\ UNCHANGED <<part, memoryVars, recallVars, handleVars, productVars, bridgeVars, curatorVars, captureVars>>
HandleOnly ==
  part = "handle" /\ UNCHANGED <<part, memoryVars, recallVars, streamVars, productVars, bridgeVars, curatorVars, captureVars>>
ProductOnly ==
  part = "products" /\ UNCHANGED <<part, turn, memoryVars, recallVars, streamVars, handleVars, bridgeVars, curatorVars, captureVars>>
BridgeOnly ==
  part = "bridge" /\ UNCHANGED <<part, turn, memoryVars, recallVars, streamVars, handleVars, productVars, curatorVars,
                 captureVars>>
CuratorOnly ==
  part = "curator" /\ UNCHANGED <<part, turn, memoryVars, recallVars, streamVars, handleVars, productVars, bridgeVars, captureVars>>
CaptureOnly ==
  part = "capture" /\ UNCHANGED <<part, turn, memoryVars, recallVars, streamVars, handleVars, productVars, bridgeVars, curatorVars>>

Next ==
  \/ MemoryOnly /\ M!Next
  \/ RecallOnly /\ R!Next
  \/ StreamOnly /\ T!Next
  \/ HandleOnly /\ H!Next
  \/ ProductOnly /\ X!Next
  \/ BridgeOnly /\ D!Next
  \/ CuratorOnly /\ C!Next
  \/ CaptureOnly /\ E!Next

Spec == Init /\ [][Next]_vars

-----------------------------------------------------------------------------
(***************************************************************************)
(* "hold the session lock for the qm borrow + the whole capture            *)
(* (serializes SP_XBAR_RECALL_WRITE env inside)": an episode is written    *)
(* whole to its own directory and to no other (Captures).                  *)
(***************************************************************************)
CapturesOwn == part = "capture" => E!CapturesOwn

(***************************************************************************)
(* Between two turns the episodes captured in this run and the file's rows *)
(* of them agree, mark by mark; retiring a memory takes nothing else with  *)
(* it, but for what a crash cut a line of; each crash costs at most one    *)
(* capture made after it; what was confirmed as forgotten is in no row     *)
(* that a restart would recall; a concept is served only with the key that *)
(* its file will have at the next start (MemoryStore); and the captures of *)
(* turns keep episodes apart (Captures).                                   *)
(***************************************************************************)
MemoryKept ==
  /\ part = "memory" =>
       M!TypeOK /\ M!LiveMatchesFile /\ M!NothingElseLost /\ M!ForgottenIsDurable
       /\ M!LostLater /\ M!ServedByItsKey
  /\ CapturesOwn

(***************************************************************************)
(* An answer is decoded over at most one memory, the one announced; the    *)
(* spine decides as the ladder does; steering is on only in a turn that    *)
(* recalled (RecallCascade).                                               *)
(***************************************************************************)
OneMemory == part = "recall" => R!TypeOK /\ R!OneMemory /\ R!SpineAgrees /\ R!SteerOnlyRecall

(***************************************************************************)
(* Probes in the resident cache leave the rows that were there; the        *)
(* judge's nested pass leaves what is recalled, the prompt, or nothing     *)
(* (RecallCascade).                                                        *)
(***************************************************************************)
ProbesRestore == [][part = "recall" => R!ProbeNets /\ R!JudgeNets]_vars

(***************************************************************************)
(* Nothing of a vetoed draft reaches the client (RecallCascade).           *)
(***************************************************************************)
VetoedNeverSent == part = "recall" => R!VetoedNeverSent

(***************************************************************************)
(* What is shown is the text that was decoded, up to a stop string, and no *)
(* n-gram is completed twice under the anti-echo guard (TextStream).       *)
(***************************************************************************)
StreamIsText == part = "stream" => T!ShownIsText /\ T!NoRecital

(***************************************************************************)
(* A greedy turn takes the end of turn that the model ranks first, and its *)
(* prompt has one BOS and its messages' turns (TextStream).                *)
(***************************************************************************)
CleanStop == part = "stream" => T!CleanStop /\ T!PromptWellFormed

(***************************************************************************)
(* A tap is filled by the step it was armed for (KvHandle).                *)
(***************************************************************************)
TapsHit == part = "handle" => H!TapsHit

(***************************************************************************)
(* "leak the buffer so a late write can never hit freed memory" (KvHandle).*)
(***************************************************************************)
NoLateWrite == part = "handle" => H!NoLateWrite

(***************************************************************************)
(* The products computed on two primes are those of the integers (DualNtt).*)
(***************************************************************************)
ProductsExact == part = "products" => X!ProductExact /\ X!MatmulExact

(***************************************************************************)
(* A DMA buffer lives as long as what uses it and no longer, within its    *)
(* session (DspBridge).                                                    *)
(***************************************************************************)
DmaOwned == part = "bridge" => D!DmaOwned

(***************************************************************************)
(* A call of the DSP answers for its own request, and the overlap of two   *)
(* is the time that both ran (DspBridge).                                  *)
(***************************************************************************)
CallsExact == part = "bridge" => D!CallsExact

(***************************************************************************)
(* The two passes that admit an episode differ by the ablated rows alone   *)
(* (Curator).                                                              *)
(***************************************************************************)
AblationOnly == part = "curator" => C!AblationOnly
================================================================================

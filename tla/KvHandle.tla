-------------------------------- MODULE KvHandle --------------------------------
(***************************************************************************)
(* The resident cache behind its FFI handle (cuda_kvdecode_dispatch.rs) as *)
(* the taps of a chat turn use it (routes.rs).  A tap is armed with the    *)
(* address of a buffer; the next forward that runs the head copies its     *)
(* hidden state there and disarms it (cuda_forward.cu).  There is one slot.*)
(*                                                                         *)
(* A verb that fails before the forward leaves the tap armed, one that     *)
(* fails after it has used it up.  Positions stand for hidden states.      *)
(***************************************************************************)
EXTENDS Naturals, Sequences

CONSTANTS
  Pmax,      \* positions of the cache
  Prompt,    \* lengths of prompts
  Rail,      \* sets of the switches that are on: f3, coconut, head
  Thought,   \* the buffers of the continuous thoughts, in order
  MaxAnswer, \* bound: max_tokens
  MaxTurns   \* bound: turns

HandleAssumption ==
  /\ {Pmax, MaxAnswer, MaxTurns} \subseteq Nat /\ Prompt \subseteq Nat \ {0}
  /\ \A r \in Rail : r \subseteq {"f3", "coconut", "head"}
  /\ Thought \in Seq(STRING)

ThoughtBuf == {Thought[i] : i \in DOMAIN Thought}
Buf == (1 .. MaxTurns) \X ({"prompt", "seed", "first", "head"} \union ThoughtBuf)
NoBuf == <<0, "none">>
Nowhere == Pmax     \* no position

VARIABLES
  handle, \* none, open, live (registered with the session) or closed
  rail,   \* the environment of the process
  dpos,
  tap,    \* feat_host while feat_active
  mem,    \* each buffer: unused, held, leaked (mem::forget) or freed
  got,    \* the position whose state it received
  due,    \* the position that it was armed for
  late,   \* freed buffers that were written to
  turn, pc, thoughts, answer

vars == <<handle, rail, dpos, tap, mem, got, due, late, turn, pc, thoughts, answer>>

Init ==
  /\ handle = "none" /\ rail \in Rail /\ dpos = 0 /\ tap = NoBuf
  /\ mem = [b \in Buf |-> "unused"]
  /\ got = [b \in Buf |-> Nowhere] /\ due = [b \in Buf |-> Nowhere] /\ late = {}
  /\ turn = 0 /\ pc = "idle" /\ thoughts = 0 /\ answer = 0

bufs  == <<mem, got, due, late>>
flow  == <<turn, pc, thoughts, answer>>

-----------------------------------------------------------------------------
(***************************************************************************)
(* register_with_session opens the cache and closes it again when the      *)
(* session refuses the dispatch table; release_for_model closes it.        *)
(***************************************************************************)
Open ==
  /\ handle = "none"
  /\ handle' = "open"
  /\ UNCHANGED <<rail, dpos, tap, bufs, flow>>

Register ==
  /\ handle = "open"
  /\ handle' \in {"live", "closed"}
  /\ UNCHANGED <<rail, dpos, tap, bufs, flow>>

Release ==
  /\ handle = "live" /\ pc = "idle"
  /\ handle' = "closed"
  /\ UNCHANGED <<rail, dpos, tap, bufs, flow>>

-----------------------------------------------------------------------------
(***************************************************************************)
(* A verb that runs the head at position dpos with tap t, over memory mm;  *)
(* one that fails may have come that far.                                  *)
(***************************************************************************)
Fire(t, mm, p) ==
  /\ tap' = NoBuf
  /\ got' = IF t = NoBuf THEN got ELSE [got EXCEPT ![t] = p]
  /\ late' = IF t # NoBuf /\ mm[t] = "freed" THEN late \union {t} ELSE late

Reached(t, mm) == Fire(t, mm, dpos) /\ dpos' = dpos + 1
Failed(t, mm, room) ==
  (room /\ Reached(t, mm)) \/ (tap' = t /\ UNCHANGED <<dpos, got, late>>)

CanStep   == dpos + 1 < Pmax
CanInject == dpos + 1 <= Pmax

B(name) == <<turn, name>>

\* Buffers of this turn that go out of scope, and those that are leaked.
Turned(mm, names, to) ==
  [b \in Buf |-> IF b[1] = turn /\ b[2] \in names /\ mm[b] = "held" THEN to ELSE mm[b]]
Freed(mm, names)  == Turned(mm, names, "freed")
Forget(mm, names) == Turned(mm, names, "leaked")
Dropped(mm) == Freed(mm, {b[2] : b \in Buf})

-----------------------------------------------------------------------------
(***************************************************************************)
(* The turn: reset and prefill of the head, whose last forward runs the    *)
(* LM head; a one-token prompt has none.                                   *)
(***************************************************************************)
Begin ==
  /\ handle = "live" /\ pc = "idle" /\ turn < MaxTurns
  /\ turn' = turn + 1 /\ thoughts' = 0 /\ answer' = 0
  /\ \E n \in Prompt :
       \/ n = 1 /\ dpos' = 0 /\ pc' = "arm" /\ UNCHANGED <<tap, got, late>>
       \/ n > 1 /\ n - 1 <= Pmax /\ dpos' = n - 1 /\ Fire(tap, mem, n - 2) /\ pc' = "arm"
       \/ n > 1 /\ n - 1 <= Pmax /\ dpos' = n - 1 /\ pc' = "arm" /\ UNCHANGED <<tap, got, late>>  \* reused
       \/ n > 1 /\ dpos' = 0 /\ pc' = "idle" /\ UNCHANGED <<tap, got, late>>     \* prefill: Err
  /\ UNCHANGED <<handle, rail, mem, due>>

\* Arming: F3 comes first, there is one slot.
ArmBoth == {"prompt" : r \in rail \intersect {"f3"}} \union {"seed" : r \in rail \intersect {"coconut"}}   \* mutant
ArmAtPrompt == IF "f3" \in rail THEN {"prompt"} ELSE IF "coconut" \in rail THEN {"seed"} ELSE {}

Arm ==
  /\ pc = "arm" /\ pc' = "syn_last"
  /\ mem' = [b \in Buf |-> IF b[1] = turn /\ b[2] \in ArmAtPrompt THEN "held" ELSE mem[b]]
  /\ due' = [b \in Buf |-> IF b[1] = turn /\ b[2] \in ArmAtPrompt THEN dpos ELSE due[b]]
  /\ tap' = IF "seed" \in ArmAtPrompt THEN B("seed")
            ELSE IF "prompt" \in ArmAtPrompt THEN B("prompt") ELSE tap
  /\ UNCHANGED <<handle, rail, dpos, got, late, turn, thoughts, answer>>

SynLast ==
  /\ pc = "syn_last"
  /\ \/ /\ CanStep /\ Reached(tap, mem) /\ UNCHANGED mem
        /\ pc' = IF mem[B("seed")] = "held" THEN "think" ELSE "answer"
     \/ /\ Failed(tap, mem, CanStep)
        /\ pc' = "idle" /\ mem' = Dropped(Forget(mem, {"prompt"}))
  /\ UNCHANGED <<handle, rail, due, turn, thoughts, answer>>

\* Each continuous thought is armed and injected; a failure ends the thoughts only.
Think ==
  /\ pc = "think" /\ thoughts < Len(Thought)
  /\ LET b == B(Thought[thoughts + 1])  held == [mem EXCEPT ![b] = "held"] IN
     /\ due' = [due EXCEPT ![b] = dpos]
     /\ \/ /\ CanInject /\ Reached(b, held)
           /\ mem' = held /\ thoughts' = thoughts + 1 /\ UNCHANGED pc
        \/ /\ Failed(b, held, CanInject)
           /\ mem' = Forget(held, {b[2]}) /\ pc' = "thought" /\ UNCHANGED thoughts
  /\ UNCHANGED <<handle, rail, turn, answer>>

ThoughtsDone ==
  /\ pc = "thought" \/ (pc = "think" /\ thoughts = Len(Thought))
  /\ pc' = "answer" /\ mem' = Freed(mem, ThoughtBuf)
  /\ UNCHANGED <<handle, rail, dpos, tap, got, due, late, turn, thoughts, answer>>

\* The tap of the first answer token: F3's, or the test head's when F3 is off.
ArmFirst ==
  IF answer > 0 THEN {}
  ELSE IF "f3" \in rail THEN {"first"} ELSE IF "head" \in rail THEN {"head"} ELSE {}

Answer ==
  /\ pc = "answer" /\ answer < MaxAnswer
  /\ LET t == IF ArmFirst = {} THEN tap ELSE B(CHOOSE a \in ArmFirst : TRUE)
         held == IF ArmFirst = {} THEN mem ELSE [mem EXCEPT ![t] = "held"]
     IN /\ due' = IF ArmFirst = {} THEN due ELSE [due EXCEPT ![t] = dpos]
        /\ \/ /\ CanStep /\ Reached(t, held)
              /\ mem' = held /\ answer' = answer + 1 /\ UNCHANGED pc
           \/ /\ Failed(t, held, CanStep)
              /\ mem' = Dropped(Forget(held, {"first", "head"})) /\ pc' = "idle" /\ UNCHANGED answer
  /\ UNCHANGED <<handle, rail, turn, thoughts>>

\* End of turn, stop string, hang-up or max_tokens.
End ==
  /\ pc = "answer"
  /\ pc' = "idle" /\ mem' = Dropped(mem)
  /\ UNCHANGED <<handle, rail, dpos, tap, got, due, late, turn, thoughts, answer>>

Next ==
  \/ Open \/ Register \/ Release
  \/ Begin \/ Arm \/ SynLast \/ Think \/ ThoughtsDone \/ Answer \/ End

Spec == Init /\ [][Next]_vars

-----------------------------------------------------------------------------
(***************************************************************************)
(* "leak the buffer so a late write can never hit freed memory".           *)
(***************************************************************************)
NoLateWrite == late = {}

(***************************************************************************)
(* A buffer that is read holds the state of the step it was armed for, and *)
(* the engine writes to no buffer that a turn has dropped, but for the     *)
(* seed of the continuous thoughts, which no failure leaks (routes.rs).    *)
(***************************************************************************)
TapsHit ==
  /\ \A b \in Buf : mem[b] = "held" /\ pc \notin {"arm", "syn_last"} => got[b] = due[b]
  /\ \A b \in late : b[2] = "seed"
=================================================================================

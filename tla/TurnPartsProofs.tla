--------------------------- MODULE TurnPartsProofs ---------------------------
(***************************************************************************)
(* The parts beside the resident turn, each proved for all of its          *)
(* constants.  The parts share no state: the invariant of each is kept by  *)
(* its own steps, and by the others', which do not touch its variables.    *)
(*                                                                         *)
(* KvHandle: only the present turn holds buffers, and the tap is that of   *)
(* one it holds, or of one that nothing reads any more.                    *)
(* Captures: who is at work holds the mutex of the resident cache, and     *)
(* what it has set is what its forward reads.  Those of POST /v1/capture,  *)
(* which do not take it, are assumed away: with one of them it fails.      *)
(* Curator: a pass has read the rows of the episode and of the inputs so   *)
(* far, row by row; the second with the targets of the first ablated.      *)
(* DspBridge: whose buffers are on the heap at each step of each program,  *)
(* and what the clock of two calls shows once both are over.               *)
(* MemoryStore: the file as it will be once the rewrite under way ends and *)
(* the live set as it will be with the episode in hand agree, row by row.  *)
(***************************************************************************)
EXTENDS TurnParts, Integers, FiniteSetTheorems, SequenceTheorems, TLAPS

-----------------------------------------------------------------------------
\* The tap of the cache's handle (KvHandle).
TapName == {"prompt", "seed", "first", "head"} \union H!ThoughtBuf

\* No buffer is NoBuf; a buffer is a turn and a name.
LEMMA Bufs ==
  ASSUME NEW b \in H!Buf
  PROVE  b # H!NoBuf /\ b[1] \in 1 .. MaxTurns /\ b[2] \in TapName
BY DEF H!Buf, H!NoBuf, TapName

LEMMA OwnBuf ==
  ASSUME turn \in 1 .. MaxTurns, NEW name \in TapName
  PROVE  H!B(name) \in H!Buf /\ H!B(name)[1] = turn /\ H!B(name)[2] = name
BY DEF H!Buf, H!B, TapName

HandleTypes ==
  /\ mem \in [H!Buf -> {"unused", "held", "leaked", "freed"}]
  /\ got \in [H!Buf -> Nat] /\ due \in [H!Buf -> Nat] /\ dpos \in Nat
  /\ tap \in H!Buf \union {H!NoBuf} /\ late \subseteq H!Buf
  /\ turn \in 0 .. MaxTurns /\ thoughts \in Nat
  /\ pc \in {"idle", "arm", "syn_last", "think", "thought", "answer"}
  /\ pc # "idle" => turn \in 1 .. MaxTurns

\* A tap that nothing can read any more: leaked, or a seed that was dropped.
Stale(t) == mem[t] = "leaked" \/ (mem[t] = "freed" /\ t[2] = "seed")

(***************************************************************************)
(* Only the present turn holds buffers.  The tap is that of the one held   *)
(* when the last prompt token is stepped, and stale at any other time.     *)
(***************************************************************************)
TapInv ==
  /\ \A b \in H!Buf : mem[b] = "held" => b[1] = turn /\ pc \notin {"idle", "arm"}
  /\ \A b \in H!Buf : mem[b] = "held" /\ pc = "syn_last" =>
       tap = b /\ due[b] = dpos /\ b[2] \in {"prompt", "seed"}
  /\ \A b \in H!Buf : mem[b] = "held" /\ pc # "syn_last" => got[b] = due[b]
  /\ tap # H!NoBuf => Stale(tap) \/ (pc = "syn_last" /\ mem[tap] = "held")
  /\ \A b \in late : b[2] = "seed"

HandleInv == HandleTypes /\ TapInv

LEMMA HandleInit == H!HandleAssumption /\ H!Init => HandleInv
BY DEF H!HandleAssumption, H!Init, HandleInv, HandleTypes, TapInv, H!Nowhere

-----------------------------------------------------------------------------
\* What a firing leaves: no tap, and a dropped buffer among those written to
\* only if the tap was one.
LEMMA Fired ==
  ASSUME HandleTypes, NEW t \in H!Buf \union {H!NoBuf}, NEW mm, NEW p \in Nat, H!Fire(t, mm, p)
  PROVE  /\ tap' = H!NoBuf
         /\ got' \in [H!Buf -> Nat]
         /\ \A b \in H!Buf : got'[b] = IF b = t THEN p ELSE got[b]
         /\ late' = late \/ (t \in H!Buf /\ mm[t] = "freed" /\ late' = late \union {t})
BY Bufs DEF H!Fire, HandleTypes

LEMMA FailedTap ==
  ASSUME HandleTypes, NEW t \in H!Buf \union {H!NoBuf}, NEW mm, NEW room, H!Failed(t, mm, room)
  PROVE  /\ tap' \in {t, H!NoBuf} /\ got' \in [H!Buf -> Nat] /\ dpos' \in Nat
         /\ \A b \in H!Buf : b # t => got'[b] = got[b]
         /\ late' = late \/ (t \in H!Buf /\ mm[t] = "freed" /\ late' = late \union {t})
<1>1. CASE H!Reached(t, mm)
  <2>1. H!Fire(t, mm, dpos) /\ dpos' = dpos + 1 /\ dpos \in Nat
    BY <1>1 DEF H!Reached, HandleTypes
  <2> QED BY <2>1, Fired
<1>2. CASE tap' = t /\ UNCHANGED <<dpos, got, late>>
  BY <1>2 DEF HandleTypes
<1> QED BY <1>1, <1>2 DEF H!Failed

\* Going out of scope and leaking change held buffers of this turn only.
LEMMA TurnedMem ==
  ASSUME NEW mm \in [H!Buf -> {"unused", "held", "leaked", "freed"}], NEW names,
         NEW to \in {"leaked", "freed"}
  PROVE  /\ H!Turned(mm, names, to) \in [H!Buf -> {"unused", "held", "leaked", "freed"}]
         /\ \A b \in H!Buf : H!Turned(mm, names, to)[b] =
              IF b[1] = turn /\ b[2] \in names /\ mm[b] = "held" THEN to ELSE mm[b]
BY DEF H!Turned

LEMMA DroppedMem ==
  ASSUME NEW mm \in [H!Buf -> {"unused", "held", "leaked", "freed"}]
  PROVE  /\ H!Dropped(mm) \in [H!Buf -> {"unused", "held", "leaked", "freed"}]
         /\ \A b \in H!Buf : H!Dropped(mm)[b] =
              IF b[1] = turn /\ mm[b] = "held" THEN "freed" ELSE mm[b]
<1>1. \A b \in H!Buf : b[2] \in {d[2] : d \in H!Buf}
  OBVIOUS
<1> QED BY <1>1, TurnedMem DEF H!Dropped, H!Freed

\* A turn whose answer fails: it drops what it held, after the first token's
\* buffers were leaked.
LEMMA AnswerFails ==
  ASSUME HandleTypes, turn \in 1 .. MaxTurns, turn' = turn, thoughts' = thoughts, pc' = "idle",
         got' \in [H!Buf -> Nat], due' \in [H!Buf -> Nat], dpos' \in Nat,
         tap' \in H!Buf \union {H!NoBuf}, late' \subseteq H!Buf, \A b \in late' : b[2] = "seed",
         NEW mm \in [H!Buf -> {"unused", "held", "leaked", "freed"}],
         \A b \in H!Buf : mm[b] = "held" => b[1] = turn,
         mem' = H!Dropped(H!Forget(mm, {"first", "head"})),
         \/ tap' = H!NoBuf
         \/ mm[tap'] = "held" /\ tap'[2] \in {"first", "head"}
         \/ mm[tap'] = "leaked" \/ (mm[tap'] = "freed" /\ tap'[2] = "seed")
  PROVE  HandleInv'
<1>1. /\ H!Forget(mm, {"first", "head"}) \in [H!Buf -> {"unused", "held", "leaked", "freed"}]
      /\ \A b \in H!Buf : H!Forget(mm, {"first", "head"})[b] =
           IF b[1] = turn /\ b[2] \in {"first", "head"} /\ mm[b] = "held" THEN "leaked" ELSE mm[b]
  BY TurnedMem DEF H!Forget
<1>2. /\ mem' \in [H!Buf -> {"unused", "held", "leaked", "freed"}]
      /\ \A b \in H!Buf : mem'[b] =
           IF b[1] = turn /\ H!Forget(mm, {"first", "head"})[b] = "held" THEN "freed"
           ELSE H!Forget(mm, {"first", "head"})[b]
  BY <1>1, DroppedMem
<1>3. \A b \in H!Buf : mem'[b] # "held"
  BY <1>1, <1>2
<1>4. tap' # H!NoBuf => Stale(tap)'
  BY <1>1, <1>2 DEF Stale
<1>5. HandleTypes'
  BY <1>2 DEF HandleTypes
<1> QED BY <1>3, <1>4, <1>5 DEF HandleInv, TapInv

-----------------------------------------------------------------------------
\* The steps of a turn.
LEMMA HandleStep ==
  ASSUME H!HandleAssumption, HandleInv, H!Next
  PROVE  HandleInv'
<1> USE DEF HandleInv
<1>1. CASE H!Open \/ H!Register \/ H!Release
  <2>1. /\ UNCHANGED <<mem, got, due, late, tap, dpos, turn, pc, thoughts>>
    BY <1>1 DEF H!Open, H!Register, H!Release, H!bufs, H!flow
  <2> QED BY <2>1 DEF HandleTypes, TapInv, Stale
<1>2. CASE H!Begin
  <2>1. /\ mem' = mem /\ due' = due /\ turn' = turn + 1 /\ turn < MaxTurns /\ thoughts' = 0
        /\ pc = "idle" /\ pc' \in {"idle", "arm"}
    BY <1>2 DEF H!Begin
  <2>2. dpos' \in Nat
    BY <1>2 DEF H!Begin, H!HandleAssumption
  <2>3. \/ UNCHANGED <<tap, got, late>>
        \/ \E p \in Nat : H!Fire(tap, mem, p)
    BY <1>2 DEF H!Begin, H!HandleAssumption
  <2>4. /\ tap' \in {tap, H!NoBuf} /\ got' \in [H!Buf -> Nat]
        /\ late' = late \/ (tap \in H!Buf /\ mem[tap] = "freed" /\ late' = late \union {tap})
    BY <2>3, Fired DEF HandleTypes
  <2>5. HandleTypes'
    BY <2>1, <2>2, <2>4 DEF HandleTypes, H!HandleAssumption
  <2>6. \A b \in H!Buf : mem'[b] # "held"
    BY <2>1 DEF TapInv
  <2>7. \A b \in late' : b[2] = "seed"
    BY <2>4, Bufs DEF TapInv, Stale, HandleTypes
  <2>8. tap' # H!NoBuf => Stale(tap)'
    BY <2>1, <2>4 DEF TapInv, Stale
  <2> QED BY <2>5, <2>6, <2>7, <2>8 DEF TapInv
<1>3. CASE H!Arm
  <2>1. /\ UNCHANGED <<dpos, got, late, turn, thoughts>> /\ pc = "arm" /\ pc' = "syn_last"
        /\ turn \in 1 .. MaxTurns
    BY <1>3 DEF H!Arm, HandleTypes
  <2>2. \A b \in H!Buf : mem[b] # "held"
    BY <2>1 DEF TapInv
  <2>3. /\ mem' \in [H!Buf -> {"unused", "held", "leaked", "freed"}] /\ due' \in [H!Buf -> Nat]
        /\ \A b \in H!Buf : mem'[b] = IF b[1] = turn /\ b[2] \in H!ArmAtPrompt THEN "held" ELSE mem[b]
        /\ \A b \in H!Buf : due'[b] = IF b[1] = turn /\ b[2] \in H!ArmAtPrompt THEN dpos ELSE due[b]
    BY <1>3 DEF H!Arm, HandleTypes
  <2>4. CASE H!ArmAtPrompt = {}
    <3>1. tap' = tap
      BY <1>3, <2>4 DEF H!Arm
    <3> QED BY <2>1, <2>2, <2>3, <2>4, <3>1 DEF HandleTypes, TapInv, Stale
  <2>5. ASSUME NEW name \in {"prompt", "seed"}, H!ArmAtPrompt = {name} PROVE HandleInv'
    <3>1. tap' = H!B(name)
      BY <1>3, <2>5 DEF H!Arm
    <3>2. H!B(name) \in H!Buf /\ H!B(name)[1] = turn /\ H!B(name)[2] = name
      BY <2>1, OwnBuf DEF TapName
    <3>3. mem'[H!B(name)] = "held"
      BY <2>3, <2>5, <3>2
    <3>4. ASSUME NEW b \in H!Buf, mem'[b] = "held"
          PROVE  b = H!B(name) /\ b[1] = turn /\ b[2] = name /\ due'[b] = dpos
      <4>1. b[1] = turn /\ b[2] = name
        BY <2>2, <2>3, <2>5, <3>4
      <4>2. b = <<b[1], b[2]>>
        BY DEF H!Buf
      <4> QED BY <2>3, <2>5, <4>1, <4>2 DEF H!B
    <3>5. HandleTypes'
      BY <2>1, <2>3, <3>1, <3>2 DEF HandleTypes
    <3> QED BY <2>1, <3>1, <3>2, <3>3, <3>4, <3>5 DEF TapInv
  <2>6. H!ArmAtPrompt \in {{}, {"prompt"}, {"seed"}}
    BY DEF H!ArmAtPrompt
  <2> QED BY <2>4, <2>5, <2>6
<1>4. CASE H!SynLast
  <2>0. pc = "syn_last" /\ due' = due /\ turn' = turn /\ thoughts' = thoughts /\ turn \in 1 .. MaxTurns
    BY <1>4 DEF H!SynLast, HandleTypes
  <2>1. CASE H!Reached(tap, mem) /\ mem' = mem /\ pc' \in {"think", "answer"}
    <3>1. /\ tap' = H!NoBuf /\ got' \in [H!Buf -> Nat] /\ dpos' = dpos + 1
          /\ \A b \in H!Buf : got'[b] = IF b = tap THEN dpos ELSE got[b]
          /\ late' = late \/ (tap \in H!Buf /\ mem[tap] = "freed" /\ late' = late \union {tap})
      BY <2>1, Fired DEF H!Reached, HandleTypes
    <3>2. HandleTypes'
      BY <2>0, <2>1, <3>1 DEF HandleTypes
    <3>3. \A b \in H!Buf : mem'[b] = "held" => b[1] = turn /\ got'[b] = due[b]
      BY <2>0, <2>1, <3>1 DEF TapInv
    <3>4. \A b \in late' : b[2] = "seed"
      BY <3>1, Bufs DEF TapInv, Stale
    <3> QED BY <2>0, <2>1, <3>1, <3>2, <3>3, <3>4 DEF TapInv
  <2>2. CASE H!Failed(tap, mem, H!CanStep) /\ pc' = "idle" /\ mem' = H!Dropped(H!Forget(mem, {"prompt"}))
    <3>1. /\ tap' \in {tap, H!NoBuf} /\ got' \in [H!Buf -> Nat] /\ dpos' \in Nat
          /\ late' = late \/ (tap \in H!Buf /\ mem[tap] = "freed" /\ late' = late \union {tap})
      BY <2>2, FailedTap DEF HandleTypes
    <3>2. /\ H!Forget(mem, {"prompt"}) \in [H!Buf -> {"unused", "held", "leaked", "freed"}]
          /\ \A b \in H!Buf : H!Forget(mem, {"prompt"})[b] =
               IF b[1] = turn /\ b[2] \in {"prompt"} /\ mem[b] = "held" THEN "leaked" ELSE mem[b]
      BY TurnedMem DEF HandleTypes, H!Forget
    <3>3. /\ mem' \in [H!Buf -> {"unused", "held", "leaked", "freed"}]
          /\ \A b \in H!Buf : mem'[b] =
               IF b[1] = turn /\ H!Forget(mem, {"prompt"})[b] = "held" THEN "freed"
               ELSE H!Forget(mem, {"prompt"})[b]
      BY <2>2, <3>2, DroppedMem
    <3>4. \A b \in H!Buf : mem[b] = "held" => b[1] = turn /\ b[2] \in {"prompt", "seed"}
      BY <2>0 DEF TapInv
    <3>5. \A b \in H!Buf : mem'[b] # "held"
      BY <3>2, <3>3, <3>4
    <3>6. ASSUME tap' # H!NoBuf PROVE Stale(tap)'
      <4>1. tap' = tap /\ tap \in H!Buf
        BY <3>1, <3>6 DEF HandleTypes
      <4>2. CASE mem[tap] = "held"
        BY <3>2, <3>3, <3>4, <4>1, <4>2 DEF Stale
      <4>3. CASE mem[tap] # "held"
        BY <3>2, <3>3, <3>6, <4>1, <4>3 DEF TapInv, Stale
      <4> QED BY <4>2, <4>3
    <3>7. \A b \in late' : b[2] = "seed"
      BY <3>1, Bufs DEF TapInv, Stale
    <3>8. HandleTypes'
      BY <2>0, <2>2, <3>1, <3>3 DEF HandleTypes
    <3> QED BY <2>2, <3>5, <3>6, <3>7, <3>8 DEF TapInv
  <2> QED BY <1>4, <2>1, <2>2 DEF H!SynLast
<1>5. CASE H!Think
  <2> DEFINE b0 == H!B(Thought[thoughts + 1])  mine == [mem EXCEPT ![b0] = "held"]
  <2>0. /\ pc = "think" /\ turn' = turn /\ turn \in 1 .. MaxTurns /\ thoughts' \in Nat
        /\ thoughts + 1 \in DOMAIN Thought
    BY <1>5 DEF H!Think, HandleTypes, H!HandleAssumption
  <2>1. Thought[thoughts + 1] \in TapName
    BY <2>0 DEF TapName, H!ThoughtBuf
  <2>2. b0 \in H!Buf /\ b0[1] = turn /\ b0 # H!NoBuf
    BY <2>0, <2>1, OwnBuf, Bufs
  <2>3. due' = [due EXCEPT ![b0] = dpos]
    BY <1>5 DEF H!Think
  <2>4. mine \in [H!Buf -> {"unused", "held", "leaked", "freed"}] /\ mine[b0] = "held"
    BY <2>2 DEF HandleTypes
  <2>5. \A b \in H!Buf : b # b0 => mine[b] = mem[b]
    BY DEF HandleTypes
  <2> HIDE DEF b0, mine
  <2>6. CASE H!Reached(b0, mine) /\ mem' = mine /\ pc' = pc
    <3>1. /\ tap' = H!NoBuf /\ got' \in [H!Buf -> Nat] /\ dpos' = dpos + 1 /\ late' = late
          /\ \A b \in H!Buf : got'[b] = IF b = b0 THEN dpos ELSE got[b]
      BY <2>2, <2>4, <2>6, Fired DEF H!Reached, HandleTypes
    <3>4. mem' \in [H!Buf -> {"unused", "held", "leaked", "freed"}] /\ due' \in [H!Buf -> Nat]
      BY <2>3, <2>4, <2>6 DEF HandleTypes
    <3>2. HandleTypes'
      BY <2>0, <2>6, <3>1, <3>4 DEF HandleTypes
    <3>3. \A b \in H!Buf : mem'[b] = "held" => b[1] = turn /\ got'[b] = due'[b]
      BY <2>0, <2>2, <2>3, <2>5, <2>6, <3>1 DEF TapInv, HandleTypes
    <3> QED BY <2>0, <2>6, <3>1, <3>2, <3>3 DEF TapInv
  <2>7. CASE H!Failed(b0, mine, H!CanInject) /\ mem' = H!Forget(mine, {b0[2]}) /\ pc' = "thought"
    <3>1. /\ tap' \in {b0, H!NoBuf} /\ got' \in [H!Buf -> Nat] /\ dpos' \in Nat /\ late' = late
          /\ \A b \in H!Buf : b # b0 => got'[b] = got[b]
      BY <2>2, <2>4, <2>7, FailedTap DEF HandleTypes
    <3>2. /\ mem' \in [H!Buf -> {"unused", "held", "leaked", "freed"}]
          /\ \A b \in H!Buf : mem'[b] =
               IF b[1] = turn /\ b[2] \in {b0[2]} /\ mine[b] = "held" THEN "leaked" ELSE mine[b]
      BY <2>4, <2>7, TurnedMem DEF H!Forget
    <3>3. mem'[b0] = "leaked"
      BY <2>2, <2>4, <3>2
    <3>4. HandleTypes'
      BY <2>0, <2>2, <2>3, <2>7, <3>1, <3>2 DEF HandleTypes
    <3>5. \A b \in H!Buf : mem'[b] = "held" => b # b0 /\ mem[b] = "held" /\ got'[b] = got[b] /\ due'[b] = due[b]
      BY <2>3, <2>5, <3>1, <3>2, <3>3 DEF HandleTypes
    <3> QED BY <2>0, <2>2, <2>7, <3>1, <3>3, <3>4, <3>5 DEF TapInv, Stale
  <2> QED BY <1>5, <2>6, <2>7 DEF H!Think, b0, mine
<1>6. CASE H!ThoughtsDone
  <2>1. /\ UNCHANGED <<dpos, tap, got, due, late, turn, thoughts>> /\ pc' = "answer"
        /\ pc \in {"think", "thought"} /\ mem' = H!Freed(mem, H!ThoughtBuf)
    BY <1>6 DEF H!ThoughtsDone
  <2>2. /\ mem' \in [H!Buf -> {"unused", "held", "leaked", "freed"}]
        /\ \A b \in H!Buf : mem'[b] =
             IF b[1] = turn /\ b[2] \in H!ThoughtBuf /\ mem[b] = "held" THEN "freed" ELSE mem[b]
    BY <2>1, TurnedMem DEF H!Freed, HandleTypes
  <2>3. HandleTypes'
    BY <2>1, <2>2 DEF HandleTypes
  <2> QED BY <2>1, <2>2, <2>3 DEF TapInv, Stale, HandleTypes
<1>7. CASE H!Answer
  <2>0. pc = "answer" /\ turn' = turn /\ turn \in 1 .. MaxTurns /\ thoughts' = thoughts
    BY <1>7 DEF H!Answer, HandleTypes
  <2>1. CASE H!ArmFirst = {}
    <3>1. due' = due
      BY <1>7, <2>1 DEF H!Answer
    <3>2. CASE H!Reached(tap, mem) /\ mem' = mem /\ pc' = pc
      <4>1. /\ tap' = H!NoBuf /\ got' \in [H!Buf -> Nat] /\ dpos' = dpos + 1
            /\ \A b \in H!Buf : got'[b] = IF b = tap THEN dpos ELSE got[b]
            /\ late' = late \/ (tap \in H!Buf /\ mem[tap] = "freed" /\ late' = late \union {tap})
        BY <3>2, Fired DEF H!Reached, HandleTypes
      <4>2. \A b \in H!Buf : mem[b] = "held" => b # tap
        BY <2>0, Bufs DEF TapInv, Stale
      <4>3. HandleTypes'
        BY <2>0, <3>1, <3>2, <4>1 DEF HandleTypes
      <4>4. \A b \in late' : b[2] = "seed"
        BY <2>0, <4>1, Bufs DEF TapInv, Stale
      <4> QED BY <2>0, <3>1, <3>2, <4>1, <4>2, <4>3, <4>4 DEF TapInv
    <3>3. CASE H!Failed(tap, mem, H!CanStep) /\ mem' = H!Dropped(H!Forget(mem, {"first", "head"})) /\ pc' = "idle"
      <4>1. /\ tap' \in {tap, H!NoBuf} /\ got' \in [H!Buf -> Nat] /\ dpos' \in Nat
            /\ late' = late \/ (tap \in H!Buf /\ mem[tap] = "freed" /\ late' = late \union {tap})
        BY <3>3, FailedTap DEF HandleTypes
      <4>2. HandleTypes /\ mem \in [H!Buf -> {"unused", "held", "leaked", "freed"}] /\ due' \in [H!Buf -> Nat]
        BY <3>1 DEF HandleTypes
      <4>3. \A b \in H!Buf : mem[b] = "held" => b[1] = turn
        BY DEF TapInv
      <4>4. tap' # H!NoBuf => Stale(tap')
        BY <2>0, <4>1 DEF TapInv
      <4>5. \A b \in late' : b[2] = "seed"
        BY <2>0, <4>1, Bufs DEF TapInv, Stale
      <4>6. tap' \in H!Buf \union {H!NoBuf} /\ late' \subseteq H!Buf
        BY <4>1 DEF HandleTypes
      <4> QED BY <2>0, <3>3, <4>1, <4>2, <4>3, <4>4, <4>5, <4>6, AnswerFails DEF Stale
    <3> QED BY <1>7, <2>1, <3>2, <3>3 DEF H!Answer
  <2>2. ASSUME NEW name \in {"first", "head"}, H!ArmFirst = {name} PROVE HandleInv'
    <3> DEFINE b0 == H!B(name)  mine == [mem EXCEPT ![b0] = "held"]
    <3>1. (CHOOSE a \in H!ArmFirst : TRUE) = name
      BY <2>2
    <3>2. b0 \in H!Buf /\ b0[1] = turn /\ b0[2] = name /\ b0 # H!NoBuf
      BY <2>0, OwnBuf, Bufs DEF TapName
    <3>3. due' = [due EXCEPT ![b0] = dpos]
      BY <1>7, <2>2, <3>1 DEF H!Answer
    <3>4. mine \in [H!Buf -> {"unused", "held", "leaked", "freed"}] /\ mine[b0] = "held"
      BY <3>2 DEF HandleTypes
    <3>5. \A b \in H!Buf : b # b0 => mine[b] = mem[b]
      BY DEF HandleTypes
    <3>6. \/ H!Reached(b0, mine) /\ mem' = mine /\ pc' = pc
          \/ /\ H!Failed(b0, mine, H!CanStep) /\ pc' = "idle"
             /\ mem' = H!Dropped(H!Forget(mine, {"first", "head"}))
      BY <1>7, <2>2, <3>1 DEF H!Answer
    <3> HIDE DEF b0, mine
    <3>7. CASE H!Reached(b0, mine) /\ mem' = mine /\ pc' = pc
      <4>1. /\ tap' = H!NoBuf /\ got' \in [H!Buf -> Nat] /\ dpos' = dpos + 1 /\ late' = late
            /\ \A b \in H!Buf : got'[b] = IF b = b0 THEN dpos ELSE got[b]
        BY <3>2, <3>4, <3>7, Fired DEF H!Reached, HandleTypes
      <4>4. mem' \in [H!Buf -> {"unused", "held", "leaked", "freed"}] /\ due' \in [H!Buf -> Nat]
        BY <3>3, <3>4, <3>7 DEF HandleTypes
      <4>2. HandleTypes'
        BY <2>0, <3>7, <4>1, <4>4 DEF HandleTypes
      <4>3. \A b \in H!Buf : mem'[b] = "held" => b[1] = turn /\ got'[b] = due'[b]
        BY <2>0, <3>2, <3>3, <3>5, <3>7, <4>1 DEF TapInv, HandleTypes
      <4> QED BY <2>0, <3>7, <4>1, <4>2, <4>3 DEF TapInv
    <3>8. CASE /\ H!Failed(b0, mine, H!CanStep) /\ pc' = "idle"
               /\ mem' = H!Dropped(H!Forget(mine, {"first", "head"}))
      <4>1. /\ tap' \in {b0, H!NoBuf} /\ got' \in [H!Buf -> Nat] /\ dpos' \in Nat /\ late' = late
        BY <3>2, <3>4, <3>8, FailedTap DEF HandleTypes
      <4>2. due' \in [H!Buf -> Nat]
        BY <3>2, <3>3 DEF HandleTypes
      <4>3. \A b \in H!Buf : mine[b] = "held" => b[1] = turn
        BY <3>2, <3>5 DEF TapInv
      <4>4. \A b \in late' : b[2] = "seed"
        BY <4>1 DEF TapInv
      <4>5. tap' = H!NoBuf \/ (tap' \in H!Buf /\ mine[tap'] = "held" /\ tap'[2] \in {"first", "head"})
        BY <3>2, <3>4, <4>1
      <4>6. tap' \in H!Buf \union {H!NoBuf} /\ late' \subseteq H!Buf
        BY <3>2, <4>1 DEF HandleTypes
      <4> QED BY <2>0, <3>4, <3>8, <4>1, <4>2, <4>3, <4>4, <4>5, <4>6, AnswerFails
    <3> QED BY <3>6, <3>7, <3>8
  <2>3. H!ArmFirst \in {{}, {"first"}, {"head"}}
    BY DEF H!ArmFirst
  <2> QED BY <2>1, <2>2, <2>3
<1>8. CASE H!End
  <2>1. /\ UNCHANGED <<dpos, tap, got, due, late, turn, thoughts>> /\ pc' = "idle" /\ pc = "answer"
        /\ mem' = H!Dropped(mem)
    BY <1>8 DEF H!End
  <2>2. /\ mem' \in [H!Buf -> {"unused", "held", "leaked", "freed"}]
        /\ \A b \in H!Buf : mem'[b] = IF b[1] = turn /\ mem[b] = "held" THEN "freed" ELSE mem[b]
    BY <2>1, DroppedMem DEF HandleTypes
  <2>3. HandleTypes'
    BY <2>1, <2>2 DEF HandleTypes
  <2> QED BY <2>1, <2>2, <2>3 DEF TapInv, Stale, HandleTypes
<1> QED BY <1>1, <1>2, <1>3, <1>4, <1>5, <1>6, <1>7, <1>8 DEF H!Next

LEMMA HandleStutter == ASSUME HandleInv, UNCHANGED H!vars PROVE HandleInv'
BY DEF H!vars, HandleInv, HandleTypes, TapInv, Stale

LEMMA HandleTaps == HandleInv => H!TapsHit
BY DEF HandleInv, TapInv, H!TapsHit

-----------------------------------------------------------------------------
\* The captures of episodes (Captures).
Away(c) == work[c].pc \in {"idle", "over"}

\* Who is at work holds the mutex, and what it has set is what it reads.
Place == [pc : {"idle", "set", "forward", "write", "answer", "over"},
          wr : E!Capture \cup {None}, stale : BOOLEAN, left : SUBSET E!File, failed : BOOLEAN]

CaptureTypes ==
  /\ work \in [E!Capture -> Place]
  /\ disk \in [E!Capture -> [E!File -> E!Capture \cup {None}]]
  /\ outcome \in [E!Capture -> {"none", "ok", "error"}]

Holds == \A c \in E!Capture : ~ Away(c) => kv = c

Points ==
  \A c \in E!Capture :
    /\ work[c].pc \in {"idle", "set", "forward", "over"} => work[c].wr = None /\ ~ work[c].stale
    /\ E!At(c, "forward") => env = c
    /\ E!At(c, "write") => work[c].wr = c /\ ~ work[c].stale

Wrote ==
  \A c \in E!Capture :
    (E!At(c, "write") \/ E!At(c, "answer")) /\ ~ work[c].failed =>
      \A f \in E!File : E!At(c, "answer") \/ f \notin work[c].left => disk[c][f] = c

CaptureInv == CaptureTypes /\ Holds /\ Points /\ Wrote /\ E!CapturesOwn

LEMMA CaptureInit == ASSUME E!CapturesAssumption, E!Init PROVE CaptureInv
BY DEF E!CapturesAssumption, E!Init, CaptureInv, CaptureTypes, Place, Holds, Away, Points, Wrote, E!At, E!CapturesOwn, E!Idle, E!Capture

LEMMA CaptureStep ==
  ASSUME E!CapturesAssumption, Posts = {}, CaptureInv, E!Next \/ UNCHANGED E!vars
  PROVE  CaptureInv'
<1> USE DEF E!CapturesAssumption
<1> USE DEF CaptureInv
<1>1. ASSUME NEW c \in E!Capture, E!Begin(c) PROVE CaptureInv'
  <2>1. CaptureTypes'
    <3> DEFINE Bools == BOOLEAN
    <3>1. work \in [E!Capture -> [pc : {"idle", "set", "forward", "write", "answer", "over"},
             wr : E!Capture \cup {None}, stale : Bools, left : SUBSET E!File, failed : Bools]]
      BY DEF CaptureTypes, Place
    <3> HIDE DEF Bools
    <3>2. work' \in [E!Capture -> [pc : {"idle", "set", "forward", "write", "answer", "over"},
             wr : E!Capture \cup {None}, stale : Bools, left : SUBSET E!File, failed : Bools]]
      BY <1>1, <3>1 DEF E!Begin
    <3>3. work' \in [E!Capture -> Place]
      BY <3>2 DEF Bools, Place
    <3>4. QED BY <1>1, <3>3 DEF E!Begin, CaptureTypes
  <2>2. Holds' BY <1>1, Posts = {} DEF E!Begin, Holds, Away, E!At, CaptureTypes, Place, E!Capture
  <2>3. Points' BY <1>1 DEF E!Begin, Points, E!At, CaptureTypes, Place
  <2>4. Wrote' BY <1>1 DEF E!Begin, Wrote, E!At, CaptureTypes, Place
  <2>5. E!CapturesOwn' BY <1>1 DEF E!Begin, E!CapturesOwn
  <2>6. QED BY <2>1, <2>2, <2>3, <2>4, <2>5
<1>2. ASSUME NEW c \in E!Capture, E!SetDir(c) PROVE CaptureInv'
  <2>1. \A d \in E!Capture : d # c => Away(d) /\ work'[d] = work[d]
    BY <1>2 DEF E!SetDir, E!Moved, Holds, Away, E!At, CaptureTypes, Place, Points
  <2>2. work'[c] = [work[c] EXCEPT !.pc = "forward"]
    BY <1>2 DEF E!SetDir, E!Moved, E!At
  <2>3. CaptureTypes'
    <3>1. work' = [d \in E!Capture |-> work'[d]] BY <1>2 DEF E!SetDir, E!Moved
    <3>2. work[c] \in Place BY DEF CaptureTypes
    <3>3. [work[c] EXCEPT !.pc = "forward"] \in Place BY <3>2 DEF Place
    <3>4. \A d \in E!Capture : work'[d] \in Place
      BY <2>1, <2>2, <3>3 DEF CaptureTypes
    <3>5. QED BY <1>2, <3>1, <3>4 DEF E!SetDir, CaptureTypes
  <2>4. Holds' BY <1>2, <2>1, <2>2 DEF E!SetDir, Holds, Away, E!At, CaptureTypes, Place
  <2>5. Points' BY <1>2, <2>1, <2>2 DEF E!SetDir, Points, Away, E!At, CaptureTypes, Place
  <2>6. Wrote' BY <1>2, <2>1, <2>2 DEF E!SetDir, Wrote, Away, E!At, CaptureTypes, Place
  <2>7. E!CapturesOwn' BY <1>2 DEF E!SetDir, E!CapturesOwn
  <2>8. QED BY <2>3, <2>4, <2>5, <2>6, <2>7
<1>3. ASSUME NEW c \in E!Capture, E!Forward(c) PROVE CaptureInv'
  <2>1. env = c /\ c # None BY <1>3 DEF E!Forward, Points, E!Capture
  <2>2. PICK ok \in BOOLEAN :
          work' = [work EXCEPT ![c].pc = "write", ![c].wr = c, ![c].failed = ~ ok,
                               ![c].left = IF ok THEN E!File ELSE {}]
    BY <1>3, <2>1 DEF E!Forward
  <2>3. CaptureTypes'
    <3> DEFINE failed == ~ ok
               left == IF ok THEN E!File ELSE {}
    <3>1. failed \in BOOLEAN BY Zenon
    <3>2. left \in SUBSET E!File BY Zenon
    <3>3. work' = [work EXCEPT ![c].pc = "write", ![c].wr = c, ![c].failed = failed,
                               ![c].left = left]
      BY <2>2
    <3> HIDE DEF failed, left
    <3> DEFINE place == [pc |-> "write", wr |-> c, stale |-> work[c].stale,
                        left |-> left, failed |-> failed]
    <3>4. work[c] \in Place /\ c \in DOMAIN work BY DEF CaptureTypes
    <3>5. work[c].stale \in BOOLEAN BY <3>4 DEF Place
    <3>6. place \in Place BY <3>1, <3>2, <3>5 DEF Place
    <3>7. work'[c] = place BY <3>3, <3>4 DEF Place
    <3>8. \A d \in E!Capture : d # c => work'[d] = work[d] BY <3>3 DEF CaptureTypes
    <3>9. work' = [d \in E!Capture |-> work'[d]] BY <3>3 DEF CaptureTypes
    <3> HIDE DEF place
    <3>10. \A d \in E!Capture : work'[d] \in Place BY <3>6, <3>7, <3>8 DEF CaptureTypes
    <3>11. QED BY <1>3, <3>9, <3>10 DEF E!Forward, CaptureTypes
  <2>4. Holds' BY <1>3, <2>2 DEF E!Forward, Holds, Away, E!At, CaptureTypes, Place
  <2>5. Points' BY <1>3, <2>1, <2>2 DEF E!Forward, Points, E!At, CaptureTypes, Place
  <2>6. Wrote' BY <1>3, <2>2 DEF E!Forward, Wrote, E!At, CaptureTypes, Place
  <2>7. E!CapturesOwn' BY <1>3 DEF E!Forward, E!CapturesOwn
  <2>8. QED BY <2>3, <2>4, <2>5, <2>6, <2>7
<1>4. ASSUME NEW c \in E!Capture, NEW f \in E!File, E!Write(c, f) PROVE CaptureInv'
  <2>1. disk' = [disk EXCEPT ![c][f] = c]
    BY <1>4 DEF E!Write, Points, E!Capture
  <2>2. work' = [work EXCEPT ![c].left = @ \ {f}] /\ UNCHANGED <<kv, env, outcome>>
    BY <1>4 DEF E!Write
  <2>3. CaptureTypes'
    <3> DEFINE Bools == BOOLEAN
    <3>1. work \in [E!Capture -> [pc : {"idle", "set", "forward", "write", "answer", "over"},
             wr : E!Capture \cup {None}, stale : Bools, left : SUBSET E!File, failed : Bools]]
      BY DEF CaptureTypes, Place
    <3> HIDE DEF Bools
    <3>2. work' \in [E!Capture -> [pc : {"idle", "set", "forward", "write", "answer", "over"},
             wr : E!Capture \cup {None}, stale : Bools, left : SUBSET E!File, failed : Bools]]
      BY <2>2, <3>1
    <3>3. work' \in [E!Capture -> Place]
      BY <3>2 DEF Bools, Place
    <3>4. disk' \in [E!Capture -> [E!File -> E!Capture \cup {None}]]
      BY <2>1 DEF CaptureTypes
    <3>5. QED BY <2>2, <3>3, <3>4 DEF CaptureTypes
  <2>4. Holds' BY <2>2 DEF Holds, Away, CaptureTypes, Place
  <2>5. Points' BY <2>2 DEF Points, E!At, CaptureTypes, Place
  <2>6. Wrote' BY <2>1, <2>2 DEF Wrote, E!At, CaptureTypes, Place
  <2>7. E!CapturesOwn' BY <2>1, <2>2 DEF E!CapturesOwn, CaptureTypes, Place
  <2>8. QED BY <2>3, <2>4, <2>5, <2>6, <2>7
<1>5. ASSUME NEW c \in E!Capture, E!Unset(c) PROVE CaptureInv'
  <2>1. \A d \in E!Capture : d # c => Away(d) /\ work'[d] = work[d]
    BY <1>5 DEF E!Unset, E!Moved, Holds, Away, E!At, CaptureTypes, Place, Points
  <2>2. work'[c] = [work[c] EXCEPT !.pc = "answer"]
    BY <1>5 DEF E!Unset, E!Moved, E!At
  <2>3. CaptureTypes'
    <3>1. work' = [d \in E!Capture |-> work'[d]] BY <1>5 DEF E!Unset, E!Moved
    <3>2. work[c] \in Place BY DEF CaptureTypes
    <3>3. [work[c] EXCEPT !.pc = "answer"] \in Place BY <3>2 DEF Place
    <3>4. \A d \in E!Capture : work'[d] \in Place
      BY <2>1, <2>2, <3>3 DEF CaptureTypes
    <3>5. QED BY <1>5, <3>1, <3>4 DEF E!Unset, CaptureTypes
  <2>4. Holds' BY <1>5, <2>1, <2>2 DEF E!Unset, Holds, Away, E!At, CaptureTypes, Place
  <2>5. Points' BY <1>5, <2>1, <2>2 DEF E!Unset, Points, Away, E!At, CaptureTypes, Place
  <2>6. Wrote' BY <1>5, <2>1, <2>2 DEF E!Unset, Wrote, Away, E!At, CaptureTypes, Place
  <2>7. E!CapturesOwn' BY <1>5 DEF E!Unset, E!CapturesOwn
  <2>8. QED BY <2>3, <2>4, <2>5, <2>6, <2>7
<1>6. ASSUME NEW c \in E!Capture, E!Answer(c) PROVE CaptureInv'
  <2>1. kv = c BY <1>6 DEF E!Answer, Holds, Away, E!At
  <2>2. CaptureTypes' BY <1>6 DEF E!Answer, CaptureTypes, Place, E!Idle
  <2>3. Holds' BY <1>6, <2>1 DEF E!Answer, Holds, Away, E!At, CaptureTypes, Place, E!Idle
  <2>4. Points' BY <1>6 DEF E!Answer, Points, E!At, CaptureTypes, Place, E!Idle
  <2>5. Wrote' BY <1>6 DEF E!Answer, Wrote, E!At, CaptureTypes, Place, E!Idle
  <2>6. ~ work[c].failed => disk[c] = [f \in E!File |-> c]
    BY <1>6 DEF E!Answer, Wrote, E!At, CaptureTypes, Place
  <2>7. E!CapturesOwn'
    BY <1>6, <2>6 DEF E!Answer, E!CapturesOwn, E!Kept, CaptureTypes, Place
  <2>8. QED BY <2>2, <2>3, <2>4, <2>5, <2>7
<1>7. CASE UNCHANGED E!vars
  BY <1>7 DEF E!vars, CaptureTypes, Place, Holds, Away, Points, Wrote, E!At, E!CapturesOwn
<1> QED BY <1>1, <1>2, <1>3, <1>4, <1>5, <1>6, <1>7 DEF E!Next

-----------------------------------------------------------------------------
\* The curator of episodes (Curator).
Cell == Nat \union {Gone}

\* The rows of episode e and of the first n inputs of the pass over secret s.
Input(e, s, i) == IF i = 1 THEN e[Len(e)] ELSE s[i - 1]
Rows(e, s, n)  == [i \in 1 .. Len(e) + n |-> IF i <= Len(e) THEN e[i] ELSE Input(e, s, i - Len(e))]

LEMMA FunctionIsSeq ==
  ASSUME NEW S, NEW n \in Nat, NEW F, F = [i \in 1 .. n |-> F[i]], \A i \in 1 .. n : F[i] \in S
  PROVE  F \in Seq(S) /\ Len(F) = n
<1>1. F \in [1 .. n -> S]
  OBVIOUS
<1>2. F \in Seq(S)
  BY <1>1, SeqDef
<1>3. DOMAIN F = 1 .. n
  BY <1>1
<1> QED BY <1>2, <1>3, LenProperties

LEMMA RowsFacts ==
  ASSUME NEW e \in Seq(Nat), NEW s \in Seq(Nat), NEW n \in Nat, Len(e) > 1, n <= Len(s)
  PROVE  /\ Rows(e, s, n) \in Seq(Cell) /\ Len(Rows(e, s, n)) = Len(e) + n
         /\ \A i \in 1 .. Len(e) : Rows(e, s, n)[i] = e[i]
         /\ Rows(e, s, 0) = e
<1>1. Len(e) \in Nat /\ Len(s) \in Nat /\ e = [i \in 1 .. Len(e) |-> e[i]]
  BY LenProperties, SeqDef
<1>2. ASSUME NEW i \in 1 .. Len(e) + n PROVE Rows(e, s, n)[i] \in Cell
  <2>1. CASE i <= Len(e)
    <3>1. e[i] \in Nat
      BY <1>1, <2>1, ElementOfSeq
    <3> QED BY <1>1, <2>1, <3>1 DEF Rows, Cell
  <2>2. CASE i - Len(e) = 1
    <3>1. e[Len(e)] \in Nat
      BY <1>1, ElementOfSeq
    <3> QED BY <1>1, <2>2, <3>1 DEF Rows, Input, Cell
  <2>3. CASE i - Len(e) > 1
    <3>1. i - Len(e) - 1 \in 1 .. Len(s)
      BY <1>1, <2>3
    <3>2. s[i - Len(e) - 1] \in Nat
      BY <3>1, ElementOfSeq
    <3> QED BY <1>1, <2>3, <3>2 DEF Rows, Input, Cell
  <2> QED BY <1>1, <2>1, <2>2, <2>3
<1>3. Rows(e, s, n) \in Seq(Cell) /\ Len(Rows(e, s, n)) = Len(e) + n
  <2> DEFINE r == Rows(e, s, n)
  <2>1. r = [i \in 1 .. Len(e) + n |-> r[i]]
    BY DEF Rows
  <2>2. Len(e) + n \in Nat
    BY <1>1
  <2> HIDE DEF r
  <2>3. \A i \in 1 .. Len(e) + n : r[i] \in Cell
    BY <1>2 DEF r
  <2>4. r \in Seq(Cell) /\ Len(r) = Len(e) + n
    BY <2>1, <2>2, <2>3, FunctionIsSeq
  <2> QED BY <2>4 DEF r
<1>4. \A i \in 1 .. Len(e) : Rows(e, s, n)[i] = e[i]
  BY <1>1 DEF Rows
<1>5. Rows(e, s, 0) = [i \in 1 .. Len(e) |-> e[i]]
  BY <1>1 DEF Rows
<1> QED BY <1>1, <1>3, <1>4, <1>5

LEMMA Appended ==
  ASSUME NEW S, NEW r \in Seq(S), NEW m \in S
  PROVE  /\ Append(r, m) \in Seq(S) /\ Len(Append(r, m)) = Len(r) + 1
         /\ \A i \in 1 .. Len(r) : Append(r, m)[i] = r[i]
         /\ Append(r, m)[Len(r) + 1] = m
BY AppendProperties

LEMMA SameButLast ==
  ASSUME NEW l \in Nat, NEW a, NEW b, NEW r, NEW m, a[l + 1] = m, b[l + 1] = m,
         \A i \in 1 .. l : a[i] = r[i], \A i \in 1 .. l : b[i] = r[i]
  PROVE  \A i \in 1 .. l + 1 : a[i] = b[i]
OBVIOUS

LEMMA AppendParts ==
  ASSUME NEW S, NEW r \in Seq(S), NEW m \in S, NEW a, NEW l
  PROVE  a = Append(r, m) /\ l = Len(r)
         => /\ l \in Nat /\ a \in Seq(S) /\ Len(a) = l + 1
            /\ (\A i \in 1 .. l : a[i] = r[i]) /\ a[l + 1] = m
BY Appended, LenProperties

LEMMA AppendIs ==
  ASSUME NEW S, NEW r \in Seq(S), NEW m \in S, NEW b \in Seq(S), NEW l
  PROVE  l = Len(r) /\ Len(b) = l + 1 /\ (\A i \in 1 .. l : b[i] = r[i]) /\ b[l + 1] = m
         => Append(r, m) = b
<1>1. PICK a : a = Append(r, m)
  OBVIOUS
<1>2. l = Len(r)
         => /\ l \in Nat /\ a \in Seq(S) /\ Len(a) = l + 1
            /\ (\A i \in 1 .. l : a[i] = r[i]) /\ a[l + 1] = m
  BY <1>1, AppendParts
<1>3. ASSUME l = Len(r), Len(b) = l + 1, \A i \in 1 .. l : b[i] = r[i], b[l + 1] = m
      PROVE  a = b
  <2>0. l \in Nat /\ (\A i \in 1 .. l : a[i] = r[i]) /\ a[l + 1] = m
    BY <1>2, <1>3, Zenon
  <2>1. \A i \in 1 .. l + 1 : a[i] = b[i]
    BY <2>0, <1>3, SameButLast
  <2>2. Len(a) = l + 1 /\ a \in Seq(S)
    BY <1>2, <1>3, Zenon
  <2>3. Len(a) = Len(b) /\ (\A i \in 1 .. Len(a) : a[i] = b[i])
    BY <1>3, <2>1, <2>2, Zenon
  <2> QED BY <2>2, <2>3, SeqEqual, Zenon
<1> QED BY <1>1, <1>3

LEMMA RowsGrow ==
  ASSUME NEW e \in Seq(Nat), NEW s \in Seq(Nat), NEW n \in Nat, Len(e) > 1, n + 1 <= Len(s)
  PROVE  /\ Append(Rows(e, s, n), Input(e, s, n + 1)) = Rows(e, s, n + 1)
         /\ Input(e, s, n + 1) \in Cell
<1> DEFINE a == Rows(e, s, n)  x == Input(e, s, n + 1)  b == Rows(e, s, n + 1)
<1>1. Len(e) \in Nat /\ Len(s) \in Nat
  BY LenProperties
<1>2. a \in Seq(Cell) /\ Len(a) = Len(e) + n
  BY <1>1, RowsFacts
<1>3. b \in Seq(Cell) /\ Len(b) = Len(e) + n + 1
  BY <1>1, RowsFacts
<1>4. b[Len(e) + n + 1] = x /\ \A i \in 1 .. Len(e) + n : b[i] = a[i]
  BY <1>1 DEF Rows, Input
<1>5. x \in Cell
  <2>1. Len(e) + n + 1 \in 1 .. Len(b)
    BY <1>1, <1>3
  <2> HIDE DEF b, x
  <2> QED BY <1>3, <1>4, <2>1, ElementOfSeq
<1> HIDE DEF a, b, x
<1>6. PICK l : l = Len(a)
  OBVIOUS
<1>7. Len(b) = l + 1 /\ (\A i \in 1 .. l : b[i] = a[i]) /\ b[l + 1] = x
  BY <1>1, <1>2, <1>3, <1>4, <1>6
<1>8. a \in Seq(Cell) /\ b \in Seq(Cell) /\ x \in Cell
  BY <1>2, <1>3, <1>5
<1>9. l = Len(a) /\ Len(b) = l + 1 /\ (\A i \in 1 .. l : b[i] = a[i]) /\ b[l + 1] = x
         => Append(a, x) = b
  BY <1>8, AppendIs
<1>10. Append(a, x) = b
  BY <1>6, <1>7, <1>9
<1> QED BY <1>5, <1>10 DEF a, b, x

LEMMA AblatedFacts ==
  ASSUME NEW r \in Seq(Cell), NEW ps
  PROVE  /\ C!Ablated(r, ps) \in Seq(Cell) /\ Len(C!Ablated(r, ps)) = Len(r)
         /\ \A i \in 1 .. Len(r) : C!Ablated(r, ps)[i] = IF i \in ps THEN Gone ELSE r[i]
<1>1. Len(r) \in Nat /\ DOMAIN r = 1 .. Len(r)
  BY LenProperties
<1> DEFINE a == C!Ablated(r, ps)
<1>2. a = [i \in 1 .. Len(r) |-> a[i]] /\ \A i \in 1 .. Len(r) : a[i] = IF i \in ps THEN Gone ELSE r[i]
  BY <1>1 DEF C!Ablated
<1>3. \A i \in 1 .. Len(r) : r[i] \in Cell
  BY ElementOfSeq
<1> HIDE DEF a
<1>4. \A i \in 1 .. Len(r) : a[i] \in Cell
  BY <1>2, <1>3 DEF Cell
<1>5. a \in Seq(Cell) /\ Len(a) = Len(r)
  BY <1>1, <1>2, <1>4, FunctionIsSeq
<1> QED BY <1>2, <1>5 DEF a

LEMMA AblatedGrow ==
  ASSUME NEW r \in Seq(Cell), NEW x \in Cell, NEW ps, \A p \in ps : p \in 1 .. Len(r)
  PROVE  Append(C!Ablated(r, ps), x) = C!Ablated(Append(r, x), ps)
<1> DEFINE a == C!Ablated(r, ps)  b == Append(r, x)  c == C!Ablated(b, ps)
<1>1. Len(r) \in Nat
  BY LenProperties
<1>2. a \in Seq(Cell) /\ Len(a) = Len(r) /\ \A i \in 1 .. Len(r) : a[i] = IF i \in ps THEN Gone ELSE r[i]
  BY AblatedFacts
<1>3. b \in Seq(Cell) /\ Len(b) = Len(r) + 1 /\ (\A i \in 1 .. Len(r) : b[i] = r[i]) /\ b[Len(r) + 1] = x
  BY AppendProperties
<1> HIDE DEF b
<1>4. c \in Seq(Cell) /\ Len(c) = Len(b) /\ \A i \in 1 .. Len(b) : c[i] = IF i \in ps THEN Gone ELSE b[i]
  BY <1>3, AblatedFacts
<1> HIDE DEF a, c
<1>5. /\ Append(a, x) \in Seq(Cell) /\ Len(Append(a, x)) = Len(a) + 1
      /\ \A i \in 1 .. Len(a) : Append(a, x)[i] = a[i]
      /\ Append(a, x)[Len(a) + 1] = x
  BY <1>2, AppendProperties
<1>6. Len(r) + 1 \notin ps
  BY <1>1
<1>7. \A i \in 1 .. Len(c) : Append(a, x)[i] = c[i]
  BY <1>1, <1>2, <1>3, <1>4, <1>5, <1>6
<1>8. Append(a, x) = c
  BY <1>2, <1>3, <1>4, <1>5, <1>7, SeqEqual
<1> QED BY <1>8 DEF a, b, c

\* What a rewind by n leaves of rows that are n longer than the episode.
LEMMA Rewinding ==
  ASSUME NEW r \in Seq(Cell), NEW e \in Seq(Cell), NEW n \in Nat, Len(r) = Len(e) + n,
         \A i \in 1 .. Len(e) : r[i] = e[i]
  PROVE  SubSeq(r, 1, Len(r) - n) = e
<1> DEFINE k == Len(r) - n
<1>1. Len(e) \in Nat /\ Len(r) \in Nat /\ k = Len(e)
  BY LenProperties
<1>2. \A i \in 1 .. k : r[i] \in Cell
  BY <1>1, ElementOfSeq
<1> HIDE DEF k
<1>3. /\ SubSeq(r, 1, k) \in Seq(Cell)
      /\ Len(SubSeq(r, 1, k)) = IF 1 <= k THEN k - 1 + 1 ELSE 0
      /\ \A i \in 1 .. k - 1 + 1 : SubSeq(r, 1, k)[i] = r[1 + i - 1]
  BY <1>1, <1>2, SubSeqProperties
<1>4. Len(SubSeq(r, 1, k)) = Len(e) /\ \A i \in 1 .. Len(e) : SubSeq(r, 1, k)[i] = e[i]
  BY <1>1, <1>3
<1>5. SubSeq(r, 1, k) = e
  BY <1>3, <1>4, SeqEqual
<1> QED BY <1>5 DEF k


LEMMA NothingAblated ==
  ASSUME NEW r \in Seq(Cell)
  PROVE  C!Ablated(r, {}) = r
<1>1. /\ C!Ablated(r, {}) \in Seq(Cell) /\ Len(C!Ablated(r, {})) = Len(r)
      /\ \A i \in 1 .. Len(r) : C!Ablated(r, {})[i] = r[i]
  BY AblatedFacts
<1> QED BY <1>1, SeqEqual

-----------------------------------------------------------------------------
Scored == {"score", "back", "again", "judge"}

CurTypes ==
  /\ queue \subseteq Episodes /\ broken \in BOOLEAN
  /\ stage \in {"next", "open", "replay"} \union Scored
  /\ stage # "next" => ep \in Episodes /\ secret \in Secrets /\ C!npos > 1
  /\ stage \in Scored => held \in Seq(Cell) /\ Len(held) >= C!npos
  /\ lpe \in Seq(Seq(Cell)) /\ lpa \in Seq(Seq(Cell))
  /\ stage \in {"open", "replay"} => lpe = <<>>
  /\ stage \in {"open", "replay", "score", "back"} => lpa = <<>> /\ targets = {}
  /\ stage \in {"next", "open"} => held = C!Closed
  /\ stage = "replay" => held = <<>>

FirstPass ==
  /\ stage \in Scored =>
       Len(lpe) <= Len(secret) /\ \A j \in 1 .. Len(lpe) : lpe[j] = Rows(ep, secret, j)
  /\ stage = "score" => held = Rows(ep, secret, Len(lpe))
  /\ stage = "back" => Len(held) >= C!npos + Len(lpe)
  /\ stage = "back" /\ ~ broken => held = Rows(ep, secret, Len(lpe))

SecondPass ==
  stage \in {"again", "judge"} =>
    /\ Len(lpa) <= Len(lpe)
    /\ \A p \in targets : p \in 1 .. C!npos /\ \E i \in 1 .. Len(lpe) : secret[i] = ep[p]
    /\ ~ broken => held = C!Ablated(Rows(ep, secret, Len(lpa)), targets)

Differ == \A j \in 1 .. Len(lpa) : j \in DOMAIN lpe /\ lpa[j] = C!Ablated(lpe[j], targets)

Admitted == \A e \in accepted : \E s \in Secrets : \E i \in DOMAIN s, p \in DOMAIN e : s[i] = e[p]

CurInv == CurTypes /\ FirstPass /\ SecondPass /\ Differ /\ Admitted

LEMMA EpisodeFacts ==
  ASSUME C!CuratorAssumption, CurTypes, stage # "next"
  PROVE  /\ ep \in Seq(Nat) /\ secret \in Seq(Nat) /\ C!npos \in Nat /\ C!npos > 1 /\ C!npos = Len(ep)
         /\ Len(secret) \in Nat /\ Len(lpe) \in Nat /\ Len(lpa) \in Nat
BY LenProperties DEF C!CuratorAssumption, CurTypes, C!npos

\* One more score at the end of a pass.
LEMMA OneMore ==
  ASSUME NEW s \in Seq(Seq(Cell)), NEW r \in Seq(Cell), NEW l
  PROVE  l = Len(s) =>
         /\ Append(s, r) \in Seq(Seq(Cell)) /\ Len(Append(s, r)) = l + 1
         /\ l \in Nat
         /\ \A j \in 1 .. l : Append(s, r)[j] = s[j]
         /\ Append(s, r)[l + 1] = r
<1>1. r \in Seq(Cell) /\ s \in Seq(Seq(Cell))
  OBVIOUS
<1> QED BY <1>1, AppendParts

LEMMA VisitKeeps == ASSUME C!CuratorAssumption, CurInv, C!Visit PROVE CurInv'
<1> USE DEF CurInv
<1>1. /\ stage = "next" /\ held' = held /\ held = C!Closed /\ broken' = broken /\ accepted' = accepted
      /\ lpe' = <<>> /\ lpa' = <<>> /\ targets' = {} /\ queue' \subseteq Episodes
      /\ \/ stage' = "next"
         \/ stage' = "open" /\ ep' \in Episodes /\ secret' \in Secrets /\ Len(ep') >= MinTokens
  BY DEF C!Visit, CurTypes, C!counts
<1>2. stage' # "next" => C!npos' > 1
  <2> SUFFICES ASSUME stage' # "next" PROVE C!npos' > 1
    OBVIOUS
  <2>1. Len(ep') >= MinTokens /\ MinTokens > 1 /\ MinTokens \in Nat /\ ep' \in Seq(Nat)
    BY <1>1 DEF C!CuratorAssumption
  <2>2. Len(ep') \in Nat
    BY <2>1, LenProperties
  <2> QED BY <2>1, <2>2 DEF C!npos
<1>3. CurTypes'
  BY <1>1, <1>2 DEF CurTypes, Scored
<1>4. FirstPass' /\ SecondPass'
  BY <1>1 DEF FirstPass, SecondPass, Scored
<1>5. Differ'
  BY <1>1 DEF Differ
<1>6. Admitted'
  BY <1>1 DEF Admitted
<1> QED BY <1>3, <1>4, <1>5, <1>6

LEMMA OpenKeeps == ASSUME C!CuratorAssumption, CurInv, C!Open PROVE CurInv'
<1> USE DEF CurInv
<1>1. /\ stage = "open" /\ UNCHANGED <<queue, ep, secret, lpe, lpa, targets, broken, accepted>>
      /\ \/ held' = <<>> /\ stage' = "replay"
         \/ stage' = "next" /\ held' = held
  BY DEF C!Open, C!scores, C!counts
<1>2. C!npos' = C!npos
  BY <1>1 DEF C!npos
<1>3. CurTypes'
  BY <1>1, <1>2 DEF CurTypes, Scored
<1>4. FirstPass' /\ SecondPass' /\ Differ' /\ Admitted'
  BY <1>1 DEF FirstPass, SecondPass, Scored, Differ, Admitted
<1> QED BY <1>3, <1>4

LEMMA ReplayKeeps == ASSUME C!CuratorAssumption, CurInv, C!Replay PROVE CurInv'
<1> USE DEF CurInv
<1>1. /\ stage = "replay" /\ UNCHANGED <<queue, ep, secret, lpe, lpa, targets, broken, accepted>>
      /\ \/ held' = C!Closed /\ stage' = "next"
         \/ held' = ep /\ stage' = "score"
  BY DEF C!Replay, C!scores, C!counts, C!Skip
<1>2. C!npos' = C!npos /\ lpe = <<>> /\ lpa = <<>> /\ targets = {} /\ Len(lpe) = 0
  BY <1>1 DEF C!npos, CurTypes
<1>3. /\ ep \in Seq(Nat) /\ secret \in Seq(Nat) /\ C!npos \in Nat /\ C!npos > 1 /\ C!npos = Len(ep)
      /\ Len(secret) \in Nat
  BY <1>1, EpisodeFacts
<1>4. ep = Rows(ep, secret, 0) /\ ep \in Seq(Cell)
  <2>1. 0 \in Nat /\ 0 <= Len(secret)
    BY <1>3
  <2>2. Rows(ep, secret, 0) \in Seq(Cell) /\ Rows(ep, secret, 0) = ep
    BY <1>3, <2>1, RowsFacts
  <2> QED BY <2>2
<1>5. CurTypes'
  BY <1>1, <1>2, <1>3, <1>4 DEF CurTypes, Scored
<1>6. FirstPass' /\ SecondPass' /\ Differ' /\ Admitted'
  BY <1>1, <1>2, <1>3, <1>4 DEF FirstPass, SecondPass, Scored, Differ, Admitted
<1> QED BY <1>5, <1>6

LEMMA ScoreKeeps == ASSUME C!CuratorAssumption, CurInv, C!Score PROVE CurInv'
<1> USE DEF CurInv
<1>1. /\ stage = "score" /\ UNCHANGED <<queue, ep, secret, lpa, targets, accepted>>
  BY DEF C!Score, C!counts
<1>2. /\ C!npos' = C!npos /\ lpa = <<>> /\ targets = {} /\ held \in Seq(Cell) /\ Len(held) >= C!npos
      /\ held = Rows(ep, secret, Len(lpe)) /\ lpe \in Seq(Seq(Cell))
      /\ Len(lpe) <= Len(secret) /\ \A j \in 1 .. Len(lpe) : lpe[j] = Rows(ep, secret, j)
  BY <1>1 DEF C!npos, CurTypes, FirstPass, Scored
<1>3. /\ ep \in Seq(Nat) /\ secret \in Seq(Nat) /\ C!npos \in Nat /\ C!npos > 1 /\ C!npos = Len(ep)
      /\ Len(secret) \in Nat /\ Len(lpe) \in Nat
  BY <1>1, EpisodeFacts
<1> DEFINE k == Len(lpe)  more == Append(held, C!Fed(k + 1))
<1>4. k < Len(secret)
      => /\ more = Rows(ep, secret, k + 1)
         /\ more \in Seq(Cell) /\ Len(more) = C!npos + k + 1
  <2> SUFFICES ASSUME k < Len(secret) PROVE more = Rows(ep, secret, k + 1) /\ more \in Seq(Cell)
                                            /\ Len(more) = C!npos + k + 1
    OBVIOUS
  <2>1. k \in Nat /\ k + 1 \in Nat /\ k + 1 <= Len(secret)
    BY <1>3
  <2>2. C!Fed(k + 1) = Input(ep, secret, k + 1)
    BY DEF C!Fed, Input, C!npos
  <2>3. Append(Rows(ep, secret, k), Input(ep, secret, k + 1)) = Rows(ep, secret, k + 1)
    BY <1>3, <2>1, RowsGrow
  <2>4. Rows(ep, secret, k + 1) \in Seq(Cell) /\ Len(Rows(ep, secret, k + 1)) = Len(ep) + (k + 1)
    BY <1>3, <2>1, RowsFacts
  <2>5. more = Rows(ep, secret, k + 1)
    BY <1>2, <2>2, <2>3, Zenon
  <2> HIDE DEF more
  <2> QED BY <1>3, <2>1, <2>4, <2>5
<1>5. Len(held) = C!npos + k
  <2>1. Len(Rows(ep, secret, k)) = Len(ep) + k
    BY <1>2, <1>3, RowsFacts
  <2> QED BY <1>2, <1>3, <2>1
<1>6. CASE C!Advance(lpe, Len(secret)) /\ lpe' = Append(lpe, held') /\ UNCHANGED <<stage, broken>>
  <2>1. k < Len(secret) /\ held' = more
    BY <1>6 DEF C!Advance
  <2> HIDE DEF more
  <2>2. /\ lpe' \in Seq(Seq(Cell)) /\ Len(lpe') = k + 1
        /\ \A j \in 1 .. k : lpe'[j] = lpe[j]
        /\ lpe'[k + 1] = more
    <3>1. lpe' = Append(lpe, more) /\ more \in Seq(Cell)
      BY <1>4, <1>6, <2>1
    <3> QED BY <1>2, <3>1, OneMore
  <2> HIDE DEF k
  <2>3. k \in Nat /\ (\A j \in 1 .. k : lpe[j] = Rows(ep, secret, j))
    BY <1>2, <1>3 DEF k
  <2>4. \A j \in 1 .. k + 1 : lpe'[j] = Rows(ep, secret, j)
    <3>1. \A j \in 1 .. k + 1 : j \in 1 .. k \/ j = k + 1
      BY <2>3
    <3>2. more = Rows(ep, secret, k + 1)
      BY <1>4, <2>1, Zenon
    <3> QED BY <2>2, <2>3, <3>1, <3>2, Zenon
  <2>5. CurTypes'
    BY <1>1, <1>2, <1>3, <1>4, <1>6, <2>1, <2>2, <2>3 DEF CurTypes, Scored
  <2>6. FirstPass'
    <3>1. stage' = "score" /\ ep' = ep /\ secret' = secret
      BY <1>1, <1>6
    <3>2. held' = Rows(ep', secret', Len(lpe'))
      BY <1>4, <2>1, <2>2, <3>1, Zenon
    <3>3. Len(lpe') <= Len(secret')
      <4>1. k + 1 <= Len(secret)
        BY <1>3, <2>1, <2>3
      <4> QED BY <2>2, <3>1, <4>1, Zenon
    <3>4. \A j \in 1 .. Len(lpe') : lpe'[j] = Rows(ep', secret', j)
      BY <2>2, <2>4, <3>1, Zenon
    <3> QED BY <3>1, <3>2, <3>3, <3>4, Zenon DEF FirstPass, Scored
  <2>7. SecondPass' /\ Differ' /\ Admitted'
    BY <1>1, <1>2, <1>6 DEF SecondPass, Differ, Admitted
  <2> QED BY <2>5, <2>6, <2>7
<1>7. CASE lpe' = lpe /\ stage' = "back"
           /\ \/ held' = held
              \/ held' = more /\ k < Len(secret) /\ broken' = TRUE
  <2> HIDE DEF more
  <2>1. held' \in Seq(Cell) /\ Len(held') >= C!npos + k
    BY <1>2, <1>3, <1>4, <1>5, <1>7
  <2>2. broken' \in BOOLEAN
    BY <1>1 DEF C!Score, C!Advance, C!Faults, CurTypes
  <2>3. CurTypes'
    BY <1>1, <1>2, <1>3, <1>7, <2>1, <2>2 DEF CurTypes, Scored
  <2>4. FirstPass'
    BY <1>1, <1>2, <1>3, <1>7, <2>1 DEF FirstPass, Scored
  <2>5. SecondPass' /\ Differ' /\ Admitted'
    BY <1>1, <1>2, <1>7 DEF SecondPass, Differ, Admitted
  <2> QED BY <2>3, <2>4, <2>5
<1> QED BY <1>6, <1>7 DEF C!Score, C!Faults

LEMMA RewoundFacts ==
  ASSUME NEW r \in Seq(Cell), NEW n \in Nat, NEW k \in Nat, k = Len(r) - n
  PROVE  SubSeq(r, 1, k) \in Seq(Cell) /\ Len(SubSeq(r, 1, k)) = k
<1>1. Len(r) \in Nat
  BY LenProperties
<1>2. \A i \in 1 .. k : r[i] \in Cell
  BY <1>1, ElementOfSeq
<1>3. /\ SubSeq(r, 1, k) \in Seq(Cell)
      /\ Len(SubSeq(r, 1, k)) = IF 1 <= k THEN k - 1 + 1 ELSE 0
  BY <1>1, <1>2, SubSeqProperties
<1> QED BY <1>3

LEMMA BackKeeps == ASSUME C!CuratorAssumption, CurInv, C!Back PROVE CurInv'
<1> USE DEF CurInv
<1>1. stage = "back" /\ UNCHANGED <<queue, ep, secret, lpe, lpa, broken>>
  BY DEF C!Back
<1>2. /\ C!npos' = C!npos /\ lpa = <<>> /\ targets = {} /\ held \in Seq(Cell)
      /\ lpe \in Seq(Seq(Cell)) /\ Len(held) >= C!npos + Len(lpe)
      /\ ~ broken => held = Rows(ep, secret, Len(lpe))
      /\ Len(lpe) <= Len(secret) /\ \A j \in 1 .. Len(lpe) : lpe[j] = Rows(ep, secret, j)
  BY <1>1 DEF C!npos, CurTypes, FirstPass, Scored
<1>3. /\ ep \in Seq(Nat) /\ secret \in Seq(Nat) /\ C!npos \in Nat /\ C!npos > 1 /\ C!npos = Len(ep)
      /\ Len(secret) \in Nat /\ Len(lpe) \in Nat
  BY <1>1, EpisodeFacts
<1>4. CASE lpe = <<>>
  <2>1. held' = C!Closed /\ stage' = "next" /\ accepted' = accepted /\ targets' = targets
    BY <1>4 DEF C!Back, C!Skip
  <2>2. CurTypes'
    BY <1>1, <1>2, <2>1 DEF CurTypes, Scored
  <2> QED BY <1>1, <1>2, <2>1, <2>2 DEF FirstPass, SecondPass, Scored, Differ, Admitted
<1>5. CASE lpe # <<>>
  <2> DEFINE n == Len(lpe)  w == C!Rewound(n)  k == Len(held) - n
  <2>1. /\ stage' = "again" /\ targets' \in {C!Targets, {}} /\ held' = C!Ablated(w, targets')
        /\ accepted' = accepted
    BY <1>5 DEF C!Back, C!counts
  <2>2. Len(held) \in Nat /\ n \in Nat /\ k \in Nat /\ k >= C!npos
    BY <1>2, <1>3, LenProperties
  <2>3. w \in Seq(Cell) /\ Len(w) = k
    <3>1. w = SubSeq(held, 1, k)
      BY DEF C!Rewound
    <3> HIDE DEF w
    <3> QED BY <1>2, <2>2, <3>1, RewoundFacts
  <2>4. ~ broken => w = Rows(ep, secret, 0)
    <3> SUFFICES ASSUME ~ broken PROVE w = Rows(ep, secret, 0)
      OBVIOUS
    <3>1. held = Rows(ep, secret, n)
      BY <1>2
    <3>2. Len(held) = Len(ep) + n /\ \A i \in 1 .. Len(ep) : held[i] = ep[i]
      BY <1>2, <1>3, <3>1, RowsFacts
    <3>3. ep \in Seq(Cell) /\ Rows(ep, secret, 0) = ep
      <4>1. 0 \in Nat /\ 0 <= Len(secret)
        BY <1>3
      <4> QED BY <1>3, <4>1, RowsFacts
    <3>4. SubSeq(held, 1, Len(held) - n) = ep
      BY <1>2, <2>2, <3>2, <3>3, Rewinding
    <3> QED BY <3>3, <3>4 DEF C!Rewound
  <2> HIDE DEF w, k
  <2>5. PICK ps : ps = targets'
    OBVIOUS
  <2>6. held' = C!Ablated(w, ps) /\ held' \in Seq(Cell) /\ Len(held') = k
    BY <2>1, <2>3, <2>5, AblatedFacts
  <2>7. \A p \in ps : p \in 1 .. C!npos /\ \E i \in 1 .. n : secret[i] = ep[p]
    BY <2>1, <2>5 DEF C!Targets
  <2>8. CurTypes'
    BY <1>1, <1>2, <1>3, <2>1, <2>2, <2>6 DEF CurTypes, Scored
  <2>9. FirstPass'
    BY <1>1, <1>2, <2>1 DEF FirstPass, Scored
  <2>10. SecondPass'
    <3>1. Len(lpa') = 0 /\ Len(lpe') = n /\ n >= 0
      BY <1>1, <1>2, <2>2
    <3>2. ~ broken' => held' = C!Ablated(Rows(ep', secret', Len(lpa')), targets')
      BY <1>1, <2>4, <2>5, <2>6, <3>1
    <3>3. \A p \in targets' : p \in 1 .. C!npos' /\ \E i \in 1 .. Len(lpe') : secret'[i] = ep'[p]
      BY <1>1, <1>2, <2>5, <2>7
    <3> QED BY <3>1, <3>2, <3>3 DEF SecondPass
  <2>11. Differ' /\ Admitted'
    BY <1>1, <1>2, <2>1 DEF Differ, Admitted
  <2> QED BY <2>8, <2>9, <2>10, <2>11
<1> QED BY <1>4, <1>5

LEMMA AgainKeeps == ASSUME C!CuratorAssumption, CurInv, C!Again PROVE CurInv'
<1> USE DEF CurInv
<1>1. stage = "again" /\ UNCHANGED <<queue, ep, secret, lpe, targets, accepted>>
  BY DEF C!Again, C!counts
<1>2. /\ C!npos' = C!npos /\ held \in Seq(Cell) /\ Len(held) >= C!npos
      /\ lpe \in Seq(Seq(Cell)) /\ lpa \in Seq(Seq(Cell)) /\ Len(lpa) <= Len(lpe)
      /\ ~ broken => held = C!Ablated(Rows(ep, secret, Len(lpa)), targets)
      /\ Len(lpe) <= Len(secret) /\ \A j \in 1 .. Len(lpe) : lpe[j] = Rows(ep, secret, j)
      /\ \A p \in targets : p \in 1 .. C!npos
  BY <1>1 DEF C!npos, CurTypes, FirstPass, SecondPass, Scored
<1>3. /\ ep \in Seq(Nat) /\ secret \in Seq(Nat) /\ C!npos \in Nat /\ C!npos > 1 /\ C!npos = Len(ep)
      /\ Len(secret) \in Nat /\ Len(lpe) \in Nat /\ Len(lpa) \in Nat
  BY <1>1, EpisodeFacts
<1> DEFINE m == Len(lpa)  more == Append(held, C!Fed(m + 1))
<1>4. C!Fed(m + 1) = Input(ep, secret, m + 1)
  BY DEF C!Fed, Input, C!npos
<1>5. m < Len(lpe) => more \in Seq(Cell) /\ Len(more) >= C!npos
  <2> SUFFICES ASSUME m < Len(lpe) PROVE more \in Seq(Cell) /\ Len(more) >= C!npos
    OBVIOUS
  <2>1. m \in Nat /\ m + 1 <= Len(secret)
    BY <1>2, <1>3
  <2>2. C!Fed(m + 1) \in Cell
    BY <1>3, <1>4, <2>1, RowsGrow
  <2>3. more \in Seq(Cell) /\ Len(more) = Len(held) + 1
    <3>1. PICK l : l = Len(held)
      OBVIOUS
    <3>2. l = Len(held) => more \in Seq(Cell) /\ Len(more) = l + 1
      BY <1>2, <2>2, AppendParts
    <3> QED BY <3>1, <3>2
  <2> HIDE DEF more
  <2>4. Len(held) \in Nat
    BY <1>2, LenProperties
  <2> QED BY <1>2, <1>3, <2>3, <2>4
<1>6. m < Len(lpe) /\ ~ broken
      => more = C!Ablated(Rows(ep, secret, m + 1), targets) /\ m + 1 \in 1 .. Len(lpe)
         /\ more = C!Ablated(lpe[m + 1], targets)
  <2> SUFFICES ASSUME m < Len(lpe), ~ broken
               PROVE  more = C!Ablated(Rows(ep, secret, m + 1), targets) /\ m + 1 \in 1 .. Len(lpe)
                      /\ more = C!Ablated(lpe[m + 1], targets)
    OBVIOUS
  <2>1. m \in Nat /\ m + 1 <= Len(secret) /\ m <= Len(secret) /\ m + 1 \in 1 .. Len(lpe)
    BY <1>2, <1>3
  <2> DEFINE r == Rows(ep, secret, m)  x == Input(ep, secret, m + 1)
  <2>2. x \in Cell /\ Append(r, x) = Rows(ep, secret, m + 1)
    BY <1>3, <2>1, RowsGrow
  <2>3. r \in Seq(Cell) /\ Len(r) = C!npos + m
    BY <1>3, <2>1, RowsFacts
  <2>4. more = Append(C!Ablated(r, targets), x)
    BY <1>2, <1>4
  <2> HIDE DEF r, x, more
  <2>5. PICK ps : ps = targets
    OBVIOUS
  <2>6. \A p \in ps : p \in 1 .. Len(r)
    BY <1>2, <1>3, <2>1, <2>3, <2>5
  <2>7. Append(C!Ablated(r, ps), x) = C!Ablated(Append(r, x), ps)
    BY <2>2, <2>3, <2>6, AblatedGrow
  <2> QED BY <1>2, <2>1, <2>2, <2>4, <2>5, <2>7
<1>7. CASE C!Advance(lpa, Len(lpe)) /\ lpa' = Append(lpa, held') /\ UNCHANGED <<stage, broken>>
  <2>1. m < Len(lpe) /\ held' = more /\ ~ broken
    BY <1>7 DEF C!Advance
  <2> HIDE DEF more
  <2>2. /\ lpa' \in Seq(Seq(Cell)) /\ Len(lpa') = m + 1
        /\ \A j \in 1 .. m : lpa'[j] = lpa[j]
        /\ lpa'[m + 1] = more
    <3>1. lpa' = Append(lpa, more) /\ more \in Seq(Cell)
      BY <1>5, <1>7, <2>1
    <3> QED BY <1>2, <3>1, OneMore
  <2> HIDE DEF m
  <2>3. m \in Nat /\ m + 1 <= Len(lpe) /\ \A j \in 1 .. m + 1 : j \in 1 .. m \/ j = m + 1
    <3>1. m \in Nat
      BY <1>3 DEF m
    <3> QED BY <1>3, <2>1, <3>1
  <2>4. CurTypes'
    BY <1>1, <1>2, <1>3, <1>5, <1>7, <2>1, <2>2 DEF CurTypes, Scored
  <2>5. FirstPass'
    BY <1>1, <1>2, <1>7 DEF FirstPass, Scored
  <2>6. SecondPass'
    <3>1. stage' = "again" /\ Len(lpa') <= Len(lpe')
      BY <1>1, <1>7, <2>2, <2>3, Zenon
    <3>2. held' = C!Ablated(Rows(ep', secret', Len(lpa')), targets')
      BY <1>1, <1>6, <2>1, <2>2, Zenon
    <3>3. \A p \in targets' : p \in 1 .. C!npos' /\ \E i \in 1 .. Len(lpe') : secret'[i] = ep'[p]
      BY <1>1, <1>2 DEF SecondPass
    <3> QED BY <3>1, <3>2, <3>3, Zenon DEF SecondPass
  <2>7. Differ'
    <3>1. \A j \in 1 .. m : j \in DOMAIN lpe /\ lpa[j] = C!Ablated(lpe[j], targets)
      BY DEF Differ, m
    <3>2. m + 1 \in DOMAIN lpe /\ lpa'[m + 1] = C!Ablated(lpe[m + 1], targets)
      <4>1. m + 1 \in 1 .. Len(lpe) /\ DOMAIN lpe = 1 .. Len(lpe)
        BY <1>2, <1>6, <2>1, LenProperties
      <4> QED BY <1>6, <2>1, <2>2, <4>1, Zenon
    <3>3. \A j \in 1 .. m + 1 : j \in DOMAIN lpe /\ lpa'[j] = C!Ablated(lpe[j], targets)
      BY <2>2, <2>3, <3>1, <3>2, Zenon
    <3> QED BY <1>1, <2>2, <3>3, Zenon DEF Differ
  <2>8. Admitted'
    BY <1>1 DEF Admitted
  <2> QED BY <2>4, <2>5, <2>6, <2>7, <2>8
<1>8. CASE lpa' = lpa /\ stage' = "judge"
           /\ \/ held' = held /\ (broken' = broken \/ broken' = TRUE)
              \/ held' = more /\ m < Len(lpe) /\ broken' = TRUE
  <2> HIDE DEF more
  <2>1. held' \in Seq(Cell) /\ Len(held') >= C!npos
    BY <1>2, <1>3, <1>5, <1>8
  <2>2. broken' \in BOOLEAN
    BY <1>8 DEF CurTypes
  <2>3. CurTypes'
    BY <1>1, <1>2, <1>3, <1>8, <2>1, <2>2 DEF CurTypes, Scored
  <2>4. FirstPass'
    BY <1>1, <1>2, <1>8 DEF FirstPass, Scored
  <2>5. SecondPass' /\ Differ' /\ Admitted'
    BY <1>1, <1>2, <1>8 DEF SecondPass, Differ, Admitted
  <2> QED BY <2>3, <2>4, <2>5
<1> QED BY <1>7, <1>8 DEF C!Again, C!Faults

LEMMA JudgeKeeps == ASSUME C!CuratorAssumption, CurInv, C!Judge PROVE CurInv'
<1> USE DEF CurInv
<1>1. /\ stage = "judge" /\ stage' = "next" /\ held' = C!Closed
      /\ UNCHANGED <<queue, ep, secret, lpe, lpa, targets, broken>>
      /\ accepted' = accepted \/ (C!Differs /\ accepted' = accepted \union {ep})
  BY DEF C!Judge, C!scores
<1>2. ep \in Seq(Nat) /\ secret \in Seq(Nat) /\ C!npos = Len(ep) /\ Len(lpe) \in Nat /\ Len(secret) \in Nat
      /\ Len(lpa) \in Nat
  BY <1>1, EpisodeFacts
<1>3. C!Differs => \E s \in Secrets : \E i \in DOMAIN s, p \in DOMAIN ep : s[i] = ep[p]
  <2> SUFFICES ASSUME C!Differs PROVE \E s \in Secrets : \E i \in DOMAIN s, p \in DOMAIN ep : s[i] = ep[p]
    OBVIOUS
  <2>1. PICK j \in 1 .. Len(lpa) : lpa[j] # lpe[j]
    BY DEF C!Differs
  <2>2. j \in DOMAIN lpe /\ lpa[j] = C!Ablated(lpe[j], targets)
    BY DEF Differ
  <2>3. lpe[j] \in Seq(Cell)
    <3>1. lpe \in Seq(Seq(Cell)) /\ DOMAIN lpe = 1 .. Len(lpe)
      BY LenProperties DEF CurTypes
    <3> QED BY <2>2, <3>1, ElementOfSeq
  <2>4. targets # {}
    BY <2>1, <2>2, <2>3, NothingAblated
  <2>5. PICK p \in targets : p \in 1 .. C!npos /\ \E i \in 1 .. Len(lpe) : secret[i] = ep[p]
    BY <1>1, <2>4 DEF SecondPass
  <2>6. PICK i \in 1 .. Len(lpe) : secret[i] = ep[p]
    BY <2>5
  <2>7. i \in DOMAIN secret /\ p \in DOMAIN ep
    <3>1. Len(lpe) <= Len(secret)
      BY <1>1 DEF FirstPass, Scored
    <3> QED BY <1>2, <2>5, <2>6, <3>1, LenProperties
  <2>8. secret \in Secrets
    BY <1>1 DEF CurTypes
  <2> QED BY <2>6, <2>7, <2>8
<1>4. Admitted'
  BY <1>1, <1>3 DEF Admitted
<1>5. CurTypes'
  BY <1>1 DEF CurTypes, Scored
<1>6. FirstPass' /\ SecondPass' /\ Differ'
  BY <1>1 DEF FirstPass, SecondPass, Scored, Differ
<1> QED BY <1>4, <1>5, <1>6

LEMMA CurInit == ASSUME C!CuratorAssumption, C!Init PROVE CurInv
<1>1. /\ queue \subseteq Episodes /\ stage = "next" /\ held = C!Closed /\ lpe = <<>> /\ lpa = <<>>
      /\ targets = {} /\ broken = FALSE /\ accepted = {}
  BY DEF C!Init
<1>2. <<>> \in Seq(Seq(Cell))
  OBVIOUS
<1>3. CurTypes
  BY <1>1, <1>2, Zenon DEF CurTypes, Scored
<1> QED BY <1>1, <1>3 DEF C!Init, CurInv, CurTypes, FirstPass, SecondPass, Differ, Admitted, Scored

LEMMA CurStep == ASSUME C!CuratorAssumption, CurInv, C!Next PROVE CurInv'
BY VisitKeeps, OpenKeeps, ReplayKeeps, ScoreKeeps, BackKeeps, AgainKeeps, JudgeKeeps DEF C!Next

LEMMA CurStutter == ASSUME CurInv, UNCHANGED C!vars PROVE CurInv'
BY DEF C!vars, C!scores, C!counts, CurInv, CurTypes, FirstPass, SecondPass, Differ, Admitted, C!npos

LEMMA CurExact == ASSUME C!CuratorAssumption, CurInv PROVE C!AblationOnly
<1> USE DEF CurInv
<1>1. \A j \in 1 .. Len(lpa) : j \in DOMAIN lpe /\ lpa[j] = C!Ablated(lpe[j], targets)
  BY DEF Differ
<1>2. stage = "judge" /\ ~ broken => C!Rewound(Len(lpa)) = C!Ablated(ep, targets)
  <2> SUFFICES ASSUME stage = "judge", ~ broken PROVE C!Rewound(Len(lpa)) = C!Ablated(ep, targets)
    OBVIOUS
  <2> DEFINE m == Len(lpa)  r == Rows(ep, secret, m)
  <2>1. /\ ep \in Seq(Nat) /\ secret \in Seq(Nat) /\ C!npos \in Nat /\ C!npos > 1 /\ C!npos = Len(ep)
        /\ Len(secret) \in Nat /\ Len(lpe) \in Nat /\ m \in Nat
    BY EpisodeFacts
  <2>2. m <= Len(secret) /\ held = C!Ablated(r, targets)
    BY <2>1 DEF SecondPass, FirstPass, Scored
  <2>3. r \in Seq(Cell) /\ Len(r) = Len(ep) + m /\ \A i \in 1 .. Len(ep) : r[i] = ep[i]
    BY <2>1, <2>2, RowsFacts
  <2> HIDE DEF r
  <2>4. PICK ps : ps = targets
    OBVIOUS
  <2>5. /\ C!Ablated(r, ps) \in Seq(Cell) /\ Len(C!Ablated(r, ps)) = Len(r)
        /\ \A i \in 1 .. Len(r) : C!Ablated(r, ps)[i] = IF i \in ps THEN Gone ELSE r[i]
    BY <2>3, AblatedFacts
  <2>6. ep \in Seq(Cell)
    <3>1. 0 \in Nat /\ 0 <= Len(secret)
      BY <2>1
    <3> QED BY <2>1, <3>1, RowsFacts
  <2>7. /\ C!Ablated(ep, ps) \in Seq(Cell) /\ Len(C!Ablated(ep, ps)) = Len(ep)
        /\ \A i \in 1 .. Len(ep) : C!Ablated(ep, ps)[i] = IF i \in ps THEN Gone ELSE ep[i]
    BY <2>6, AblatedFacts
  <2> DEFINE h == C!Ablated(r, ps)  e == C!Ablated(ep, ps)
  <2>8. h \in Seq(Cell) /\ e \in Seq(Cell) /\ Len(h) = Len(e) + m /\ held = h
    BY <2>2, <2>3, <2>4, <2>5, <2>7
  <2>9. \A i \in 1 .. Len(e) : h[i] = e[i]
    <3>1. Len(e) = Len(ep) /\ \A i \in 1 .. Len(ep) : i \in 1 .. Len(r) /\ r[i] = ep[i]
      BY <2>1, <2>3, <2>7
    <3>2. \A i \in 1 .. Len(r) : h[i] = IF i \in ps THEN Gone ELSE r[i]
      BY <2>5
    <3>3. \A i \in 1 .. Len(ep) : e[i] = IF i \in ps THEN Gone ELSE ep[i]
      BY <2>7
    <3> HIDE DEF h, e
    <3> QED BY <3>1, <3>2, <3>3
  <2> HIDE DEF h, e, m
  <2>10. SubSeq(h, 1, Len(h) - m) = e
    BY <2>1, <2>8, <2>9, Rewinding
  <2> QED BY <2>4, <2>8, <2>10 DEF C!Rewound, e, m
<1>3. stage \in {"next", "open"} <=> held = C!Closed
  <2>1. Len(C!Closed) = 1
    BY DEF C!Closed
  <2>2. stage \in Scored => Len(held) # 1
    <3> SUFFICES ASSUME stage \in Scored PROVE Len(held) # 1
      OBVIOUS
    <3>1. stage # "next"
      BY DEF Scored
    <3>2. C!npos > 1 /\ C!npos \in Nat
      BY <3>1, EpisodeFacts
    <3>3. held \in Seq(Cell) /\ Len(held) >= C!npos
      BY DEF CurTypes
    <3>4. Len(held) \in Nat
      BY <3>3, LenProperties
    <3>5. PICK l : l = Len(held)
      OBVIOUS
    <3>6. l \in Nat /\ l >= C!npos
      BY <3>3, <3>4, <3>5, Zenon
    <3>7. l # 1
      BY <3>2, <3>6
    <3> QED BY <3>5, <3>7, Zenon
  <2>3. stage = "replay" => held # C!Closed
    <3> SUFFICES ASSUME stage = "replay" PROVE held # C!Closed
      OBVIOUS
    <3>1. held = <<>>
      BY DEF CurTypes
    <3>2. Len(held) = 0
      BY <3>1, EmptySeq
    <3>3. Len(C!Closed) # 0
      BY <2>1
    <3> QED BY <3>2, <3>3, Zenon
  <2>4. stage \in Scored => held # C!Closed
    BY <2>1, <2>2, Zenon
  <2>5. stage \in {"next", "open"} => held = C!Closed
    BY DEF CurTypes
  <2>6. stage \in {"next", "open", "replay"} \union Scored
    BY DEF CurTypes
  <2> QED BY <2>3, <2>4, <2>5, <2>6
<1>4. \A e \in accepted : \E s \in Secrets : \E i \in DOMAIN s, p \in DOMAIN e : s[i] = e[p]
  BY DEF Admitted
<1> QED BY <1>1, <1>2, <1>3, <1>4 DEF C!AblationOnly

-----------------------------------------------------------------------------
\* The bridge to the DSP (DspBridge).
\* The steps of each program, before it serves, while it does, and at its end.
Boot    == {"echo", "model", "load_table", "load", "kv", "compute", "register"}
Serving == {"serve", "stopping"}
Drops   == {"drop_echo", "drop_model", "drop_kv", "drop_backend"}
Loading == {"load_table", "load", "kv", "matmul", "nofile", "reload_table", "reload"}
Server  == prog \in {"daemon", "server"}
Model   == {"load", "reload", "kv"}
EchoOf(c) == {<<"echo", c, "in">>, <<"echo", c, "out">>}

Places ==
  /\ prog = "daemon" => step \in Boot \union Serving \union Drops \union {"gone"}
  /\ prog = "server" => step \in {"echo", "gone"} \union Serving \union Drops
  /\ prog = "full_load" => step \in {"model", "drop_kv", "drop_model", "drop_sess", "gone"} \union Loading
  /\ prog = "dual" => step \in {"compute", "first", "second", "pair", "close", "gone"}

BridgeTypes ==
  /\ prog \in {"daemon", "server", "full_load", "dual"} /\ Places
  /\ sess \in [{"echo", "model", "compute"} -> {"none", "failed", "open", "closed"}]
  /\ IsFiniteSet(heap)
  /\ call \in [Caller -> [at : {"idle", "lock", "in", "out", "call", "done"}, n : Nat,
                          answer : Int \X (Caller \union {"none", "model"}), conn : BOOLEAN]]
  /\ refs \in 0 .. 2

\* Whose buffers are on the heap at which step; their sessions are open.
Buffers ==
  /\ \A b \in heap : sess[b[1]] = "open"
  /\ \A b \in heap : \/ b[2] \in Model /\ b[1] = "model" /\ prog \in {"daemon", "full_load"}
                     \/ \E c \in Caller : b \in EchoOf(c)
  /\ step \in Loading => sess["model"] = "open"
  /\ step \in {"echo", "model", "load_table"} => D!Of("load") = {}
  /\ step \in {"echo", "model", "load_table", "load"} => D!Of("kv") = {}
  /\ step # "reload" => D!Of("reload") = {}
  /\ step # "load" => Cardinality(D!Of("load")) \in {0, D!NTensors}
  /\ step # "kv" => Cardinality(D!Of("kv")) \in {0, 2 * Layers}
  /\ Server /\ step \in {"drop_kv", "drop_backend"} => D!Of("load") = {}
  /\ Server /\ step = "drop_backend" => D!Of("kv") = {}
  /\ prog = "full_load" /\ step \in {"drop_model", "drop_sess"} => D!Of("kv") = {}
  /\ step \in {"drop_sess", "gone"} => heap = {}

Busy == {"in", "out", "call"}
CallsInv ==
  /\ \A c \in Caller :
       /\ <<"echo", c, "in">> \in heap <=> call[c].at \in {"in", "out", "call"}
       /\ <<"echo", c, "out">> \in heap <=> call[c].at \in {"out", "call"}
       /\ call[c].at \in {"lock", "in", "out", "call"} => step \in Serving /\ sess["echo"] = "open"
       /\ ~ Server \/ step \in Boot => call[c].at = "idle" /\ call[c].answer = <<0, "none">>
       /\ call[c].answer[1] = 200 => call[c].answer[2] \in {c, "model"}
       /\ step = "serve" /\ call[c].answer = <<200, "model">> => Cardinality(D!Of("load")) = D!NTensors
  /\ \A c, d \in Caller : call[c].at \in Busy /\ call[d].at \in Busy => c = d

Backend ==
  /\ step = "register" => refs = 1 /\ sess["compute"] = "open"
  /\ l1 # "none" => refs = 2 /\ sess["compute"] = "open" /\ step \in Serving

\* The two threads' clock.
Over(t) == pair[t].at \in {"ok", "err"}
PairInv ==
  /\ pair \in [D!Thread -> [at : {"ready", "run", "ok", "err"}, start : Nat, end : Nat]]
  /\ now \in Nat /\ together \in Nat
  /\ \A t \in D!Thread : /\ pair[t].at # "ready" => pair[t].start < now
                         /\ Over(t) => pair[t].start < pair[t].end /\ pair[t].end < now
  /\ \A t, u \in D!Thread : t # u =>
       /\ pair[t].at = "ready" => together = 0
       /\ D!Running(t) /\ D!Running(u) => together = 0 /\ now = D!Later(pair[t].start, pair[u].start) + 1
       /\ Over(t) /\ D!Running(u) =>
            together = D!Later(0, pair[t].end - D!Later(pair[t].start, pair[u].start))
       /\ Over(t) /\ Over(u) =>
            together = D!Later(0, D!Earlier(pair[t].end, pair[u].end) - D!Later(pair[t].start, pair[u].start))

BridgeInv == BridgeTypes /\ Buffers /\ CallsInv /\ Backend /\ PairInv

-----------------------------------------------------------------------------
\* What a change of the heap does to the buffers of an owner.
Owned(h, o) == {b \in h : b[2] = o}

\* The count of a set is the same function in the instance.
LEMMA SameCardinality == \A S : D!Cardinality(S) = Cardinality(S)
BY DEF Cardinality, D!Cardinality

LEMMA OfOwned == \A o : D!Of(o) = Owned(heap, o)
BY DEF D!Of, Owned

LEMMA OfNext == \A o : D!Of(o)' = Owned(heap', o)
BY DEF D!Of, Owned

LEMMA SameHeap == ASSUME heap' = heap PROVE \A o : D!Of(o)' = D!Of(o)
BY DEF D!Of

LEMMA OneMoreBuffer ==
  ASSUME NEW x, heap' = heap \union {x}
  PROVE  \A o : o # x[2] => D!Of(o)' = D!Of(o)
<1> SUFFICES ASSUME NEW o, o # x[2] PROVE D!Of(o)' = D!Of(o)
  OBVIOUS
<1>1. PICK h : h = heap
  OBVIOUS
<1>2. D!Of(o) = Owned(h, o) /\ D!Of(o)' = Owned(h \union {x}, o)
  BY <1>1, OfOwned, OfNext, Zenon
<1>3. Owned(h \union {x}, o) = Owned(h, o)
  BY DEF Owned
<1> QED BY <1>2, <1>3, Zenon

LEMMA DropBuffers ==
  ASSUME NEW p, heap' = heap \ D!Of(p)
  PROVE  D!Of(p)' = {} /\ \A o : o # p => D!Of(o)' = D!Of(o)
<1>1. PICK h : h = heap
  OBVIOUS
<1>2. heap' = h \ Owned(h, p)
  BY <1>1, OfOwned, Zenon
<1>3. \A o : D!Of(o) = Owned(h, o) /\ D!Of(o)' = Owned(h \ Owned(h, p), o)
  BY <1>1, <1>2, OfOwned, OfNext, Zenon
<1>4. Owned(h \ Owned(h, p), p) = {} /\ \A o : o # p => Owned(h \ Owned(h, p), o) = Owned(h, o)
  BY DEF Owned
<1> QED BY <1>3, <1>4, Zenon

LEMMA NoBuffers == ASSUME heap' = {} PROVE \A o : D!Of(o)' = {}
BY DEF D!Of

LEMMA EmptyHeap ==
  ASSUME BridgeInv, D!Of("load") = {}, D!Of("kv") = {}, D!Of("reload") = {},
         \A c \in Caller : call[c].at \notin Busy
  PROVE  heap = {}
BY DEF BridgeInv, Buffers, CallsInv, D!Of, Model, EchoOf, Busy

LEMMA FiniteFacts ==
  ASSUME IsFiniteSet(heap)
  PROVE  /\ \A x : IsFiniteSet(heap \union {x})
         /\ \A s : IsFiniteSet(heap \ s)
         /\ IsFiniteSet({}) /\ Cardinality({}) = 0
         /\ \A o : IsFiniteSet(D!Of(o)) /\ (Cardinality(D!Of(o)) = 0 => D!Of(o) = {})
<1>1. \A x : IsFiniteSet(heap \union {x})
  BY FS_AddElement
<1>2. \A s : IsFiniteSet(heap \ s)
  <2> TAKE s
  <2>1. heap \ s \subseteq heap
    OBVIOUS
  <2> QED BY <2>1, FS_Subset
<1>3. IsFiniteSet({}) /\ Cardinality({}) = 0
  BY FS_EmptySet
<1>4. ASSUME NEW o PROVE IsFiniteSet(D!Of(o)) /\ (Cardinality(D!Of(o)) = 0 => D!Of(o) = {})
  <2>1. D!Of(o) \subseteq heap
    BY DEF D!Of
  <2>2. IsFiniteSet(D!Of(o))
    BY <2>1, FS_Subset
  <2> QED BY <2>2, FS_EmptySet
<1> QED BY <1>1, <1>2, <1>3, <1>4

LEMMA PairSame == ASSUME PairInv, UNCHANGED D!pairVars PROVE PairInv'
BY DEF PairInv, D!pairVars, Over, D!Running

LEMMA TensorsSame == ASSUME tied' = tied PROVE D!NTensors' = D!NTensors
BY DEF D!NTensors

LEMMA BridgeInit == ASSUME D!BridgeAssumption, D!Init PROVE BridgeInv
<1>1. heap = {} /\ (\A c \in Caller : call[c] = D!NoCall) /\ call = [c \in Caller |-> D!NoCall]
      /\ refs = 0 /\ l1 = "none" /\ pair = D!NoPair /\ now = 0 /\ together = 0
      /\ sess = [s \in {"echo", "model", "compute"} |-> "none"]
      /\ prog \in {"daemon", "server", "full_load", "dual"}
      /\ step = CASE prog \in {"daemon", "server"} -> "echo" [] prog = "full_load" -> "model"
                [] prog = "dual" -> "compute"
  BY DEF D!Init
<1>2. \A o : D!Of(o) = {} /\ Cardinality(D!Of(o)) = 0
  <2>1. \A o : D!Of(o) = {}
    BY <1>1 DEF D!Of
  <2> QED BY <2>1, FS_EmptySet
<1>3. Places
  BY <1>1 DEF Places, Boot, Serving, Drops, Loading
<1>4. BridgeTypes
  <2>1. IsFiniteSet(heap)
    BY <1>1, FS_EmptySet
  <2>2. D!NoCall \in [at : {"idle", "lock", "in", "out", "call", "done"}, n : Nat,
                    answer : Int \X (Caller \union {"none", "model"}), conn : BOOLEAN]
    BY DEF D!NoCall
  <2> QED BY <1>1, <1>3, <2>1, <2>2 DEF BridgeTypes
<1>5. Buffers
  BY <1>1, <1>2 DEF Buffers, Loading, Server
<1>6. CallsInv
  BY <1>1 DEF CallsInv, D!NoCall, Busy
<1>7. Backend
  BY <1>1 DEF Backend
<1>8. PairInv
  BY <1>1 DEF PairInv, D!NoPair, D!Thread, Over, D!Running
<1> QED BY <1>4, <1>5, <1>6, <1>7, <1>8 DEF BridgeInv

\* A session that opens, or does not.
LEMMA NewKeeps ==
  ASSUME D!BridgeAssumption, BridgeInv, NEW s \in {"echo", "model", "compute"}, D!New(s)
  PROVE  BridgeInv'
<1> USE DEF BridgeInv
<1>1. /\ step = s /\ sess[s] = "none" /\ UNCHANGED <<prog, tied, heap, call, l1, pair, now, together>>
      /\ UNCHANGED D!pairVars
  BY DEF D!New, D!pairVars
<1>2. \/ /\ sess' = [sess EXCEPT ![s] = "open"]
         /\ step' = (CASE s = "echo" -> (IF prog = "daemon" THEN "model" ELSE "serve")
                      [] s = "model" -> "load_table"
                      [] s = "compute" -> IF prog = "daemon" THEN "register" ELSE "first")
         /\ refs' = IF s = "compute" /\ prog = "daemon" THEN 1 ELSE refs
      \/ /\ sess' = [sess EXCEPT ![s] = "failed"] /\ refs' = refs
         /\ \/ prog # "daemon" /\ step' = "gone"
            \/ /\ prog = "daemon"
               /\ step' = (CASE s = "echo" -> "model" [] s = "model" -> "compute" [] s = "compute" -> "serve")
  BY DEF D!New, D!Ends
<1>3. /\ sess' \in [{"echo", "model", "compute"} -> {"none", "failed", "open", "closed"}]
      /\ \A t \in {"echo", "model", "compute"} : t # s => sess'[t] = sess[t]
  BY <1>2 DEF BridgeTypes
<1>4. \A b \in heap : b[1] \in {"echo", "model", "compute"} /\ b[1] # s
  BY <1>1 DEF Buffers, BridgeTypes, EchoOf
<1>5. \A o : D!Of(o)' = D!Of(o)
  BY <1>1, SameHeap
<1>6. Places'
  BY <1>1, <1>2 DEF BridgeTypes, Places, Boot, Serving, Drops, Loading
<1>7. BridgeTypes'
  BY <1>1, <1>2, <1>3, <1>6 DEF BridgeTypes
<1>9. \A c \in Caller : call[c].at = "idle" /\ call[c].answer = <<0, "none">>
  BY <1>1 DEF CallsInv, Boot
<1>10. prog # "daemon" => heap = {}
  <2> SUFFICES ASSUME prog # "daemon" PROVE heap = {}
    OBVIOUS
  <2>1. step \in {"echo", "model"} \/ prog = "dual"
    BY <1>1 DEF BridgeTypes, Places, Loading, Serving, Drops
  <2>2. CASE prog = "dual"
    <3>1. \A c \in Caller : <<"echo", c, "in">> \notin heap /\ <<"echo", c, "out">> \notin heap
      BY <1>9 DEF CallsInv
    <3> QED BY <2>2, <3>1 DEF Buffers, EchoOf
  <2>3. CASE step \in {"echo", "model"}
    <3>1. D!Of("load") = {} /\ D!Of("kv") = {} /\ D!Of("reload") = {} /\ \A c \in Caller : call[c].at \notin Busy
      BY <1>9, <2>3 DEF Buffers, Busy
    <3> QED BY <3>1, EmptyHeap
  <2> QED BY <2>1, <2>2, <2>3
<1>11. Buffers'
  <2>1. \A b \in heap' : sess'[b[1]] = "open"
    BY <1>1, <1>3, <1>4 DEF Buffers
  <2>2. \A b \in heap' : \/ b[2] \in Model /\ b[1] = "model" /\ prog' \in {"daemon", "full_load"}
                         \/ \E c \in Caller : b \in EchoOf(c)
    BY <1>1 DEF Buffers
  <2>3. step' \in Loading => sess'["model"] = "open"
    BY <1>1, <1>2 DEF Loading, BridgeTypes
  <2>4. D!NTensors' = D!NTensors
    BY <1>1, TensorsSame
  <2>5. step' \notin {"load", "kv", "reload", "drop_kv", "drop_backend", "drop_model", "drop_sess"}
    BY <1>1, <1>2
  <2>6. step' = "gone" => heap' = {}
    BY <1>1, <1>2, <1>10
  <2>7. step \notin {"load", "kv", "reload"}
    BY <1>1
  <2>8. step' \in {"echo", "model", "load_table"} => D!Of("load") = {} /\ D!Of("kv") = {}
    BY <1>1, <1>2 DEF Buffers
  <2> QED BY <1>5, <2>1, <2>2, <2>3, <2>4, <2>5, <2>6, <2>7, <2>8 DEF Buffers
<1>12. CallsInv'
  <2>1. \A c \in Caller : call'[c] = call[c]
    BY <1>1
  <2>2. \A c \in Caller : call'[c].at = "idle" /\ call'[c].answer = <<0, "none">>
    BY <1>9, <2>1
  <2>3. \A c \in Caller : <<"echo", c, "in">> \notin heap' /\ <<"echo", c, "out">> \notin heap'
    BY <1>1, <1>9 DEF CallsInv
  <2> QED BY <2>2, <2>3 DEF CallsInv, Busy
<1>13. Backend'
  BY <1>1, <1>2, <1>3 DEF Backend, Serving, BridgeTypes, Places
<1>14. PairInv'
  BY <1>1, PairSame
<1> QED BY <1>7, <1>11, <1>12, <1>13, <1>14

LEMMA NoBackendKeeps == ASSUME BridgeInv, D!NoBackend PROVE BridgeInv'
<1> USE DEF BridgeInv
<1>1. /\ step = "compute" /\ step' = "serve" /\ prog = "daemon"
      /\ UNCHANGED <<prog, tied, sess, heap, call, refs, l1>> /\ UNCHANGED D!pairVars
  BY DEF D!NoBackend, D!nttVars
<1>2. (\A o : D!Of(o)' = D!Of(o)) /\ D!NTensors' = D!NTensors
  BY <1>1, SameHeap, TensorsSame
<1>3. BridgeTypes'
  BY <1>1 DEF BridgeTypes, Places, Serving
<1>4. Buffers'
  BY <1>1, <1>2 DEF Buffers, Loading, Server
<1>5. CallsInv'
  BY <1>1, <1>2 DEF CallsInv, Server, Boot, Serving, Busy
<1>6. Backend' /\ PairInv'
  BY <1>1, PairSame DEF Backend, Serving
<1> QED BY <1>3, <1>4, <1>5, <1>6

\* Where no request is served no buffer of one is on the heap.
LEMMA Quiet ==
  ASSUME BridgeInv, step \notin Serving
  PROVE  /\ \A c \in Caller : call[c].at \in {"idle", "done"}
         /\ \A b \in heap : b[2] \in Model /\ b[1] = "model" /\ prog \in {"daemon", "full_load"}
         /\ l1 = "none"
<1>1. \A c \in Caller : call[c].at \in {"idle", "lock", "in", "out", "call", "done"}
  BY DEF BridgeInv, BridgeTypes
<1>2. \A c \in Caller : call[c].at \notin {"lock", "in", "out", "call"}
  BY DEF BridgeInv, CallsInv
<1>3. \A c \in Caller : <<"echo", c, "in">> \notin heap /\ <<"echo", c, "out">> \notin heap
  BY <1>2 DEF BridgeInv, CallsInv
<1>4. \A b \in heap : b[2] \in Model /\ b[1] = "model" /\ prog \in {"daemon", "full_load"}
  BY <1>3 DEF BridgeInv, Buffers, EchoOf
<1>5. l1 = "none"
  BY DEF BridgeInv, Backend
<1> QED BY <1>1, <1>2, <1>4, <1>5

\* While a program loads or drops, its requests and its backend are at rest.
LEMMA AtRest ==
  ASSUME BridgeInv, step \notin Serving, step' \notin Serving, step' # "register",
         UNCHANGED <<prog, call, l1>>, UNCHANGED D!pairVars,
         \A b \in heap' : b \in heap \/ b[1] = "model",
         prog \in {"daemon", "server"} => step \in Boot \/ step' \notin Boot
  PROVE  CallsInv' /\ Backend' /\ PairInv'
<1> USE DEF BridgeInv
<1>1. \A c \in Caller : <<"echo", c, "in">> \notin heap' /\ <<"echo", c, "out">> \notin heap'
  <2>1. \A c \in Caller : <<"echo", c, "in">> \notin heap /\ <<"echo", c, "out">> \notin heap
    BY Quiet DEF CallsInv
  <2>2. \A c \in Caller : <<"echo", c, "in">>[1] # "model" /\ <<"echo", c, "out">>[1] # "model"
    OBVIOUS
  <2> QED BY <2>1, <2>2
<1>2. \A c \in Caller : call'[c] = call[c] /\ call[c].at \in {"idle", "done"}
  BY Quiet
<1>3. \A c \in Caller : ~ Server' \/ step' \in Boot => call[c].at = "idle" /\ call[c].answer = <<0, "none">>
  BY DEF CallsInv, Server, BridgeTypes
<1>4. \A c \in Caller : call[c].answer[1] = 200 => call[c].answer[2] \in {c, "model"}
  BY DEF CallsInv
<1>5. step' # "serve"
  BY DEF Serving
<1>6. CallsInv'
  BY <1>1, <1>2, <1>3, <1>4, <1>5 DEF CallsInv, Busy
<1>7. Backend'
  BY Quiet DEF Backend
<1> QED BY <1>6, <1>7, PairSame

\* A load that fails, in the daemon or in the test.
LEMMA FailedLoadKeeps ==
  ASSUME D!BridgeAssumption, BridgeInv, NEW owner \in {"load", "reload"}, D!FailedLoad(owner),
         step \in {"load_table", "load", "reload_table", "reload"},
         owner = "load" <=> step \in {"load_table", "load"},
         UNCHANGED <<prog, tied, call, refs, l1>>, UNCHANGED D!pairVars
  PROVE  BridgeInv'
<1> USE DEF BridgeInv
<1>1. /\ prog \in {"daemon", "full_load"}
      /\ prog = "daemon" => owner = "load"
  BY DEF BridgeTypes, Places, Serving, Drops, Boot
<1>2. \/ prog = "daemon" /\ heap' = heap \ D!Of("load") /\ step' = "compute" /\ sess' = sess
      \/ prog = "full_load" /\ owner = "load" /\ heap' = heap \ D!Of("load") /\ step' = "gone" /\ sess' = sess
      \/ prog = "full_load" /\ owner = "reload" /\ heap' = {} /\ step' = "gone" /\ D!CloseAll
  BY <1>1 DEF D!FailedLoad, D!Ends
<1>3. D!NTensors' = D!NTensors
  BY TensorsSame
<1>4. step \notin Serving
  BY DEF Serving
<1>5. IsFiniteSet(heap)
  BY DEF BridgeTypes
<1>6. CallsInv' /\ Backend' /\ PairInv'
  <2>1. \A b \in heap' : b \in heap
    BY <1>2
  <2>2. step' \notin Serving /\ step' # "register"
    BY <1>2 DEF Serving
  <2>3. step \in Boot \/ step' \notin Boot
    BY <1>1, <1>2 DEF Boot
  <2> QED BY <1>4, <2>1, <2>2, <2>3, AtRest, Zenon
<1>7. CASE heap' = heap \ D!Of("load") /\ sess' = sess /\ owner = "load"
           /\ \/ prog = "daemon" /\ step' = "compute"
              \/ prog = "full_load" /\ step' = "gone"
  <2>1. D!Of("load")' = {} /\ D!Of("kv")' = D!Of("kv") /\ D!Of("reload")' = D!Of("reload")
    BY <1>7, DropBuffers
  <2>2. D!Of("kv") = {} /\ D!Of("reload") = {}
    BY <1>7 DEF Buffers
  <2>3. \A b \in heap' : b \in heap
    BY <1>7
  <2>4. heap' = {}
    <3>1. \A b \in heap' : b[2] \in {"load", "reload", "kv"}
      BY <1>4, <2>3, Quiet DEF Model
    <3> QED BY <2>1, <2>2, <3>1 DEF D!Of
  <2>5. \A o : D!Of(o)' = {} /\ Cardinality(D!Of(o)') = 0
    BY <2>4, NoBuffers, FS_EmptySet
  <2>6. BridgeTypes'
    BY <1>5, <1>7, <2>4, FS_EmptySet DEF BridgeTypes, Places, Boot
  <2>7. Buffers'
    BY <1>7, <2>4, <2>5 DEF Buffers, Loading, Server
  <2> QED BY <1>6, <2>6, <2>7
<1>8. CASE heap' = {} /\ step' = "gone" /\ D!CloseAll /\ prog = "full_load"
  <2>1. \A o : D!Of(o)' = {} /\ Cardinality(D!Of(o)') = 0
    BY <1>8, NoBuffers, FS_EmptySet
  <2>2. BridgeTypes'
    BY <1>8, FS_EmptySet DEF BridgeTypes, Places, D!CloseAll
  <2>3. Buffers'
    BY <1>8, <2>1 DEF Buffers, Loading, Server
  <2> QED BY <1>6, <2>2, <2>3
<1> QED BY <1>1, <1>2, <1>7, <1>8

\* A step of the main thread that leaves the heap and the sessions alone.
LEMMA StepOnly ==
  ASSUME BridgeInv, step \notin Serving, step' \notin Serving, step' # "register",
         UNCHANGED <<prog, tied, sess, heap, call, refs, l1>>, UNCHANGED D!pairVars,
         prog \in {"daemon", "server"} => step \in Boot \/ step' \notin Boot,
         Places'
  PROVE  /\ BridgeTypes' /\ CallsInv' /\ Backend' /\ PairInv'
         /\ (\A o : D!Of(o)' = D!Of(o)) /\ D!NTensors' = D!NTensors
<1> USE DEF BridgeInv
<1>1. \A b \in heap' : b \in heap
  OBVIOUS
<1>2. CallsInv' /\ Backend' /\ PairInv'
  BY <1>1, AtRest, Zenon
<1>3. BridgeTypes'
  BY DEF BridgeTypes
<1> QED BY <1>2, <1>3, SameHeap, TensorsSame

LEMMA ReadTableKeeps ==
  ASSUME D!BridgeAssumption, BridgeInv, NEW owner \in {"load", "reload"}, D!ReadTable(owner)
  PROVE  BridgeInv'
<1> USE DEF BridgeInv
<1>1. /\ step = (IF owner = "load" THEN "load_table" ELSE "reload_table")
      /\ UNCHANGED <<prog, tied, call, refs, l1>> /\ UNCHANGED D!pairVars
      /\ \/ step' = owner /\ UNCHANGED <<heap, sess>>
         \/ D!FailedLoad(owner)
  BY DEF D!ReadTable, D!nttVars
<1>2. CASE D!FailedLoad(owner)
  BY <1>1, <1>2, FailedLoadKeeps
<1>3. CASE step' = owner /\ UNCHANGED <<heap, sess>>
  <2>1. step \notin Serving /\ step' \notin Serving /\ step' # "register"
    BY <1>1, <1>3 DEF Serving
  <2>2. prog \in {"daemon", "server"} => step \in Boot \/ step' \notin Boot
    BY <1>1, <1>3 DEF Boot
  <2>3. Places'
    BY <1>1, <1>3 DEF BridgeTypes, Places, Boot, Serving, Drops, Loading
  <2>4. /\ BridgeTypes' /\ CallsInv' /\ Backend' /\ PairInv'
        /\ (\A o : D!Of(o)' = D!Of(o)) /\ D!NTensors' = D!NTensors
    BY <1>1, <1>3, <2>1, <2>2, <2>3, StepOnly, Zenon
  <2>5. Buffers'
    BY <1>1, <1>3, <2>4 DEF Buffers, Loading, Server
  <2> QED BY <2>4, <2>5
<1> QED BY <1>1, <1>2, <1>3

LEMMA LoadTensorKeeps ==
  ASSUME D!BridgeAssumption, BridgeInv, NEW owner \in {"load", "reload"}, D!LoadTensor(owner)
  PROVE  BridgeInv'
<1> USE DEF BridgeInv
<1>1. PICK n : n = Cardinality(D!Of(owner))
  OBVIOUS
<1>2. /\ step = owner
      /\ UNCHANGED <<prog, tied, call, refs, l1>> /\ UNCHANGED D!pairVars
      /\ \/ heap' = heap \union {<<"model", owner, n + 1>>} /\ step' = step /\ sess' = sess
         \/ D!FailedLoad(owner)
  BY <1>1, SameCardinality DEF D!LoadTensor, D!nttVars
<1>3. CASE D!FailedLoad(owner)
  BY <1>2, <1>3, FailedLoadKeeps
<1>4. CASE heap' = heap \union {<<"model", owner, n + 1>>} /\ step' = step /\ sess' = sess
  <2>1. PICK x : x = <<"model", owner, n + 1>>
    OBVIOUS
  <2>2. x[1] = "model" /\ x[2] = owner /\ heap' = heap \union {x}
    BY <1>4, <2>1
  <2>3. step \notin Serving /\ step' \notin Serving /\ step' # "register" /\ step \in Boot \union {"reload"}
    BY <1>2, <1>4 DEF Serving, Boot
  <2>4. prog \in {"daemon", "full_load"}
    BY <1>2 DEF BridgeTypes, Places, Serving, Drops
  <2>5. \A b \in heap' : b \in heap \/ b[1] = "model"
    BY <2>2
  <2>6. CallsInv' /\ Backend' /\ PairInv'
    <3>1. prog \in {"daemon", "server"} => step \in Boot \/ step' \notin Boot
      BY <1>2, <1>4 DEF Boot
    <3> QED BY <1>2, <2>3, <2>5, <3>1, AtRest, Zenon
  <2>7. \A o : o # owner => D!Of(o)' = D!Of(o)
    <3>1. \A o : o # x[2] => D!Of(o)' = D!Of(o)
      BY <2>2, OneMoreBuffer, Zenon
    <3> QED BY <2>2, <3>1, Zenon
  <2>8. IsFiniteSet(heap')
    BY <2>2, FiniteFacts DEF BridgeTypes
  <2>9. BridgeTypes'
    BY <1>2, <1>4, <2>8 DEF BridgeTypes, Places
  <2>10. D!NTensors' = D!NTensors
    BY <1>2, TensorsSame
  <2>11. sess["model"] = "open"
    BY <1>2 DEF Buffers, Loading
  <2>12. \A b \in heap' : sess'[b[1]] = "open"
    BY <1>4, <2>2, <2>11 DEF Buffers
  <2>13. \A b \in heap' : \/ b[2] \in Model /\ b[1] = "model" /\ prog' \in {"daemon", "full_load"}
                          \/ \E c \in Caller : b \in EchoOf(c)
    <3>1. x[2] \in Model
      BY <2>2 DEF Model
    <3> QED BY <1>2, <2>2, <2>4, <3>1 DEF Buffers
  <2>14. D!Of("kv")' = D!Of("kv")
    BY <2>7, Zenon
  <2>15. owner = "load" => D!Of("reload")' = D!Of("reload")
    BY <2>7, Zenon
  <2>16. owner = "reload" => D!Of("load")' = D!Of("load")
    BY <2>7, Zenon
  <2>17. Buffers'
    BY <1>2, <1>4, <2>10, <2>11, <2>12, <2>13, <2>14, <2>15, <2>16 DEF Buffers, Loading, Server
  <2> QED BY <2>6, <2>9, <2>17
<1> QED BY <1>2, <1>3, <1>4

LEMMA LoadedKeeps ==
  ASSUME D!BridgeAssumption, BridgeInv, D!Loaded
  PROVE  BridgeInv'
<1> USE DEF BridgeInv
<1>1. /\ step \in {"load", "reload"} /\ Cardinality(D!Of(step)) = D!NTensors
      /\ \/ step = "load" /\ step' = "kv" /\ heap' = heap
         \/ step = "reload" /\ step' = "drop_kv" /\ heap' = heap \ D!Of("reload")
      /\ UNCHANGED <<prog, tied, sess, call, refs, l1>> /\ UNCHANGED D!pairVars
  BY SameCardinality DEF D!Loaded, D!nttVars
<1>2. step \notin Serving /\ step' \notin Serving /\ step' # "register"
  BY <1>1 DEF Serving
<1>3. prog \in {"daemon", "server"} => step \in Boot \/ step' \notin Boot
  BY <1>1 DEF Boot
<1>4. Places'
  BY <1>1 DEF BridgeTypes, Places, Boot, Serving, Drops, Loading
<1>5. CASE step = "load" /\ step' = "kv" /\ heap' = heap
  <2>1. /\ BridgeTypes' /\ CallsInv' /\ Backend' /\ PairInv'
        /\ (\A o : D!Of(o)' = D!Of(o)) /\ D!NTensors' = D!NTensors
    BY <1>1, <1>5, <1>2, <1>3, <1>4, StepOnly, Zenon
  <2>2. Buffers'
    BY <1>1, <1>5, <2>1 DEF Buffers, Loading, Server
  <2> QED BY <2>1, <2>2
<1>6. CASE step = "reload" /\ step' = "drop_kv" /\ heap' = heap \ D!Of("reload")
  <2>1. \A b \in heap' : b \in heap
    BY <1>6
  <2>2. CallsInv' /\ Backend' /\ PairInv'
    BY <1>1, <1>2, <1>3, <2>1, AtRest, Zenon
  <2>3. D!Of("reload")' = {} /\ \A o : o # "reload" => D!Of(o)' = D!Of(o)
    BY <1>6, DropBuffers
  <2>4. D!Of("load")' = D!Of("load") /\ D!Of("kv")' = D!Of("kv")
    BY <2>3
  <2>5. IsFiniteSet(heap')
    BY <1>6, FiniteFacts DEF BridgeTypes
  <2>6. BridgeTypes'
    BY <1>1, <1>4, <2>5 DEF BridgeTypes
  <2>7. D!NTensors' = D!NTensors
    BY <1>1, TensorsSame
  <2>8. prog = "full_load"
    BY <1>6 DEF BridgeTypes, Places, Boot, Serving, Drops
  <2>9. Buffers'
    BY <1>1, <1>6, <2>1, <2>3, <2>4, <2>7, <2>8 DEF Buffers, Loading, Server
  <2> QED BY <2>2, <2>6, <2>9
<1> QED BY <1>1, <1>5, <1>6

\* Everything that is left of a program's buffers goes at once.
LEMMA AllGone ==
  ASSUME BridgeInv, step \notin Serving, heap' = {}, step' = "gone", D!CloseAll \/ sess' = sess,
         UNCHANGED <<prog, tied, call, refs, l1>>, UNCHANGED D!pairVars
  PROVE  BridgeInv'
<1> USE DEF BridgeInv
<1>1. \A o : D!Of(o)' = {} /\ Cardinality(D!Of(o)') = 0
  BY NoBuffers, FS_EmptySet
<1>2. step' \notin Serving /\ step' # "register"
  BY DEF Serving
<1>3. \A b \in heap' : b \in heap
  OBVIOUS
<1>4. step' \notin Boot
  BY DEF Boot
<1>5. CallsInv' /\ Backend' /\ PairInv'
  BY <1>2, <1>3, <1>4, AtRest, Zenon
<1>6. sess' \in [{"echo", "model", "compute"} -> {"none", "failed", "open", "closed"}]
  BY DEF D!CloseAll, BridgeTypes
<1>7. BridgeTypes'
  BY <1>6, FS_EmptySet DEF BridgeTypes, Places
<1>8. Buffers'
  BY <1>1 DEF Buffers, Loading, Server
<1> QED BY <1>5, <1>7, <1>8

\* A program with no buffer left.
LEMMA NothingLeft ==
  ASSUME BridgeInv, step \notin Serving, D!Of("load") = {}, D!Of("kv") = {}, D!Of("reload") = {}
  PROVE  heap = {}
<1>1. \A c \in Caller : call[c].at \notin Busy
  BY Quiet DEF Busy
<1> QED BY <1>1, EmptyHeap

LEMMA KvAllocKeeps ==
  ASSUME D!BridgeAssumption, BridgeInv, D!KvAlloc
  PROVE  BridgeInv'
<1> USE DEF BridgeInv
<1>1. PICK n : n = Cardinality(D!Of("kv"))
  OBVIOUS
<1>2. /\ step = "kv"
      /\ UNCHANGED <<prog, tied, call, refs, l1>> /\ UNCHANGED D!pairVars
      /\ \/ heap' = heap \union {<<"model", "kv", n + 1>>} /\ step' = step /\ sess' = sess
         \/ n = 2 * Layers /\ step' = (IF prog = "daemon" THEN "compute" ELSE "matmul")
            /\ UNCHANGED <<heap, sess>>
         \/ prog = "daemon" /\ heap' = heap \ D!Of("kv") /\ step' = "compute" /\ sess' = sess
         \/ prog # "daemon" /\ heap' = {} /\ D!CloseAll /\ step' = "gone"
  BY <1>1, SameCardinality DEF D!KvAlloc, D!nttVars, D!Ends
<1>3. step \notin Serving /\ step \in Boot
  BY <1>2 DEF Serving, Boot
<1>4. prog \in {"daemon", "full_load"}
  BY <1>2 DEF BridgeTypes, Places, Serving, Drops
<1>5. D!NTensors' = D!NTensors
  BY <1>2, TensorsSame
<1>6. CASE heap' = heap \union {<<"model", "kv", n + 1>>} /\ step' = step /\ sess' = sess
  <2>1. PICK x : x = <<"model", "kv", n + 1>>
    OBVIOUS
  <2>2. x[1] = "model" /\ x[2] = "kv" /\ heap' = heap \union {x}
    BY <1>6, <2>1
  <2>3. \A b \in heap' : b \in heap \/ b[1] = "model"
    BY <2>2
  <2>4. step' \notin Serving /\ step' # "register"
    BY <1>2, <1>6, <1>3
  <2>5. CallsInv' /\ Backend' /\ PairInv'
    BY <1>2, <1>3, <2>3, <2>4, AtRest, Zenon
  <2>6. \A o : o # x[2] => D!Of(o)' = D!Of(o)
    BY <2>2, OneMoreBuffer, Zenon
  <2>7. D!Of("load")' = D!Of("load") /\ D!Of("reload")' = D!Of("reload")
    BY <2>2, <2>6
  <2>8. IsFiniteSet(heap')
    BY <2>2, FiniteFacts DEF BridgeTypes
  <2>9. BridgeTypes'
    BY <1>2, <1>6, <2>8 DEF BridgeTypes, Places
  <2>10. sess["model"] = "open"
    BY <1>2 DEF Buffers, Loading
  <2>11. \A b \in heap' : sess'[b[1]] = "open"
    BY <1>6, <2>2, <2>10 DEF Buffers
  <2>12. \A b \in heap' : \/ b[2] \in Model /\ b[1] = "model" /\ prog' \in {"daemon", "full_load"}
                          \/ \E c \in Caller : b \in EchoOf(c)
    <3>1. x[2] \in Model
      BY <2>2 DEF Model
    <3> QED BY <1>2, <1>4, <2>2, <3>1 DEF Buffers
  <2>13. Buffers'
    BY <1>2, <1>5, <1>6, <2>7, <2>10, <2>11, <2>12 DEF Buffers, Loading, Server
  <2> QED BY <2>5, <2>9, <2>13
<1>7. CASE n = 2 * Layers /\ step' = (IF prog = "daemon" THEN "compute" ELSE "matmul")
            /\ UNCHANGED <<heap, sess>>
  <2>1. Places'
    BY <1>2, <1>4, <1>7 DEF Places, Boot, Loading
  <2>2. step' \notin Serving /\ step' # "register"
    BY <1>7 DEF Serving
  <2>3. /\ BridgeTypes' /\ CallsInv' /\ Backend' /\ PairInv'
        /\ (\A o : D!Of(o)' = D!Of(o)) /\ D!NTensors' = D!NTensors
    BY <1>2, <1>3, <1>7, <2>1, <2>2, StepOnly, Zenon
  <2>4. Buffers'
    BY <1>1, <1>2, <1>7, <2>3 DEF Buffers, Loading, Server
  <2> QED BY <2>3, <2>4
<1>8. CASE prog = "daemon" /\ heap' = heap \ D!Of("kv") /\ step' = "compute" /\ sess' = sess
  <2>1. D!Of("kv")' = {} /\ \A o : o # "kv" => D!Of(o)' = D!Of(o)
    BY <1>8, DropBuffers
  <2>2. D!Of("load")' = D!Of("load") /\ D!Of("reload")' = D!Of("reload")
    BY <2>1
  <2>3. \A b \in heap' : b \in heap
    BY <1>8
  <2>4. step' \notin Serving /\ step' # "register"
    BY <1>8 DEF Serving
  <2>5. CallsInv' /\ Backend' /\ PairInv'
    BY <1>2, <1>3, <2>3, <2>4, AtRest, Zenon
  <2>6. IsFiniteSet(heap')
    BY <1>8, FiniteFacts DEF BridgeTypes
  <2>7. BridgeTypes'
    BY <1>2, <1>8, <2>6 DEF BridgeTypes, Places, Boot
  <2>8. Cardinality(D!Of("kv")') = 0
    BY <2>1, FS_EmptySet
  <2>9. Buffers'
    BY <1>2, <1>5, <1>8, <2>1, <2>2, <2>3, <2>8 DEF Buffers, Loading, Server
  <2> QED BY <2>5, <2>7, <2>9
<1>9. CASE heap' = {} /\ D!CloseAll /\ step' = "gone"
  BY <1>2, <1>3, <1>9, AllGone
<1> QED BY <1>2, <1>6, <1>7, <1>8, <1>9

LEMMA MatmulKeeps ==
  ASSUME BridgeInv, D!Matmul \/ D!NoFile
  PROVE  BridgeInv'
<1> USE DEF BridgeInv
<1>1. /\ \/ step = "matmul" /\ step' = "nofile"
         \/ step = "nofile" /\ step' = "reload_table"
      /\ UNCHANGED <<prog, tied, sess, heap, call, refs, l1>> /\ UNCHANGED D!pairVars
  BY DEF D!Matmul, D!NoFile, D!nttVars
<1>2. step \notin Serving /\ step' \notin Serving /\ step' # "register"
  BY <1>1 DEF Serving
<1>3. prog \in {"daemon", "server"} => step \in Boot \/ step' \notin Boot
  BY <1>1 DEF Boot
<1>4. Places'
  BY <1>1 DEF BridgeTypes, Places, Boot, Serving, Drops, Loading
<1>5. /\ BridgeTypes' /\ CallsInv' /\ Backend' /\ PairInv'
      /\ (\A o : D!Of(o)' = D!Of(o)) /\ D!NTensors' = D!NTensors
  BY <1>1, <1>2, <1>3, <1>4, StepOnly, Zenon
<1>6. Buffers'
  BY <1>1, <1>5 DEF Buffers, Loading, Server
<1> QED BY <1>5, <1>6

\* One owner's buffers go, at a step of a program that ends.
LEMMA DropOne ==
  ASSUME BridgeInv, NEW p \in {"load", "kv"}, heap' = heap \ D!Of(p),
         step \notin Serving, step' \notin Serving, step' # "register", step' \notin Boot,
         UNCHANGED <<prog, tied, sess, call, refs, l1>>, UNCHANGED D!pairVars, Places'
  PROVE  /\ BridgeTypes' /\ CallsInv' /\ Backend' /\ PairInv' /\ D!NTensors' = D!NTensors
         /\ D!Of(p)' = {} /\ Cardinality(D!Of(p)') = 0 /\ (\A o : o # p => D!Of(o)' = D!Of(o))
         /\ \A b \in heap' : b \in heap
<1> USE DEF BridgeInv
<1>1. D!Of(p)' = {} /\ \A o : o # p => D!Of(o)' = D!Of(o)
  BY DropBuffers
<1>2. \A b \in heap' : b \in heap
  OBVIOUS
<1>3. CallsInv' /\ Backend' /\ PairInv'
  BY <1>2, AtRest, Zenon
<1>4. IsFiniteSet(heap')
  BY FiniteFacts DEF BridgeTypes
<1>5. BridgeTypes'
  BY <1>4 DEF BridgeTypes
<1>6. Cardinality(D!Of(p)') = 0
  BY <1>1, FS_EmptySet
<1> QED BY <1>1, <1>2, <1>3, <1>5, <1>6, TensorsSame

LEMMA DropLoadedKeeps ==
  ASSUME BridgeInv, D!DropLoaded
  PROVE  BridgeInv'
<1> USE DEF BridgeInv
<1>1. /\ prog = "full_load" /\ UNCHANGED <<prog, tied, call, refs, l1>> /\ UNCHANGED D!pairVars
      /\ \/ step = "drop_kv" /\ heap' = heap \ D!Of("kv") /\ step' = "drop_model" /\ sess' = sess
         \/ step = "drop_model" /\ heap' = heap \ D!Of("load") /\ step' = "drop_sess" /\ sess' = sess
         \/ step = "drop_sess" /\ D!CloseAll /\ step' = "gone" /\ heap' = heap
  BY DEF D!DropLoaded, D!nttVars, D!Ends
<1>2. step \notin Serving /\ step' \notin Serving /\ step' # "register" /\ step' \notin Boot
  BY <1>1 DEF Serving, Boot
<1>3. Places'
  BY <1>1 DEF Places
<1>4. CASE step = "drop_kv" /\ heap' = heap \ D!Of("kv") /\ step' = "drop_model" /\ sess' = sess
  <2>1. /\ BridgeTypes' /\ CallsInv' /\ Backend' /\ PairInv' /\ D!NTensors' = D!NTensors
        /\ D!Of("kv")' = {} /\ Cardinality(D!Of("kv")') = 0 /\ (\A o : o # "kv" => D!Of(o)' = D!Of(o))
        /\ \A b \in heap' : b \in heap
    BY <1>1, <1>2, <1>3, <1>4, DropOne
  <2>2. D!Of("load")' = D!Of("load") /\ D!Of("reload")' = D!Of("reload")
    BY <2>1
  <2>3. Buffers'
    BY <1>1, <1>4, <2>1, <2>2 DEF Buffers, Loading, Server
  <2> QED BY <2>1, <2>3
<1>5. CASE step = "drop_model" /\ heap' = heap \ D!Of("load") /\ step' = "drop_sess" /\ sess' = sess
  <2>1. /\ BridgeTypes' /\ CallsInv' /\ Backend' /\ PairInv' /\ D!NTensors' = D!NTensors
        /\ D!Of("load")' = {} /\ Cardinality(D!Of("load")') = 0 /\ (\A o : o # "load" => D!Of(o)' = D!Of(o))
        /\ \A b \in heap' : b \in heap
    BY <1>1, <1>2, <1>3, <1>5, DropOne
  <2>2. D!Of("kv")' = {} /\ D!Of("reload")' = {}
    <3>1. D!Of("kv") = {} /\ D!Of("reload") = {}
      BY <1>1, <1>5 DEF Buffers
    <3> QED BY <2>1, <3>1
  <2>3. Cardinality(D!Of("kv")') = 0
    BY <2>2, FS_EmptySet
  <2>4. heap' = {}
    <3>1. \A b \in heap' : b[2] \in {"load", "reload", "kv"}
      BY <1>2, <2>1, Quiet DEF Model
    <3> QED BY <2>1, <2>2, <3>1 DEF D!Of
  <2>5. Buffers'
    BY <1>1, <1>5, <2>1, <2>2, <2>3, <2>4 DEF Buffers, Loading, Server
  <2> QED BY <2>1, <2>5
<1>6. CASE step = "drop_sess" /\ D!CloseAll /\ step' = "gone" /\ heap' = heap
  <2>1. heap' = {}
    BY <1>6 DEF Buffers
  <2> QED BY <1>1, <1>2, <1>6, <2>1, AllGone
<1> QED BY <1>1, <1>4, <1>5, <1>6

\* A step between two states in which requests are served.
LEMMA RegisterKeeps == ASSUME BridgeInv, D!Register PROVE BridgeInv'
<1> USE DEF BridgeInv
<1>1. /\ step = "register" /\ step' = "serve"
      /\ \/ refs' = refs + 1 /\ l1' = "idle"
         \/ refs' = refs /\ l1' = l1
      /\ UNCHANGED <<prog, tied, sess, heap, call>> /\ UNCHANGED D!pairVars
  BY DEF D!Register
<1>2. (\A o : D!Of(o)' = D!Of(o)) /\ D!NTensors' = D!NTensors
  BY <1>1, SameHeap, TensorsSame
<1>3. refs = 1 /\ sess["compute"] = "open" /\ l1 = "none" /\ prog = "daemon"
  BY <1>1 DEF Backend, Serving, BridgeTypes, Places, Drops, Loading
<1>4. BridgeTypes'
  BY <1>1, <1>3 DEF BridgeTypes, Places, Serving
<1>5. Buffers'
  BY <1>1, <1>2 DEF Buffers, Loading, Server
<1>6. CallsInv'
  <2>1. \A c \in Caller : call[c].at = "idle" /\ call[c].answer = <<0, "none">>
    BY <1>1 DEF CallsInv, Boot
  <2>2. \A c \in Caller : <<"echo", c, "in">> \notin heap' /\ <<"echo", c, "out">> \notin heap'
    BY <1>1, <2>1 DEF CallsInv
  <2>3. prog' = "daemon" /\ step' = "serve" /\ call' = call
    BY <1>1, <1>3
  <2>4. Server' /\ step' \notin Boot
    BY <2>3 DEF Server, Boot
  <2> QED BY <2>1, <2>2, <2>3, <2>4 DEF CallsInv, Busy
<1>7. Backend' /\ PairInv'
  BY <1>1, <1>3, PairSame DEF Backend, Serving
<1> QED BY <1>4, <1>5, <1>6, <1>7

LEMMA TrampolineKeeps ==
  ASSUME BridgeInv, D!Trampoline \/ D!TrampolineReturns
  PROVE  BridgeInv'
<1> USE DEF BridgeInv
<1>1. /\ l1 # "none" /\ UNCHANGED <<prog, step, tied, sess, heap, call, refs>> /\ UNCHANGED D!pairVars
  BY DEF D!Trampoline, D!TrampolineReturns
<1>2. (\A o : D!Of(o)' = D!Of(o)) /\ D!NTensors' = D!NTensors
  BY <1>1, SameHeap, TensorsSame
<1>3. BridgeTypes'
  BY <1>1 DEF BridgeTypes, Places
<1>4. Buffers'
  BY <1>1, <1>2 DEF Buffers, Server
<1>5. CallsInv'
  BY <1>1, <1>2 DEF CallsInv, Server
<1>6. Backend' /\ PairInv'
  BY <1>1, PairSame DEF Backend
<1> QED BY <1>3, <1>4, <1>5, <1>6

LEMMA StopKeeps == ASSUME BridgeInv, D!Stop PROVE BridgeInv'
<1> USE DEF BridgeInv
<1>1. /\ step = "serve" /\ step' = "stopping"
      /\ UNCHANGED <<prog, tied, sess, heap, call, refs, l1>> /\ UNCHANGED D!pairVars
  BY DEF D!Stop, D!nttVars
<1>2. (\A o : D!Of(o)' = D!Of(o)) /\ D!NTensors' = D!NTensors
  BY <1>1, SameHeap, TensorsSame
<1>3. BridgeTypes'
  BY <1>1 DEF BridgeTypes, Places, Boot, Serving, Drops, Loading
<1>4. Buffers'
  BY <1>1, <1>2 DEF Buffers, Loading, Server
<1>5. CallsInv'
  BY <1>1, <1>2 DEF CallsInv, Server, Serving, Boot
<1>6. Backend' /\ PairInv'
  BY <1>1, PairSame DEF Backend, Serving
<1> QED BY <1>3, <1>4, <1>5, <1>6

\* The state goes: the tasks are over, then field by field.
LEMMA DropStateKeeps == ASSUME BridgeInv, D!DropState PROVE BridgeInv'
<1> USE DEF BridgeInv
<1>1. /\ prog \in {"daemon", "server"} /\ Server
      /\ UNCHANGED <<prog, tied, call>> /\ UNCHANGED D!pairVars
  BY DEF D!DropState, Server
<1>2. \/ /\ step = "stopping" /\ D!TasksOver /\ l1' = "none" /\ step' = "drop_echo"
         /\ UNCHANGED <<sess, heap, refs>>
      \/ /\ step = "drop_echo" /\ step' = "drop_model"
         /\ sess' = [sess EXCEPT !["echo"] = IF @ = "open" THEN "closed" ELSE @]
         /\ UNCHANGED <<heap, refs, l1>>
      \/ /\ step = "drop_model" /\ step' = "drop_kv"
         /\ heap' = heap \ D!Of("load") /\ UNCHANGED <<sess, refs, l1>>
      \/ /\ step = "drop_kv" /\ step' = "drop_backend"
         /\ heap' = heap \ D!Of("kv") /\ UNCHANGED <<sess, refs, l1>>
      \/ /\ step = "drop_backend" /\ step' = "gone"
         /\ refs' = IF refs = 0 THEN 0 ELSE refs - 1
         /\ sess' = [sess EXCEPT !["compute"] = IF @ = "open" /\ refs = 1 THEN "closed" ELSE @]
         /\ UNCHANGED <<heap, l1>>
  BY DEF D!DropState, D!Ends
<1>3. step' \notin Serving /\ step' # "register" /\ step' \notin Boot /\ Places'
  BY <1>1, <1>2 DEF Serving, Boot, Places, Drops
<1>4. D!NTensors' = D!NTensors
  BY <1>1, TensorsSame
<1>5. CASE step = "stopping" /\ D!TasksOver /\ l1' = "none" /\ step' = "drop_echo" /\ UNCHANGED <<sess, heap, refs>>
  <2>1. \A o : D!Of(o)' = D!Of(o)
    BY <1>5, SameHeap
  <2>2. BridgeTypes'
    BY <1>1, <1>3, <1>5 DEF BridgeTypes
  <2>3. Buffers'
    BY <1>1, <1>4, <1>5, <2>1 DEF Buffers, Loading, Server
  <2>4. \A c \in Caller : call[c].at \in {"idle", "done"}
    BY <1>5 DEF D!TasksOver
  <2>5. CallsInv'
    <3>1. Server' /\ step' \notin Boot /\ step' # "serve" /\ heap' = heap /\ call' = call
      BY <1>1, <1>3, <1>5 DEF Server
    <3> QED BY <2>4, <3>1 DEF CallsInv, Busy
  <2>6. Backend' /\ PairInv'
    BY <1>1, <1>5, PairSame DEF Backend
  <2> QED BY <2>2, <2>3, <2>5, <2>6
<1>6. CASE step = "drop_echo" /\ step' = "drop_model" /\ UNCHANGED <<heap, refs, l1>>
           /\ sess' = [sess EXCEPT !["echo"] = IF @ = "open" THEN "closed" ELSE @]
  <2>1. \A o : D!Of(o)' = D!Of(o)
    BY <1>6, SameHeap
  <2>2. step \notin Serving
    BY <1>6 DEF Serving
  <2>3. \A b \in heap' : b \in heap
    BY <1>6
  <2>4. CallsInv' /\ Backend' /\ PairInv'
    BY <1>1, <1>3, <1>6, <2>2, <2>3, AtRest, Zenon
  <2>5. sess' \in [{"echo", "model", "compute"} -> {"none", "failed", "open", "closed"}]
        /\ sess'["model"] = sess["model"]
    BY <1>6 DEF BridgeTypes
  <2>6. BridgeTypes'
    BY <1>1, <1>3, <1>6, <2>5 DEF BridgeTypes
  <2>7. \A b \in heap' : sess'[b[1]] = "open"
    BY <1>6, <2>2, <2>5, Quiet DEF Buffers
  <2>8. Buffers'
    BY <1>1, <1>4, <1>6, <2>1, <2>7 DEF Buffers, Loading, Server
  <2> QED BY <2>4, <2>6, <2>8
<1>7. CASE step = "drop_model" /\ step' = "drop_kv" /\ heap' = heap \ D!Of("load") /\ UNCHANGED <<sess, refs, l1>>
  <2>1. step \notin Serving
    BY <1>7 DEF Serving
  <2>2. /\ BridgeTypes' /\ CallsInv' /\ Backend' /\ PairInv' /\ D!NTensors' = D!NTensors
        /\ D!Of("load")' = {} /\ Cardinality(D!Of("load")') = 0 /\ (\A o : o # "load" => D!Of(o)' = D!Of(o))
        /\ \A b \in heap' : b \in heap
    BY <1>1, <1>3, <1>7, <2>1, DropOne
  <2>3. D!Of("kv")' = D!Of("kv") /\ D!Of("reload")' = D!Of("reload")
    BY <2>2
  <2>4. Buffers'
    BY <1>1, <1>7, <2>2, <2>3 DEF Buffers, Loading, Server
  <2> QED BY <2>2, <2>4
<1>8. CASE step = "drop_kv" /\ step' = "drop_backend" /\ heap' = heap \ D!Of("kv") /\ UNCHANGED <<sess, refs, l1>>
  <2>1. step \notin Serving
    BY <1>8 DEF Serving
  <2>2. /\ BridgeTypes' /\ CallsInv' /\ Backend' /\ PairInv' /\ D!NTensors' = D!NTensors
        /\ D!Of("kv")' = {} /\ Cardinality(D!Of("kv")') = 0 /\ (\A o : o # "kv" => D!Of(o)' = D!Of(o))
        /\ \A b \in heap' : b \in heap
    BY <1>1, <1>3, <1>8, <2>1, DropOne
  <2>3. D!Of("load")' = D!Of("load") /\ D!Of("reload")' = D!Of("reload")
    BY <2>2
  <2>4. Buffers'
    BY <1>1, <1>8, <2>2, <2>3 DEF Buffers, Loading, Server
  <2> QED BY <2>2, <2>4
<1>9. CASE step = "drop_backend" /\ step' = "gone" /\ UNCHANGED <<heap, l1>>
           /\ refs' = (IF refs = 0 THEN 0 ELSE refs - 1)
           /\ sess' = [sess EXCEPT !["compute"] = IF @ = "open" /\ refs = 1 THEN "closed" ELSE @]
  <2>1. step \notin Serving
    BY <1>9 DEF Serving
  <2>2. heap = {}
    <3>1. D!Of("load") = {} /\ D!Of("kv") = {} /\ D!Of("reload") = {}
      BY <1>1, <1>9 DEF Buffers
    <3> QED BY <2>1, <3>1, NothingLeft
  <2>3. \A o : D!Of(o)' = {} /\ Cardinality(D!Of(o)') = 0
    BY <1>9, <2>2, NoBuffers, FS_EmptySet
  <2>4. \A b \in heap' : b \in heap
    BY <1>9
  <2>5. CallsInv' /\ Backend' /\ PairInv'
    BY <1>1, <1>3, <1>9, <2>1, <2>4, AtRest, Zenon
  <2>6. sess' \in [{"echo", "model", "compute"} -> {"none", "failed", "open", "closed"}]
    BY <1>9 DEF BridgeTypes
  <2>7. refs' \in 0 .. 2
    BY <1>9 DEF BridgeTypes
  <2>8. BridgeTypes'
    BY <1>1, <1>3, <1>9, <2>6, <2>7 DEF BridgeTypes
  <2>9. Buffers'
    BY <1>9, <2>2, <2>3 DEF Buffers, Loading, Server
  <2> QED BY <2>5, <2>8, <2>9
<1> QED BY <1>2, <1>5, <1>6, <1>7, <1>8, <1>9

\* The dual test has no buffer of its own, and no request.
LEMMA DualStep ==
  ASSUME BridgeInv, step \in {"first", "second", "pair", "close"},
         step' \in {"first", "second", "pair", "close", "gone"},
         UNCHANGED <<prog, tied, heap, call, refs, l1>>, D!CloseAll \/ sess' = sess
  PROVE  BridgeTypes' /\ Buffers' /\ CallsInv' /\ Backend'
<1> USE DEF BridgeInv
<1>1. prog = "dual" /\ step \notin Serving /\ step' \notin Serving /\ step' # "register"
  BY DEF BridgeTypes, Places, Boot, Serving, Drops, Loading
<1>2. heap = {}
  BY <1>1, Quiet
<1>3. \A o : D!Of(o)' = {} /\ Cardinality(D!Of(o)') = 0
  BY <1>2, NoBuffers, FS_EmptySet
<1>4. sess' \in [{"echo", "model", "compute"} -> {"none", "failed", "open", "closed"}]
  BY DEF D!CloseAll, BridgeTypes
<1>5. BridgeTypes'
  BY <1>1, <1>4 DEF BridgeTypes, Places
<1>6. Buffers'
  BY <1>2, <1>3 DEF Buffers, Loading, Server
<1>7. \A c \in Caller : call[c].at = "idle" /\ call[c].answer = <<0, "none">>
  BY <1>1 DEF CallsInv, Server
<1>8. CallsInv'
  <2>1. call' = call /\ heap' = {} /\ step' # "serve"
    BY <1>2
  <2> QED BY <1>7, <2>1 DEF CallsInv, Busy
<1>9. Backend'
  BY <1>1, Quiet DEF Backend
<1> QED BY <1>5, <1>6, <1>8, <1>9

LEMMA InvokeOnceKeeps == ASSUME BridgeInv, D!InvokeOnce PROVE BridgeInv'
<1>1. /\ step \in {"first", "second"} /\ step' \in {"second", "pair", "gone"}
      /\ D!CloseAll \/ sess' = sess
      /\ UNCHANGED <<prog, tied, heap, call, refs, l1>> /\ UNCHANGED D!pairVars
  BY DEF D!InvokeOnce, D!nttVars, D!Ends
<1>2. BridgeTypes' /\ Buffers' /\ CallsInv' /\ Backend'
  BY <1>1, DualStep
<1> QED BY <1>1, <1>2, PairSame DEF BridgeInv

LEMMA CloseKeeps == ASSUME BridgeInv, D!Close PROVE BridgeInv'
<1>1. /\ step = "close" /\ step' = "gone" /\ D!CloseAll
      /\ UNCHANGED <<prog, tied, heap, call, refs, l1>> /\ UNCHANGED D!pairVars
  BY DEF D!Close, D!nttVars, D!Ends
<1>2. BridgeTypes' /\ Buffers' /\ CallsInv' /\ Backend'
  BY <1>1, DualStep
<1> QED BY <1>1, <1>2, PairSame DEF BridgeInv

LEMMA JoinKeeps == ASSUME BridgeInv, D!Join PROVE BridgeInv'
<1>1. /\ step = "pair" /\ step' \in {"gone", "pair", "close"} /\ sess' = sess
      /\ UNCHANGED <<prog, tied, heap, call, refs, l1>>
      /\ \/ UNCHANGED D!pairVars
         \/ pair' = D!NoPair /\ now' = 0 /\ together' = 0
  BY DEF D!Join, D!Joined, D!nttVars, D!Ends, D!pairVars
<1>2. BridgeTypes' /\ Buffers' /\ CallsInv' /\ Backend'
  BY <1>1, DualStep
<1>3. CASE pair' = D!NoPair /\ now' = 0 /\ together' = 0
  <2>1. PairInv'
    BY <1>3 DEF PairInv, D!NoPair, D!Thread, Over, D!Running
  <2> QED BY <1>2, <2>1 DEF BridgeInv
<1>4. CASE UNCHANGED D!pairVars
  BY <1>2, <1>4, PairSame DEF BridgeInv
<1> QED BY <1>1, <1>3, <1>4

\* The times of two calls: how long both ran, said of one thread and the other.
Times(x, y, n, b) ==
  /\ (x.at = "ready" \/ y.at = "ready") => b = 0
  /\ (x.at = "run" /\ y.at = "run") => b = 0 /\ n = D!Later(x.start, y.start) + 1
  /\ (x.at \in {"ok", "err"} /\ y.at = "run") => b = D!Later(0, x.end - D!Later(x.start, y.start))
  /\ (y.at \in {"ok", "err"} /\ x.at = "run") => b = D!Later(0, y.end - D!Later(y.start, x.start))
  /\ (x.at \in {"ok", "err"} /\ y.at \in {"ok", "err"}) =>
        b = D!Later(0, D!Earlier(x.end, y.end) - D!Later(x.start, y.start))
Clocked(x, n) == /\ x.at # "ready" => x.start < n
                 /\ x.at \in {"ok", "err"} => x.start < x.end /\ x.end < n
Timed == [at : {"ready", "run", "ok", "err"}, start : Nat, end : Nat]

PairClock == /\ pair \in [D!Thread -> Timed] /\ now \in Nat /\ together \in Nat
             /\ \A t \in D!Thread : Clocked(pair[t], now)
             /\ Times(pair["A"], pair["B"], now, together)

LEMMA PairAsTimes == PairInv <=> PairClock
<1>1. ASSUME NEW x \in Timed, NEW y \in Timed
      PROVE  D!Later(x.start, y.start) = D!Later(y.start, x.start) /\ D!Earlier(x.end, y.end) = D!Earlier(y.end, x.end)
  BY DEF D!Later, D!Earlier, Timed
<1>2. ASSUME PairInv
      PROVE  /\ pair \in [D!Thread -> Timed] /\ now \in Nat /\ together \in Nat
             /\ \A t \in D!Thread : Clocked(pair[t], now)
             /\ Times(pair["A"], pair["B"], now, together)
  <2>1. pair \in [D!Thread -> Timed] /\ now \in Nat /\ together \in Nat
    BY <1>2 DEF PairInv, Timed
  <2>2. \A t \in D!Thread : Clocked(pair[t], now)
    BY <1>2 DEF PairInv, Clocked, Over
  <2>3. Times(pair["A"], pair["B"], now, together)
    BY <1>2, <2>1 DEF PairInv, Times, Over, D!Running, D!Thread
  <2> QED BY <2>1, <2>2, <2>3
<1>3. ASSUME pair \in [D!Thread -> Timed], now \in Nat, together \in Nat,
             \A t \in D!Thread : Clocked(pair[t], now),
             Times(pair["A"], pair["B"], now, together)
      PROVE  PairInv
  <2>1. \A t \in D!Thread : /\ pair[t].at # "ready" => pair[t].start < now
                            /\ Over(t) => pair[t].start < pair[t].end /\ pair[t].end < now
    BY <1>3 DEF Clocked, Over
  <2>2. ASSUME NEW t \in D!Thread, NEW u \in D!Thread, t # u
        PROVE  /\ pair[t].at = "ready" => together = 0
               /\ D!Running(t) /\ D!Running(u) => together = 0 /\ now = D!Later(pair[t].start, pair[u].start) + 1
               /\ Over(t) /\ D!Running(u) =>
                    together = D!Later(0, pair[t].end - D!Later(pair[t].start, pair[u].start))
               /\ Over(t) /\ Over(u) =>
                    together = D!Later(0, D!Earlier(pair[t].end, pair[u].end) - D!Later(pair[t].start, pair[u].start))
    <3>1. pair["A"] \in Timed /\ pair["B"] \in Timed
      BY <1>3 DEF D!Thread
    <3>2. D!Later(pair["A"].start, pair["B"].start) = D!Later(pair["B"].start, pair["A"].start)
          /\ D!Earlier(pair["A"].end, pair["B"].end) = D!Earlier(pair["B"].end, pair["A"].end)
      BY <1>1, <3>1
    <3>3. (t = "A" /\ u = "B") \/ (t = "B" /\ u = "A")
      BY <2>2 DEF D!Thread
    <3>4. CASE t = "A" /\ u = "B"
      BY <1>3, <3>4 DEF Times, Over, D!Running
    <3>5. CASE t = "B" /\ u = "A"
      BY <1>3, <3>2, <3>5 DEF Times, Over, D!Running
    <3> QED BY <3>3, <3>4, <3>5
  <2> QED BY <1>3, <2>1, <2>2 DEF PairInv, Timed
<1> QED BY <1>2, <1>3 DEF PairClock

\* A call starts, or ends, at this instant.
LEMMA TimesStart ==
  ASSUME NEW x \in Timed, NEW y \in Timed, NEW z \in Timed, NEW n \in Nat, NEW b \in Nat,
         Clocked(x, n), Clocked(y, n), Times(x, y, n, b),
         x.at = "ready", z.at = "run", z.start = n
  PROVE  Times(z, y, n + 1, b) /\ Clocked(z, n + 1) /\ Clocked(y, n + 1)
BY DEF Times, Clocked, Timed, D!Later, D!Earlier

LEMMA TimesEnd ==
  ASSUME NEW x \in Timed, NEW y \in Timed, NEW z \in Timed, NEW n \in Nat, NEW b \in Nat,
         Clocked(x, n), Clocked(y, n), Times(x, y, n, b),
         x.at = "run", z.at \in {"ok", "err"}, z.start = x.start, z.end = n
  PROVE  /\ Times(z, y, n + 1, IF y.at = "run" THEN b + 1 ELSE b)
         /\ Clocked(z, n + 1) /\ Clocked(y, n + 1)
<1>1. Clocked(z, n + 1) /\ Clocked(y, n + 1)
  BY DEF Clocked, Timed
<1>2. CASE y.at = "ready"
  BY <1>2 DEF Times, Clocked, Timed, D!Later, D!Earlier
<1>3. CASE y.at = "run"
  BY <1>3 DEF Times, Clocked, Timed, D!Later, D!Earlier
<1>4. CASE y.at \in {"ok", "err"}
  BY <1>4 DEF Times, Clocked, Timed, D!Later, D!Earlier
<1>5. y.at \in {"ready", "run", "ok", "err"}
  BY DEF Timed
<1> QED BY <1>1, <1>2, <1>3, <1>4, <1>5

LEMMA TimesSwap ==
  ASSUME NEW x \in Timed, NEW y \in Timed, NEW n \in Nat, NEW b \in Nat
  PROVE  Times(x, y, n, b) <=> Times(y, x, n, b)
BY DEF Times, Timed, D!Later, D!Earlier

\* The other thread of the pair.
LEMMA OneThread ==
  ASSUME PairInv, NEW t \in D!Thread, NEW z \in Timed, NEW u \in D!Thread, t # u,
         pair' = [pair EXCEPT ![t] = z], now' = now + 1, together' \in Nat,
         Clocked(z, now + 1), Clocked(pair[u], now + 1), Times(z, pair[u], now + 1, together')
  PROVE  PairInv'
<1>1. pair \in [D!Thread -> Timed] /\ now \in Nat
  BY PairAsTimes DEF PairClock
<1>2. pair' \in [D!Thread -> Timed] /\ pair'[t] = z /\ pair'[u] = pair[u] /\ now' \in Nat
  BY <1>1
<1>3. \A v \in D!Thread : v = t \/ v = u
  BY DEF D!Thread
<1>4. \A v \in D!Thread : Clocked(pair'[v], now')
  BY <1>2, <1>3
<1>5. Times(pair'[t], pair'[u], now', together') /\ Times(pair'[u], pair'[t], now', together')
  BY <1>1, <1>2, TimesSwap
<1>6. Times(pair'["A"], pair'["B"], now', together')
  BY <1>5 DEF D!Thread
<1>7. PairInv' <=> PairClock'
  BY PairAsTimes, PTL
<1>8. PairClock'
  BY <1>2, <1>4, <1>6 DEF PairClock
<1> QED BY <1>7, <1>8

LEMMA StartsKeeps == ASSUME BridgeInv, NEW t \in D!Thread, D!Starts(t) PROVE BridgeInv'
<1>1. /\ step = "pair" /\ step' = "pair" /\ sess' = sess
      /\ UNCHANGED <<prog, tied, heap, call, refs, l1>>
      /\ pair[t].at = "ready" /\ now' = now + 1
      /\ together' = IF \A u \in D!Thread : D!Running(u) THEN together + 1 ELSE together
      /\ pair' = [pair EXCEPT ![t].at = "run", ![t].start = now]
  BY DEF D!Starts, D!Elapse, D!nttVars
<1>2. BridgeTypes' /\ Buffers' /\ CallsInv' /\ Backend'
  BY <1>1, DualStep
<1>3. PairInv
  BY DEF BridgeInv
<1>4. /\ pair \in [D!Thread -> Timed] /\ now \in Nat /\ together \in Nat
      /\ \A v \in D!Thread : Clocked(pair[v], now)
      /\ Times(pair["A"], pair["B"], now, together)
  BY <1>3, PairAsTimes DEF PairClock
<1>5. PICK u \in D!Thread : t # u /\ \A v \in D!Thread : v = t \/ v = u
  BY DEF D!Thread
<1>6. together' = together
  BY <1>1 DEF D!Running
<1>7. PICK z : z = [pair[t] EXCEPT !.at = "run", !.start = now]
  OBVIOUS
<1>8. pair[t] \in Timed /\ pair[u] \in Timed
  BY <1>4
<1>9. z \in Timed /\ z.at = "run" /\ z.start = now
  BY <1>4, <1>7, <1>8 DEF Timed
<1>10. pair' = [pair EXCEPT ![t] = z]
  BY <1>1, <1>4, <1>7
<1>11. Times(pair[t], pair[u], now, together)
  BY <1>4, <1>5, <1>8, TimesSwap DEF D!Thread
<1>12. Times(z, pair[u], now + 1, together) /\ Clocked(z, now + 1) /\ Clocked(pair[u], now + 1)
  BY <1>1, <1>4, <1>8, <1>9, <1>11, TimesStart
<1>13. together' \in Nat /\ Times(z, pair[u], now + 1, together')
  BY <1>4, <1>6, <1>12
<1>14. PairInv'
  BY <1>1, <1>3, <1>5, <1>9, <1>10, <1>12, <1>13, OneThread
<1> QED BY <1>2, <1>14 DEF BridgeInv

LEMMA FinishesKeeps == ASSUME BridgeInv, NEW t \in D!Thread, D!Finishes(t) PROVE BridgeInv'
<1>0. PICK r \in {"ok", "err"} : pair' = [pair EXCEPT ![t].at = r, ![t].end = now]
  BY DEF D!Finishes
<1>1. /\ step = "pair" /\ step' = "pair" /\ sess' = sess
      /\ UNCHANGED <<prog, tied, heap, call, refs, l1>>
      /\ pair[t].at = "run" /\ now' = now + 1
      /\ together' = IF \A u \in D!Thread : D!Running(u) THEN together + 1 ELSE together
  BY DEF D!Finishes, D!Elapse, D!nttVars, D!Running
<1>2. BridgeTypes' /\ Buffers' /\ CallsInv' /\ Backend'
  BY <1>1, DualStep
<1>3. PairInv
  BY DEF BridgeInv
<1>4. /\ pair \in [D!Thread -> Timed] /\ now \in Nat /\ together \in Nat
      /\ \A v \in D!Thread : Clocked(pair[v], now)
      /\ Times(pair["A"], pair["B"], now, together)
  BY <1>3, PairAsTimes DEF PairClock
<1>5. PICK u \in D!Thread : t # u /\ \A v \in D!Thread : v = t \/ v = u
  BY DEF D!Thread
<1>6. together' = IF pair[u].at = "run" THEN together + 1 ELSE together
  BY <1>1, <1>5 DEF D!Running
<1>7. PICK z : z = [pair[t] EXCEPT !.at = r, !.end = now]
  OBVIOUS
<1>8. pair[t] \in Timed /\ pair[u] \in Timed
  BY <1>4
<1>9. z \in Timed /\ z.at \in {"ok", "err"} /\ z.start = pair[t].start /\ z.end = now
  BY <1>4, <1>7, <1>8 DEF Timed
<1>10. pair' = [pair EXCEPT ![t] = z]
  BY <1>0, <1>4, <1>7
<1>11. Times(pair[t], pair[u], now, together)
  BY <1>4, <1>5, <1>8, TimesSwap DEF D!Thread
<1>12. Times(z, pair[u], now + 1, together') /\ Clocked(z, now + 1) /\ Clocked(pair[u], now + 1)
  BY <1>1, <1>4, <1>6, <1>8, <1>9, <1>11, TimesEnd
<1>13. together' \in Nat
  BY <1>4, <1>6
<1>14. PairInv'
  BY <1>1, <1>3, <1>5, <1>9, <1>10, <1>12, <1>13, OneThread
<1> QED BY <1>2, <1>14 DEF BridgeInv

\* What the test reports of a pair.
LEMMA OverlapIsTogether ==
  ASSUME BridgeInv, D!Joined
  PROVE  D!overlap = together /\ D!wall_total >= D!Later(D!wall("A"), D!wall("B")) /\ D!overlap <= D!Earlier(D!wall("A"), D!wall("B"))
<1>1. /\ pair \in [D!Thread -> Timed] /\ now \in Nat /\ together \in Nat
      /\ \A v \in D!Thread : Clocked(pair[v], now)
      /\ Times(pair["A"], pair["B"], now, together)
  BY PairAsTimes DEF PairClock, BridgeInv
<1>2. PICK x \in Timed, y \in Timed : x = pair["A"] /\ y = pair["B"]
  BY <1>1 DEF D!Thread
<1>3. x.at \in {"ok", "err"} /\ y.at \in {"ok", "err"}
  BY <1>2 DEF D!Joined, D!Thread
<1>4. x.start < x.end /\ y.start < y.end
  BY <1>1, <1>2, <1>3 DEF Clocked, D!Thread
<1>5. together = D!Later(0, D!Earlier(x.end, y.end) - D!Later(x.start, y.start))
  BY <1>1, <1>2, <1>3 DEF Times
<1>6. x.start \in Nat /\ x.end \in Nat /\ y.start \in Nat /\ y.end \in Nat
  BY DEF Timed
<1>7. /\ D!overlap = D!Later(0, D!Earlier(x.end, y.end) - D!Later(x.start, y.start))
      /\ D!wall_total = D!Later(x.end, y.end) - D!Earlier(x.start, y.start)
      /\ D!wall("A") = x.end - x.start /\ D!wall("B") = y.end - y.start
  BY <1>2 DEF D!overlap, D!wall_total, D!wall
<1>8. /\ D!Later(x.end, y.end) - D!Earlier(x.start, y.start) >= D!Later(x.end - x.start, y.end - y.start)
      /\ D!Later(0, D!Earlier(x.end, y.end) - D!Later(x.start, y.start)) <= D!Earlier(x.end - x.start, y.end - y.start)
  BY <1>4, <1>6 DEF D!Later, D!Earlier
<1> QED BY <1>5, <1>7, <1>8

\* A request that moves: the others' calls and the model's buffers stay.
Call == [at : {"idle", "lock", "in", "out", "call", "done"}, n : Nat,
         answer : Int \X (Caller \union {"none", "model"}), conn : BOOLEAN]

LEMMA EchoStep ==
  ASSUME D!BridgeAssumption, BridgeInv, NEW c \in Caller, NEW k, k = call'[c], step \in Serving, Server,
         call' \in [Caller -> Call], \A d \in Caller : d # c => call'[d] = call[d],
         UNCHANGED <<prog, step, tied, sess, refs, l1>>, UNCHANGED D!pairVars,
         IsFiniteSet(heap'),
         \A b \in heap' : b \in heap \/ b \in EchoOf(c),
         \A b \in heap : b \in heap' \/ b \in EchoOf(c),
         <<"echo", c, "in">> \in heap' <=> k.at \in {"in", "out", "call"},
         <<"echo", c, "out">> \in heap' <=> k.at \in {"out", "call"},
         k.at \in {"lock", "in", "out", "call"} => sess["echo"] = "open",
         k.answer[1] = 200 => k.answer[2] \in {c, "model"},
         step = "serve" /\ k.answer = <<200, "model">> => Cardinality(D!Of("load")) = D!NTensors,
         k.at \in Busy => call[c].at \in Busy \/ D!HandleFree
  PROVE  BridgeInv'
<1> USE DEF BridgeInv
<1>1. c \notin Model
  BY DEF D!BridgeAssumption, Model
<1>2. \A o \in Model : D!Of(o)' = D!Of(o)
  <2>1. \A b \in EchoOf(c) : b[2] = c
    BY DEF EchoOf
  <2> QED BY <1>1, <2>1 DEF D!Of
<1>3. D!Of("load")' = D!Of("load") /\ D!Of("kv")' = D!Of("kv") /\ D!Of("reload")' = D!Of("reload")
  BY <1>2 DEF Model
<1>4. D!NTensors' = D!NTensors
  BY TensorsSame
<1>6. call'[c] = k /\ \A d \in Caller : d # c => call'[d] = call[d]
  OBVIOUS
<1>7. call' \in [Caller -> Call]
  OBVIOUS
<1>8. BridgeTypes'
  BY <1>7 DEF BridgeTypes, Places, Call
<1>9. step \notin {"gone", "drop_sess"} /\ step \notin Boot
  BY DEF Serving, Boot
<1>10. \A b \in heap' : sess'[b[1]] = "open"
  <2>1. \A b \in EchoOf(c) : b[1] = "echo"
    BY DEF EchoOf
  <2>2. \A b \in heap' : b \in heap \/ (b \in EchoOf(c) /\ sess["echo"] = "open")
    BY DEF EchoOf
  <2> QED BY <2>1, <2>2 DEF Buffers
<1>11. \A b \in heap' : \/ b[2] \in Model /\ b[1] = "model" /\ prog' \in {"daemon", "full_load"}
                        \/ \E d \in Caller : b \in EchoOf(d)
  BY DEF Buffers
<1>12. Buffers'
  BY <1>3, <1>4, <1>9, <1>10, <1>11 DEF Buffers, Server
<1>13. ASSUME NEW d \in Caller
       PROVE  /\ <<"echo", d, "in">> \in heap' <=> call'[d].at \in {"in", "out", "call"}
              /\ <<"echo", d, "out">> \in heap' <=> call'[d].at \in {"out", "call"}
              /\ call'[d].at \in {"lock", "in", "out", "call"} => sess["echo"] = "open"
              /\ call'[d].answer[1] = 200 => call'[d].answer[2] \in {d, "model"}
              /\ step = "serve" /\ call'[d].answer = <<200, "model">> => Cardinality(D!Of("load")) = D!NTensors
  <2>1. CASE d = c
    BY <1>6, <2>1
  <2>2. CASE d # c
    <3>1. <<"echo", d, "in">> \notin EchoOf(c) /\ <<"echo", d, "out">> \notin EchoOf(c)
      BY <2>2 DEF EchoOf
    <3>2. call'[d] = call[d]
      BY <1>6, <2>2
    <3>3. (<<"echo", d, "in">> \in heap' <=> <<"echo", d, "in">> \in heap)
          /\ (<<"echo", d, "out">> \in heap' <=> <<"echo", d, "out">> \in heap)
      BY <3>1
    <3> QED BY <3>2, <3>3 DEF CallsInv
  <2> QED BY <2>1, <2>2
<1>14. ASSUME NEW d \in Caller, NEW e \in Caller, call'[d].at \in Busy, call'[e].at \in Busy PROVE d = e
  <2>1. \A f \in Caller : call'[f].at \in Busy => f = c \/ call[f].at \in Busy
    BY <1>6
  <2>2. call[c].at \in Busy \/ (call'[c].at \in Busy => \A f \in Caller : call[f].at \notin Busy)
    BY <1>6 DEF D!HandleFree, Busy
  <2> QED BY <1>14, <2>1, <2>2 DEF CallsInv
<1>15. Server' /\ step' = step /\ sess' = sess
  BY DEF Server
<1>16. CallsInv'
  BY <1>3, <1>4, <1>9, <1>13, <1>14, <1>15 DEF CallsInv
<1>17. Backend' /\ PairInv'
  BY PairSame DEF Backend
<1> QED BY <1>8, <1>12, <1>16, <1>17

\* Requests come to a server.
LEMMA Served ==
  ASSUME BridgeInv, NEW c \in Caller, step \in Serving \/ call[c].at \in {"lock", "in", "out", "call"}
  PROVE  step \in Serving /\ Server
<1>1. step \in Serving
  BY DEF BridgeInv, CallsInv
<1> QED BY <1>1 DEF Server, BridgeInv, BridgeTypes, Places, Serving, Loading

\* What Answer puts into the table.
LEMMA Answered ==
  ASSUME NEW c \in Caller, NEW s, NEW w, <<s, w>> \in Int \X (Caller \union {"none", "model"}),
         call \in [Caller -> Call], D!Answer(c, s, w)
  PROVE  /\ call' \in [Caller -> Call] /\ \A d \in Caller : d # c => call'[d] = call[d]
         /\ call'[c].at = "done" /\ (call'[c].answer = <<s, w>> \/ call'[c].answer = call[c].answer)
<1> DEFINE Answers == Int \X (Caller \union {"none", "model"})
           Ats == {"idle", "lock", "in", "out", "call", "done"}
           Bools == BOOLEAN
<1>1. call \in [Caller -> [at : Ats, n : Nat, answer : Answers, conn : Bools]]
  BY DEF Call
<1>2. <<s, w>> \in Answers /\ "done" \in Ats
  OBVIOUS
<1>3. ASSUME call' \in [Caller -> [at : Ats, n : Nat, answer : Answers, conn : Bools]]
      PROVE  call' \in [Caller -> Call]
  BY <1>3 DEF Call
<1>8. "done" \in Ats
  OBVIOUS
<1> HIDE DEF Answers, Ats, Bools
<1>4. call[c].answer \in Answers
  BY <1>1
<1>5. ASSUME NEW a \in Answers, call' = [call EXCEPT ![c].at = "done", ![c].answer = a]
      PROVE  /\ call' \in [Caller -> [at : Ats, n : Nat, answer : Answers, conn : Bools]]
             /\ \A d \in Caller : d # c => call'[d] = call[d]
             /\ call'[c].at = "done" /\ call'[c].answer = a
  BY <1>1, <1>5, <1>8
<1>6. CASE call[c].conn
  <2>1. call' = [call EXCEPT ![c].at = "done", ![c].answer = <<s, w>>]
    BY <1>6 DEF D!Answer
  <2>2. PICK a \in Answers : a = <<s, w>>
    BY <1>2
  <2>3. call' = [call EXCEPT ![c].at = "done", ![c].answer = a]
    BY <2>1, <2>2
  <2>4. /\ call' \in [Caller -> [at : Ats, n : Nat, answer : Answers, conn : Bools]]
        /\ \A d \in Caller : d # c => call'[d] = call[d]
        /\ call'[c].at = "done" /\ call'[c].answer = a
    BY <1>5, <2>3
  <2> QED BY <1>3, <2>2, <2>4, Zenon
<1>7. CASE ~ call[c].conn
  <2>1. call' = [call EXCEPT ![c].at = "done", ![c].answer = call[c].answer]
    BY <1>7 DEF D!Answer
  <2>4. /\ call' \in [Caller -> [at : Ats, n : Nat, answer : Answers, conn : Bools]]
        /\ \A d \in Caller : d # c => call'[d] = call[d]
        /\ call'[c].at = "done" /\ call'[c].answer = call[c].answer
    BY <1>4, <1>5, <2>1
  <2> QED BY <1>3, <2>4, Zenon
<1> QED BY <1>6, <1>7, Zenon

LEMMA CallTypes == BridgeInv => call \in [Caller -> Call]
BY DEF BridgeInv, BridgeTypes, Call

\* The buffers a request leaves with its answer.
LEMMA CallersBuffers ==
  ASSUME D!BridgeAssumption, BridgeInv, NEW c \in Caller
  PROVE  D!Of(c) \subseteq EchoOf(c) /\ \A b \in heap : b \in EchoOf(c) => b \in D!Of(c)
<1>1. c \notin Model
  BY DEF D!BridgeAssumption, Model
<1>2. \A d \in Caller : \A b \in EchoOf(d) : b[2] = d
  BY DEF EchoOf
<1> QED BY <1>1, <1>2 DEF BridgeInv, Buffers, D!Of

LEMMA OldAnswer ==
  ASSUME BridgeInv, NEW c \in Caller
  PROVE  /\ call[c].answer[1] = 200 => call[c].answer[2] \in {c, "model"}
         /\ \A m : m = <<200, "model">> =>
              (step = "serve" /\ call[c].answer = m => Cardinality(D!Of("load")) = D!NTensors)
BY DEF BridgeInv, CallsInv

\* A request is answered: not a success, or what it is told is so.
LEMMA AnswerKeeps ==
  ASSUME D!BridgeAssumption, BridgeInv, NEW c \in Caller, NEW s, NEW w,
         s \in {200, 400, 413, 500, 501}, w \in Caller \union {"none", "model"},
         D!Answer(c, s, w), step \in Serving, Server,
         UNCHANGED <<prog, step, tied, sess, refs, l1>>, UNCHANGED D!pairVars,
         \/ heap' = heap /\ call[c].at \in {"idle", "lock"}
         \/ heap' = heap \ D!Of(c),
         s = 200 => w \in {c, "model"},
         s = 200 /\ w = "model" /\ step = "serve" => Cardinality(D!Of("load")) = D!NTensors
  PROVE  BridgeInv'
<1> DEFINE k == call'[c]
<1>1. <<s, w>> \in Int \X (Caller \union {"none", "model"})
  OBVIOUS
<1>2. /\ call' \in [Caller -> Call] /\ \A d \in Caller : d # c => call'[d] = call[d]
      /\ k.at = "done" /\ (k.answer = <<s, w>> \/ k.answer = call[c].answer)
  <2>1. call \in [Caller -> Call]
    BY CallTypes
  <2> QED BY <1>1, <2>1, Answered
<1> HIDE DEF k
<1>3. IsFiniteSet(heap') /\ (\A b \in heap' : b \in heap) /\ (\A b \in heap : b \in heap' \/ b \in EchoOf(c))
      /\ <<"echo", c, "in">> \notin heap' /\ <<"echo", c, "out">> \notin heap'
  <2>1. CASE heap' = heap /\ call[c].at \in {"idle", "lock"}
    BY <2>1 DEF BridgeInv, BridgeTypes, CallsInv
  <2>2. CASE heap' = heap \ D!Of(c)
    <3>1. IsFiniteSet(heap')
      BY <2>2, FiniteFacts DEF BridgeInv, BridgeTypes
    <3>2. <<"echo", c, "in">> \in EchoOf(c) /\ <<"echo", c, "out">> \in EchoOf(c)
      BY DEF EchoOf
    <3> QED BY <2>2, <3>1, <3>2, CallersBuffers
  <2> QED BY <2>1, <2>2
<1>4. k.answer[1] = 200 => k.answer[2] \in {c, "model"}
  <2>1. CASE k.answer = <<s, w>>
    BY <2>1
  <2>2. CASE k.answer = call[c].answer
    BY <2>2, OldAnswer
  <2> QED BY <1>2, <2>1, <2>2, Zenon
<1>5. step = "serve" /\ k.answer = <<200, "model">> => Cardinality(D!Of("load")) = D!NTensors
  <2>1. CASE k.answer = <<s, w>>
    BY <2>1
  <2>2. CASE k.answer = call[c].answer
    <3>1. PICK m : m = <<200, "model">>
      OBVIOUS
    <3>2. step = "serve" /\ call[c].answer = m => Cardinality(D!Of("load")) = D!NTensors
      <4>1. \A o : o = <<200, "model">> =>
              (step = "serve" /\ call[c].answer = o => Cardinality(D!Of("load")) = D!NTensors)
        BY OldAnswer
      <4> QED BY <3>1, <4>1
    <3>3. step = "serve" /\ k.answer = m => Cardinality(D!Of("load")) = D!NTensors
      BY <2>2, <3>2
    <3> QED BY <3>1, <3>3, Zenon
  <2> QED BY <1>2, <2>1, <2>2, Zenon
<1>6. k = call'[c]
  BY DEF k
<1>7. k.at \notin {"lock", "in", "out", "call"} /\ k.at \notin Busy
  BY <1>2 DEF Busy
<1> QED BY <1>2, <1>3, <1>4, <1>5, <1>6, <1>7, EchoStep

\* A request that only moves on: what it was told stays.
LEMMA MoveKeeps ==
  ASSUME D!BridgeAssumption, BridgeInv, NEW c \in Caller, step \in Serving, Server,
         call' \in [Caller -> Call], \A d \in Caller : d # c => call'[d] = call[d],
         call'[c].answer = call[c].answer,
         UNCHANGED <<prog, step, tied, sess, refs, l1>>, UNCHANGED D!pairVars,
         NEW b \in EchoOf(c), heap' = heap \/ heap' = heap \union {b},
         <<"echo", c, "in">> \in heap' <=> call'[c].at \in {"in", "out", "call"},
         <<"echo", c, "out">> \in heap' <=> call'[c].at \in {"out", "call"},
         sess["echo"] = "open",
         call[c].at \in Busy \/ D!HandleFree \/ call'[c].at \notin Busy
  PROVE  BridgeInv'
<1>1. PICK k : k = call'[c]
  OBVIOUS
<1>2. IsFiniteSet(heap')
  <2>1. IsFiniteSet(heap)
    BY DEF BridgeInv, BridgeTypes
  <2>2. IsFiniteSet(heap \union {b})
    BY <2>1, FiniteFacts
  <2> QED BY <2>1, <2>2, Zenon
<1>3. (\A x \in heap' : x \in heap \/ x \in EchoOf(c)) /\ (\A x \in heap : x \in heap' \/ x \in EchoOf(c))
  OBVIOUS
<1>4. k.answer[1] = 200 => k.answer[2] \in {c, "model"}
  BY <1>1 DEF BridgeInv, CallsInv
<1>5. step = "serve" /\ k.answer = <<200, "model">> => Cardinality(D!Of("load")) = D!NTensors
  BY <1>1 DEF BridgeInv, CallsInv
<1>6. k.at \in Busy => call[c].at \in Busy \/ D!HandleFree
  BY <1>1
<1>7. (<<"echo", c, "in">> \in heap' <=> k.at \in {"in", "out", "call"})
      /\ (<<"echo", c, "out">> \in heap' <=> k.at \in {"out", "call"})
      /\ (k.at \in {"lock", "in", "out", "call"} => sess["echo"] = "open")
  BY <1>1
<1> QED BY <1>1, <1>2, <1>3, <1>4, <1>5, <1>6, <1>7, EchoStep

\* What an assignment of a request's place puts into the table.
LEMMA Moved ==
  ASSUME NEW c \in Caller, NEW x, x \in {"idle", "lock", "in", "out", "call", "done"},
         call \in [Caller -> Call], call' = [call EXCEPT ![c].at = x]
  PROVE  /\ call' \in [Caller -> Call] /\ \A d \in Caller : d # c => call'[d] = call[d]
         /\ call'[c].at = x /\ call'[c].answer = call[c].answer
<1> DEFINE Answers == Int \X (Caller \union {"none", "model"})
           Ats == {"idle", "lock", "in", "out", "call", "done"}
           Bools == BOOLEAN
<1>1. call \in [Caller -> [at : Ats, n : Nat, answer : Answers, conn : Bools]]
  BY DEF Call
<1>2. x \in Ats
  OBVIOUS
<1>3. ASSUME call' \in [Caller -> [at : Ats, n : Nat, answer : Answers, conn : Bools]]
      PROVE  call' \in [Caller -> Call]
  BY <1>3 DEF Call
<1> HIDE DEF Answers, Ats, Bools
<1>4. /\ call' \in [Caller -> [at : Ats, n : Nat, answer : Answers, conn : Bools]]
      /\ \A d \in Caller : d # c => call'[d] = call[d]
      /\ call'[c].at = x /\ call'[c].answer = call[c].answer
  BY <1>1, <1>2
<1> QED BY <1>3, <1>4, Zenon

LEMMA PairStays == UNCHANGED D!serveVars => UNCHANGED <<prog, step, tied, refs, l1>> /\ UNCHANGED D!pairVars
BY DEF D!serveVars, D!nttVars

LEMMA EchoKeeps ==
  ASSUME D!BridgeAssumption, BridgeInv, NEW c \in Caller, D!Echo(c)
  PROVE  BridgeInv'
<1>1. /\ step = "serve" /\ call[c].at = "idle" /\ UNCHANGED <<sess, heap>> /\ UNCHANGED D!serveVars
  BY DEF D!Echo
<1>2. step \in Serving /\ Server
  BY <1>1, Served DEF Serving
<1>3. UNCHANGED <<prog, step, tied, refs, l1>> /\ UNCHANGED D!pairVars
  BY <1>1, PairStays
<1>4. ASSUME NEW s \in {400, 413, 501}, D!Answer(c, s, "none") PROVE BridgeInv'
  BY <1>1, <1>2, <1>3, <1>4, AnswerKeeps
<1>5. ASSUME NEW n \in Size, call' = [call EXCEPT ![c].at = "lock", ![c].n = n], sess["echo"] = "open"
      PROVE  BridgeInv'
  <2> DEFINE Answers == Int \X (Caller \union {"none", "model"})
             Ats == {"idle", "lock", "in", "out", "call", "done"}
             Bools == BOOLEAN
  <2>1. call \in [Caller -> [at : Ats, n : Nat, answer : Answers, conn : Bools]]
    BY CallTypes DEF Call
  <2>2. "lock" \in Ats /\ n \in Nat
    BY DEF D!BridgeAssumption
  <2>3. ASSUME call' \in [Caller -> [at : Ats, n : Nat, answer : Answers, conn : Bools]]
        PROVE  call' \in [Caller -> Call]
    BY <2>3 DEF Call
  <2> HIDE DEF Answers, Ats, Bools
  <2>4. /\ call' \in [Caller -> [at : Ats, n : Nat, answer : Answers, conn : Bools]]
        /\ \A d \in Caller : d # c => call'[d] = call[d]
        /\ call'[c].at = "lock" /\ call'[c].answer = call[c].answer
    BY <1>5, <2>1, <2>2
  <2>5. call' \in [Caller -> Call]
    BY <2>3, <2>4, Zenon
  <2>6. <<"echo", c, "in">> \in EchoOf(c)
    BY DEF EchoOf
  <2>7. <<"echo", c, "in">> \notin heap' /\ <<"echo", c, "out">> \notin heap'
    BY <1>1 DEF BridgeInv, CallsInv
  <2>8. heap' = heap
    BY <1>1
  <2>9. sess' = sess
    BY <1>1
  <2>10. call'[c].at \notin {"in", "out", "call"} /\ call'[c].at \notin Busy
    BY <2>4 DEF Busy
  <2> QED BY <1>2, <1>3, <1>5, <2>4, <2>5, <2>6, <2>7, <2>8, <2>9, <2>10, MoveKeeps
<1>6. PICK n \in Size : IF n = 0 THEN D!Answer(c, 400, "none")
                        ELSE IF n > MaxPayload THEN D!Answer(c, 413, "none")
                        ELSE IF sess["echo"] # "open" THEN D!Answer(c, 501, "none")
                        ELSE call' = [call EXCEPT ![c].at = "lock", ![c].n = n]
  BY DEF D!Echo
<1>7. \/ D!Answer(c, 400, "none") \/ D!Answer(c, 413, "none") \/ D!Answer(c, 501, "none")
      \/ sess["echo"] = "open" /\ call' = [call EXCEPT ![c].at = "lock", ![c].n = n]
  BY <1>6, Zenon
<1> QED BY <1>4, <1>5, <1>7

LEMMA ModelInfoKeeps ==
  ASSUME D!BridgeAssumption, BridgeInv, NEW c \in Caller, D!ModelInfo(c)
  PROVE  BridgeInv'
<1>1. /\ step = "serve" /\ call[c].at = "idle" /\ UNCHANGED <<sess, heap>> /\ UNCHANGED D!serveVars
      /\ \/ D!Of("load") = {} /\ D!Answer(c, 501, "model")
         \/ D!Of("load") # {} /\ D!Answer(c, 200, "model")
  BY DEF D!ModelInfo
<1>2. step \in Serving /\ Server
  BY <1>1, Served DEF Serving
<1>3. UNCHANGED <<prog, step, tied, refs, l1>> /\ UNCHANGED D!pairVars
  BY <1>1, PairStays
<1>4. D!Of("load") # {} => Cardinality(D!Of("load")) = D!NTensors
  <2>1. Cardinality(D!Of("load")) \in {0, D!NTensors}
    BY <1>1 DEF BridgeInv, Buffers
  <2>2. Cardinality(D!Of("load")) = 0 => D!Of("load") = {}
    BY FiniteFacts DEF BridgeInv, BridgeTypes
  <2> QED BY <2>1, <2>2
<1>5. CASE D!Of("load") = {} /\ D!Answer(c, 501, "model")
  BY <1>1, <1>2, <1>3, <1>5, AnswerKeeps
<1>6. CASE D!Of("load") # {} /\ D!Answer(c, 200, "model")
  BY <1>1, <1>2, <1>3, <1>4, <1>6, AnswerKeeps
<1> QED BY <1>1, <1>5, <1>6

\* The closure: the buffers one by one, the invocation, and what comes back.
LEMMA EchoInKeeps ==
  ASSUME D!BridgeAssumption, BridgeInv, NEW c \in Caller, D!EchoIn(c)
  PROVE  BridgeInv'
<1>1. /\ call[c].at = "lock" /\ D!HandleFree /\ sess' = sess /\ UNCHANGED D!serveVars
      /\ \/ heap' = heap \union {<<"echo", c, "in">>} /\ call' = [call EXCEPT ![c].at = "in"]
         \/ D!Answer(c, 500, "none") /\ heap' = heap
  BY DEF D!EchoIn
<1>2. step \in Serving /\ Server /\ sess["echo"] = "open"
  BY <1>1, Served DEF BridgeInv, CallsInv
<1>3. UNCHANGED <<prog, step, tied, refs, l1>> /\ UNCHANGED D!pairVars
  BY <1>1, PairStays
<1>4. CASE heap' = heap \union {<<"echo", c, "in">>} /\ call' = [call EXCEPT ![c].at = "in"]
  <2>1. /\ call' \in [Caller -> Call] /\ \A d \in Caller : d # c => call'[d] = call[d]
        /\ call'[c].at = "in" /\ call'[c].answer = call[c].answer
    <3>1. call \in [Caller -> Call]
      BY CallTypes
    <3> QED BY <1>4, <3>1, Moved
  <2>2. PICK b \in EchoOf(c) : b = <<"echo", c, "in">>
    BY DEF EchoOf
  <2>3. heap' = heap \union {b}
    BY <1>4, <2>2
  <2>4. <<"echo", c, "in">> \in heap' /\ <<"echo", c, "out">> \notin heap'
    BY <1>1, <1>4 DEF BridgeInv, CallsInv
  <2> QED BY <1>1, <1>2, <1>3, <2>1, <2>3, <2>4, MoveKeeps
<1>5. CASE D!Answer(c, 500, "none") /\ heap' = heap
  BY <1>1, <1>2, <1>3, <1>5, AnswerKeeps
<1> QED BY <1>1, <1>4, <1>5

LEMMA EchoOutKeeps ==
  ASSUME D!BridgeAssumption, BridgeInv, NEW c \in Caller, D!EchoOut(c)
  PROVE  BridgeInv'
<1>1. /\ call[c].at = "in" /\ sess' = sess /\ UNCHANGED D!serveVars
      /\ \/ heap' = heap \union {<<"echo", c, "out">>} /\ call' = [call EXCEPT ![c].at = "out"]
         \/ heap' = heap \ D!Of(c) /\ D!Answer(c, 500, "none")
  BY DEF D!EchoOut
<1>2. step \in Serving /\ Server /\ sess["echo"] = "open"
  BY <1>1, Served DEF BridgeInv, CallsInv
<1>3. UNCHANGED <<prog, step, tied, refs, l1>> /\ UNCHANGED D!pairVars
  BY <1>1, PairStays
<1>4. CASE heap' = heap \union {<<"echo", c, "out">>} /\ call' = [call EXCEPT ![c].at = "out"]
  <2>1. /\ call' \in [Caller -> Call] /\ \A d \in Caller : d # c => call'[d] = call[d]
        /\ call'[c].at = "out" /\ call'[c].answer = call[c].answer
    <3>1. call \in [Caller -> Call]
      BY CallTypes
    <3> QED BY <1>4, <3>1, Moved
  <2>2. PICK b \in EchoOf(c) : b = <<"echo", c, "out">>
    BY DEF EchoOf
  <2>3. heap' = heap \union {b}
    BY <1>4, <2>2
  <2>4. <<"echo", c, "in">> \in heap' /\ <<"echo", c, "out">> \in heap'
    BY <1>1, <1>4 DEF BridgeInv, CallsInv
  <2>5. call[c].at \in Busy
    BY <1>1 DEF Busy
  <2> QED BY <1>1, <1>2, <1>3, <2>1, <2>3, <2>4, <2>5, MoveKeeps
<1>5. CASE heap' = heap \ D!Of(c) /\ D!Answer(c, 500, "none")
  BY <1>1, <1>2, <1>3, <1>5, AnswerKeeps
<1> QED BY <1>1, <1>4, <1>5

LEMMA EchoInvokeKeeps ==
  ASSUME D!BridgeAssumption, BridgeInv, NEW c \in Caller, D!EchoInvoke(c)
  PROVE  BridgeInv'
<1>1. /\ call[c].at = "out" /\ UNCHANGED <<sess, heap>> /\ UNCHANGED D!serveVars
      /\ call' = [call EXCEPT ![c].at = "call"]
  BY DEF D!EchoInvoke
<1>2. step \in Serving /\ Server /\ sess["echo"] = "open"
  BY <1>1, Served DEF BridgeInv, CallsInv
<1>3. UNCHANGED <<prog, step, tied, refs, l1>> /\ UNCHANGED D!pairVars
  BY <1>1, PairStays
<1>4. /\ call' \in [Caller -> Call] /\ \A d \in Caller : d # c => call'[d] = call[d]
      /\ call'[c].at = "call" /\ call'[c].answer = call[c].answer
  <2>1. call \in [Caller -> Call]
    BY CallTypes
  <2> QED BY <1>1, <2>1, Moved
<1>5. PICK b \in EchoOf(c) : b = <<"echo", c, "out">>
  BY DEF EchoOf
<1>6. <<"echo", c, "in">> \in heap' /\ <<"echo", c, "out">> \in heap'
  BY <1>1 DEF BridgeInv, CallsInv
<1>7. call[c].at \in Busy
  BY <1>1 DEF Busy
<1> QED BY <1>1, <1>2, <1>3, <1>4, <1>5, <1>6, <1>7, MoveKeeps

LEMMA EchoReturnsKeeps ==
  ASSUME D!BridgeAssumption, BridgeInv, NEW c \in Caller, D!EchoReturns(c)
  PROVE  BridgeInv'
<1>1. /\ call[c].at = "call" /\ sess' = sess /\ UNCHANGED D!serveVars /\ heap' = heap \ D!Of(c)
      /\ \/ \E d \in Caller : call[d].at = "call" /\ D!Answer(c, 200, d)
         \/ D!Answer(c, 500, "none")
  BY DEF D!EchoReturns
<1>2. step \in Serving /\ Server
  BY <1>1, Served
<1>3. UNCHANGED <<prog, step, tied, refs, l1>> /\ UNCHANGED D!pairVars
  BY <1>1, PairStays
<1>4. \A d \in Caller : call[d].at = "call" => d = c
  BY <1>1 DEF BridgeInv, CallsInv, Busy
<1>5. c # "model"
  BY DEF D!BridgeAssumption
<1>6. CASE D!Answer(c, 200, c)
  BY <1>1, <1>2, <1>3, <1>5, <1>6, AnswerKeeps
<1>7. CASE D!Answer(c, 500, "none")
  BY <1>1, <1>2, <1>3, <1>7, AnswerKeeps
<1> QED BY <1>1, <1>4, <1>6, <1>7

LEMMA HangupKeeps ==
  ASSUME D!BridgeAssumption, BridgeInv, NEW c \in Caller, D!Hangup(c)
  PROVE  BridgeInv'
<1>1. /\ call[c].at \in {"lock", "in", "out", "call"} /\ UNCHANGED <<sess, heap>> /\ UNCHANGED D!serveVars
      /\ call' = [call EXCEPT ![c].conn = FALSE]
  BY DEF D!Hangup
<1>2. step \in Serving /\ Server /\ sess["echo"] = "open"
  BY <1>1, Served DEF BridgeInv, CallsInv
<1>3. UNCHANGED <<prog, step, tied, refs, l1>> /\ UNCHANGED D!pairVars
  BY <1>1, PairStays
<1>4. /\ call' \in [Caller -> Call] /\ \A d \in Caller : d # c => call'[d] = call[d]
      /\ call'[c].at = call[c].at /\ call'[c].answer = call[c].answer
  <2> DEFINE Answers == Int \X (Caller \union {"none", "model"})
             Ats == {"idle", "lock", "in", "out", "call", "done"}
             Bools == BOOLEAN
  <2>1. call \in [Caller -> [at : Ats, n : Nat, answer : Answers, conn : Bools]]
    BY CallTypes DEF Call
  <2>2. FALSE \in Bools
    OBVIOUS
  <2>3. ASSUME call' \in [Caller -> [at : Ats, n : Nat, answer : Answers, conn : Bools]]
        PROVE  call' \in [Caller -> Call]
    BY <2>3 DEF Call
  <2> HIDE DEF Answers, Ats, Bools
  <2>4. PICK f : f = FALSE
    OBVIOUS
  <2>5. f \in Bools /\ call' = [call EXCEPT ![c].conn = f]
    BY <1>1, <2>2, <2>4
  <2>6. /\ call' \in [Caller -> [at : Ats, n : Nat, answer : Answers, conn : Bools]]
        /\ \A d \in Caller : d # c => call'[d] = call[d]
        /\ call'[c].at = call[c].at /\ call'[c].answer = call[c].answer
    BY <2>1, <2>5
  <2> QED BY <2>3, <2>6, Zenon
<1>5. PICK b \in EchoOf(c) : b = <<"echo", c, "out">>
  BY DEF EchoOf
<1>6. (<<"echo", c, "in">> \in heap' <=> call'[c].at \in {"in", "out", "call"})
      /\ (<<"echo", c, "out">> \in heap' <=> call'[c].at \in {"out", "call"})
  BY <1>1, <1>4 DEF BridgeInv, CallsInv
<1>7. call[c].at \in Busy \/ call'[c].at \notin Busy
  BY <1>4
<1> QED BY <1>1, <1>2, <1>3, <1>4, <1>5, <1>6, <1>7, MoveKeeps

LEMMA BridgeStep == ASSUME D!BridgeAssumption, BridgeInv, D!Next PROVE BridgeInv'
<1>1. ASSUME NEW s \in {"echo", "model", "compute"}, D!New(s) PROVE BridgeInv'
  BY <1>1, NewKeeps
<1>2. ASSUME D!NoBackend PROVE BridgeInv'
  BY <1>2, NoBackendKeeps
<1>3. ASSUME D!Load PROVE BridgeInv'
  <2>1. ASSUME NEW o \in {"load", "reload"}, D!ReadTable(o) \/ D!LoadTensor(o) PROVE BridgeInv'
    BY <2>1, ReadTableKeeps, LoadTensorKeeps
  <2> QED BY <1>3, <2>1, LoadedKeeps, KvAllocKeeps DEF D!Load
<1>4. ASSUME D!Matmul \/ D!NoFile \/ D!DropLoaded PROVE BridgeInv'
  BY <1>4, MatmulKeeps, DropLoadedKeeps
<1>5. ASSUME D!Register \/ D!Trampoline \/ D!TrampolineReturns \/ D!Stop \/ D!DropState PROVE BridgeInv'
  BY <1>5, RegisterKeeps, TrampolineKeeps, StopKeeps, DropStateKeeps
<1>6. ASSUME NEW c \in Caller, D!EchoNext(c) PROVE BridgeInv'
  BY <1>6, EchoKeeps, ModelInfoKeeps, EchoInKeeps, EchoOutKeeps, EchoInvokeKeeps, EchoReturnsKeeps,
     HangupKeeps DEF D!EchoNext
<1>7. ASSUME D!Dual PROVE BridgeInv'
  <2>1. ASSUME NEW t \in D!Thread, D!Starts(t) \/ D!Finishes(t) PROVE BridgeInv'
    BY <2>1, StartsKeeps, FinishesKeeps
  <2> QED BY <1>7, <2>1, InvokeOnceKeeps, JoinKeeps, CloseKeeps DEF D!Dual
<1> QED BY <1>1, <1>2, <1>3, <1>4, <1>5, <1>6, <1>7 DEF D!Next

LEMMA BridgeStutter == ASSUME BridgeInv, UNCHANGED D!vars PROVE BridgeInv'
<1> USE DEF BridgeInv, D!vars
<1>1. (\A o : D!Of(o)' = D!Of(o)) /\ D!NTensors' = D!NTensors
  BY SameHeap, TensorsSame
<1>2. BridgeTypes'
  BY DEF BridgeTypes, Places
<1>3. Buffers'
  BY <1>1 DEF Buffers, Server
<1>4. CallsInv'
  BY <1>1 DEF CallsInv, Server
<1>5. Backend' /\ PairInv'
  BY PairSame DEF Backend, D!pairVars
<1> QED BY <1>2, <1>3, <1>4, <1>5

LEMMA BridgeOwned == BridgeInv => D!DmaOwned
<1> SUFFICES ASSUME BridgeInv PROVE D!DmaOwned
  OBVIOUS
<1> QED BY SameCardinality DEF BridgeInv, Buffers, CallsInv, Backend, D!DmaOwned

LEMMA BridgeExact == BridgeInv => D!CallsExact
<1> SUFFICES ASSUME BridgeInv PROVE D!CallsExact
  OBVIOUS
<1>1. \A c \in Caller : call[c].answer[1] = 200 => call[c].answer[2] \in {c, "model"}
  BY DEF BridgeInv, CallsInv
<1>2. step = "serve" =>
       \A c \in Caller : call[c].answer = <<200, "model">> => Cardinality(D!Of("load")) = D!NTensors
  BY DEF BridgeInv, CallsInv
<1> QED BY <1>1, <1>2, OverlapIsTogether, SameCardinality DEF D!CallsExact

-----------------------------------------------------------------------------
(***************************************************************************)
(* The episodic memory (MemoryStore): the file as it will be once the      *)
(* rewrite under way has ended, and the live set as it will be once the    *)
(* episode in hand is pushed, agree at every step.                         *)
(***************************************************************************)
Due == IF turn.pc = "write" THEN M!Range(turn.rows)
       ELSE IF turn.pc = "read" THEN M!Retire(M!Rows, turn.texts) ELSE M!Rows
Ours == IF turn.pc = "push" THEN live \cup {turn.ep} ELSE live
Confirming == IF turn.pc = "confirm" THEN {turn.text}
              ELSE IF turn.pc \in {"read", "write"} /\ turn.next.pc = "confirm" THEN {turn.next.text} ELSE {}

Label == Nat \cup Addr
Going == [pc : {"idle"}] \cup [pc : {"decide"}, name : Nat, new : Fact]
After == Going \cup [pc : {"confirm"}, text : M!Text] \cup [pc : {"combine"}, fact : Fact]
TurnSteps ==
  [pc : {"starting"}] \cup After
  \cup [pc : {"read"}, texts : SUBSET M!Text, next : After]
  \cup [pc : {"write"}, rows : Seq(M!Episode), next : After]
  \cup [pc : {"append", "push"}, ep : {e \in M!Episode : e.name \in Nat}, next : Going]
ScanSteps ==
  [pc : {"idle"}]
  \cup [pc : {"visit", "key"}, already : SUBSET Label, todo : SUBSET Addr, found : SUBSET M!Episode]
  \cup [pc : {"refine"}, todo : SUBSET Addr]
  \cup [pc : {"judge"}, todo : SUBSET Addr, addr : Addr, class : M!Class]

MemTypes ==
  /\ lifecycle \in BOOLEAN /\ torn \in BOOLEAN
  /\ booted \subseteq M!Episode /\ live \subseteq M!Episode /\ file \in Seq(M!Episode)
  /\ concepts \in [Addr -> M!Class \cup {"absent"}]
  /\ keys \in [Addr -> {"none", "cut", "whole"}]
  /\ forgotten \subseteq M!Text /\ victims \subseteq M!Text
  /\ clock \in Nat /\ merged \in Nat /\ crashes \in Nat
  /\ stored \subseteq [name : Nat, text : M!Text] /\ shorn \subseteq Nat
  /\ tail \in {"whole", "open", "cut"}
  /\ turn \in TurnSteps /\ scan \in ScanSteps

\* A number names one text, that of its row and of its episode; the next one is new.
Named ==
  /\ \A e \in booted \cup Due \cup M!Rows : e.name \in Nat /\ e.name < clock
  /\ (\A r \in stored : r.name < clock) /\ \A n \in shorn : n < clock
  /\ \A e \in Ours : e.name \in Nat => [name |-> e.name, text |-> e.text] \in stored
  /\ \A e \in Due \cup M!Rows, r \in stored : e.name = r.name => e.text = r.text

Known == {e.name : e \in booted}
Agree == {r \in M!Captured(Ours) : r.name \notin shorn} = {r \in M!Captured(Due) : r.name \notin Known}

Durable ==
  /\ \A e \in Due : e.text \in forgotten \cup Confirming => e.superseded
  /\ \A e \in M!Rows : e.text \in forgotten => e.superseded

NotLost ==
  \A r \in stored : \/ \E e \in Due : e.name = r.name
                    \/ ~ lifecycle /\ r.text \in victims
                    \/ r.name \in shorn

Keyed ==
  /\ M!ServedByItsKey
  /\ scan.pc \in {"visit", "key"} => \A e \in scan.found : e.name \in Addr
  /\ scan.pc = "visit" => \A e \in scan.found : keys[e.name] = "whole"

\* A capture under way has a number of its own, and is of nothing forgotten.
Fresh(n) == /\ n < clock /\ \A e \in booted \cup M!Rows : e.name < n
            /\ (\A r \in stored : r.name < n) /\ \A x \in shorn : x < n
Taking == turn.pc = "append" => Fresh(turn.ep.name) /\ turn.ep.text \notin forgotten

\* A last line without its newline is left by a crash, and is known since the
\* start; each crash leaves at most one for a capture to join.
LastLine ==
  /\ tail = "open" => Len(file) # 0 /\ file[Len(file)].name \in Known
  /\ turn.pc = "write" => tail = "whole"
  /\ merged <= crashes /\ (tail # "whole" => merged < crashes)

MemInv == MemTypes /\ Named /\ Agree /\ Durable /\ NotLost /\ Keyed /\ Taking /\ LastLine

\* A set of numbers has a least.
LEMMA LeastOf ==
  ASSUME NEW Z, Z \subseteq Nat, Z # {}
  PROVE  \E x \in Z : \A y \in Z : x <= y
<1>1. PICK x \in Z : \A y \in Z : ~ (<<y, x>> \in OpToRel(<, Nat))
  BY WFMin, NatLessThanWellFounded
<1>2. ASSUME NEW y \in Z, y < x PROVE FALSE
  <2>1. <<y, x>> \in Nat \X Nat /\ <<y, x>>[1] = y /\ <<y, x>>[2] = x
    OBVIOUS
  <2>2. <<y, x>> \in OpToRel(<, Nat)
    BY <1>2, <2>1 DEF OpToRel
  <2> QED BY <1>1, <2>2
<1>3. x \in Nat /\ \A y \in Z : y \in Nat
  OBVIOUS
<1> QED BY <1>2, <1>3

\* The rows that are kept, one after the other.
Filtered(s, ts, n, f) ==
  f = [i \in 0 .. n |-> IF i = 0 THEN <<>>
                        ELSE IF s[i].text \in ts THEN f[i - 1] ELSE Append(f[i - 1], s[i])]

LEMMA FilterExists ==
  ASSUME NEW s, NEW ts, NEW n \in Nat
  PROVE  \E f : Filtered(s, ts, n, f)
<1> DEFINE Bad == {k \in Nat : ~ \E f : Filtered(s, ts, k, f)}
<1>1. SUFFICES ASSUME Bad # {} PROVE FALSE
  OBVIOUS
<1>2. PICK k \in Bad : \A y \in Bad : k <= y
  <2> HIDE DEF Bad
  <2>1. Bad \subseteq Nat
    BY DEF Bad
  <2> QED BY <1>1, <2>1, LeastOf
<1>3. k # 0
  <2>1. Filtered(s, ts, 0, [i \in 0 .. 0 |-> <<>>])
    BY DEF Filtered
  <2> QED BY <2>1
<1>4. k \in Nat /\ k - 1 \in Nat /\ k - 1 \notin Bad
  BY <1>2, <1>3
<1>5. PICK f : Filtered(s, ts, k - 1, f)
  BY <1>4
<1> DEFINE h == [i \in 0 .. k |-> IF i < k THEN f[i]
                                  ELSE IF s[k].text \in ts THEN f[k - 1] ELSE Append(f[k - 1], s[k])]
<1>6. Filtered(s, ts, k, h)
  <2>1. \A i \in 0 .. k - 1 :
           f[i] = IF i = 0 THEN <<>>
                  ELSE IF s[i].text \in ts THEN f[i - 1] ELSE Append(f[i - 1], s[i])
    BY <1>5 DEF Filtered
  <2>2. ASSUME NEW i \in 0 .. k
        PROVE  h[i] = IF i = 0 THEN <<>>
                      ELSE IF s[i].text \in ts THEN h[i - 1] ELSE Append(h[i - 1], s[i])
    <3>1. CASE i = k
      <4>1. h[k - 1] = f[k - 1] /\ k # 0
        BY <1>3, <1>4
      <4> QED BY <3>1, <4>1
    <3>2. CASE i < k
      <4>1. i # 0 => h[i - 1] = f[i - 1]
        BY <3>2, <1>4
      <4>2. h[i] = f[i] /\ i \in 0 .. k - 1
        BY <3>2, <1>4
      <4> HIDE DEF h
      <4> QED BY <2>1, <4>1, <4>2
    <3> QED BY <3>1, <3>2, <1>4
  <2>3. h = [i \in 0 .. k |-> h[i]]
    OBVIOUS
  <2> HIDE DEF h
  <2> QED BY <2>2, <2>3 DEF Filtered
<1> QED BY <1>2, <1>6

LEMMA WithoutIs ==
  ASSUME NEW U, NEW s \in Seq(U), NEW ts
  PROVE  /\ M!Without(s, ts) \in Seq(U)
         /\ M!Range(M!Without(s, ts)) = {e \in M!Range(s) : e.text \notin ts}
<1> DEFINE f == CHOOSE g : Filtered(s, ts, Len(s), g)
           Told(i) == {s[j] : j \in {x \in 1 .. i : s[x].text \notin ts}}
           Bad == {k \in 0 .. Len(s) : ~ (f[k] \in Seq(U) /\ M!Range(f[k]) = Told(k))}
<1>1. Len(s) \in Nat
  OBVIOUS
<1>2. Filtered(s, ts, Len(s), f)
  BY <1>1, FilterExists
<1>3. M!Without(s, ts) = f[Len(s)]
  BY DEF M!Without, Filtered
<1> HIDE DEF f
<1>4. f[0] = <<>> /\ \A i \in 1 .. Len(s) : f[i] = IF s[i].text \in ts THEN f[i - 1] ELSE Append(f[i - 1], s[i])
  <2>1. \A i \in 0 .. Len(s) :
           f[i] = IF i = 0 THEN <<>>
                  ELSE IF s[i].text \in ts THEN f[i - 1] ELSE Append(f[i - 1], s[i])
    BY <1>2 DEF Filtered
  <2>2. 0 \in 0 .. Len(s) /\ \A i \in 1 .. Len(s) : i \in 0 .. Len(s) /\ i # 0
    BY <1>1
  <2> QED BY <2>1, <2>2
<1>5. ASSUME Bad # {} PROVE FALSE
  <2>1. PICK k \in Bad : \A y \in Bad : k <= y
    <3>1. Bad \subseteq Nat
      OBVIOUS
    <3> HIDE DEF Bad
    <3> QED BY <1>5, <3>1, LeastOf
  <2>2. k # 0
    <3>1. f[0] \in Seq(U) /\ M!Range(f[0]) = {}
      BY <1>4 DEF M!Range
    <3>2. Told(0) = {}
      OBVIOUS
    <3> QED BY <2>1, <3>1, <3>2
  <2>3. k \in 1 .. Len(s) /\ k - 1 \in 0 .. Len(s) /\ k - 1 \notin Bad
    <3>1. k \in 0 .. Len(s)
      BY <2>1
    <3>2. k \in 1 .. Len(s) /\ k - 1 \in 0 .. Len(s) /\ ~ (k <= k - 1)
      BY <1>1, <2>2, <3>1
    <3> HIDE DEF Bad
    <3> QED BY <2>1, <3>2
  <2>4. f[k - 1] \in Seq(U) /\ M!Range(f[k - 1]) = Told(k - 1)
    BY <2>3
  <2>5. s[k] \in U /\ f[k] = IF s[k].text \in ts THEN f[k - 1] ELSE Append(f[k - 1], s[k])
    BY <2>3, <1>4
  <2>6. Told(k) = IF s[k].text \in ts THEN Told(k - 1) ELSE Told(k - 1) \cup {s[k]}
    BY <2>3, <1>1
  <2>7. M!Range(Append(f[k - 1], s[k])) = M!Range(f[k - 1]) \cup {s[k]}
    <3> DEFINE q == f[k - 1]
               e == s[k]
    <3> HIDE DEF q, e
    <3>1. q \in Seq(U) /\ e \in U
      BY <2>4, <2>5 DEF q, e
    <3>2. /\ DOMAIN Append(q, e) = 1 .. Len(q) + 1 /\ DOMAIN q = 1 .. Len(q) /\ Len(q) \in Nat
          /\ Append(q, e)[Len(q) + 1] = e /\ \A i \in 1 .. Len(q) : Append(q, e)[i] = q[i]
      BY <3>1
    <3>3. M!Range(Append(q, e)) \subseteq M!Range(q) \cup {e}
      <4> SUFFICES ASSUME NEW i \in 1 .. Len(q) + 1 PROVE Append(q, e)[i] \in M!Range(q) \cup {e}
        BY <3>2 DEF M!Range
      <4>1. i = Len(q) + 1 \/ i \in 1 .. Len(q)
        BY <3>2
      <4> QED BY <3>2, <4>1 DEF M!Range
    <3>4. M!Range(q) \cup {e} \subseteq M!Range(Append(q, e))
      <4>1. Len(q) + 1 \in 1 .. Len(q) + 1 /\ 1 .. Len(q) \subseteq 1 .. Len(q) + 1
        BY <3>2
      <4> QED BY <3>2, <4>1 DEF M!Range
    <3> QED BY <3>3, <3>4 DEF q, e
  <2>8. f[k] \in Seq(U) /\ M!Range(f[k]) = Told(k)
    BY <2>4, <2>5, <2>6, <2>7
  <2> QED BY <2>1, <2>8
<1>6. f[Len(s)] \in Seq(U) /\ M!Range(f[Len(s)]) = Told(Len(s))
  <2>1. Len(s) \in 0 .. Len(s)
    BY <1>1
  <2>2. \A k \in 0 .. Len(s) : k \notin Bad
    <3> HIDE DEF Bad
    <3> QED BY <1>5
  <2>3. \A k \in 0 .. Len(s) : f[k] \in Seq(U) /\ M!Range(f[k]) = Told(k)
    <3> SUFFICES ASSUME NEW k \in 0 .. Len(s) PROVE f[k] \in Seq(U) /\ M!Range(f[k]) = Told(k)
      OBVIOUS
    <3>1. k \notin Bad
      BY <2>2
    <3> QED BY <3>1
  <2> HIDE DEF Bad, Told
  <2> QED BY <2>1, <2>3
<1>7. Told(Len(s)) = {e \in M!Range(s) : e.text \notin ts}
  BY DEF M!Range
<1> QED BY <1>3, <1>6, <1>7

\* Marking keeps an episode's name and text; retiring, an episode of other text.
LEMMA RetireIs ==
  ASSUME lifecycle \in BOOLEAN, NEW es \in SUBSET M!Episode, NEW ts
  PROVE  /\ M!Retire(es, ts) \in SUBSET M!Episode
         /\ \A e \in M!Retire(es, ts) :
              /\ e.text \in ts => e.superseded
              /\ \E x \in es : /\ x.name = e.name /\ x.text = e.text /\ (x.superseded => e.superseded)
                               /\ x.text \notin ts => e = x
         /\ \A x \in es : (x.text \notin ts \/ lifecycle) =>
              \E e \in M!Retire(es, ts) :
                e.name = x.name /\ e.text = x.text /\ e.superseded = (x.superseded \/ x.text \in ts)
<1>1. ASSUME NEW e \in es
      PROVE  /\ M!Mark(e, ts) \in M!Episode /\ M!Mark(e, ts).name = e.name /\ M!Mark(e, ts).text = e.text
             /\ M!Mark(e, ts).superseded = (e.superseded \/ e.text \in ts)
             /\ e.text \notin ts => M!Mark(e, ts) = e
  BY DEF M!Mark, M!Episode
<1>2. CASE lifecycle
  <2>1. M!Retire(es, ts) = {M!Mark(e, ts) : e \in es}
    BY <1>2 DEF M!Retire
  <2>2. M!Retire(es, ts) \in SUBSET M!Episode
    BY <1>1, <2>1
  <2>3. ASSUME NEW e \in M!Retire(es, ts)
        PROVE  /\ e.text \in ts => e.superseded
               /\ \E x \in es : /\ x.name = e.name /\ x.text = e.text /\ (x.superseded => e.superseded)
                                /\ x.text \notin ts => e = x
    <3>1. PICK x \in es : e = M!Mark(x, ts)
      BY <2>1
    <3>2. /\ e.name = x.name /\ e.text = x.text /\ e.superseded = (x.superseded \/ x.text \in ts)
          /\ x.text \notin ts => e = x
      BY <1>1, <3>1
    <3> QED BY <3>2
  <2>4. ASSUME NEW x \in es
        PROVE  \E e \in M!Retire(es, ts) :
                 e.name = x.name /\ e.text = x.text /\ e.superseded = (x.superseded \/ x.text \in ts)
    <3>1. M!Mark(x, ts) \in M!Retire(es, ts)
      BY <2>1
    <3> QED BY <1>1, <3>1
  <2> QED BY <2>2, <2>3, <2>4
<1>3. CASE ~ lifecycle
  <2>1. M!Retire(es, ts) = {e \in es : e.text \notin ts}
    BY <1>3 DEF M!Retire
  <2>2. \A e \in es : e.text \notin ts => e.superseded = (e.superseded \/ e.text \in ts)
    BY DEF M!Episode
  <2> QED BY <1>3, <2>1, <2>2
<1> QED BY <1>2, <1>3

LEMMA RewrittenIs ==
  ASSUME lifecycle \in BOOLEAN, NEW s \in Seq(M!Episode), NEW ts
  PROVE  M!Rewritten(s, ts) \in Seq(M!Episode) /\ M!Range(M!Rewritten(s, ts)) = M!Retire(M!Range(s), ts)
<1>1. CASE lifecycle
  <2>1. ASSUME NEW i \in DOMAIN s PROVE M!Mark(s[i], ts) \in M!Episode
    <3>1. s[i] \in M!Episode
      OBVIOUS
    <3> QED BY <3>1 DEF M!Mark, M!Episode
  <2>2. M!Rewritten(s, ts) = [i \in DOMAIN s |-> M!Mark(s[i], ts)] /\ DOMAIN s = 1 .. Len(s) /\ Len(s) \in Nat
    BY <1>1 DEF M!Rewritten
  <2>3. M!Range(M!Rewritten(s, ts)) = {M!Mark(e, ts) : e \in M!Range(s)}
    BY <2>2 DEF M!Range
  <2>4. M!Rewritten(s, ts) \in Seq(M!Episode)
    BY <2>1, <2>2
  <2> QED BY <1>1, <2>3, <2>4 DEF M!Retire
<1>2. CASE ~ lifecycle
  BY <1>2, WithoutIs DEF M!Rewritten, M!Retire
<1> QED BY <1>1, <1>2

LEMMA RangeIs ==
  ASSUME NEW U, NEW s \in Seq(U)
  PROVE  /\ M!Range(s) \in SUBSET U
         /\ M!Range(<<>>) = {}
         /\ \A e \in U : M!Range(s \o <<e>>) = M!Range(s) \cup {e} /\ s \o <<e>> \in Seq(U)
         /\ \A n \in 0 .. Len(s) : M!Range(SubSeq(s, 1, n)) \subseteq M!Range(s) /\ SubSeq(s, 1, n) \in Seq(U)
<1>1. M!Range(s) \in SUBSET U /\ M!Range(<<>>) = {}
  BY DEF M!Range
<1>2. ASSUME NEW e \in U PROVE M!Range(s \o <<e>>) = M!Range(s) \cup {e} /\ s \o <<e>> \in Seq(U)
  <2>1. /\ DOMAIN (s \o <<e>>) = 1 .. Len(s) + 1 /\ DOMAIN s = 1 .. Len(s) /\ Len(s) \in Nat
        /\ (s \o <<e>>)[Len(s) + 1] = e /\ \A i \in 1 .. Len(s) : (s \o <<e>>)[i] = s[i]
    OBVIOUS
  <2>2. M!Range(s \o <<e>>) \subseteq M!Range(s) \cup {e}
    <3> SUFFICES ASSUME NEW i \in 1 .. Len(s) + 1 PROVE (s \o <<e>>)[i] \in M!Range(s) \cup {e}
      BY <2>1 DEF M!Range
    <3>1. i = Len(s) + 1 \/ i \in 1 .. Len(s)
      BY <2>1
    <3> QED BY <2>1, <3>1 DEF M!Range
  <2>3. M!Range(s) \cup {e} \subseteq M!Range(s \o <<e>>)
    <3>1. Len(s) + 1 \in 1 .. Len(s) + 1 /\ 1 .. Len(s) \subseteq 1 .. Len(s) + 1
      BY <2>1
    <3> QED BY <2>1, <3>1 DEF M!Range
  <2> QED BY <2>2, <2>3
<1>3. ASSUME NEW n \in 0 .. Len(s)
      PROVE  M!Range(SubSeq(s, 1, n)) \subseteq M!Range(s) /\ SubSeq(s, 1, n) \in Seq(U)
  <2>1. Len(s) \in Nat /\ DOMAIN s = 1 .. Len(s) /\ SubSeq(s, 1, n) \in Seq(U)
        /\ DOMAIN SubSeq(s, 1, n) = 1 .. n /\ \A i \in 1 .. n : SubSeq(s, 1, n)[i] = s[i]
    OBVIOUS
  <2>2. 1 .. n \subseteq 1 .. Len(s)
    BY <2>1
  <2> QED BY <2>1, <2>2 DEF M!Range
<1> QED BY <1>1, <1>2, <1>3

\* Live episodes L but for those in S that are the captures of the file's rows Q
\* but for those in B; and the texts that L and Q have under a number.
Agreed(L, S, Q, B) == {r \in M!Captured(L) : r.name \notin S} = {r \in M!Captured(Q) : r.name \notin B}
SameTexts(L, Q) == \A e \in L, x \in Q : e.name \in Nat /\ e.name = x.name => e.text = x.text

\* What holds of the live set and the file still holds once a text is retired
\* from both.
LEMMA RetireBoth ==
  ASSUME lifecycle \in BOOLEAN, NEW L \in SUBSET M!Episode, NEW Q \in SUBSET M!Episode, NEW S, NEW B, NEW ts,
         Agreed(L, S, Q, B), SameTexts(L, Q)
  PROVE  Agreed(M!Retire(L, ts), S, M!Retire(Q, ts), B)
<1> USE DEF Agreed, SameTexts
<1>1. \A e \in L : e.name \in Nat /\ e.name \notin S =>
        e.name \notin B /\ \E x \in Q : x.name = e.name /\ x.superseded = e.superseded /\ x.text = e.text
  <2> SUFFICES ASSUME NEW e \in L, e.name \in Nat, e.name \notin S
               PROVE e.name \notin B /\ \E x \in Q : x.name = e.name /\ x.superseded = e.superseded /\ x.text = e.text
    OBVIOUS
  <2>1. [name |-> e.name, superseded |-> e.superseded] \in M!Captured(L)
    BY DEF M!Captured
  <2>2. PICK x \in Q : x.name \in Nat /\ [name |-> e.name, superseded |-> e.superseded]
                                         = [name |-> x.name, superseded |-> x.superseded]
    BY <2>1 DEF M!Captured
  <2> QED BY <2>1, <2>2
<1>2. \A x \in Q : x.name \in Nat /\ x.name \notin B =>
        x.name \notin S /\ \E e \in L : x.name = e.name /\ x.superseded = e.superseded /\ x.text = e.text
  <2> SUFFICES ASSUME NEW x \in Q, x.name \in Nat, x.name \notin B
               PROVE x.name \notin S /\ \E e \in L : x.name = e.name /\ x.superseded = e.superseded /\ x.text = e.text
    OBVIOUS
  <2>1. [name |-> x.name, superseded |-> x.superseded] \in M!Captured(Q)
    BY DEF M!Captured
  <2>2. [name |-> x.name, superseded |-> x.superseded] \in M!Captured(L) /\ x.name \notin S
    BY <2>1
  <2>3. PICK e \in L : e.name \in Nat /\ [name |-> e.name, superseded |-> e.superseded]
                                         = [name |-> x.name, superseded |-> x.superseded]
    BY <2>2 DEF M!Captured
  <2> QED BY <2>2, <2>3
<1>3. ASSUME NEW U \in SUBSET M!Episode, NEW W \in SUBSET M!Episode, NEW e \in M!Retire(U, ts),
             \E x \in U : x.name = e.name /\ e.superseded = (x.superseded \/ x.text \in ts)
                          /\ (x.text \notin ts \/ lifecycle)
                          /\ \E y \in W : x.name = y.name /\ x.superseded = y.superseded /\ x.text = y.text
      PROVE  \E d \in M!Retire(W, ts) : d.name = e.name /\ d.superseded = e.superseded
  <2>1. PICK x \in U : x.name = e.name /\ e.superseded = (x.superseded \/ x.text \in ts)
                       /\ (x.text \notin ts \/ lifecycle)
                       /\ \E y \in W : x.name = y.name /\ x.superseded = y.superseded /\ x.text = y.text
    BY <1>3
  <2>2. PICK y \in W : x.name = y.name /\ x.superseded = y.superseded /\ x.text = y.text
    BY <2>1
  <2> QED BY <2>1, <2>2, RetireIs
<1>4. ASSUME NEW U \in SUBSET M!Episode, NEW e \in M!Retire(U, ts)
      PROVE  \E x \in U : /\ x.name = e.name /\ e.superseded = (x.superseded \/ x.text \in ts)
                          /\ (x.text \notin ts \/ lifecycle)
  BY DEF M!Retire, M!Mark, M!Episode
<1>5. \A e \in M!Retire(L, ts) : e.name \in Nat /\ e.name \notin S =>
        e.name \notin B /\ \E d \in M!Retire(Q, ts) : d.name = e.name /\ d.superseded = e.superseded
  BY <1>1, <1>3, <1>4
<1>6. \A e \in M!Retire(Q, ts) : e.name \in Nat /\ e.name \notin B =>
        e.name \notin S /\ \E d \in M!Retire(L, ts) : d.name = e.name /\ d.superseded = e.superseded
  BY <1>2, <1>3, <1>4
<1> DEFINE Tag(e) == [name |-> e.name, superseded |-> e.superseded]
<1>7. \A es, r : r \in M!Captured(es) <=> \E e \in es : e.name \in Nat /\ r = Tag(e)
  BY DEF M!Captured
<1>8. \A e : Tag(e).name = e.name
  OBVIOUS
<1>9. \A e, d : e.name = d.name /\ e.superseded = d.superseded => Tag(e) = Tag(d)
  OBVIOUS
<1> HIDE DEF Tag
<1>10. ASSUME NEW r \in M!Captured(M!Retire(L, ts)), r.name \notin S
       PROVE  r \in M!Captured(M!Retire(Q, ts)) /\ r.name \notin B
  <2>1. PICK e \in M!Retire(L, ts) : e.name \in Nat /\ r = Tag(e)
    BY <1>7
  <2>5. e.name \notin S
    BY <1>8, <1>10, <2>1
  <2>2. PICK d \in M!Retire(Q, ts) : d.name = e.name /\ d.superseded = e.superseded
    BY <1>5, <2>1, <2>5
  <2>3. r.name \notin B
    BY <1>5, <1>8, <2>1, <2>5
  <2>4. r = Tag(d)
    BY <1>9, <2>1, <2>2
  <2> QED BY <1>7, <2>1, <2>2, <2>3, <2>4
<1>11. ASSUME NEW r \in M!Captured(M!Retire(Q, ts)), r.name \notin B
       PROVE  r \in M!Captured(M!Retire(L, ts)) /\ r.name \notin S
  <2>1. PICK e \in M!Retire(Q, ts) : e.name \in Nat /\ r = Tag(e)
    BY <1>7
  <2>2. e.name \notin B
    BY <1>8, <1>11, <2>1
  <2>3. PICK d \in M!Retire(L, ts) : d.name = e.name /\ d.superseded = e.superseded
    BY <1>6, <2>1, <2>2
  <2>4. r = Tag(d)
    BY <1>9, <2>1, <2>3
  <2>5. r.name \notin S
    BY <1>6, <1>8, <2>1, <2>2
  <2> QED BY <1>7, <2>1, <2>3, <2>4, <2>5
<1> QED BY <1>10, <1>11

\* What each step of a turn holds.
LEMMA TurnIs ==
  ASSUME MemTypes
  PROVE  /\ turn.pc \in {"starting", "idle", "read", "write", "confirm", "append", "push", "decide",
                        "combine"}
         /\ turn.pc = "read" => turn.texts \in SUBSET M!Text /\ turn.next \in After
         /\ turn.pc = "write" => turn.rows \in Seq(M!Episode) /\ turn.next \in After
         /\ turn.pc = "confirm" => turn.text \in M!Text
         /\ turn.pc \in {"append", "push"} => turn.ep \in M!Episode /\ turn.ep.name \in Nat /\ turn.next \in Going
         /\ turn.pc = "decide" => turn.new \in Fact
         /\ turn.pc = "combine" => turn.fact \in Fact
BY DEF MemTypes, TurnSteps, After, Going

LEMMA ScanIs ==
  ASSUME MemTypes
  PROVE  /\ scan.pc \in {"idle", "visit", "key", "refine", "judge"}
         /\ scan.pc \in {"visit", "key"} =>
              /\ scan \in [pc : {"visit", "key"}, already : SUBSET Label, todo : SUBSET Addr, found : SUBSET M!Episode]
              /\ scan.todo \subseteq Addr /\ scan.found \subseteq M!Episode
         /\ scan.pc = "refine" => scan \in [pc : {"refine"}, todo : SUBSET Addr]
         /\ scan.pc = "judge" => scan \in [pc : {"judge"}, todo : SUBSET Addr, addr : Addr, class : M!Class]
BY DEF MemTypes, ScanSteps

\* The file is of episodes, and so is what it will be.
LEMMA DueIs ==
  ASSUME MemTypes
  PROVE  /\ M!Rows \in SUBSET M!Episode /\ Due \in SUBSET M!Episode /\ Ours \in SUBSET M!Episode
         /\ turn.pc = "read" => Due = M!Retire(M!Rows, turn.texts)
         /\ turn.pc = "write" => Due = M!Range(turn.rows)
         /\ turn.pc \notin {"read", "write"} => Due = M!Rows
         /\ turn.pc = "push" => Ours = live \cup {turn.ep}
         /\ turn.pc # "push" => Ours = live
<1>1. M!Rows \in SUBSET M!Episode
  BY RangeIs DEF MemTypes, M!Rows
<1>2. turn.pc = "write" => M!Range(turn.rows) \in SUBSET M!Episode
  BY TurnIs, RangeIs
<1>3. turn.pc = "read" => M!Retire(M!Rows, turn.texts) \in SUBSET M!Episode
  BY <1>1, RetireIs DEF MemTypes
<1>4. Ours \in SUBSET M!Episode
  BY TurnIs DEF Ours, MemTypes
<1> QED BY <1>1, <1>2, <1>3, <1>4 DEF Due, Ours

LEMMA TextsIn ==
  /\ \A f \in Fact : M!Raw(f) \in M!Text /\ M!Said(f) \in M!Text
  /\ \A es \in SUBSET M!Episode : M!TextsOf(es) \subseteq M!Text
  /\ \A n \in Label, t \in M!Text, c \in M!Class \cup {"none"} :
       /\ M!Ep(n, t, c) \in M!Episode /\ M!Ep(n, t, c).name = n /\ M!Ep(n, t, c).text = t
       /\ M!Ep(n, t, c).superseded = FALSE
BY DEF M!Raw, M!Said, M!Text, M!TextsOf, M!Episode, M!Ep, Label, M!Class

LEMMA CapturedIs ==
  /\ \A es, r : r \in M!Captured(es) <=>
       \E e \in es : e.name \in Nat /\ r = [name |-> e.name, superseded |-> e.superseded]
  /\ \A es, n, s : [name |-> n, superseded |-> s] \in M!Captured(es) <=>
       \E e \in es : e.name \in Nat /\ e.name = n /\ e.superseded = s
<1>1. \A es, r : r \in M!Captured(es) <=>
        \E e \in es : e.name \in Nat /\ r = [name |-> e.name, superseded |-> e.superseded]
  BY DEF M!Captured
<1>2. \A a, b, c, d : [name |-> a, superseded |-> b] = [name |-> c, superseded |-> d] <=> a = c /\ b = d
  OBVIOUS
<1> QED BY <1>1, <1>2

\* Live episodes and rows of one number have one text.
LEMMA OneTextEach ==
  ASSUME Named
  PROVE  \A e \in Ours, x \in Due \cup M!Rows : e.name \in Nat /\ e.name = x.name => e.text = x.text
<1> SUFFICES ASSUME NEW e \in Ours, NEW x \in Due \cup M!Rows, e.name \in Nat, e.name = x.name
             PROVE  e.text = x.text
  OBVIOUS
<1>1. [name |-> e.name, text |-> e.text] \in stored
  BY DEF Named
<1>2. [name |-> e.name, text |-> e.text].name = x.name /\ [name |-> e.name, text |-> e.text].text = e.text
  OBVIOUS
<1> QED BY <1>1, <1>2 DEF Named

-----------------------------------------------------------------------------
\* A turn chooses what to retire: FORGET, DECIDE and MERGE.
LEMMA DropStep ==
  ASSUME MemInv, NEW ts \in SUBSET M!Text, NEW next \in After, M!Drop(ts, next),
         turn.pc \in {"idle", "decide"}, next.pc = "confirm" => next.text \in ts,
         UNCHANGED <<lifecycle, booted, file, tail, concepts, keys, clock, scan, forgotten, torn, stored,
                     shorn, merged, crashes>>
  PROVE  MemInv'
<1> DEFINE tn == [pc |-> "read", texts |-> ts, next |-> next]
<1>1. /\ live' = M!Retire(live, ts) /\ victims' = victims \cup ts /\ turn' = tn /\ M!Rows' = M!Rows
      /\ tn.pc = "read" /\ tn.texts = ts /\ tn.next = next
  BY DEF M!Drop, M!Rows
<1> HIDE DEF tn
<1>2. MemTypes /\ Due = M!Rows /\ Ours = live /\ M!Rows \in SUBSET M!Episode /\ live \in SUBSET M!Episode
      /\ lifecycle \in BOOLEAN
  BY DueIs DEF MemInv, MemTypes
<1>3. Due' = M!Retire(M!Rows, ts) /\ Ours' = M!Retire(live, ts)
  <2>1. M!Retire(M!Rows, ts)' = M!Retire(M!Rows, ts)
    BY <1>1 DEF M!Retire, M!Mark
  <2> QED BY <1>1, <2>1 DEF Due, Ours
<1>4. Confirming' \subseteq ts
  BY <1>1 DEF Confirming
<1>5. M!Retire(live, ts) \in SUBSET M!Episode
  BY <1>2, RetireIs
<1>6. MemTypes'
  <2>1. turn' \in TurnSteps
    BY <1>1 DEF tn, TurnSteps
  <2> QED BY <1>1, <1>2, <1>5, <2>1 DEF MemTypes
<1>7. \A e \in M!Retire(M!Rows, ts) :
        \E x \in M!Rows : x.name = e.name /\ x.text = e.text /\ (x.superseded => e.superseded)
  BY <1>2, RetireIs
<1>8. \A e \in M!Retire(live, ts) : \E x \in live : x.name = e.name /\ x.text = e.text
  BY <1>2, RetireIs
<1>9. Named'
  BY <1>1, <1>2, <1>3, <1>7, <1>8 DEF MemInv, Named
<1>10. Agree'
  <2>1. Agreed(live, shorn, M!Rows, Known) /\ SameTexts(live, M!Rows)
    BY <1>2, OneTextEach DEF MemInv, Agree, Agreed, SameTexts
  <2>2. Agreed(M!Retire(live, ts), shorn, M!Retire(M!Rows, ts), Known)
    BY <1>2, <2>1, RetireBoth
  <2>3. Known' = Known
    BY DEF Known
  <2> QED BY <1>3, <2>2, <2>3 DEF Agree, Agreed, M!Captured
<1>11. Durable'
  <2>1. \A e \in M!Retire(M!Rows, ts) : e.text \in ts => e.superseded
    BY <1>2, RetireIs
  <2>2. \A e \in M!Rows : e.text \in forgotten => e.superseded
    BY DEF MemInv, Durable
  <2>3. forgotten' = forgotten /\ M!Rows' = M!Rows
    BY <1>1
  <2> QED BY <1>3, <1>4, <1>7, <2>1, <2>2, <2>3 DEF Durable
<1>12. NotLost'
  <2> SUFFICES ASSUME NEW r \in stored
               PROVE  \/ \E e \in M!Retire(M!Rows, ts) : e.name = r.name
                      \/ ~ lifecycle /\ r.text \in victims'
                      \/ r.name \in shorn
    BY <1>3 DEF NotLost
  <2>1. CASE ~ lifecycle /\ r.text \in victims
    BY <1>1, <2>1
  <2>2. CASE \E e \in M!Rows : e.name = r.name
    <3>1. PICK x \in M!Rows : x.name = r.name
      BY <2>2
    <3>2. x.text = r.text
      BY <3>1 DEF MemInv, Named
    <3>3. CASE x.text \notin ts \/ lifecycle
      BY <3>1, <3>3, <1>2, RetireIs
    <3>4. CASE x.text \in ts /\ ~ lifecycle
      BY <3>2, <3>4, <1>1
    <3> QED BY <3>3, <3>4, <1>2
  <2> QED BY <1>2, <2>1, <2>2 DEF MemInv, NotLost
<1>13. Keyed'
  <2>1. keys' = keys /\ scan' = scan
    OBVIOUS
  <2> QED BY <1>1, <1>8, <2>1 DEF MemInv, Keyed, M!ServedByItsKey
<1>14. Taking' /\ LastLine'
  BY <1>1 DEF MemInv, Taking, LastLine, Known
<1> QED BY <1>6, <1>9, <1>10, <1>11, <1>12, <1>13, <1>14 DEF MemInv

LEMMA TruncateStep == ASSUME MemInv, M!Truncate PROVE MemInv'
<1> DEFINE tn == [pc |-> "write", rows |-> M!Rewritten(file, turn.texts), next |-> turn.next]
<1>1. /\ turn.pc = "read" /\ file' = <<>> /\ tail' = "whole" /\ turn' = tn
      /\ tn.pc = "write" /\ tn.rows = M!Rewritten(file, turn.texts) /\ tn.next = turn.next
      /\ UNCHANGED <<lifecycle, booted, live, concepts, keys, clock, scan, forgotten, victims, torn, stored,
                     shorn, merged, crashes>>
  BY DEF M!Truncate, M!store, M!history, M!bounds
<1> HIDE DEF tn
<1>2. MemTypes /\ turn.next \in After
  BY <1>1, TurnIs DEF MemInv
<1>3. /\ M!Rewritten(file, turn.texts) \in Seq(M!Episode)
      /\ M!Range(M!Rewritten(file, turn.texts)) = M!Retire(M!Rows, turn.texts)
  BY <1>2, RewrittenIs DEF MemTypes, M!Rows
<1>4. Due' = Due /\ Ours' = Ours /\ Confirming' = Confirming /\ M!Rows' = {} /\ Known' = Known
  <2>1. Due' = M!Range(tn.rows) /\ Ours' = live /\ Ours = live /\ Confirming' = Confirming
    BY <1>1 DEF Due, Ours, Confirming
  <2>2. Due = M!Retire(M!Rows, turn.texts)
    BY <1>1 DEF Due
  <2>3. M!Rows' = {}
    BY <1>1, RangeIs DEF M!Rows, M!Range
  <2> QED BY <1>1, <1>3, <2>1, <2>2, <2>3 DEF Known
<1>5. MemTypes'
  <2>1. turn' \in TurnSteps /\ file' \in Seq(M!Episode)
    BY <1>1, <1>2, <1>3 DEF tn, TurnSteps
  <2> QED BY <1>1, <1>2, <2>1 DEF MemTypes
<1>6. Named' /\ Durable' /\ NotLost'
  BY <1>1, <1>4 DEF MemInv, Named, Durable, NotLost
<1>7. Agree' /\ Keyed'
  BY <1>1, <1>4 DEF MemInv, Agree, M!Captured, Keyed, M!ServedByItsKey
<1>8. Taking' /\ LastLine'
  BY <1>1 DEF MemInv, Taking, LastLine
<1> QED BY <1>5, <1>6, <1>7, <1>8 DEF MemInv

LEMMA WriteBackStep == ASSUME MemInv, M!WriteBack PROVE MemInv'
<1>1. /\ turn.pc = "write" /\ file' = turn.rows /\ turn' = turn.next
      /\ UNCHANGED <<lifecycle, booted, live, tail, concepts, keys, clock, scan, forgotten, victims, torn,
                     stored, shorn, merged, crashes>>
  BY DEF M!WriteBack, M!store, M!history, M!bounds
<1>2. MemTypes /\ turn.next \in After /\ turn.rows \in Seq(M!Episode)
  BY <1>1, TurnIs DEF MemInv
<1>3. turn.next \in TurnSteps /\ turn.next.pc \notin {"read", "write", "append", "push"}
  BY <1>2 DEF After, Going, TurnSteps
<1>4. Due' = Due /\ Ours' = Ours /\ Confirming' = Confirming /\ M!Rows' = Due /\ Known' = Known
  BY <1>1, <1>3 DEF Due, Ours, Confirming, Known, M!Rows, M!Range
<1>5. MemTypes'
  BY <1>1, <1>2, <1>3 DEF MemTypes
<1>6. Named' /\ Durable' /\ NotLost'
  BY <1>1, <1>4 DEF MemInv, Named, Durable, NotLost
<1>7. Agree' /\ Keyed'
  BY <1>1, <1>4 DEF MemInv, Agree, M!Captured, Keyed, M!ServedByItsKey
<1>8. Taking' /\ LastLine'
  BY <1>1, <1>3 DEF MemInv, Taking, LastLine
<1> QED BY <1>5, <1>6, <1>7, <1>8 DEF MemInv

LEMMA ConfirmStep == ASSUME MemInv, M!Confirm PROVE MemInv'
<1>1. /\ turn.pc = "confirm" /\ turn' = M!Idle /\ turn'.pc = "idle" /\ forgotten' = forgotten \cup {turn.text}
      /\ UNCHANGED <<lifecycle, booted, live, file, tail, concepts, keys, clock, scan, victims, torn, stored,
                     shorn, merged, crashes>>
  BY DEF M!Confirm, M!store, M!memory, M!bounds, M!Idle
<1>2. MemTypes /\ turn.text \in M!Text /\ turn' \in TurnSteps
  BY <1>1, TurnIs DEF MemInv, TurnSteps, After, Going, M!Idle
<1>3. /\ Due' = M!Rows /\ Due = M!Rows /\ Ours' = Ours /\ M!Rows' = M!Rows /\ Known' = Known
      /\ Confirming = {turn.text} /\ Confirming' = {}
  BY <1>1 DEF Due, Ours, Confirming, Known, M!Rows
<1>4. MemTypes'
  BY <1>1, <1>2 DEF MemTypes
<1>5. Named' /\ Durable' /\ NotLost'
  BY <1>1, <1>3 DEF MemInv, Named, Durable, NotLost
<1>6. Agree' /\ Keyed'
  BY <1>1, <1>3 DEF MemInv, Agree, M!Captured, Keyed, M!ServedByItsKey
<1>7. Taking' /\ LastLine'
  BY <1>1 DEF MemInv, Taking, LastLine, Known
<1> QED BY <1>4, <1>5, <1>6, <1>7 DEF MemInv

\* A turn that is over, or goes on to what it does next, touches nothing else.
LEMMA QuietTurn ==
  ASSUME MemInv, turn.pc \in {"starting", "idle", "confirm", "decide", "combine"},
         turn' \in TurnSteps, turn'.pc \in {"idle", "decide", "combine"},
         UNCHANGED <<lifecycle, booted, live, file, tail, concepts, keys, clock, scan, forgotten, victims,
                     torn, stored, shorn, merged, crashes>>
  PROVE  MemInv'
<1>1. MemTypes
  BY DEF MemInv
<1>2. /\ Due' = Due /\ Ours' = Ours /\ M!Rows' = M!Rows /\ Known' = Known /\ Confirming' = {}
  BY DEF Due, Ours, Confirming, Known, M!Rows
<1>3. MemTypes'
  BY <1>1 DEF MemTypes
<1>4. Named' /\ Durable' /\ NotLost'
  BY <1>2 DEF MemInv, Named, Durable, NotLost
<1>5. Agree' /\ Keyed'
  BY <1>2 DEF MemInv, Agree, M!Captured, Keyed, M!ServedByItsKey
<1>6. Taking' /\ LastLine'
  BY DEF MemInv, Taking, LastLine, Known
<1> QED BY <1>3, <1>4, <1>5, <1>6 DEF MemInv

\* A capture takes a new number, and its text is known again.
LEMMA TakeStep ==
  ASSUME MemInv, NEW t \in M!Text, NEW next \in Going, M!Capture(t, next), turn.pc \in {"idle", "combine"},
         UNCHANGED <<lifecycle, booted, live, file, tail, concepts, keys, scan, victims, torn, stored, shorn,
                     merged, crashes>>
  PROVE  MemInv'
<1> DEFINE d == M!Ep(clock, t, "none")
           tn == [pc |-> "append", ep |-> d, next |-> next]
<1>1. /\ clock' = clock + 1 /\ forgotten' = forgotten \ {t} /\ turn' = tn
      /\ tn.pc = "append" /\ tn.ep = d
  BY DEF M!Capture
<1>2. MemTypes /\ clock \in Nat /\ clock + 1 \in Nat
  BY DEF MemInv, MemTypes
<1>3. d \in M!Episode /\ d.name = clock /\ d.text = t
  BY <1>2, TextsIn DEF Label
<1>4. turn' \in TurnSteps
  BY <1>1, <1>2, <1>3 DEF tn, TurnSteps
<1> HIDE DEF d, tn
<1>5. Due = M!Rows /\ Due' = M!Rows /\ M!Rows' = M!Rows /\ Ours' = Ours /\ Known' = Known /\ Confirming' = {}
  BY <1>1 DEF Due, Ours, Known, M!Rows, Confirming
<1>6. MemTypes'
  BY <1>1, <1>2, <1>4 DEF MemTypes
<1>7. \A n \in Nat : n < clock => n < clock + 1
  BY <1>2
<1>8. /\ \A e \in booted \cup M!Rows : e.name \in Nat /\ e.name < clock
      /\ \A r \in stored : r.name \in Nat /\ r.name < clock
      /\ \A n \in shorn : n \in Nat /\ n < clock
  BY <1>2 DEF MemInv, Named, MemTypes
<1>9. Named'
  BY <1>1, <1>5, <1>7, <1>8 DEF MemInv, Named
<1>10. Agree' /\ NotLost' /\ Keyed'
  BY <1>5 DEF MemInv, Agree, M!Captured, NotLost, Keyed, M!ServedByItsKey
<1>11. Durable'
  BY <1>1, <1>5 DEF MemInv, Durable
<1>12. Taking'
  <2>1. clock < clock + 1
    BY <1>2
  <2> QED BY <1>1, <1>3, <1>5, <1>8, <2>1 DEF Taking, Fresh
<1>13. LastLine'
  BY <1>1, <1>5 DEF MemInv, LastLine
<1> QED BY <1>6, <1>9, <1>10, <1>11, <1>12, <1>13 DEF MemInv

\* The rows but for the last one, and the names that go with it.
LEMMA JoinedIs ==
  ASSUME MemInv
  PROVE  /\ M!Joined \in Seq(M!Episode) /\ M!Range(M!Joined) \subseteq M!Rows
         /\ \A e \in M!Rows : e.name \notin Known => e \in M!Range(M!Joined)
<1>1. MemTypes /\ file \in Seq(M!Episode) /\ M!Rows = M!Range(file) /\ Len(file) \in Nat /\ DOMAIN file = 1 .. Len(file)
  BY DEF MemInv, MemTypes, M!Rows, M!Range
<1>2. CASE tail = "open"
  <2>1. M!Joined = SubSeq(file, 1, Len(file) - 1) /\ Len(file) # 0 /\ file[Len(file)].name \in Known
    BY <1>2 DEF M!Joined, MemInv, LastLine
  <2>2. Len(file) \in Nat /\ Len(file) # 0
    BY <1>1, <2>1
  <2>3. Len(file) - 1 \in 0 .. Len(file) /\ \A i \in 1 .. Len(file) : i = Len(file) \/ i \in 1 .. (Len(file) - 1)
    BY <2>2
  <2> DEFINE n == Len(file) - 1
  <2>4. M!Range(SubSeq(file, 1, n)) \subseteq M!Range(file) /\ SubSeq(file, 1, n) \in Seq(M!Episode)
    <3>1. file \in Seq(M!Episode) /\ n \in 0 .. Len(file)
      BY <1>1, <2>3
    <3> HIDE DEF n
    <3> QED BY <3>1, RangeIs
  <2>5. DOMAIN SubSeq(file, 1, n) = 1 .. n /\ \A i \in 1 .. n : SubSeq(file, 1, n)[i] = file[i]
    <3>1. file \in Seq(M!Episode) /\ n \in 0 .. Len(file) /\ Len(file) \in Nat
      BY <1>1, <2>3
    <3> HIDE DEF n
    <3> QED BY <3>1
  <2>6. ASSUME NEW e \in M!Rows, e.name \notin Known PROVE e \in M!Range(SubSeq(file, 1, n))
    <3>1. PICK i \in 1 .. Len(file) : e = file[i]
      BY <1>1 DEF M!Range
    <3>2. i \in 1 .. n
      BY <2>1, <2>3, <2>6, <3>1
    <3> QED BY <2>5, <3>1, <3>2 DEF M!Range
  <2> QED BY <1>1, <2>1, <2>4, <2>6
<1>3. CASE tail # "open"
  <2>1. M!Joined = file
    BY <1>3 DEF M!Joined
  <2> QED BY <1>1, <2>1
<1> QED BY <1>2, <1>3

\* The row of a capture is appended, or it joins a line that was cut short.
LEMMA AppendStep == ASSUME MemInv, M!AppendRow PROVE MemInv'
<1> DEFINE d == turn.ep
           r0 == [name |-> d.name, text |-> d.text]
           tn == [pc |-> "push", ep |-> d, next |-> turn.next]
<1>1. /\ turn.pc = "append" /\ tail' = "whole" /\ stored' = stored \cup {r0}
      /\ file' = IF tail = "whole" THEN file \o <<d>> ELSE M!Joined
      /\ shorn' = shorn \cup ((M!Names(M!Rows) \cup {d.name}) \ M!Names(M!Range(file')))
      /\ merged' = IF tail = "whole" THEN merged ELSE merged + 1
      /\ turn' = tn /\ tn.pc = "push" /\ tn.ep = d /\ r0.name = d.name /\ r0.text = d.text
      /\ UNCHANGED <<lifecycle, booted, live, concepts, keys, clock, scan, forgotten, victims, torn, crashes>>
  BY DEF M!AppendRow, M!store, M!bounds, M!Range
<1>2. MemTypes /\ d \in M!Episode /\ d.name \in Nat /\ turn.next \in Going
  BY <1>1, TurnIs DEF MemInv
<1>3. Fresh(d.name) /\ d.text \notin forgotten /\ d.text \in M!Text
  BY <1>1, <1>2 DEF MemInv, Taking, M!Episode
<1>4. turn' \in TurnSteps
  BY <1>1, <1>2 DEF TurnSteps
<1> HIDE DEF d, r0, tn
<1>5. \A e \in booted \cup M!Rows : e.name \in Nat /\ e.name # d.name
  <2>1. \A e \in booted \cup M!Rows : e.name \in Nat /\ e.name < d.name
    BY <1>3 DEF MemInv, Named, Fresh
  <2>2. \A n \in Nat : n < d.name => n # d.name
    BY <1>2
  <2> QED BY <2>1, <2>2
<1>6. (\A r \in stored : r.name # d.name) /\ d.name \notin shorn /\ d.name \notin Known
  <2>1. \A n \in Nat : n < d.name => n # d.name
    BY <1>2
  <2>2. (\A r \in stored : r.name \in Nat /\ r.name < d.name) /\ \A n \in shorn : n \in Nat /\ n < d.name
    BY <1>2, <1>3 DEF Fresh, MemTypes
  <2> QED BY <1>5, <2>1, <2>2 DEF Known
<1> DEFINE rs == M!Range(file')
<1>7. /\ file' \in Seq(M!Episode) /\ rs \subseteq M!Rows \cup {d}
      /\ \A e \in M!Rows : e.name \notin Known => e \in rs
      /\ tail = "whole" => rs = M!Rows \cup {d}
      /\ tail # "whole" => d \notin rs
  <2>1. CASE tail = "whole"
    <3>1. file' = file \o <<d>> /\ file \in Seq(M!Episode)
      BY <1>1, <1>2, <2>1 DEF MemTypes
    <3>2. M!Range(file \o <<d>>) = M!Range(file) \cup {d} /\ file \o <<d>> \in Seq(M!Episode)
      BY <1>2, <3>1, RangeIs
    <3> QED BY <2>1, <3>1, <3>2 DEF M!Rows
  <2>2. CASE tail # "whole"
    <3>1. file' = M!Joined
      BY <1>1, <2>2
    <3>2. d \notin M!Rows
      BY <1>5
    <3> QED BY <2>2, <3>1, <3>2, JoinedIs
  <2> QED BY <2>1, <2>2
<1>8. /\ Due = M!Rows /\ Ours = live /\ M!Rows' = rs /\ Due' = rs /\ Ours' = live \cup {d}
      /\ Confirming' = {} /\ Known' = Known
  BY <1>1 DEF Due, Ours, Confirming, Known, M!Rows, M!Range
<1> HIDE DEF rs
<1>9. shorn' = shorn \cup ((M!Names(M!Rows) \cup {d.name}) \ M!Names(rs))
  BY <1>1 DEF rs
<1>10. \A n \in shorn' : n \in shorn \/ n = d.name \/ n \in Known
  BY <1>7, <1>9 DEF M!Names
<1>11. d.name \in shorn' <=> tail # "whole"
  <2>1. d.name \in M!Names(rs) <=> tail = "whole"
    BY <1>5, <1>7 DEF M!Names
  <2> QED BY <1>6, <1>9, <2>1
<1>12. \A e \in M!Rows : e.name \in shorn' \/ \E x \in rs : x.name = e.name
  BY <1>9 DEF M!Names
<1>13. shorn \subseteq shorn'
  BY <1>9
<1>14. \A n \in shorn' : n \in Nat /\ n < clock
  <2>1. \A n \in shorn : n \in Nat /\ n < clock
    BY <1>2 DEF MemInv, Named, MemTypes
  <2>2. d.name < clock
    BY <1>3 DEF Fresh
  <2>3. \A n \in Known : n \in Nat /\ n < clock
    BY DEF MemInv, Named, Known
  <2> QED BY <1>2, <1>10, <2>1, <2>2, <2>3
<1>15. MemTypes'
  <2>1. merged' \in Nat
    BY <1>1, <1>2 DEF MemTypes
  <2>2. stored' \subseteq [name : Nat, text : M!Text]
    BY <1>1, <1>2, <1>3 DEF r0, MemTypes
  <2> QED BY <1>1, <1>2, <1>4, <1>7, <1>14, <2>1, <2>2 DEF MemTypes
<1>16. Named'
  <2>1. \A e \in booted \cup M!Rows : e.name \in Nat /\ e.name < clock
    BY DEF MemInv, Named
  <2>2. \A e \in booted' \cup rs : e.name \in Nat /\ e.name < clock'
    BY <1>1, <1>2, <1>3, <1>7, <2>1 DEF Fresh
  <2>3. \A r \in stored' : r.name < clock'
    BY <1>1, <1>3 DEF MemInv, Named, Fresh
  <2>4. \A e \in live \cup {d} : e.name \in Nat => [name |-> e.name, text |-> e.text] \in stored'
    BY <1>1, <1>8 DEF MemInv, Named, r0
  <2>5. \A e \in M!Rows, r \in stored : e.name = r.name => e.text = r.text
    BY DEF MemInv, Named
  <2>6. \A e \in rs, r \in stored' : e.name = r.name => e.text = r.text
    BY <1>1, <1>5, <1>6, <1>7, <2>5
  <2> QED BY <1>1, <1>8, <1>14, <2>2, <2>3, <2>4, <2>6 DEF Named
<1>17. Agree'
  <2>1. {r \in M!Captured(live) : r.name \notin shorn} = {r \in M!Captured(M!Rows) : r.name \notin Known}
    BY <1>8 DEF MemInv, Agree
  <2>2. \A es : M!Captured(es \cup {d}) = M!Captured(es) \cup {[name |-> d.name, superseded |-> d.superseded]}
    BY <1>2 DEF M!Captured
  <2> DEFINE r1 == [name |-> d.name, superseded |-> d.superseded]
  <2>3. r1.name = d.name
    OBVIOUS
  <2> HIDE DEF r1
  <2>4. \A r \in M!Captured(rs) : r.name \notin Known => (r = r1 /\ tail = "whole") \/ r \in M!Captured(M!Rows)
    <3> SUFFICES ASSUME NEW r \in M!Captured(rs), r.name \notin Known
                 PROVE  (r = r1 /\ tail = "whole") \/ r \in M!Captured(M!Rows)
      OBVIOUS
    <3>1. PICK e \in rs : e.name \in Nat /\ r = [name |-> e.name, superseded |-> e.superseded]
      BY CapturedIs
    <3> QED BY <1>7, <3>1, CapturedIs DEF r1
  <2>5. \A r \in M!Captured(M!Rows) : r.name \notin Known => r \in M!Captured(rs)
    <3> SUFFICES ASSUME NEW r \in M!Captured(M!Rows), r.name \notin Known PROVE r \in M!Captured(rs)
      OBVIOUS
    <3>1. PICK e \in M!Rows : e.name \in Nat /\ r = [name |-> e.name, superseded |-> e.superseded]
      BY CapturedIs
    <3>2. r.name = e.name
      BY <3>1
    <3> QED BY <1>7, <3>1, <3>2, CapturedIs
  <2>6. tail = "whole" => r1 \in M!Captured(rs)
    BY <1>2, <1>7, CapturedIs DEF r1
  <2>7. M!Captured(live \cup {d}) = M!Captured(live) \cup {r1}
    BY <2>2 DEF r1
  <2>8. \A r \in M!Captured(live) : r.name \notin shorn' <=> r.name \notin shorn /\ r.name # d.name
    <3> SUFFICES ASSUME NEW r \in M!Captured(live) PROVE r.name \notin shorn' <=> r.name \notin shorn /\ r.name # d.name
      OBVIOUS
    <3>1. r.name \notin shorn => r.name \notin Known
      BY <2>1
    <3>2. r.name # d.name
      <4>1. PICK e \in live : e.name \in Nat /\ r = [name |-> e.name, superseded |-> e.superseded]
        BY CapturedIs
      <4>2. [name |-> e.name, text |-> e.text] \in stored
        BY <1>8, <4>1 DEF MemInv, Named
      <4>3. [name |-> e.name, text |-> e.text].name = e.name /\ r.name = e.name
        BY <4>1
      <4> QED BY <1>6, <4>2, <4>3
    <3> QED BY <1>10, <1>13, <3>1, <3>2
  <2>9. {r \in M!Captured(live \cup {d}) : r.name \notin shorn'} = {r \in M!Captured(rs) : r.name \notin Known}
    <3>1. ASSUME NEW r \in M!Captured(live), r.name \notin shorn'
          PROVE  r \in M!Captured(rs) /\ r.name \notin Known
      BY <2>1, <2>5, <2>8, <3>1
    <3>2. ASSUME r1.name \notin shorn' PROVE r1 \in M!Captured(rs) /\ r1.name \notin Known
      BY <1>6, <1>11, <2>3, <2>6, <3>2
    <3>3. ASSUME NEW r \in M!Captured(rs), r.name \notin Known
          PROVE  r \in M!Captured(live \cup {d}) /\ r.name \notin shorn'
      <4>1. CASE r = r1 /\ tail = "whole"
        BY <1>11, <2>3, <2>7, <4>1
      <4>2. CASE r \in M!Captured(M!Rows)
        <5>1. r \in M!Captured(live) /\ r.name \notin shorn
          BY <2>1, <3>3, <4>2
        <5>2. r.name # d.name
          <6>1. PICK e \in M!Rows : e.name \in Nat /\ r = [name |-> e.name, superseded |-> e.superseded]
            BY <4>2, CapturedIs
          <6>2. r.name = e.name
            BY <6>1
          <6> QED BY <1>5, <6>1, <6>2
        <5> QED BY <2>7, <2>8, <5>1, <5>2
      <4> QED BY <2>4, <3>3, <4>1, <4>2
    <3> QED BY <2>7, <3>1, <3>2, <3>3
  <2> QED BY <1>8, <2>9 DEF Agree, M!Captured
<1>18. Durable'
  BY <1>1, <1>3, <1>7, <1>8 DEF MemInv, Durable
<1>19. NotLost'
  <2> SUFFICES ASSUME NEW r \in stored'
               PROVE  \/ \E e \in rs : e.name = r.name
                      \/ ~ lifecycle /\ r.text \in victims
                      \/ r.name \in shorn'
    BY <1>1, <1>8 DEF NotLost
  <2>1. CASE r = r0
    BY <1>1, <1>7, <1>11, <2>1
  <2>2. CASE r \in stored
    BY <1>8, <1>12, <1>13, <2>2 DEF MemInv, NotLost
  <2> QED BY <1>1, <2>1, <2>2
<1>20. Keyed'
  BY <1>1 DEF MemInv, Keyed, M!ServedByItsKey
<1>21. Taking' /\ LastLine'
  <2>1. merged' \in Nat /\ crashes \in Nat /\ merged' <= crashes
    BY <1>1, <1>2, <1>15 DEF MemInv, LastLine, MemTypes
  <2> QED BY <1>1, <2>1 DEF Taking, LastLine
<1> QED BY <1>15, <1>16, <1>17, <1>18, <1>19, <1>20, <1>21 DEF MemInv

LEMMA PushStep == ASSUME MemInv, M!Push PROVE MemInv'
<1>1. /\ turn.pc = "push" /\ live' = live \cup {turn.ep} /\ turn' = turn.next
      /\ UNCHANGED <<lifecycle, booted, file, tail, concepts, keys, clock, scan, forgotten, victims, torn,
                     stored, shorn, merged, crashes>>
  BY DEF M!Push, M!store, M!history, M!bounds
<1>2. MemTypes /\ turn.next \in Going /\ turn.ep \in M!Episode /\ turn.ep.name \in Nat
  BY <1>1, TurnIs DEF MemInv
<1>3. turn.next \in TurnSteps /\ turn.next.pc \in {"idle", "decide"}
  BY <1>2 DEF After, Going, TurnSteps
<1>4. /\ Due = M!Rows /\ Due' = M!Rows /\ Ours' = Ours /\ M!Rows' = M!Rows /\ Known' = Known
      /\ Ours = live' /\ Confirming' = {}
  BY <1>1, <1>3 DEF Due, Ours, Known, M!Rows, Confirming
<1>5. MemTypes'
  BY <1>1, <1>2, <1>3 DEF MemTypes
<1>6. Named' /\ NotLost' /\ Durable'
  BY <1>1, <1>4 DEF MemInv, Named, NotLost, Durable
<1>7. Agree'
  BY <1>1, <1>4 DEF MemInv, Agree, M!Captured
<1>8. Keyed'
  <2>1. turn.ep.name \notin Addr
    BY <1>2, PartsAssumption DEF M!MemoryAssumption
  <2> QED BY <1>1, <2>1 DEF MemInv, Keyed, M!ServedByItsKey
<1>9. Taking' /\ LastLine'
  BY <1>1, <1>3, <1>4 DEF MemInv, Taking, LastLine
<1> QED BY <1>5, <1>6, <1>7, <1>8, <1>9 DEF MemInv

\* A step of the reconciler changes what is live only in its class, or adds
\* concepts.
LEMMA ScanStepKeeps ==
  ASSUME MemInv, live' \in SUBSET M!Episode,
         \A e \in live' : \/ e.name \notin Nat
                          \/ \E x \in live : x.name = e.name /\ x.text = e.text /\ x.superseded = e.superseded,
         \A x \in live : x.name \in Nat =>
           \E e \in live' : x.name = e.name /\ x.superseded = e.superseded,
         scan' \in ScanSteps, concepts' \in [Addr -> M!Class \cup {"absent"}],
         keys' \in [Addr -> {"none", "cut", "whole"}], Keyed',
         turn' = turn \/ (turn.pc = "starting" /\ turn' = M!Idle),
         UNCHANGED <<lifecycle, booted, file, tail, clock, forgotten, victims, torn, stored, shorn, merged, crashes>>
  PROVE  MemInv'
<1>1. MemTypes
  BY DEF MemInv
<1>2. MemTypes'
  <2>1. M!Idle \in TurnSteps
    BY DEF M!Idle, TurnSteps, After, Going
  <2> QED BY <1>1, <2>1 DEF MemTypes
<1>3. turn' = turn \/ (turn.pc = "starting" /\ turn'.pc = "idle")
  BY DEF M!Idle
<1>4. Due' = Due /\ M!Rows' = M!Rows /\ Known' = Known /\ Confirming' = Confirming
  <2>1. \A es, ts : M!Retire(es, ts)' = M!Retire(es, ts)
    BY DEF M!Retire, M!Mark
  <2>2. CASE turn' = turn
    BY <2>1, <2>2 DEF Due, M!Rows, M!Range, Known, Confirming, M!Retire, M!Mark
  <2>3. CASE turn.pc = "starting" /\ turn'.pc = "idle"
    BY <2>3 DEF Due, M!Rows, M!Range, Known, Confirming
  <2> QED BY <1>3, <2>2, <2>3
<1>5. \/ turn.pc = "push" /\ Ours = live \cup {turn.ep} /\ Ours' = live' \cup {turn.ep}
      \/ Ours = live /\ Ours' = live'
  BY <1>3 DEF Ours
<1>6. \A e \in Ours' : \/ e.name \notin Nat
                       \/ \E x \in Ours : x.name = e.name /\ x.text = e.text /\ x.superseded = e.superseded
  BY <1>5
<1>7. \A x \in Ours : x.name \in Nat => \E e \in Ours' : x.name = e.name /\ x.superseded = e.superseded
  BY <1>5
<1>8. Named' /\ Durable' /\ NotLost'
  <2>1. \A e \in Ours' : e.name \in Nat => [name |-> e.name, text |-> e.text] \in stored
    BY <1>6 DEF MemInv, Named
  <2> QED BY <1>4, <2>1 DEF MemInv, Named, Durable, NotLost
<1>9. Agree'
  <2>1. M!Captured(Ours') = M!Captured(Ours)
    <3>1. ASSUME NEW r \in M!Captured(Ours') PROVE r \in M!Captured(Ours)
      <4>1. PICK e \in Ours' : e.name \in Nat /\ r = [name |-> e.name, superseded |-> e.superseded]
        BY <3>1, CapturedIs
      <4>2. PICK x \in Ours : x.name = e.name /\ x.superseded = e.superseded
        BY <1>6, <4>1
      <4> QED BY <4>1, <4>2, CapturedIs
    <3>2. ASSUME NEW r \in M!Captured(Ours) PROVE r \in M!Captured(Ours')
      <4>1. PICK e \in Ours : e.name \in Nat /\ r = [name |-> e.name, superseded |-> e.superseded]
        BY <3>2, CapturedIs
      <4>2. PICK x \in Ours' : x.name = e.name /\ x.superseded = e.superseded
        BY <1>7, <4>1
      <4> QED BY <4>1, <4>2, CapturedIs
    <3> QED BY <3>1, <3>2
  <2> QED BY <1>4, <2>1 DEF MemInv, Agree, M!Captured
<1>10. Taking' /\ LastLine'
  BY <1>3, <1>4 DEF MemInv, Taking, Fresh, LastLine
<1> QED BY <1>2, <1>8, <1>9, <1>10 DEF MemInv

\* A class that changes changes nothing else.
Reclassed(a, c) == {IF e.name = a THEN [e EXCEPT !.class = c] ELSE e : e \in live}

LEMMA ClassKept ==
  ASSUME MemTypes, NEW a, NEW c \in M!Class
  PROVE  /\ Reclassed(a, c) \in SUBSET M!Episode
         /\ \A e \in Reclassed(a, c) : \E x \in live : x.name = e.name /\ x.text = e.text /\ x.superseded = e.superseded
         /\ \A x \in live : \E e \in Reclassed(a, c) : x.name = e.name /\ x.superseded = e.superseded
<1>1. \A e \in live : /\ [e EXCEPT !.class = c] \in M!Episode /\ [e EXCEPT !.class = c].name = e.name
                      /\ [e EXCEPT !.class = c].text = e.text
                      /\ [e EXCEPT !.class = c].superseded = e.superseded
                      /\ e \in M!Episode
  BY DEF MemTypes, M!Episode
<1> QED BY <1>1 DEF Reclassed

\* The visits of a pass: what it found stays served by its own key.
LEMMA ScanKinds ==
  ASSUME NEW st \in {"visit", "key"}, NEW al \in SUBSET Label, NEW todo \in SUBSET Addr, NEW found \in SUBSET M!Episode
  PROVE  [pc |-> st, already |-> al, todo |-> todo, found |-> found] \in ScanSteps
BY DEF ScanSteps

LEMMA BeginScan == ASSUME MemInv, M!ScanBegin PROVE MemInv'
<1> DEFINE sn == [pc |-> "visit", already |-> {e.name : e \in live}, todo |-> Addr, found |-> {}]
<1>1. /\ scan' = sn /\ turn' = turn /\ sn.pc = "visit" /\ sn.found = {}
      /\ UNCHANGED <<lifecycle, booted, live, file, tail, concepts, keys, clock, forgotten, victims, torn,
                     stored, shorn, merged, crashes>>
  BY DEF M!ScanBegin, M!memory, M!store, M!history, M!bounds
<1>2. MemTypes /\ sn \in ScanSteps
  <2>1. {e.name : e \in live} \in SUBSET Label
    BY DEF MemInv, MemTypes, M!Episode, Label
  <2> QED BY <2>1, ScanKinds DEF MemInv
<1> HIDE DEF sn
<1>3. Keyed'
  BY <1>1 DEF MemInv, Keyed, M!ServedByItsKey
<1> QED BY <1>1, <1>2, <1>3, ScanStepKeeps DEF MemTypes

LEMMA WriteKeyStep == ASSUME MemInv, M!WriteKey PROVE MemInv'
<1>1. /\ scan.pc = "key" /\ scan' = [scan EXCEPT !.pc = "visit"] /\ turn' = turn
      /\ keys' = [a \in Addr |-> IF \E e \in scan.found : e.name = a THEN "whole" ELSE keys[a]]
      /\ UNCHANGED <<lifecycle, booted, live, file, tail, concepts, clock, forgotten, victims, torn, stored,
                     shorn, merged, crashes>>
  BY DEF M!WriteKey, M!memory, M!history, M!bounds
<1>2. MemTypes
  BY DEF MemInv
<1>3. scan' \in ScanSteps /\ scan'.pc = "visit" /\ scan'.found = scan.found
  BY <1>1, <1>2, ScanIs DEF ScanSteps
<1>4. keys' \in [Addr -> {"none", "cut", "whole"}]
  BY <1>1, <1>2 DEF MemTypes
<1>5. Keyed'
  BY <1>1, <1>3 DEF MemInv, Keyed, M!ServedByItsKey
<1> QED BY <1>1, <1>2, <1>3, <1>4, <1>5, ScanStepKeeps DEF MemTypes

LEMMA VisitStep == ASSUME MemInv, M!Visit PROVE MemInv'
<1>1. PICK a \in scan.todo :
        IF concepts[a] = "absent" THEN M!Pass(a) /\ UNCHANGED <<live, keys>>
        ELSE IF a \in scan.already THEN M!Reread(a) /\ UNCHANGED keys
        ELSE IF keys[a] = "none" THEN M!Mint(a) /\ UNCHANGED live
        ELSE M!Load(a) /\ UNCHANGED <<live, keys>>
  BY DEF M!Visit
<1>2. /\ scan.pc = "visit" /\ turn' = turn
      /\ UNCHANGED <<lifecycle, booted, file, tail, concepts, clock, forgotten, victims, torn, stored, shorn,
                     merged, crashes>>
  BY DEF M!Visit, M!memory, M!history, M!bounds
<1>3. MemTypes /\ scan.todo \subseteq Addr /\ scan.found \subseteq M!Episode /\ a \in Addr
      /\ scan \in [pc : {"visit", "key"}, already : SUBSET Label, todo : SUBSET Addr, found : SUBSET M!Episode]
  BY <1>2, ScanIs DEF MemInv
<1> DEFINE f == M!Ep(a, M!Raw(Body[a]), concepts[a])
<1>4. concepts[a] # "absent" => f \in M!Episode /\ f.name = a
  <2>1. Body[a] \in Fact /\ a \in Label
    BY <1>3, PartsAssumption DEF M!MemoryAssumption, Label
  <2>2. concepts[a] # "absent" => concepts[a] \in M!Class
    BY <1>3 DEF MemTypes
  <2> QED BY <2>1, <2>2, TextsIn
<1> HIDE DEF f
<1>5. ASSUME M!Pass(a), live' = live, keys' = keys PROVE MemInv'
  <2>1. scan' \in ScanSteps /\ scan'.pc = scan.pc /\ scan'.found = scan.found
    BY <1>3, <1>5 DEF M!Pass, ScanSteps
  <2>2. Keyed'
    BY <1>2, <1>5, <2>1 DEF MemInv, Keyed, M!ServedByItsKey
  <2> QED BY <1>2, <1>3, <1>5, <2>1, <2>2, ScanStepKeeps DEF MemTypes
<1>6. ASSUME concepts[a] # "absent", M!Reread(a), keys' = keys PROVE MemInv'
  <2>1. live' = {IF e.name = a THEN [e EXCEPT !.class = concepts[a]] ELSE e : e \in live}
        /\ scan' = [scan EXCEPT !.todo = @ \ {a}]
    BY <1>6 DEF M!Reread
  <2>2. scan' \in ScanSteps /\ scan'.pc = scan.pc /\ scan'.found = scan.found
    BY <1>3, <2>1 DEF ScanSteps
  <2>3. concepts[a] \in M!Class
    BY <1>3, <1>6 DEF MemTypes
  <2>4. /\ live' \in SUBSET M!Episode
        /\ \A e \in live' : \E x \in live : x.name = e.name /\ x.text = e.text /\ x.superseded = e.superseded
        /\ \A x \in live : \E e \in live' : x.name = e.name /\ x.superseded = e.superseded
    <3> DEFINE c == concepts[a]
    <3>1. MemTypes /\ c \in M!Class
      BY <1>3, <2>3
    <3>2. live' = Reclassed(a, c)
      BY <2>1 DEF Reclassed
    <3> HIDE DEF c
    <3> QED BY <3>1, <3>2, ClassKept
  <2>5. Keyed'
    BY <1>2, <1>6, <2>2, <2>4 DEF MemInv, Keyed, M!ServedByItsKey
  <2> QED BY <1>2, <1>3, <1>6, <2>2, <2>4, <2>5, ScanStepKeeps DEF MemTypes
<1>7. ASSUME NEW st \in {"visit", "key"}, M!Found(a, st), live' = live, concepts[a] # "absent",
             keys' \in [Addr -> {"none", "cut", "whole"}], \A x \in Addr : keys[x] = "whole" => keys'[x] = "whole",
             st = "visit" => keys'[a] = "whole"
      PROVE  MemInv'
  <2>1. scan' = [scan EXCEPT !.pc = st, !.todo = @ \ {a}, !.found = @ \cup {f}]
    BY <1>7 DEF M!Found, f
  <2>2. scan' \in ScanSteps /\ scan'.pc = st /\ scan'.found = scan.found \cup {f}
    BY <1>3, <1>4, <1>7, <2>1 DEF ScanSteps
  <2>3. Keyed'
    BY <1>2, <1>3, <1>4, <1>7, <2>2 DEF MemInv, Keyed, M!ServedByItsKey
  <2> QED BY <1>2, <1>3, <1>7, <2>2, <2>3, ScanStepKeeps DEF MemTypes
<1>8. ASSUME concepts[a] # "absent", keys[a] = "none", M!Mint(a), live' = live PROVE MemInv'
  <2>1. CASE M!Found(a, "key") /\ keys' = [keys EXCEPT ![a] = "cut"]
    <3>1. keys' \in [Addr -> {"none", "cut", "whole"}] /\ \A x \in Addr : keys[x] = "whole" => keys'[x] = "whole"
      BY <1>3, <1>8, <2>1 DEF MemTypes
    <3> QED BY <1>7, <1>8, <2>1, <3>1
  <2>2. CASE M!Pass(a) /\ keys' = keys
    BY <1>5, <1>8, <2>2
  <2> QED BY <1>8, <2>1, <2>2 DEF M!Mint
<1>9. ASSUME concepts[a] # "absent", M!Load(a), live' = live, keys' = keys PROVE MemInv'
  <2>1. keys' \in [Addr -> {"none", "cut", "whole"}]
    BY <1>3, <1>9 DEF MemTypes
  <2>2. CASE keys[a] = "whole" /\ M!Found(a, "visit")
    BY <1>7, <1>9, <2>1, <2>2
  <2>3. CASE M!Pass(a)
    BY <1>5, <1>9, <2>3
  <2> QED BY <1>9, <2>2, <2>3 DEF M!Load
<1> QED BY <1>1, <1>5, <1>6, <1>8, <1>9

LEMMA EndScan == ASSUME MemInv, M!ScanEnd PROVE MemInv'
<1>1. /\ scan.pc = "visit" /\ live' = live \cup scan.found
      /\ \/ turn.pc = "starting" /\ turn' = M!Idle /\ scan' = M!Idle
         \/ turn' = turn /\ (scan' = [pc |-> "refine", todo |-> Addr] \/ scan' = M!Idle)
      /\ UNCHANGED <<lifecycle, booted, file, tail, concepts, keys, clock, forgotten, victims, torn, stored,
                     shorn, merged, crashes>>
  BY DEF M!ScanEnd, M!store, M!history, M!bounds
<1>2. MemTypes /\ scan.found \subseteq M!Episode
  BY <1>1, ScanIs DEF MemInv
<1>3. \A e \in scan.found : e.name \in Addr /\ e.name \notin Nat /\ keys[e.name] = "whole"
  BY <1>1, PartsAssumption DEF MemInv, Keyed, M!MemoryAssumption
<1>4. scan' \in ScanSteps /\ scan'.pc \in {"refine", "idle"}
  BY <1>1 DEF M!Idle, ScanSteps
<1>5. Keyed'
  BY <1>1, <1>3, <1>4 DEF MemInv, Keyed, M!ServedByItsKey
<1>6. live' \in SUBSET M!Episode
  BY <1>1, <1>2 DEF MemTypes
<1> QED BY <1>1, <1>2, <1>3, <1>4, <1>5, <1>6, ScanStepKeeps DEF MemTypes

LEMMA RefineSteps ==
  ASSUME MemInv, M!RefineRead \/ M!RefineEnd
  PROVE  MemInv'
<1>1. /\ scan.pc = "refine" /\ turn' = turn
      /\ UNCHANGED <<lifecycle, booted, live, file, tail, concepts, keys, clock, forgotten, victims, torn,
                     stored, shorn, merged, crashes>>
  BY DEF M!RefineRead, M!RefineEnd, M!memory, M!store, M!history, M!bounds
<1>2. MemTypes /\ scan \in [pc : {"refine"}, todo : SUBSET Addr]
  BY <1>1, ScanIs DEF MemInv
<1>3. scan' \in ScanSteps /\ scan'.pc \in {"refine", "judge", "idle"}
  <2>1. CASE M!RefineEnd
    BY <2>1 DEF M!RefineEnd, M!Idle, ScanSteps
  <2>2. CASE M!RefineRead
    <3>1. PICK a \in scan.todo :
            scan' = IF concepts[a] = "absent" THEN [scan EXCEPT !.todo = @ \ {a}]
                    ELSE [pc |-> "judge", todo |-> scan.todo \ {a}, addr |-> a, class |-> concepts[a]]
      BY <2>2 DEF M!RefineRead
    <3>2. a \in Addr /\ concepts[a] \in M!Class \cup {"absent"}
      BY <1>2 DEF MemTypes
    <3>3. CASE concepts[a] = "absent"
      BY <1>2, <3>1, <3>3 DEF ScanSteps
    <3>4. CASE concepts[a] # "absent"
      <4>1. scan' = [pc |-> "judge", todo |-> scan.todo \ {a}, addr |-> a, class |-> concepts[a]]
            /\ concepts[a] \in M!Class /\ scan.todo \ {a} \in SUBSET Addr
        BY <1>2, <3>1, <3>2, <3>4
      <4> QED BY <3>2, <4>1 DEF ScanSteps
    <3> QED BY <3>3, <3>4
  <2> QED BY <2>1, <2>2
<1>4. Keyed'
  BY <1>1, <1>3 DEF MemInv, Keyed, M!ServedByItsKey
<1> QED BY <1>1, <1>2, <1>3, <1>4, ScanStepKeeps DEF MemTypes

LEMMA RefineWriteStep == ASSUME MemInv, M!RefineWrite PROVE MemInv'
<1>1. /\ scan.pc = "judge" /\ turn' = turn /\ scan' = [pc |-> "refine", todo |-> scan.todo]
      /\ UNCHANGED <<lifecycle, booted, file, tail, keys, clock, forgotten, victims, torn, stored, shorn,
                     merged, crashes>>
  BY DEF M!RefineWrite, M!history, M!bounds
<1>2. MemTypes /\ scan \in [pc : {"judge"}, todo : SUBSET Addr, addr : Addr, class : M!Class]
  BY <1>1, ScanIs DEF MemInv
<1>3. scan' \in ScanSteps /\ scan'.pc = "refine"
  BY <1>1, <1>2 DEF ScanSteps
<1>4. PICK c \in M!ModelClassify :
        IF M!Allowed(scan.class, c)
        THEN /\ live' = {IF e.name = scan.addr THEN [e EXCEPT !.class = c] ELSE e : e \in live}
             /\ concepts' = IF concepts[scan.addr] = "absent" THEN concepts
                            ELSE [concepts EXCEPT ![scan.addr] = c]
        ELSE UNCHANGED <<live, concepts>>
  BY DEF M!RefineWrite
<1>5. CASE M!Allowed(scan.class, c)
  <2>1. c \in M!Class
    BY <1>5 DEF M!Allowed, M!ModelClassify
  <2>2. concepts' \in [Addr -> M!Class \cup {"absent"}]
    BY <1>2, <1>4, <1>5, <2>1 DEF MemTypes
  <2>3. /\ live' \in SUBSET M!Episode
        /\ \A e \in live' : \E x \in live : x.name = e.name /\ x.text = e.text /\ x.superseded = e.superseded
        /\ \A x \in live : \E e \in live' : x.name = e.name /\ x.superseded = e.superseded
    <3> DEFINE a == scan.addr
    <3>1. live' = Reclassed(a, c)
      BY <1>4, <1>5 DEF Reclassed
    <3> HIDE DEF a
    <3> QED BY <1>2, <2>1, <3>1, ClassKept
  <2>4. Keyed'
    BY <1>1, <1>3, <2>3 DEF MemInv, Keyed, M!ServedByItsKey
  <2> QED BY <1>1, <1>2, <1>3, <2>2, <2>3, <2>4, ScanStepKeeps DEF MemTypes
<1>6. CASE ~ M!Allowed(scan.class, c)
  <2>1. live' = live /\ concepts' = concepts
    BY <1>4, <1>6
  <2>2. Keyed'
    BY <1>1, <1>3, <2>1 DEF MemInv, Keyed, M!ServedByItsKey
  <2> QED BY <1>1, <1>2, <1>3, <2>1, <2>2, ScanStepKeeps DEF MemTypes
<1> QED BY <1>5, <1>6

LEMMA EditStep == ASSUME MemInv, M!Edit PROVE MemInv'
<1>1. UNCHANGED <<lifecycle, booted, live, file, tail, keys, clock, turn, scan, forgotten, victims, torn,
                  stored, shorn, merged, crashes>>
  BY DEF M!Edit, M!memory, M!history
<1>2. MemTypes
  BY DEF MemInv
<1>3. concepts' \in [Addr -> M!Class \cup {"absent"}]
  BY <1>2 DEF M!Edit, MemTypes
<1>4. Keyed'
  BY <1>1 DEF MemInv, Keyed, M!ServedByItsKey
<1> QED BY <1>1, <1>2, <1>3, <1>4, ScanStepKeeps DEF MemTypes

\* A crash leaves a part of the file it was writing, and forgets what was live.
LEMMA CrashStep == ASSUME MemInv, M!Crash PROVE MemInv'
<1>1. /\ turn'.pc = "starting" /\ turn' \in TurnSteps /\ scan' \in ScanSteps /\ scan'.pc = "idle"
      /\ booted' = M!Range(file') /\ live' = {} /\ torn' = (torn \/ turn.pc \in {"write", "append"})
      /\ M!Left /\ crashes' = crashes + 1
      /\ shorn' = shorn \cup (M!Names(M!Rows \cup IF turn.pc = "write" THEN M!Range(turn.rows) ELSE {})
                              \ M!Names(M!Range(file')))
      /\ UNCHANGED <<lifecycle, concepts, keys, clock, forgotten, victims, stored, merged>>
  BY DEF M!Crash, M!store, M!Idle, TurnSteps, ScanSteps, M!Range, M!Left
<1>2. MemTypes /\ lifecycle \in BOOLEAN
  BY DEF MemInv, MemTypes
<1> DEFINE rs == M!Range(file')
           new == IF turn.pc = "append" THEN {turn.ep} ELSE {}
<1>3. /\ file' \in Seq(M!Episode) /\ rs \subseteq Due \cup M!Rows \cup new
      /\ tail' \in {"whole", "open", "cut"}
      /\ tail' = "open" => (file' = file /\ tail = "open") \/ Len(file') # 0
      /\ turn.pc \notin {"write", "append"} => rs = M!Rows
  <2>1. CASE turn.pc = "write"
    <3>1. PICK n \in 0 .. Len(turn.rows) : file' = SubSeq(turn.rows, 1, n) /\ tail' \in {"whole", "open", "cut"}
                                           /\ (tail' = "open" => n > 0)
      BY <1>1, <2>1 DEF M!Left
    <3>2. turn.rows \in Seq(M!Episode) /\ Due = M!Range(turn.rows)
      BY <1>2, <2>1, TurnIs DEF Due
    <3>3. file' \in Seq(M!Episode) /\ rs \subseteq Due
      BY <3>1, <3>2, RangeIs
    <3>4. n > 0 => Len(file') # 0
      <4>1. Len(turn.rows) \in Nat /\ n \in Nat
        BY <3>2
      <4>2. Len(file') = n
        BY <3>1, <3>2, <4>1
      <4> QED BY <4>1, <4>2
    <3> QED BY <2>1, <3>1, <3>3, <3>4
  <2>2. CASE turn.pc = "append"
    <3>1. turn.ep \in M!Episode /\ file \in Seq(M!Episode) /\ tail \in {"whole", "open", "cut"}
      BY <1>2, <2>2, TurnIs DEF MemTypes
    <3>2. CASE file' = file /\ tail' = tail
      BY <2>2, <3>1, <3>2 DEF M!Rows
    <3>3. CASE file' = M!Joined /\ tail' = "cut"
      BY <2>2, <3>3, JoinedIs
    <3>4. CASE file' = file \o <<turn.ep>> /\ tail' = "open"
      <4>1. M!Range(file \o <<turn.ep>>) = M!Range(file) \cup {turn.ep} /\ file \o <<turn.ep>> \in Seq(M!Episode)
        BY <3>1, RangeIs
      <4>2. Len(file \o <<turn.ep>>) # 0
        BY <3>1
      <4> QED BY <2>2, <3>4, <4>1, <4>2 DEF M!Rows
    <3> QED BY <1>1, <2>2, <3>2, <3>3, <3>4 DEF M!Left
  <2>3. CASE turn.pc \notin {"write", "append"}
    <3>1. file' = file /\ tail' = tail
      BY <1>1, <2>3 DEF M!Left
    <3> QED BY <1>2, <2>3, <3>1 DEF MemTypes, M!Rows
  <2> QED BY <2>1, <2>2, <2>3
<1>4. /\ M!Rows' = rs /\ Due' = rs /\ Ours' = {} /\ Confirming' = {}
      /\ Known' = {e.name : e \in rs}
  BY <1>1 DEF M!Rows, Due, Ours, Confirming, Known, M!Range
<1>5. turn.pc = "append" => turn.ep.name \in Nat /\ turn.ep \in M!Episode /\ Fresh(turn.ep.name)
                            /\ turn.ep.text \notin forgotten
  BY <1>2, TurnIs DEF MemInv, Taking
<1> DEFINE had == IF turn.pc = "write" THEN M!Range(turn.rows) ELSE {}
<1>6. had \subseteq Due /\ (turn.pc = "write" => had = Due)
  BY DEF Due
<1> HIDE DEF rs, new
<1>7. shorn' = shorn \cup (M!Names(M!Rows \cup had) \ M!Names(rs))
  BY <1>1 DEF rs
<1>8. \A e \in booted \cup Due \cup M!Rows : e.name \in Nat /\ e.name < clock
  BY DEF MemInv, Named
<1>9. \A n \in shorn' : n \in Nat /\ n < clock
  <2>1. \A n \in shorn : n \in Nat /\ n < clock
    BY <1>2 DEF MemInv, Named, MemTypes
  <2> QED BY <1>6, <1>7, <1>8, <2>1 DEF M!Names
<1> HIDE DEF had
<1>10. \A e \in rs : e \in Due \cup M!Rows \/ (turn.pc = "append" /\ e = turn.ep)
  BY <1>3 DEF new
<1>11. MemTypes'
  <2>1. rs \in SUBSET M!Episode
    BY <1>3, RangeIs DEF rs
  <2>2. torn' \in BOOLEAN /\ crashes' \in Nat
    BY <1>1, <1>2 DEF MemTypes
  <2> QED BY <1>1, <1>2, <1>3, <1>9, <2>1, <2>2 DEF MemTypes, rs
<1>12. Named'
  <2>1. \A e \in rs : e.name \in Nat /\ e.name < clock
    BY <1>5, <1>8, <1>10 DEF Fresh
  <2>2. \A e \in rs, r \in stored : e.name = r.name => e.text = r.text
    <3> SUFFICES ASSUME NEW e \in rs, NEW r \in stored, e.name = r.name PROVE e.text = r.text
      OBVIOUS
    <3>1. CASE e \in Due \cup M!Rows
      BY <3>1 DEF MemInv, Named
    <3>2. CASE turn.pc = "append" /\ e = turn.ep
      <4>1. r.name \in Nat /\ r.name < turn.ep.name
        BY <1>2, <1>5, <3>2 DEF Fresh, MemTypes
      <4> QED BY <1>5, <3>2, <4>1
    <3> QED BY <1>10, <3>1, <3>2
  <2>3. booted' = rs
    BY <1>1 DEF rs
  <2> QED BY <1>1, <1>4, <1>9, <2>1, <2>2, <2>3 DEF MemInv, Named
<1>13. Durable'
  BY <1>1, <1>4, <1>5, <1>10 DEF MemInv, Durable
<1>14. Agree'
  BY <1>4 DEF Agree, M!Captured
<1>15. NotLost'
  <2> SUFFICES ASSUME NEW r \in stored
               PROVE  \/ \E e \in rs : e.name = r.name
                      \/ ~ lifecycle /\ r.text \in victims
                      \/ r.name \in shorn'
    BY <1>1, <1>4 DEF NotLost
  <2>1. ASSUME NEW e \in M!Rows \cup had, e.name = r.name
        PROVE  r.name \in shorn' \/ \E x \in rs : x.name = r.name
    BY <1>7, <2>1 DEF M!Names
  <2>2. CASE \E e \in Due : e.name = r.name
    <3>1. CASE turn.pc = "read"
      <4>1. Due = M!Retire(M!Rows, turn.texts) /\ M!Rows \in SUBSET M!Episode
        BY <1>2, <3>1, DueIs
      <4>2. \E x \in M!Rows : x.name = r.name
        BY <1>2, <2>2, <4>1, RetireIs
      <4> QED BY <2>1, <4>2
    <3>2. CASE turn.pc = "write"
      BY <1>6, <2>1, <2>2, <3>2
    <3>3. CASE turn.pc \notin {"read", "write"}
      BY <2>1, <2>2, <3>3 DEF Due
    <3> QED BY <3>1, <3>2, <3>3
  <2> QED BY <1>7, <2>2 DEF MemInv, NotLost
<1>16. Keyed'
  BY <1>1 DEF Keyed, M!ServedByItsKey
<1>17. Taking' /\ LastLine'
  <2>1. tail' = "open" => Len(file') # 0
    BY <1>3 DEF MemInv, LastLine
  <2>2. Len(file') # 0 => file'[Len(file')] \in rs
    <3>1. Len(file') \in Nat /\ DOMAIN file' = 1 .. Len(file')
      BY <1>3
    <3> QED BY <3>1 DEF rs, M!Range
  <2>3. merged <= crashes => merged <= crashes + 1 /\ merged < crashes + 1
    BY <1>2 DEF MemTypes
  <2> QED BY <1>1, <1>4, <2>1, <2>2, <2>3 DEF MemInv, Taking, LastLine
<1> QED BY <1>11, <1>12, <1>13, <1>14, <1>15, <1>16, <1>17 DEF MemInv

\* The verbs and passes of a turn.
LEMMA ForgetStep == ASSUME MemInv, M!Forget PROVE MemInv'
<1>1. PICK t \in M!TextsOf(booted \cup live) : M!Drop({t}, [pc |-> "confirm", text |-> t])
  BY DEF M!Forget
<1>2. /\ turn.pc = "idle"
      /\ UNCHANGED <<lifecycle, booted, file, tail, concepts, keys, clock, scan, forgotten, torn, stored,
                     shorn, merged, crashes>>
  BY DEF M!Forget, M!BeginTurn, M!store
<1>3. t \in M!Text
  <2>1. booted \cup live \in SUBSET M!Episode
    BY DEF MemInv, MemTypes
  <2> QED BY <2>1, TextsIn
<1> DEFINE next == [pc |-> "confirm", text |-> t]
<1>4. next \in After /\ next.text = t
  BY <1>3 DEF After
<1> HIDE DEF next
<1>5. M!Drop({t}, next) /\ {t} \in SUBSET M!Text
  BY <1>1, <1>3 DEF next
<1> QED BY <1>2, <1>4, <1>5, DropStep

LEMMA DecideSteps ==
  ASSUME MemInv, M!Decide \/ M!Merge
  PROVE  MemInv'
<1>1. /\ turn.pc = "decide"
      /\ UNCHANGED <<lifecycle, booted, file, tail, concepts, keys, clock, scan, forgotten, torn, stored,
                     shorn, merged, crashes>>
  BY DEF M!Decide, M!Merge, M!store, M!bounds
<1>2. M!Candidates \subseteq M!Text /\ M!Raw(turn.new) \in M!Text
  BY <1>1, TurnIs, TextsIn DEF MemInv, MemTypes, M!Candidates, M!Episode
<1>3. CASE M!Decide
  <2>1. PICK t \in M!Candidates : M!Drop({t}, M!Idle)
    BY <1>3 DEF M!Decide
  <2>2. M!Idle \in After /\ M!Idle.pc = "idle"
    BY DEF M!Idle, After, Going
  <2>3. {t} \in SUBSET M!Text
    BY <1>2
  <2> QED BY <1>1, <2>1, <2>2, <2>3, DropStep
<1>4. CASE M!Merge
  <2>1. PICK t \in M!Candidates, f \in Fact : M!Drop({M!Raw(turn.new), t}, [pc |-> "combine", fact |-> f])
    BY <1>4 DEF M!Merge
  <2> DEFINE next == [pc |-> "combine", fact |-> f]
             ts == {M!Raw(turn.new), t}
  <2>2. next \in After /\ next.pc = "combine"
    BY DEF After
  <2>3. ts \in SUBSET M!Text
    BY <1>2
  <2> HIDE DEF next, ts
  <2>4. M!Drop(ts, next)
    BY <2>1 DEF next, ts
  <2> QED BY <1>1, <2>2, <2>3, <2>4, DropStep
<1> QED BY <1>3, <1>4

LEMMA StoreSteps ==
  ASSUME MemInv, M!Store \/ M!Combine
  PROVE  MemInv'
<1>1. /\ turn.pc \in {"idle", "combine"}
      /\ UNCHANGED <<lifecycle, booted, live, file, tail, concepts, keys, scan, victims, torn, stored, shorn,
                     merged, crashes>>
  BY DEF M!Store, M!BeginTurn, M!Combine, M!store, M!memory, M!bounds
<1>2. \E t \in M!Text, next \in Going : M!Capture(t, next)
  <2>1. CASE M!Store
    <3>1. PICK f \in Fact : \E next \in {M!Idle, [pc |-> "decide", name |-> clock, new |-> f]} :
            M!Capture(M!Said(f), next)
      BY <2>1 DEF M!Store
    <3>2. clock \in Nat
      BY DEF MemInv, MemTypes
    <3>3. {M!Idle, [pc |-> "decide", name |-> clock, new |-> f]} \subseteq Going /\ M!Said(f) \in M!Text
      BY <3>2, TextsIn DEF Going, M!Idle
    <3> QED BY <3>1, <3>3
  <2>2. CASE M!Combine
    <3>1. turn.fact \in Fact /\ M!Idle \in Going /\ M!Capture(M!Raw(turn.fact), M!Idle)
      BY <2>2, TurnIs DEF M!Combine, MemInv, Going, M!Idle
    <3> QED BY <3>1, TextsIn
  <2> QED BY <2>1, <2>2
<1> QED BY <1>1, <1>2, TakeStep

LEMMA LeaveStep == ASSUME MemInv, M!Leave PROVE MemInv'
<1>1. /\ turn.pc \in {"decide", "combine"} /\ turn' = M!Idle
      /\ UNCHANGED <<lifecycle, booted, live, file, tail, concepts, keys, clock, scan, forgotten, victims,
                     torn, stored, shorn, merged, crashes>>
  BY DEF M!Leave, M!memory, M!store, M!history, M!bounds
<1>2. M!Idle \in TurnSteps /\ M!Idle.pc = "idle"
  BY DEF M!Idle, TurnSteps, After, Going
<1> QED BY <1>1, <1>2, QuietTurn

LEMMA MemStep == ASSUME MemInv, M!Next PROVE MemInv'
<1>1. CASE M!TurnStep
  BY <1>1, TruncateStep, WriteBackStep, ConfirmStep, AppendStep, PushStep, DecideSteps, StoreSteps, LeaveStep DEF M!TurnStep
<1>2. CASE M!ScanStep
  BY <1>2, BeginScan, VisitStep, WriteKeyStep, EndScan, RefineSteps, RefineWriteStep DEF M!ScanStep
<1>3. CASE M!Forget \/ M!Store \/ M!Edit \/ M!Crash
  BY <1>3, ForgetStep, StoreSteps, EditStep, CrashStep
<1> QED BY <1>1, <1>2, <1>3 DEF M!Next

LEMMA MemInit == ASSUME M!MemoryAssumption, M!Init PROVE MemInv
<1>1. PICK rows \in Curated : file = [i \in DOMAIN rows |-> M!Ep(i, M!Raw(rows[i]), "none")]
  BY DEF M!Init
<1>2. rows \in Seq(Fact)
  BY DEF M!MemoryAssumption
<1>3. DOMAIN rows = 1 .. Len(rows) /\ Len(rows) \in Nat /\ \A i \in 1 .. Len(rows) : rows[i] \in Fact
  BY <1>2
<1>4. \A i \in 1 .. Len(rows) : /\ M!Ep(i, M!Raw(rows[i]), "none") \in M!Episode
                                /\ M!Ep(i, M!Raw(rows[i]), "none").name = i
  <2>1. \A i \in 1 .. Len(rows) : i \in Label
    BY DEF Label
  <2> QED BY <1>3, <2>1, TextsIn
<1>5. file \in Seq(M!Episode) /\ Len(file) = Len(rows) /\ \A i \in 1 .. Len(rows) : file[i].name = i
  BY <1>1, <1>3, <1>4
<1>6. /\ booted = M!Rows /\ live = {} /\ clock = Len(file) + 1 /\ turn = [pc |-> "starting"] /\ scan = M!Idle
      /\ forgotten = {} /\ victims = {} /\ torn = FALSE /\ stored = {} /\ shorn = {} /\ merged = 0
      /\ crashes = 0 /\ tail = "whole" /\ lifecycle \in BOOLEAN
      /\ concepts = [a \in Addr |-> "absent"] /\ keys = [a \in Addr |-> "none"]
  BY DEF M!Init
<1>7. MemTypes
  <2>1. turn \in TurnSteps /\ scan \in ScanSteps
    BY <1>6 DEF TurnSteps, ScanSteps, M!Idle
  <2>2. booted \subseteq M!Episode
    BY <1>5, <1>6, RangeIs DEF M!Rows
  <2>3. clock \in Nat
    BY <1>3, <1>5, <1>6
  <2> QED BY <1>5, <1>6, <2>1, <2>2, <2>3 DEF MemTypes
<1>8. Due = M!Rows /\ Ours = {} /\ Known = {e.name : e \in M!Rows}
  BY <1>6 DEF Due, Ours, Known
<1>9. \A e \in M!Rows : e.name \in Nat /\ e.name < clock
  <2>1. \A i \in 1 .. Len(rows) : i \in Nat /\ i < clock
    BY <1>3, <1>5, <1>6
  <2> QED BY <1>3, <1>5, <2>1 DEF M!Rows, M!Range
<1>10. Named /\ Durable /\ NotLost
  BY <1>6, <1>8, <1>9 DEF Named, Durable, NotLost, Confirming
<1>11. Agree
  BY <1>8 DEF Agree, M!Captured
<1>12. Keyed
  BY <1>6 DEF Keyed, M!ServedByItsKey, M!Idle
<1>13. Taking /\ LastLine
  BY <1>6 DEF Taking, LastLine
<1> QED BY <1>7, <1>10, <1>11, <1>12, <1>13 DEF MemInv

LEMMA MemHolds ==
  ASSUME MemInv
  PROVE  M!TypeOK /\ M!LiveMatchesFile /\ M!NothingElseLost /\ M!ForgottenIsDurable
         /\ M!LostLater /\ M!ServedByItsKey
<1>1. MemTypes
  BY DEF MemInv
<1>2. M!TypeOK
  <2>1. turn.pc \in {"starting", "idle", "read", "write", "confirm", "append", "push", "decide", "combine"}
        /\ scan.pc \in {"idle", "visit", "key", "refine", "judge"} /\ M!Rows \subseteq M!Episode
    BY <1>1, TurnIs, ScanIs, DueIs
  <2> QED BY <1>1, <2>1 DEF MemTypes, M!TypeOK
<1>3. M!LiveMatchesFile
  BY DEF MemInv, Agree, Due, Ours, Known, M!LiveMatchesFile, M!Names
<1>4. M!NothingElseLost
  <2> SUFFICES ASSUME turn.pc # "write", NEW r \in stored
               PROVE  \/ \E e \in M!Rows : e.name = r.name
                      \/ ~ lifecycle /\ r.text \in victims
                      \/ r.name \in shorn
    BY DEF M!NothingElseLost
  <2>1. CASE \E e \in Due : e.name = r.name
    <3>1. CASE turn.pc = "read"
      <4>1. Due = M!Retire(M!Rows, turn.texts) /\ M!Rows \in SUBSET M!Episode /\ lifecycle \in BOOLEAN
        BY <1>1, <3>1, DueIs DEF MemTypes
      <4> QED BY <2>1, <4>1, RetireIs
    <3>2. CASE turn.pc # "read"
      BY <2>1, <3>2 DEF Due
    <3> QED BY <3>1, <3>2
  <2> QED BY <2>1 DEF MemInv, NotLost
<1>5. M!ForgottenIsDurable
  BY DEF MemInv, Durable, M!ForgottenIsDurable
<1>6. M!LostLater /\ M!ServedByItsKey
  BY DEF MemInv, Keyed, LastLine, M!LostLater
<1> QED BY <1>2, <1>3, <1>4, <1>5, <1>6

LEMMA MemStutter == ASSUME MemInv, UNCHANGED M!vars PROVE MemInv'
<1>1. /\ UNCHANGED <<lifecycle, booted, live, file, tail, concepts, keys, clock, turn, scan, forgotten,
                     victims, torn, stored, shorn, merged, crashes>>
  BY DEF M!vars, M!memory, M!store, M!history, M!bounds
<1>2. Due' = Due /\ Ours' = Ours /\ Confirming' = Confirming /\ M!Rows' = M!Rows /\ Known' = Known
  BY <1>1 DEF Due, Ours, Confirming, M!Rows, M!Retire, Known
<1>3. MemTypes' /\ Keyed'
  BY <1>1 DEF MemInv, MemTypes, Keyed, M!ServedByItsKey
<1>4. Named' /\ Agree' /\ Durable' /\ NotLost'
  BY <1>1, <1>2 DEF MemInv, Named, Agree, M!Captured, Durable, NotLost
<1>5. Taking' /\ LastLine'
  BY <1>1, <1>2 DEF MemInv, Taking, Fresh, LastLine
<1> QED BY <1>3, <1>4, <1>5 DEF MemInv

-----------------------------------------------------------------------------
\* The parts together: each invariant where its part is in play.
HandleHolds  == part = "handle"  => HandleInv
CuratorHolds == part = "curator" => CurInv
BridgeHolds  == part = "bridge"  => BridgeInv
CaptureHolds == part = "capture" => CaptureInv
MemoryHolds  == part = "memory"  => MemInv

LEMMA Assumed == /\ H!HandleAssumption /\ D!BridgeAssumption /\ C!CuratorAssumption /\ E!CapturesAssumption
                 /\ M!MemoryAssumption
BY PartsAssumption

LEMMA SamePart == [Next]_vars => part' = part
BY DEF Next, vars, MemoryOnly, RecallOnly, StreamOnly, HandleOnly, ProductOnly, BridgeOnly, CuratorOnly, CaptureOnly

LEMMA HandleKept == Spec => []HandleHolds
<1>1. Init => HandleHolds
  BY Assumed, HandleInit DEF Init, HandleHolds
<1>2. HandleHolds /\ [Next]_vars => HandleHolds'
  <2> SUFFICES ASSUME HandleHolds, [Next]_vars, part = "handle" PROVE HandleInv'
    BY SamePart DEF HandleHolds
  <2>1. HandleInv
    BY DEF HandleHolds
  <2>2. H!Next \/ UNCHANGED H!vars
    BY DEF Next, vars, handleVars, H!vars, H!bufs, H!flow, MemoryOnly, RecallOnly, StreamOnly, HandleOnly, ProductOnly,
       BridgeOnly, CuratorOnly, CaptureOnly
  <2> QED BY <2>1, <2>2, Assumed, HandleStep, HandleStutter
<1> QED BY <1>1, <1>2, PTL DEF Spec

LEMMA CuratorKept == Spec => []CuratorHolds
<1>1. Init => CuratorHolds
  BY Assumed, CurInit DEF Init, CuratorHolds
<1>2. CuratorHolds /\ [Next]_vars => CuratorHolds'
  <2> SUFFICES ASSUME CuratorHolds, [Next]_vars, part = "curator" PROVE CurInv'
    BY SamePart DEF CuratorHolds
  <2>1. CurInv
    BY DEF CuratorHolds
  <2>2. C!Next \/ UNCHANGED C!vars
    BY DEF Next, vars, curatorVars, C!vars, C!scores, C!counts, MemoryOnly, RecallOnly, StreamOnly, HandleOnly, ProductOnly,
       BridgeOnly, CuratorOnly, CaptureOnly
  <2> QED BY <2>1, <2>2, Assumed, CurStep, CurStutter
<1> QED BY <1>1, <1>2, PTL DEF Spec

LEMMA BridgeKept == Spec => []BridgeHolds
<1>1. Init => BridgeHolds
  BY Assumed, BridgeInit DEF Init, BridgeHolds
<1>2. BridgeHolds /\ [Next]_vars => BridgeHolds'
  <2> SUFFICES ASSUME BridgeHolds, [Next]_vars, part = "bridge" PROVE BridgeInv'
    BY SamePart DEF BridgeHolds
  <2>1. BridgeInv
    BY DEF BridgeHolds
  <2>2. D!Next \/ UNCHANGED D!vars
    BY DEF Next, vars, bridgeVars, D!vars, MemoryOnly, RecallOnly, StreamOnly, HandleOnly, ProductOnly,
       BridgeOnly, CuratorOnly, CaptureOnly
  <2> QED BY <2>1, <2>2, Assumed, BridgeStep, BridgeStutter
<1> QED BY <1>1, <1>2, PTL DEF Spec

LEMMA CaptureKept == ASSUME Posts = {} PROVE Spec => []CaptureHolds
<1>1. Init => CaptureHolds
  BY Assumed, CaptureInit DEF Init, CaptureHolds
<1>2. CaptureHolds /\ [Next]_vars => CaptureHolds'
  <2> SUFFICES ASSUME CaptureHolds, [Next]_vars, part = "capture" PROVE CaptureInv'
    BY SamePart DEF CaptureHolds
  <2>1. CaptureInv
    BY DEF CaptureHolds
  <2>2. E!Next \/ UNCHANGED E!vars
    BY DEF Next, vars, captureVars, E!vars, MemoryOnly, RecallOnly, StreamOnly, HandleOnly, ProductOnly,
       BridgeOnly, CuratorOnly, CaptureOnly
  <2> QED BY <2>1, <2>2, Assumed, CaptureStep
<1> QED BY <1>1, <1>2, PTL DEF Spec

LEMMA MemoryHeld == Spec => []MemoryHolds
<1>1. Init => MemoryHolds
  BY Assumed, MemInit DEF Init, MemoryHolds
<1>2. MemoryHolds /\ [Next]_vars => MemoryHolds'
  <2> SUFFICES ASSUME MemoryHolds, [Next]_vars, part = "memory" PROVE MemInv'
    BY SamePart DEF MemoryHolds
  <2>1. MemInv
    BY DEF MemoryHolds
  <2>2. M!Next \/ UNCHANGED M!vars
    BY DEF Next, vars, memoryVars, M!vars, M!memory, M!store, M!history, M!bounds, RecallOnly, StreamOnly, HandleOnly,
       ProductOnly, BridgeOnly, CuratorOnly, CaptureOnly
  <2> QED BY <2>1, <2>2, MemStep, MemStutter
<1> QED BY <1>1, <1>2, PTL DEF Spec

\* Whatever verbs fail or are refused, before or after their forward (a chat
\* turn of routes.rs over cuda_kvdecode_dispatch.rs): a tap that is read holds
\* the state of the step that it was armed for, whatever was armed and refused
\* before it.
THEOREM TapsAlwaysHit == Spec => []TapsHit
<1>1. HandleHolds => TapsHit
  BY HandleTaps DEF HandleHolds, TapsHit
<1> QED BY <1>1, HandleKept, PTL

\* For every set of episodes and secrets and every budget of targets
\* (nightshift_curator.rs): an episode is admitted by two passes over the same inputs
\* whose contexts differ in the ablated rows alone, and its score is of those.
THEOREM PassesDifferByAblation == Spec => []AblationOnly
<1>1. CuratorHolds => AblationOnly
  BY Assumed, CurExact DEF CuratorHolds, AblationOnly
<1> QED BY <1>1, CuratorKept, PTL

\* Whichever session, allocation, read or call fails and whoever hangs up
\* (dsp_rpc.rs, dsp_model.rs, kv_cache.rs, daemon.rs): each buffer of the DSP's
\* heap lies within its open session, is there for as long as its owner uses
\* it, and is gone with the program.
THEOREM BuffersWithinSessions == Spec => []DmaOwned
<1>1. BridgeHolds => DmaOwned
  BY BridgeOwned DEF BridgeHolds, DmaOwned
<1> QED BY <1>1, BridgeKept, PTL

\* For any number of clients and instants (echo of routes.rs, the test of two
\* threads): an answer is to its own request, model_info names a whole model,
\* and the overlap that is reported is the time that both calls ran.
THEOREM AnswersOwnRequest == Spec => []CallsExact
<1>1. BridgeHolds => CallsExact
  BY BridgeExact DEF BridgeHolds, CallsExact
<1> QED BY <1>1, BridgeKept, PTL

\* With turns only (capture_episode of routes.rs under the cache's mutex), an
\* episode answered as captured lies whole in its own directory, and no
\* directory has rows of another's text.
THEOREM CapturesApart == ASSUME Posts = {} PROVE Spec => []CapturesOwn
<1>1. CaptureHolds => CapturesOwn
  BY DEF CaptureHolds, CaptureInv, CapturesOwn
<1> QED BY <1>1, CaptureKept, PTL

\* For every set of facts, of curated rows and of concepts, and with a crash at
\* any point, inside a line that is appended or rewritten too (memory verbs of
\* routes.rs, the reconciler of daemon.rs): but for what a crash cut a line of,
\* the live episodes and the file's rows agree mark by mark and retiring one
\* memory loses no other; each crash costs at most one later capture, whose line
\* continues the torn one; what was forgotten is recalled by no restart, and a
\* concept is served with the key of its file; with turns only, captures keep
\* episodes apart.
THEOREM MemoriesKept == ASSUME Posts = {} PROVE Spec => []MemoryKept
<1>1. MemoryHolds /\ CaptureHolds => MemoryKept
  BY MemHolds DEF MemoryHolds, CaptureHolds, CaptureInv, CapturesOwn, MemoryKept
<1> QED BY <1>1, MemoryHeld, CaptureKept, PTL
==============================================================================

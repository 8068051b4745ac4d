---------------------------- MODULE DaemonChatsProofs ----------------------------
(***************************************************************************)
(* Theorems about DaemonChats: for any number of requests, in every lane,  *)
(* the resident cache and the qwen36 lane serve one turn at a time, what   *)
(* is announced is in the store, nothing of a turn stays behind when it    *)
(* ends, and everyone hears of the same end.                               *)
(***************************************************************************)
EXTENDS DaemonChats, SequenceTheorems, FiniteSetTheorems, TLAPS

Working == {"prefill", "emit", "send", "step", "flush", "close"}
Steps == {"send DONE", "send error", "send cancelled", "tell done", "tell cancelled",
          "remove", "return", "unlock"}
Delegated == {"delegated", "answer", "mark"}
Place == [pc : Working \cup Delegated \cup {"idle", "start", "ending", "over"},
          id : Nat, tokens : Nat, todo : Seq(Steps)]

\* One of the last steps gives the cache back.
Unlocks(s) == \E i \in DOMAIN s : s[i] \in {"unlock", "return"}

Types == chat \in [Chats -> Place] /\ cache \in Chats \cup {None} /\ next_id \in Nat

\* A turn that ends has a step left.
Ends == \A c \in Chats : chat[c].pc = "ending" => chat[c].todo # <<>>

\* Who holds the cache is at work, or has a last step left that gives it back.
Holder ==
  cache # None => \/ chat[cache].pc \in Working
                  \/ chat[cache].pc = "ending" /\ Unlocks(chat[cache].todo)

\* Who is at work holds it.
Holds == lane # "generic" => \A c \in Chats : chat[c].pc \in Working => cache = c

HInv == Types /\ Ends /\ Holder /\ Holds

-----------------------------------------------------------------------------
(***************************************************************************)
(* One turn's place changes and the cache stays: what has to be shown.     *)
(***************************************************************************)
LEMMA Stays ==
  ASSUME HInv, UNCHANGED <<lane, cache>>, NEW c \in Chats, NEW e \in Place,
         chat' = [chat EXCEPT ![c] = e], next_id' \in Nat,
         lane # "generic" /\ e.pc \in Working => cache = c,
         e.pc = "ending" => e.todo # <<>>,
         cache = c => e.pc \in Working \/ (e.pc = "ending" /\ Unlocks(e.todo))
  PROVE  HInv'
<1>1. Types' BY DEF HInv, Types
<1>2. chat'[c] = e /\ \A d \in Chats : d # c => chat'[d] = chat[d]
  BY DEF HInv, Types
<1>3. Holder' BY <1>2 DEF HInv, Types, Holder
<1>4. Holds' BY <1>2 DEF HInv, Holds
<1>5. Ends' BY <1>2 DEF HInv, Ends
<1>6. QED BY <1>1, <1>3, <1>4, <1>5 DEF HInv

(***************************************************************************)
(* Whatever the last steps of a turn are, one of them unlocks.             *)
(***************************************************************************)
LEMMA Finishes ==
  ASSUME HInv, NEW c \in Chats, NEW steps \in Seq(Steps), Finish(c, steps),
         UNCHANGED <<lane, cache, next_id>>
  PROVE  HInv'
<1> DEFINE unlock == <<"unlock">>
           done == <<"send DONE", "remove">>
           return == <<"remove", "return">>
           first == unlock \o steps
           s == IF lane = "qwen36" THEN first \o done ELSE steps \o return
           e == [chat[c] EXCEPT !.pc = "ending", !.todo = s]
<1>1. /\ unlock \in Seq(Steps) /\ done \in Seq(Steps) /\ return \in Seq(Steps)
      /\ Len(unlock) = 1 /\ unlock[1] = "unlock" /\ Len(done) = 2
      /\ Len(return) = 2 /\ return[2] = "return"
  <2>1. \A a, b \in Steps : <<a>> \in Seq(Steps) /\ <<a, b>> \in Seq(Steps)
    OBVIOUS
  <2>2. {"unlock", "remove", "return", "send DONE"} \subseteq Steps BY DEF Steps
  <2>3. unlock \in Seq(Steps) /\ done \in Seq(Steps) /\ return \in Seq(Steps)
    BY <2>1, <2>2
  <2>4. QED BY <2>3
<1>2. chat' = [chat EXCEPT ![c] = e] BY DEF Finish, HInv, Types
<1>3. Len(steps) \in Nat OBVIOUS
<1> HIDE DEF unlock, done, return
<1>4. /\ first \in Seq(Steps) /\ Len(first) = 1 + Len(steps)
      /\ first[1] = "unlock"
  <2>1. /\ first \in Seq(Steps) /\ Len(first) = Len(unlock) + Len(steps)
        /\ \A i \in 1 .. Len(unlock) + Len(steps) :
             first[i] = IF i <= Len(unlock) THEN unlock[i] ELSE steps[i - Len(unlock)]
    BY <1>1, ConcatProperties, Zenon
  <2> HIDE DEF first
  <2>2. QED BY <1>1, <1>3, <2>1
<1> HIDE DEF first
<1>5. /\ s \in Seq(Steps) /\ \E i \in 1 .. Len(s) : s[i] \in {"unlock", "return"}
  <2>1. CASE lane = "qwen36"
    <3> DEFINE t == first \o done
    <3>1. /\ t \in Seq(Steps) /\ Len(t) = Len(first) + Len(done)
          /\ \A i \in 1 .. Len(first) + Len(done) :
               t[i] = IF i <= Len(first) THEN first[i] ELSE done[i - Len(first)]
      BY <1>1, <1>4, ConcatProperties, Zenon
    <3>2. s = t BY <2>1
    <3> HIDE DEF t, s
    <3>3. t[1] = "unlock" /\ 1 \in 1 .. Len(t)
      BY <1>1, <1>3, <1>4, <3>1
    <3>4. QED BY <3>1, <3>2, <3>3
  <2>2. CASE lane # "qwen36"
    <3> DEFINE t == steps \o return
    <3>1. /\ t \in Seq(Steps) /\ Len(t) = Len(steps) + Len(return)
          /\ \A i \in 1 .. Len(steps) + Len(return) :
               t[i] = IF i <= Len(steps) THEN steps[i] ELSE return[i - Len(steps)]
      BY <1>1, ConcatProperties, Zenon
    <3>2. s = t BY <2>2
    <3> HIDE DEF t, s
    <3>3. t[Len(steps) + 2] = "return" /\ Len(steps) + 2 \in 1 .. Len(t)
      BY <1>1, <1>3, <3>1
    <3>4. QED BY <3>1, <3>2, <3>3
  <2>3. QED BY <2>1, <2>2
<1> HIDE DEF s
<1>6. Unlocks(s) /\ s # <<>> BY <1>5 DEF Unlocks
<1>7. e \in Place /\ e.pc = "ending" /\ e.todo = s BY <1>5 DEF HInv, Types, Place
<1> HIDE DEF e
<1>8. QED BY <1>2, <1>6, <1>7, Stays DEF Working, HInv, Types

(***************************************************************************)
(* A turn that goes on at work, or hands its work away without the cache.  *)
(***************************************************************************)
LEMMA Goes ==
  ASSUME HInv, NEW c \in Chats, NEW pc \in Working, Goto(c, pc),
         UNCHANGED <<lane, cache, next_id>>, chat[c].pc \in Working
  PROVE  HInv'
<1> DEFINE e == [chat[c] EXCEPT !.pc = pc]
<1>1. chat' = [chat EXCEPT ![c] = e] BY DEF Goto, HInv, Types
<1>2. e \in Place /\ e.pc = pc BY DEF HInv, Types, Place
<1>3. pc # "ending" BY DEF Working
<1>4. lane # "generic" => cache = c BY DEF HInv, Holds
<1> HIDE DEF e
<1>5. QED BY <1>1, <1>2, <1>3, <1>4, Stays DEF HInv, Types

LEMMA Fails ==
  ASSUME HInv, NEW c \in Chats, Failed(c), UNCHANGED <<lane, cache, next_id>>
  PROVE  HInv'
<1>1. <<"send error">> \in Seq(Steps) /\ <<"send error", "tell cancelled">> \in Seq(Steps)
  BY DEF Steps
<1>2. QED BY <1>1, Finishes DEF Failed

-----------------------------------------------------------------------------
\* Who holds the cache, before the first step and from step to step.
LEMMA HolderInit == Init => HInv
<1> USE ChatAssumption
<1> SUFFICES ASSUME Init PROVE HInv
  OBVIOUS
<1>1. NewChat \in Place
  <2>1. <<>> \in Seq(Steps) OBVIOUS
  <2>2. QED BY <2>1 DEF NewChat, Place
<1>2. \A c \in Chats : chat[c].pc = "idle" BY DEF Init, NewChat
<1>3. Types BY <1>1 DEF Init, Types
<1>4. QED BY <1>2, <1>3 DEF Init, HInv, Ends, Holder, Holds, Working

LEMMA HolderNext == HInv /\ [Next]_vars => HInv'
<1> USE ChatAssumption
<1> SUFFICES ASSUME HInv, [Next]_vars PROVE HInv'
  OBVIOUS
<1>1. ASSUME NEW c \in Chats, Accept(c) PROVE HInv'
  <2>1. cache # c /\ UNCHANGED <<lane, cache>>
    BY <1>1 DEF Accept, HInv, Types, Holder, Working
  <2>2. ASSUME NEW pc \in {"start", "over"}, NEW id \in Nat, next_id' \in Nat,
               chat' = [chat EXCEPT ![c].pc = pc, ![c].id = id]
        PROVE  HInv'
    <3> DEFINE e == [chat[c] EXCEPT !.pc = pc, !.id = id]
    <3>1. chat' = [chat EXCEPT ![c] = e] BY <2>2 DEF HInv, Types
    <3>2. e \in Place /\ e.pc = pc BY DEF HInv, Types, Place
    <3> HIDE DEF e
    <3>3. QED BY <2>1, <2>2, <3>1, <3>2, Stays DEF Working
  <2>3. next_id \in Nat /\ next_id + 1 \in Nat BY DEF HInv, Types
  <2>4. CASE next_id' = next_id + 1 /\ chat' = [chat EXCEPT ![c].pc = "start", ![c].id = next_id]
    BY <2>2, <2>3, <2>4
  <2>5. CASE next_id' = next_id /\ Goto(c, "over")
    <3>1. chat[c].id \in Nat /\ chat \in [Chats -> Place] BY DEF HInv, Types, Place
    <3>2. chat' = [chat EXCEPT ![c].pc = "over", ![c].id = chat[c].id]
      BY <2>5, <3>1 DEF Goto, Place
    <3>3. QED BY <2>2, <2>3, <2>5, <3>1, <3>2
  <2>6. QED BY <1>1, <2>4, <2>5 DEF Accept
<1>2. ASSUME NEW c \in Chats, Start(c) PROVE HInv'
  <2>1. chat[c].pc = "start" /\ UNCHANGED <<lane, next_id>> /\ cache # c
    BY <1>2 DEF Start, HInv, Types, Holder, Working
  <2>2. CASE Failed(c) /\ UNCHANGED cache BY <2>1, <2>2, Fails
  <2>3. ASSUME NEW pc \in {"prefill", "delegated"}, Goto(c, pc), UNCHANGED cache,
               lane = "generic" \/ pc = "delegated"
        PROVE  HInv'
    <3> DEFINE e == [chat[c] EXCEPT !.pc = pc]
    <3>1. chat' = [chat EXCEPT ![c] = e] BY <2>3 DEF Goto, HInv, Types
    <3>2. e \in Place /\ e.pc = pc BY DEF HInv, Types, Place, Working, Delegated
    <3> HIDE DEF e
    <3>3. QED BY <2>1, <2>3, <3>1, <3>2, Stays DEF Working, HInv, Types
  <2>4. CASE lane # "generic" /\ cache = None /\ cache' = c /\ Goto(c, "prefill")
    <3>1. chat' = [chat EXCEPT ![c].pc = "prefill"] BY <2>4 DEF Goto
    <3>2. /\ chat'[c].pc = "prefill" /\ chat' \in [Chats -> Place]
          /\ \A d \in Chats : d # c => chat'[d] = chat[d]
      BY <3>1 DEF HInv, Types, Place, Working
    <3>3. QED BY <2>1, <2>4, <3>2 DEF HInv, Types, Ends, Holder, Holds, Working
  <2>5. QED BY <1>2, <2>2, <2>3, <2>4 DEF Start
<1>3. ASSUME NEW c \in Chats, Delegate(c) \/ Decline(c) PROVE HInv'
  <2>1. <<"send DONE", "tell done">> \in Seq(Steps) BY DEF Steps
  <2>2. ASSUME NEW pc \in {"answer", "mark"}, Goto(c, pc), chat[c].pc \in Delegated,
               UNCHANGED <<lane, next_id, cache>>
        PROVE  HInv'
    <3> DEFINE e == [chat[c] EXCEPT !.pc = pc]
    <3>1. chat' = [chat EXCEPT ![c] = e] BY <2>2 DEF Goto, HInv, Types
    <3>2. e \in Place /\ e.pc = pc BY DEF HInv, Types, Place, Delegated
    <3>3. cache # c BY <2>2, ChatAssumption DEF HInv, Types, Holder, Working, Delegated
    <3> HIDE DEF e
    <3>4. QED BY <2>2, <3>1, <3>2, <3>3, Stays DEF Working, HInv, Types
  <2>3. QED BY <1>3, <2>1, <2>2, Finishes DEF Delegate, Decline, Delegated
<1>4. ASSUME NEW c \in Chats, Prefill(c) PROVE HInv'
  BY <1>4, Goes, Fails DEF Prefill, Working
<1>5. ASSUME NEW c \in Chats, Poll(c) \/ EndOfTurn(c) \/ Flush(c) PROVE HInv'
  <2>1. <<>> \in Seq(Steps) OBVIOUS
  <2>2. QED BY <1>5, <2>1, Goes, Finishes DEF Poll, EndOfTurn, Flush, Working
<1>6. ASSUME NEW c \in Chats, Emit(c) PROVE HInv'
  <2>1. <<>> \in Seq(Steps) /\ <<"tell cancelled">> \in Seq(Steps) BY DEF Steps
  <2>2. chat[c].pc \in Working /\ UNCHANGED <<lane, cache, next_id>>
    BY <1>6 DEF Emit, Working
  <2>3. \/ \E pc \in Working : Goto(c, pc)
        \/ \E steps \in Seq(Steps) : Finish(c, steps)
    BY <1>6, <2>1 DEF Emit, Working
  <2>4. QED BY <2>2, <2>3, Goes, Finishes
<1>7. ASSUME NEW c \in Chats, Decode(c) PROVE HInv'
  <2>1. chat[c].pc = "step" /\ UNCHANGED <<lane, cache, next_id>> BY <1>7 DEF Decode
  <2>2. CASE Failed(c) \/ Goto(c, "flush")
    BY <2>1, <2>2, Goes, Fails DEF Working
  <2>3. ASSUME NEW pc \in Working,
               chat' = [chat EXCEPT ![c].tokens = @ + 1, ![c].pc = pc]
        PROVE  HInv'
    <3> DEFINE e == [chat[c] EXCEPT !.tokens = @ + 1, !.pc = pc]
    <3>1. chat' = [chat EXCEPT ![c] = e] BY <2>3 DEF HInv, Types
    <3>2. e \in Place /\ e.pc = pc
      <4>1. chat[c] \in Place BY DEF HInv, Types
      <4>2. chat[c].tokens + 1 \in Nat BY <4>1 DEF Place
      <4>3. QED BY <4>1, <4>2 DEF Place
    <3>3. lane # "generic" => cache = c BY <2>1 DEF HInv, Holds, Working
    <3> HIDE DEF e
    <3>4. QED BY <2>1, <3>1, <3>2, <3>3, Stays DEF Working, HInv, Types
  <2>4. QED BY <1>7, <2>2, <2>3 DEF Decode, Working
<1>8. ASSUME NEW c \in Chats, Close(c) PROVE HInv'
  <2>1. /\ <<>> \in Seq(Steps) /\ <<"send cancelled", "tell cancelled">> \in Seq(Steps)
        /\ <<"send DONE", "tell done">> \in Seq(Steps)
    BY DEF Steps
  <2>2. QED BY <1>8, <2>1, Finishes DEF Close
<1>9. ASSUME NEW c \in Chats, End(c) PROVE HInv'
  <2> DEFINE todo == chat[c].todo
             e == [chat[c] EXCEPT !.todo = Tail(todo),
                                  !.pc = IF Len(todo) = 1 THEN "over" ELSE "ending"]
  <2>1. chat[c].pc = "ending" /\ todo \in Seq(Steps) /\ todo # <<>>
    BY <1>9 DEF End, HInv, Types, Ends, Place
  <2>2. /\ Tail(todo) \in Seq(Steps) /\ Len(Tail(todo)) = Len(todo) - 1
        /\ \A i \in 1 .. Len(Tail(todo)) : Tail(todo)[i] = todo[i + 1]
        /\ Len(todo) \in Nat \ {0} /\ Head(todo) = todo[1]
    BY <2>1, HeadTailProperties, EmptySeq
  <2>3. chat' = [chat EXCEPT ![c] = e] /\ UNCHANGED <<lane, next_id>>
    BY <1>9, <2>1 DEF End, HInv, Types
  <2>4. /\ e \in Place /\ e.todo = Tail(todo)
        /\ e.pc = IF Len(todo) = 1 THEN "over" ELSE "ending"
    BY <2>1, <2>2 DEF HInv, Types, Place
  <2>5. cache' = IF Head(todo) \in {"unlock", "return"} /\ cache = c THEN None ELSE cache
    BY <1>9 DEF End
  <2>6. Head(todo) \notin {"unlock", "return"} /\ Unlocks(todo)
        => Unlocks(Tail(todo)) /\ Len(todo) # 1
    <3> HIDE DEF todo
    <3>1. DOMAIN todo = 1 .. Len(todo) /\ DOMAIN Tail(todo) = 1 .. Len(Tail(todo))
      <4>1. \A q \in Seq(Steps) : DOMAIN q = 1 .. Len(q) OBVIOUS
      <4>2. QED BY <2>1, <2>2, <4>1
    <3>2. SUFFICES ASSUME Head(todo) \notin {"unlock", "return"},
                          NEW i \in 1 .. Len(todo), todo[i] \in {"unlock", "return"}
                   PROVE  Unlocks(Tail(todo)) /\ Len(todo) # 1
      BY <3>1 DEF Unlocks
    <3>3. i # 1 BY <2>2, <3>2
    <3>4. i - 1 \in 1 .. Len(Tail(todo)) /\ (i - 1) + 1 = i BY <2>2, <3>3
    <3>5. Tail(todo)[i - 1] = todo[i] BY <2>2, <3>4
    <3>6. Len(todo) # 1 BY <2>2, <3>3
    <3>7. i - 1 \in DOMAIN Tail(todo) /\ Tail(todo)[i - 1] \in {"unlock", "return"}
      BY <3>1, <3>2, <3>4, <3>5
    <3>8. QED BY <3>6, <3>7, Zenon DEF Unlocks
  <2>7. cache = c => Unlocks(todo) BY <2>1 DEF HInv, Types, Holder, Working
  <2>8. chat'[c] = e /\ \A d \in Chats : d # c => chat'[d] = chat[d]
    BY <2>3 DEF HInv, Types
  <2>9. chat' \in [Chats -> Place] BY <2>3, <2>4 DEF HInv, Types
  <2>10. Len(todo) # 1 => Tail(todo) # <<>>
    <3>1. Len(<<>>) = 0 OBVIOUS
    <3> HIDE DEF todo
    <3>2. Len(todo) # 1 => Len(Tail(todo)) # 0 BY <2>2
    <3>3. QED BY <3>1, <3>2
  <2> HIDE DEF e, todo
  <2>11. e.pc \notin Working /\ (e.pc = "ending" => Len(todo) # 1)
    BY <2>4 DEF Working
  <2>12. Types' /\ Ends'
    BY <2>3, <2>4, <2>5, <2>8, <2>9, <2>10, <2>11 DEF HInv, Types, Ends
  <2>13. Holder'
    BY <2>4, <2>5, <2>6, <2>7, <2>8 DEF HInv, Types, Holder
  <2>14. Holds'
    <3>1. chat[c].pc \notin Working BY <2>1 DEF Working
    <3>2. QED BY <2>3, <2>5, <2>8, <2>11, <3>1 DEF HInv, Holds
  <2>15. QED BY <2>12, <2>13, <2>14 DEF HInv
<1>10. CASE UNCHANGED <<lane, next_id, chat, cache>>
  BY <1>10 DEF HInv, Types, Ends, Holder, Holds, Unlocks
<1>11. ASSUME NEW c \in Chats, Read(c) \/ Leave(c) PROVE HInv'
  BY <1>11, <1>10 DEF Read, Leave
<1>12. ASSUME NEW id \in DOMAIN registry, Abort(id) PROVE HInv'
  BY <1>12, <1>10 DEF Abort
<1>13. ASSUME NEW d \in Dialogues, DialogueStarts(d) \/ DialogueEnds(d) PROVE HInv'
  BY <1>13, <1>10 DEF DialogueStarts, DialogueEnds, turnVars
<1>14. CASE Look \/ Mine BY <1>14, <1>10 DEF Look, Mine, turnVars
<1>15. CASE UNCHANGED vars BY <1>15, <1>10 DEF vars, turnVars
<1>16. QED
  BY <1>1, <1>2, <1>3, <1>4, <1>5, <1>6, <1>7, <1>8, <1>9, <1>11, <1>12, <1>13, <1>14,
     <1>15 DEF Next, Turn

(***************************************************************************)
(* No two turns decode on one cache, and none that is over keeps it.       *)
(***************************************************************************)
THEOREM OneTurnDecodes == Spec => []OneDecodes
<1>1. HInv => OneDecodes
  BY DEF HInv, Types, Holder, Holds, OneDecodes, Working
<1> QED BY <1>1, HolderInit, HolderNext, PTL DEF Spec

-----------------------------------------------------------------------------
\* The rounds so far are listed in order.
Rounds(q) == q \in Seq(Nat) /\ \A i \in 1 .. Len(q) : q[i] = i - 1

\* Between storing and announcing a round the store is one ahead.
MInv ==
  /\ Rounds(receipts) /\ Rounds(mints)
  /\ miner = [pc |-> miner.pc, todo |-> miner.todo]
  /\ Len(mints) = IF miner.pc = "announce" THEN Len(receipts) - 1 ELSE Len(receipts)

LEMMA NextRound ==
  ASSUME NEW q, Rounds(q)
  PROVE  Rounds(Append(q, Len(q))) /\ Len(Append(q, Len(q))) = Len(q) + 1
<1>1. q \in Seq(Nat) /\ Len(q) \in Nat BY DEF Rounds
<1>2. /\ Append(q, Len(q)) \in Seq(Nat) /\ Len(Append(q, Len(q))) = Len(q) + 1
      /\ \A i \in 1 .. Len(q) : Append(q, Len(q))[i] = q[i]
      /\ Append(q, Len(q))[Len(q) + 1] = Len(q)
  BY <1>1, AppendProperties
<1>3. QED BY <1>1, <1>2 DEF Rounds

(***************************************************************************)
(* However many rounds are minted, and whatever turns run meanwhile, what  *)
(* /v1/events announces is in the store, in order.                         *)
(***************************************************************************)
THEOREM AnnouncedIsStored == Spec => []MintedIsStored
<1>1. Init => MInv
  BY DEF Init, MInv, Rounds
<1>2. MInv /\ [Next]_vars => MInv'
  <2> SUFFICES ASSUME MInv, [Next]_vars PROVE MInv'
    OBVIOUS
  <2>1. CASE Look
    <3>1. PICK n : miner' = [pc |-> IF n = 0 THEN "look" ELSE "store", todo |-> n]
      BY <2>1 DEF Look
    <3>2. miner.pc = "look" /\ UNCHANGED <<receipts, mints>> BY <2>1 DEF Look
    <3>3. QED BY <3>1, <3>2 DEF MInv, Rounds
  <2>2. CASE Mine
    <3>1. CASE miner.pc = "store"
      <4>1. receipts' = Append(receipts, Len(receipts)) /\ UNCHANGED mints
        BY <2>2, <3>1 DEF Mine, Mint
      <4>2. miner' = [pc |-> "announce", todo |-> miner.todo]
        BY <2>2, <3>1 DEF Mine, MInv
      <4>3. Rounds(receipts)' /\ Len(receipts') = Len(receipts) + 1
        BY <4>1, NextRound DEF MInv
      <4>4. Len(mints) = Len(receipts) /\ Len(receipts) \in Nat
        BY <3>1 DEF MInv, Rounds
      <4>5. QED BY <4>1, <4>2, <4>3, <4>4 DEF MInv
    <3>2. CASE miner.pc = "announce"
      <4>1. mints' = Append(mints, Len(mints)) /\ UNCHANGED receipts
        BY <2>2, <3>2 DEF Mine, Mint
      <4>2. miner'.pc \in {"look", "store"} /\ miner' = [pc |-> miner'.pc, todo |-> miner'.todo]
        BY <2>2, <3>2 DEF Mine
      <4>3. Rounds(mints)' /\ Len(mints') = Len(mints) + 1
        BY <4>1, NextRound DEF MInv
      <4>4. Len(mints) = Len(receipts) - 1 /\ Len(receipts) \in Nat
        BY <3>2 DEF MInv, Rounds
      <4>5. QED BY <4>1, <4>2, <4>3, <4>4 DEF MInv
    <3>3. QED BY <2>2, <3>1, <3>2 DEF Mine
  <2>3. CASE UNCHANGED minerVars BY <2>3 DEF minerVars, MInv, Rounds
  <2>4. ASSUME NEW c \in Chats, Turn(c) PROVE MInv'
    BY <2>3, <2>4 DEF Turn, Accept, Start, Delegate, Prefill, Decline, Poll, EndOfTurn, Emit,
                      Decode, Flush, Close, End
  <2>5. ASSUME NEW c \in Chats, Read(c) \/ Leave(c) PROVE MInv'
    BY <2>3, <2>5 DEF Read, Leave
  <2>6. ASSUME NEW id \in DOMAIN registry, Abort(id) PROVE MInv'
    BY <2>3, <2>6 DEF Abort
  <2>7. ASSUME NEW d \in Dialogues, DialogueStarts(d) \/ DialogueEnds(d) PROVE MInv'
    BY <2>3, <2>7 DEF DialogueStarts, DialogueEnds
  <2>8. CASE UNCHANGED vars BY <2>3, <2>8 DEF vars
  <2>9. QED BY <2>1, <2>2, <2>4, <2>5, <2>6, <2>7, <2>8 DEF Next
<1>3. MInv => MintedIsStored
  <2> SUFFICES ASSUME MInv PROVE MintedIsStored
    OBVIOUS
  <2>1. /\ Len(receipts) \in Nat /\ Len(mints) \in Nat /\ Len(mints) <= Len(receipts)
        /\ Len(mints) \in {Len(receipts), Len(receipts) - 1}
    BY DEF MInv, Rounds
  <2>2. receipts = [i \in DOMAIN receipts |-> i - 1]
    <3>1. receipts \in Seq(Nat) /\ \A i \in 1 .. Len(receipts) : receipts[i] = i - 1
      BY DEF MInv, Rounds
    <3>2. receipts = [i \in 1 .. Len(receipts) |-> receipts[i]]
          /\ DOMAIN receipts = 1 .. Len(receipts)
      BY <3>1
    <3>3. [i \in 1 .. Len(receipts) |-> receipts[i]] = [i \in 1 .. Len(receipts) |-> i - 1]
      BY <3>1
    <3>4. QED BY <3>2, <3>3
  <2> DEFINE announced == SubSeq(receipts, 1, Len(mints))
  <2>3. /\ announced \in Seq(Nat) /\ Len(announced) = Len(mints)
        /\ \A i \in 1 .. Len(mints) : announced[i] = receipts[i]
    <3>1. \A i \in 1 .. Len(mints) : receipts[i] \in Nat
      <4>1. receipts \in Seq(Nat) BY DEF MInv, Rounds
      <4>2. \A i \in 1 .. Len(mints) : i \in 1 .. Len(receipts) BY <2>1
      <4>3. QED BY <4>1, <4>2
    <3>2. /\ announced \in Seq(Nat)
          /\ Len(announced) = IF 1 <= Len(mints) THEN Len(mints) - 1 + 1 ELSE 0
          /\ \A i \in 1 .. Len(mints) - 1 + 1 : announced[i] = receipts[1 + i - 1]
      BY <2>1, <3>1, SubSeqProperties
    <3> HIDE DEF announced
    <3>3. QED BY <2>1, <3>2
  <2> HIDE DEF announced
  <2>4. \A i \in 1 .. Len(mints) : announced[i] = mints[i]
    <3>1. /\ \A i \in 1 .. Len(receipts) : receipts[i] = i - 1
          /\ \A i \in 1 .. Len(mints) : mints[i] = i - 1
      BY DEF MInv, Rounds
    <3>2. \A i \in 1 .. Len(mints) : i \in 1 .. Len(receipts) BY <2>1
    <3>3. QED BY <2>3, <3>1, <3>2
  <2>5. announced = mints
    <3>1. mints \in Seq(Nat) BY DEF MInv, Rounds
    <3>2. QED BY <2>3, <2>4, <3>1, SeqEqual
  <2>6. QED BY <2>1, <2>2, <2>5 DEF MintedIsStored, announced
<1>4. QED BY <1>1, <1>2, <1>3, PTL DEF Spec

-----------------------------------------------------------------------------
(***************************************************************************)
(* What a turn still has to do when it ends: each list is the rest of the  *)
(* one above it, or of one that a way to end begins with.                  *)
(***************************************************************************)
Answered  == <<"send DONE", "tell done", "remove", "return">>
Cancelled == <<"send cancelled", "tell cancelled", "remove", "return">>
Broken    == <<"send error", "tell cancelled", "remove", "return">>
TellDone  == <<"tell done", "remove", "return">>
TellCancelled == <<"tell cancelled", "remove", "return">>
ToRemove  == <<"remove", "return">>
ToReturn  == <<"return">>

LaneBroken == <<"unlock", "send error", "send DONE", "remove">>
LaneError  == <<"send error", "send DONE", "remove">>
LaneEnd    == <<"unlock", "send DONE", "remove">>
LaneDone   == <<"send DONE", "remove">>
LaneRemove == <<"remove">>

L1Endings   == {Answered, Cancelled, Broken, TellDone, TellCancelled, ToRemove, ToReturn}
LaneEndings == {LaneBroken, LaneError, LaneEnd, LaneDone, LaneRemove}

\* Where a turn is, in the words of the steps that it still has to take.
Shape(c) ==
  /\ chan[c] \in 0 .. Room
  /\ IF chat[c].pc = "ending"
     THEN chat[c].todo \in IF lane = "qwen36" THEN LaneEndings ELSE L1Endings
     ELSE chat[c].todo = <<>>
  /\ chat[c].pc = "idle" => chat[c].id = 0 /\ chan[c] = 0 /\ c \notin gone
  /\ chat[c].pc \notin {"idle", "over"} => chat[c].id # 0
  /\ chat[c].pc \in {"send"} => lane = "qwen36"
  /\ chat[c].pc \in Delegated => lane = "resident"
  /\ chat[c].pc \in Delegated \cup {"idle", "start"} => chat[c].tokens = 0
  /\ chat[c].tokens \in 0 .. MaxTokens
  /\ chat[c].pc \in {"idle", "start", "delegated", "prefill", "emit", "send", "step"} => chat[c].tokens < MaxTokens

\* One end: what was told and what the client saw agree at every stage.
Agree(c) ==
  /\ told[c] \in {<<"done">>, <<"cancelled">>}
  /\ last[c] = "DONE" => told[c] = <<"done">>
  /\ last[c] \in {"cancelled", "error"} => told[c] = <<"cancelled">>
  /\ c \notin gone => (told[c] = <<"done">>) = (last[c] = "DONE")

Outcome(c) ==
  lane # "qwen36" =>
    IF chat[c].pc = "over" THEN chat[c].id # 0 => Agree(c)
    ELSE IF chat[c].pc = "ending" /\ chat[c].todo \in {ToRemove, ToReturn} THEN Agree(c)
    ELSE /\ told[c] = <<>>
         /\ last[c] = IF chat[c].pc = "ending" /\ chat[c].todo \in {TellDone, TellCancelled}
                      THEN last[c] ELSE None
         /\ chat[c].pc = "ending" /\ chat[c].todo = TellDone
              => last[c] = "DONE" \/ (last[c] = None /\ c \in gone)
         /\ chat[c].pc = "ending" /\ chat[c].todo = TellCancelled
              => last[c] \in {"cancelled", "error"} \/ (last[c] = None /\ c \in gone)

\* How many deltas an aborted turn may have sent by where it is.
AllowedAt(pc, k) ==
  CASE lane = "qwen36"  -> IF pc = "send" THEN 0 ELSE 1
    [] lane = "generic" -> IF pc \in {"idle", "start", "prefill", "emit"} THEN 0
                           ELSE IF pc \in {"step", "flush"} THEN 1 ELSE 2
    [] OTHER -> IF pc \in {"idle", "start", "delegated", "prefill", "emit"} THEN k
                ELSE IF pc = "step" THEN k + 1
                ELSE IF pc = "answer" THEN 1 ELSE IF pc = "mark" THEN 2
                ELSE IF pc = "flush" THEN MaxTokens ELSE Longest

LEMMA LongestIs == Longest \in Nat /\ MaxTokens + 1 <= Longest /\ 3 <= Longest
BY ChatAssumption DEF Longest

Stopped(c) == late[c] \in Nat /\ late[c] <= AllowedAt(chat[c].pc, chat[c].tokens) /\ (flag[c] = FALSE => late[c] = 0)

\* The ids.
Underway(c) == /\ chat[c].id # 0 /\ chat[c].pc # "over"
               /\ chat[c].pc = "ending" => chat[c].todo # ToReturn
Ids ==
  /\ \A c \in Chats : chat[c].id < next_id
  /\ \A c, d \in Chats : chat[c].id = chat[d].id /\ chat[c].id # 0 => c = d
  /\ DOMAIN registry = {chat[c].id : c \in {d \in Chats : Underway(d)}}
  /\ \A i \in DOMAIN registry : registry[i] \in Chats /\ chat[registry[i]].id = i
  /\ next_id = 1 + Cardinality({c \in Chats : chat[c].id # 0})
  /\ IsFiniteSet({c \in Chats : chat[c].id # 0})

Raised ==
  /\ active \in BOOLEAN
  /\ active => /\ lane # "qwen36"
               /\ talking # {} \/ \E c \in Chats : chat[c].pc \notin {"idle", "over"}

Kept == /\ flag \in [Chats -> BOOLEAN] /\ late \in [Chats -> Nat] /\ chan \in [Chats -> Nat]
        /\ last = [c \in Chats |-> last[c]] /\ told = [c \in Chats |-> told[c]]

TurnOK(c) == Shape(c) /\ Outcome(c) /\ Stopped(c)
TurnInv == Kept /\ (\A c \in Chats : TurnOK(c)) /\ Ids /\ Raised
-----------------------------------------------------------------------------
\* Short tuples: what remains of one without its first element.
LEMMA TailOfTuple ==
  ASSUME NEW a, NEW b, NEW c, NEW d
  PROVE  /\ Tail(<<a>>) = <<>> /\ Tail(<<a, b>>) = <<b>> /\ Tail(<<a, b, c>>) = <<b, c>>
         /\ Tail(<<a, b, c, d>>) = <<b, c, d>>
<1> DEFINE S == {a, b, c, d}
<1>1. /\ <<>> \in Seq(S) /\ <<a>> \in Seq(S) /\ <<a, b>> \in Seq(S) /\ <<a, b, c>> \in Seq(S)
      /\ <<b>> \in Seq(S) /\ <<b, c>> \in Seq(S) /\ <<b, c, d>> \in Seq(S)
      /\ <<a, b, c, d>> \in Seq(S)
  <2>1. a \in S /\ b \in S /\ c \in S /\ d \in S
    OBVIOUS
  <2> HIDE DEF S
  <2> QED BY <2>1
<1> HIDE DEF S
<1>2. ASSUME NEW s \in Seq(S), NEW t \in Seq(S), s # <<>>, Len(t) + 1 = Len(s),
             \A i \in 1 .. Len(t) : t[i] = s[i + 1]
      PROVE  Tail(s) = t
  <2>1. /\ Tail(s) \in Seq(S) /\ Len(Tail(s)) = Len(s) - 1
        /\ \A i \in 1 .. Len(Tail(s)) : Tail(s)[i] = s[i + 1]
    BY <1>2, HeadTailProperties
  <2>2. Len(Tail(s)) = Len(t)
    BY <1>2, <2>1
  <2> QED BY <1>2, <2>1, <2>2, SeqEqual
<1>3. Tail(<<a>>) = <<>>
  BY <1>1, <1>2
<1>4. Tail(<<a, b>>) = <<b>>
  BY <1>1, <1>2
<1>5. Tail(<<a, b, c>>) = <<b, c>>
  BY <1>1, <1>2
<1>6. Tail(<<a, b, c, d>>) = <<b, c, d>>
  BY <1>1, <1>2
<1> QED BY <1>3, <1>4, <1>5, <1>6

LEMMA TailOfFour ==
  ASSUME NEW a, NEW b, NEW c, NEW d
  PROVE  Tail(<<a, b, c, d>>) = <<b, c, d>>
BY TailOfTuple

\* Each list, its first step and the rest.
LEMMA Table ==
  /\ Head(Answered) = "send DONE" /\ Tail(Answered) = TellDone /\ Len(Answered) = 4
  /\ Head(Cancelled) = "send cancelled" /\ Tail(Cancelled) = TellCancelled /\ Len(Cancelled) = 4
  /\ Head(Broken) = "send error" /\ Tail(Broken) = TellCancelled /\ Len(Broken) = 4
  /\ Head(TellDone) = "tell done" /\ Tail(TellDone) = ToRemove /\ Len(TellDone) = 3
  /\ Head(TellCancelled) = "tell cancelled" /\ Tail(TellCancelled) = ToRemove
  /\ Len(TellCancelled) = 3
  /\ Head(ToRemove) = "remove" /\ Tail(ToRemove) = ToReturn /\ Len(ToRemove) = 2
  /\ Head(ToReturn) = "return" /\ Tail(ToReturn) = <<>> /\ Len(ToReturn) = 1
<1>1. /\ Tail(Answered) = TellDone /\ Tail(Cancelled) = TellCancelled
      /\ Tail(Broken) = TellCancelled /\ Tail(TellDone) = ToRemove
      /\ Tail(TellCancelled) = ToRemove /\ Tail(ToRemove) = ToReturn /\ Tail(ToReturn) = <<>>
  <2>1. /\ \A a : Tail(<<a>>) = <<>>
        /\ \A a, b : Tail(<<a, b>>) = <<b>>
        /\ \A a, b, c : Tail(<<a, b, c>>) = <<b, c>>
    BY TailOfTuple
  <2>2. Tail(Answered) = TellDone
    BY TailOfFour, Zenon DEF Answered, TellDone
  <2>3. Tail(Cancelled) = TellCancelled
    BY TailOfFour, Zenon DEF Cancelled, TellCancelled
  <2>4. Tail(Broken) = TellCancelled
    BY TailOfFour, Zenon DEF Broken, TellCancelled
  <2>5. Tail(TellDone) = ToRemove
    BY <2>1 DEF TellDone, ToRemove
  <2>6. Tail(TellCancelled) = ToRemove
    BY <2>1 DEF TellCancelled, ToRemove
  <2>7. Tail(ToRemove) = ToReturn
    BY <2>1 DEF ToRemove, ToReturn
  <2>8. Tail(ToReturn) = <<>>
    BY <2>1 DEF ToReturn
  <2> QED BY <2>2, <2>3, <2>4, <2>5, <2>6, <2>7, <2>8
<1>2. /\ Len(Answered) = 4 /\ Len(Cancelled) = 4 /\ Len(Broken) = 4 /\ Len(TellDone) = 3
      /\ Len(TellCancelled) = 3 /\ Len(ToRemove) = 2 /\ Len(ToReturn) = 1
      /\ Head(Answered) = "send DONE" /\ Head(Cancelled) = "send cancelled"
      /\ Head(Broken) = "send error" /\ Head(TellDone) = "tell done"
      /\ Head(TellCancelled) = "tell cancelled" /\ Head(ToRemove) = "remove"
      /\ Head(ToReturn) = "return"
  BY DEF Answered, Cancelled, Broken, TellDone, TellCancelled, ToRemove, ToReturn
<1> QED BY <1>1, <1>2

LEMMA LaneTable ==
  /\ Head(LaneBroken) = "unlock" /\ Tail(LaneBroken) = LaneError /\ Len(LaneBroken) = 4
  /\ Head(LaneError) = "send error" /\ Tail(LaneError) = LaneDone /\ Len(LaneError) = 3
  /\ Head(LaneEnd) = "unlock" /\ Tail(LaneEnd) = LaneDone /\ Len(LaneEnd) = 3
  /\ Head(LaneDone) = "send DONE" /\ Tail(LaneDone) = LaneRemove /\ Len(LaneDone) = 2
  /\ Head(LaneRemove) = "remove" /\ Tail(LaneRemove) = <<>> /\ Len(LaneRemove) = 1
<1>1. /\ Tail(LaneBroken) = LaneError /\ Tail(LaneError) = LaneDone /\ Tail(LaneEnd) = LaneDone
      /\ Tail(LaneDone) = LaneRemove /\ Tail(LaneRemove) = <<>>
  <2>1. /\ \A a : Tail(<<a>>) = <<>>
        /\ \A a, b : Tail(<<a, b>>) = <<b>>
        /\ \A a, b, c : Tail(<<a, b, c>>) = <<b, c>>
    BY TailOfTuple
  <2>2. Tail(LaneBroken) = LaneError
    BY TailOfFour, Zenon DEF LaneBroken, LaneError
  <2>3. Tail(LaneError) = LaneDone
    BY <2>1 DEF LaneError, LaneDone
  <2>4. Tail(LaneEnd) = LaneDone
    BY <2>1 DEF LaneEnd, LaneDone
  <2>5. Tail(LaneDone) = LaneRemove
    BY <2>1 DEF LaneDone, LaneRemove
  <2>6. Tail(LaneRemove) = <<>>
    BY <2>1 DEF LaneRemove
  <2> QED BY <2>2, <2>3, <2>4, <2>5, <2>6
<1>2. /\ Len(LaneBroken) = 4 /\ Len(LaneError) = 3 /\ Len(LaneEnd) = 3 /\ Len(LaneDone) = 2
      /\ Len(LaneRemove) = 1
      /\ Head(LaneBroken) = "unlock" /\ Head(LaneError) = "send error" /\ Head(LaneEnd) = "unlock"
      /\ Head(LaneDone) = "send DONE" /\ Head(LaneRemove) = "remove"
  BY DEF LaneBroken, LaneError, LaneEnd, LaneDone, LaneRemove
<1> QED BY <1>1, <1>2

\* Short tuples, put together.
LEMMA ConcatIs ==
  ASSUME NEW S, NEW s \in Seq(S), NEW t \in Seq(S), NEW u \in Seq(S), Len(u) = Len(s) + Len(t),
         \A i \in 1 .. Len(u) : u[i] = IF i <= Len(s) THEN s[i] ELSE t[i - Len(s)]
  PROVE  s \o t = u
<1>1. /\ s \o t \in Seq(S) /\ Len(s \o t) = Len(s) + Len(t)
      /\ \A i \in 1 .. Len(s) + Len(t) : (s \o t)[i] = IF i <= Len(s) THEN s[i] ELSE t[i - Len(s)]
  BY ConcatProperties, Zenon
<1> QED BY <1>1, SeqEqual

LEMMA JoinFour ==
  ASSUME NEW a, NEW b, NEW c, NEW d
  PROVE  <<a, b>> \o <<c, d>> = <<a, b, c, d>>
<1> DEFINE S == {a, b, c, d}
           s == <<a, b>>  t == <<c, d>>  u == <<a, b, c, d>>
<1>1. s \in Seq(S) /\ t \in Seq(S) /\ u \in Seq(S)
  <2>1. a \in S /\ b \in S /\ c \in S /\ d \in S
    OBVIOUS
  <2> HIDE DEF S
  <2> QED BY <2>1
<1>2. /\ Len(s) = 2 /\ Len(t) = 2 /\ Len(u) = 4 /\ s[1] = a /\ s[2] = b /\ t[1] = c /\ t[2] = d
      /\ u[1] = a /\ u[2] = b /\ u[3] = c /\ u[4] = d
  OBVIOUS
<1> HIDE DEF S, s, t, u
<1>3. Len(u) = Len(s) + Len(t)
  BY <1>2
<1>4. \A i \in 1 .. Len(u) : u[i] = IF i <= Len(s) THEN s[i] ELSE t[i - Len(s)]
  <2>1. \A i \in 1 .. 4 : i = 1 \/ i = 2 \/ i = 3 \/ i = 4
    OBVIOUS
  <2> QED BY <1>2, <2>1
<1>5. s \o t = u
  BY ConcatIs, <1>1, <1>3, <1>4
<1> QED BY <1>5 DEF s, t, u

LEMMA JoinTuples ==
  ASSUME NEW a, NEW b, NEW c, NEW d
  PROVE  /\ <<a>> \o <<b, c>> = <<a, b, c>>
         /\ <<a>> \o <<b>> = <<a, b>> /\ <<a>> \o <<>> = <<a>>
<1> DEFINE S == {a, b, c, d}
<1>1. /\ <<>> \in Seq(S) /\ <<a>> \in Seq(S) /\ <<a, b>> \in Seq(S) /\ <<a, b, c>> \in Seq(S)
      /\ <<b>> \in Seq(S) /\ <<b, c>> \in Seq(S) /\ <<c, d>> \in Seq(S)
      /\ <<a, b, c, d>> \in Seq(S)
  <2>1. a \in S /\ b \in S /\ c \in S /\ d \in S
    OBVIOUS
  <2> HIDE DEF S
  <2> QED BY <2>1
<1> HIDE DEF S
<1>4. <<a>> \o <<b, c>> = <<a, b, c>>
  <2> DEFINE s == <<a>>  t == <<b, c>>  u == <<a, b, c>>
  <2>1. /\ Len(s) = 1 /\ Len(t) = 2 /\ Len(u) = 3 /\ s[1] = a /\ t[1] = b /\ t[2] = c
        /\ u[1] = a /\ u[2] = b /\ u[3] = c
    OBVIOUS
  <2>2. s \in Seq(S) /\ t \in Seq(S) /\ u \in Seq(S)
    BY <1>1
  <2> HIDE DEF s, t, u
  <2>3. Len(u) = Len(s) + Len(t)
    BY <2>1
  <2>4. \A i \in 1 .. Len(u) : u[i] = IF i <= Len(s) THEN s[i] ELSE t[i - Len(s)]
    <3>1. \A i \in 1 .. 3 : i = 1 \/ i = 2 \/ i = 3
      OBVIOUS
    <3> QED BY <2>1, <3>1
  <2>5. s \o t = u
    BY ConcatIs, <2>2, <2>3, <2>4
  <2> QED BY <2>5 DEF s, t, u
<1>5. <<a>> \o <<b>> = <<a, b>>
  <2> DEFINE s == <<a>>  t == <<b>>  u == <<a, b>>
  <2>1. /\ Len(s) = 1 /\ Len(t) = 1 /\ Len(u) = 2 /\ s[1] = a /\ t[1] = b
        /\ u[1] = a /\ u[2] = b
    OBVIOUS
  <2>2. s \in Seq(S) /\ t \in Seq(S) /\ u \in Seq(S)
    BY <1>1
  <2> HIDE DEF s, t, u
  <2>3. Len(u) = Len(s) + Len(t)
    BY <2>1
  <2>4. \A i \in 1 .. Len(u) : u[i] = IF i <= Len(s) THEN s[i] ELSE t[i - Len(s)]
    <3>1. \A i \in 1 .. 2 : i = 1 \/ i = 2
      OBVIOUS
    <3> QED BY <2>1, <3>1
  <2>5. s \o t = u
    BY ConcatIs, <2>2, <2>3, <2>4
  <2> QED BY <2>5 DEF s, t, u
<1>6. <<a>> \o <<>> = <<a>>
  BY <1>1, ConcatEmptySeq
<1> QED BY <1>4, <1>5, <1>6

\* A way to end lists one of them.
LEMMA Joined ==
  /\ <<"send DONE", "tell done">> \o <<"remove", "return">> = Answered
  /\ <<"send cancelled", "tell cancelled">> \o <<"remove", "return">> = Cancelled
  /\ <<"send error", "tell cancelled">> \o <<"remove", "return">> = Broken
  /\ <<"tell cancelled">> \o <<"remove", "return">> = TellCancelled
  /\ <<"unlock">> \o <<"send error">> \o <<"send DONE", "remove">> = LaneBroken
  /\ <<"unlock">> \o <<>> \o <<"send DONE", "remove">> = LaneEnd
<1>1. /\ \A a : <<a>> \o <<>> = <<a>>
      /\ \A a, b : <<a>> \o <<b>> = <<a, b>>
      /\ \A a, b, c : <<a>> \o <<b, c>> = <<a, b, c>>
  BY JoinTuples
<1>2. <<"send DONE", "tell done">> \o <<"remove", "return">> = Answered
  BY JoinFour, Zenon DEF Answered
<1>3. <<"send cancelled", "tell cancelled">> \o <<"remove", "return">> = Cancelled
  BY JoinFour, Zenon DEF Cancelled
<1>4. <<"send error", "tell cancelled">> \o <<"remove", "return">> = Broken
  BY JoinFour, Zenon DEF Broken
<1>5. <<"tell cancelled">> \o <<"remove", "return">> = TellCancelled
  BY <1>1 DEF TellCancelled
<1>6. <<"unlock">> \o <<"send error">> \o <<"send DONE", "remove">> = LaneBroken
  <2>1. <<"unlock">> \o <<"send error">> = <<"unlock", "send error">>
    BY <1>1
  <2>2. <<"unlock", "send error">> \o <<"send DONE", "remove">> = LaneBroken
    BY JoinFour, Zenon DEF LaneBroken
  <2> QED BY <2>1, <2>2, Zenon
<1>7. <<"unlock">> \o <<>> \o <<"send DONE", "remove">> = LaneEnd
  BY <1>1 DEF LaneEnd
<1> QED BY <1>2, <1>3, <1>4, <1>5, <1>6, <1>7

\* Which of them still take the turn out of the registry, and lower the flag.
LEMMA Removes ==
  /\ \A s \in LaneEndings \cup (L1Endings \ {ToReturn}) : \E i \in DOMAIN s : s[i] = "remove"
  /\ \A s \in L1Endings : \E i \in DOMAIN s : s[i] = "return"
  /\ ~ \E i \in DOMAIN ToReturn : ToReturn[i] = "remove"
<1>1. ASSUME NEW a, NEW b
      PROVE  LET s == <<a, b, "remove", "return">>
             IN  DOMAIN s = 1 .. 4 /\ s[3] = "remove" /\ s[4] = "return"
  OBVIOUS
<1>2. ASSUME NEW a
      PROVE  LET s == <<a, "remove", "return">>
             IN  DOMAIN s = 1 .. 3 /\ s[2] = "remove" /\ s[3] = "return"
  OBVIOUS
<1>3. /\ DOMAIN ToRemove = 1 .. 2 /\ ToRemove[1] = "remove" /\ ToRemove[2] = "return"
      /\ DOMAIN ToReturn = 1 .. 1 /\ ToReturn[1] = "return"
  BY DEF ToRemove, ToReturn
<1>4. /\ DOMAIN LaneBroken = 1 .. 4 /\ LaneBroken[4] = "remove"
      /\ DOMAIN LaneError = 1 .. 3 /\ LaneError[3] = "remove"
      /\ DOMAIN LaneEnd = 1 .. 3 /\ LaneEnd[3] = "remove"
      /\ DOMAIN LaneDone = 1 .. 2 /\ LaneDone[2] = "remove"
      /\ DOMAIN LaneRemove = 1 .. 1 /\ LaneRemove[1] = "remove"
  BY DEF LaneBroken, LaneError, LaneEnd, LaneDone, LaneRemove
<1>5. ~ \E i \in DOMAIN ToReturn : ToReturn[i] = "remove"
  BY <1>3
<1>6. ASSUME NEW s \in L1Endings PROVE \E i \in DOMAIN s : s[i] = "return"
  <2>1. \/ \E a, b : s = <<a, b, "remove", "return">>
        \/ \E a : s = <<a, "remove", "return">>
        \/ s = ToRemove \/ s = ToReturn
    BY <1>6, Zenon DEF L1Endings, Answered, Cancelled, Broken, TellDone, TellCancelled
  <2> QED BY <1>1, <1>2, <1>3, <2>1
<1>7. ASSUME NEW s \in L1Endings \ {ToReturn} PROVE \E i \in DOMAIN s : s[i] = "remove"
  <2>1. \/ \E a, b : s = <<a, b, "remove", "return">>
        \/ \E a : s = <<a, "remove", "return">>
        \/ s = ToRemove
    BY <1>7, Zenon DEF L1Endings, Answered, Cancelled, Broken, TellDone, TellCancelled
  <2> QED BY <1>1, <1>2, <1>3, <2>1
<1>8. ASSUME NEW s \in LaneEndings PROVE \E i \in DOMAIN s : s[i] = "remove"
  BY <1>4, <1>8 DEF LaneEndings
<1> QED BY <1>5, <1>6, <1>7, <1>8

\* The lists differ, and none is empty.
LEMMA Differ ==
  /\ \A s \in L1Endings \cup LaneEndings : s # <<>>
  /\ \A s \in L1Endings \ {ToReturn} : Len(s) # 1
  /\ \A s \in {Answered, Cancelled, Broken} : s \notin {TellDone, TellCancelled, ToRemove, ToReturn}
  /\ TellDone # TellCancelled /\ {TellDone, TellCancelled} \cap {ToRemove, ToReturn} = {}
  /\ ToRemove # ToReturn
<1>1. Len(<<>>) = 0
  OBVIOUS
<1>2. /\ Len(Answered) = 4 /\ Len(Cancelled) = 4 /\ Len(Broken) = 4 /\ Len(TellDone) = 3
      /\ Len(TellCancelled) = 3 /\ Len(ToRemove) = 2 /\ Len(ToReturn) = 1
      /\ Head(TellDone) # Head(TellCancelled)
  BY Table
<1>3. /\ Len(LaneBroken) = 4 /\ Len(LaneError) = 3 /\ Len(LaneEnd) = 3 /\ Len(LaneDone) = 2
      /\ Len(LaneRemove) = 1
  BY LaneTable
<1>4. \A s \in L1Endings \cup LaneEndings : Len(s) \in 1 .. 4
  BY <1>2, <1>3 DEF L1Endings, LaneEndings
<1>5. \A s \in L1Endings \cup LaneEndings : s # <<>>
  BY <1>1, <1>4
<1>6. \A s \in L1Endings \ {ToReturn} : Len(s) # 1
  BY <1>2 DEF L1Endings
<1>7. \A s \in {Answered, Cancelled, Broken} : s \notin {TellDone, TellCancelled, ToRemove, ToReturn}
  BY <1>2
<1>8. /\ TellDone # TellCancelled /\ {TellDone, TellCancelled} \cap {ToRemove, ToReturn} = {}
      /\ ToRemove # ToReturn
  BY <1>2
<1> QED BY <1>5, <1>6, <1>7, <1>8

LEMMA Apart == ToReturn \notin LaneEndings \cup {<<>>}
<1>1. Len(LaneBroken) = 4 /\ Len(LaneError) = 3 /\ Len(LaneEnd) = 3 /\ Len(LaneDone) = 2
  BY LaneTable, Zenon
<1>2. Len(ToReturn) = 1 /\ Len(<<>>) = 0
  BY Table
<1>3. Head(LaneRemove) = "remove" /\ Head(ToReturn) = "return"
  BY Table, LaneTable, Zenon
<1>4. ToReturn # LaneRemove
  <2> SUFFICES ASSUME ToReturn = LaneRemove PROVE FALSE
    OBVIOUS
  <2>1. Head(ToReturn) = Head(LaneRemove)
    OBVIOUS
  <2>2. "remove" = "return"
    BY <1>3, <2>1, Zenon
  <2> QED BY <2>2
<1>5. ToReturn # LaneBroken /\ ToReturn # LaneError
  BY <1>1, <1>2
<1>6. ToReturn # LaneEnd /\ ToReturn # LaneDone
  BY <1>1, <1>2
<1>7. ToReturn # <<>>
  BY <1>2
<1> QED BY <1>4, <1>5, <1>6, <1>7, Zenon DEF LaneEndings

\* The other turns do not notice.
LEMMA Others ==
  ASSUME NEW d \in Chats, TurnOK(d), UNCHANGED lane, chat'[d] = chat[d], chan'[d] = chan[d],
         last'[d] = last[d], told'[d] = told[d], flag'[d] = flag[d], late'[d] = late[d],
         d \in gone' <=> d \in gone
  PROVE  TurnOK(d)'
<1>1. Shape(d)' BY DEF TurnOK, Shape
<1>2. Outcome(d)' BY DEF TurnOK, Outcome, Agree
<1>3. Stopped(d)' BY DEF TurnOK, Stopped, AllowedAt
<1> QED BY <1>1, <1>2, <1>3 DEF TurnOK

\* The ids only depend on who has which and who is underway.
LEMMA IdsOnly ==
  ASSUME Ids, UNCHANGED <<registry, next_id>>,
         \A d \in Chats : chat'[d].id = chat[d].id /\ (Underway(d)' <=> Underway(d))
  PROVE  Ids'
<1>1. {d \in Chats : chat'[d].id # 0} = {d \in Chats : chat[d].id # 0}
  OBVIOUS
<1>2. {chat'[d].id : d \in {x \in Chats : Underway(x)'}} = {chat[d].id : d \in {x \in Chats : Underway(x)}}
  OBVIOUS
<1>3. DOMAIN registry' = {chat'[d].id : d \in {x \in Chats : Underway(x)'}}
  BY <1>2 DEF Ids
<1>4. \A i \in DOMAIN registry' : registry'[i] \in Chats /\ chat'[registry'[i]].id = i
  BY DEF Ids
<1>5. next_id' = 1 + Cardinality({d \in Chats : chat'[d].id # 0})
      /\ IsFiniteSet({d \in Chats : chat'[d].id # 0})
  BY <1>1 DEF Ids
<1>6. \A d \in Chats : chat'[d].id < next_id'
  BY DEF Ids
<1>7. \A d, f \in Chats : chat'[d].id = chat'[f].id /\ chat'[d].id # 0 => d = f
  <2>1. \A d, f \in Chats : chat[d].id = chat[f].id /\ chat[d].id # 0 => d = f
    BY DEF Ids
  <2> QED BY <2>1
<1> QED BY <1>3, <1>4, <1>5, <1>6, <1>7 DEF Ids

\* A turn that stays underway changes neither the ids nor what the flag stands for.
LEMMA StaysUnderway ==
  ASSUME TurnInv, HInv, NEW c \in Chats, NEW e, chat' = [chat EXCEPT ![c] = e],
         UNCHANGED <<lane, registry, next_id, active, talking>>,
         e.id = chat[c].id, chat[c].pc \notin {"idle", "over"}, e.pc \notin {"idle", "over"},
         Underway(c) <=> Underway(c)'
  PROVE  (Ids /\ Raised)'
<1>1. chat'[c] = e /\ (\A d \in Chats : d # c => chat'[d] = chat[d])
  BY DEF HInv, Types
<1>2. \A d \in Chats : chat'[d].id = chat[d].id
  BY <1>1
<1>3. \A d \in Chats : Underway(d)' <=> Underway(d)
  BY <1>1 DEF Underway
<1>4. Ids'
  BY <1>2, <1>3, IdsOnly DEF TurnInv
<1>5. Raised'
  BY <1>1 DEF TurnInv, Raised
<1> QED BY <1>4, <1>5

\* A turn at work takes a step: it sends nothing or a delta, tells nothing, and may begin to
\* end.
LEMMA Works ==
  ASSUME TurnInv, HInv, NEW c \in Chats, NEW e \in Place, chat' = [chat EXCEPT ![c] = e],
         UNCHANGED <<lane, gone, registry, next_id, active, talking, told>>,
         chat[c].pc \notin {"idle", "ending", "over"}, e.pc \notin {"idle", "over"},
         e.id = chat[c].id,
         UNCHANGED last \/ last' = [last EXCEPT ![c] = None],
         NEW n \in 0 .. Room, chan' = [chan EXCEPT ![c] = n],
         NEW f \in BOOLEAN, flag' = [flag EXCEPT ![c] = f],
         NEW l \in Nat, late' = [late EXCEPT ![c] = l],
         Shape(c)', Stopped(c)',
         e.pc = "ending" /\ lane # "qwen36"
           => e.todo \in {Answered, Cancelled, Broken} \/ (e.todo = TellCancelled /\ c \in gone)
  PROVE  TurnInv'
<1>1. chat'[c] = e /\ (\A d \in Chats : d # c => chat'[d] = chat[d])
  BY DEF HInv, Types
<1>2. \A d \in Chats : d # c => /\ chan'[d] = chan[d] /\ last'[d] = last[d]
                                /\ flag'[d] = flag[d] /\ late'[d] = late[d]
  BY DEF TurnInv, Kept
<1>3. Kept'
  <2>1. chan' \in [Chats -> Nat] /\ flag' \in [Chats -> BOOLEAN] /\ late' \in [Chats -> Nat]
    BY ChatAssumption DEF TurnInv, Kept
  <2>2. last' = [d \in Chats |-> last'[d]]
    BY DEF TurnInv, Kept
  <2> QED BY <2>1, <2>2 DEF TurnInv, Kept
<1>4. Outcome(c)'
  <2>1. SUFFICES ASSUME lane # "qwen36" PROVE Outcome(c)'
    BY DEF Outcome
  <2>2. Outcome(c)
    BY DEF TurnInv, TurnOK
  <2>3. told[c] = <<>> /\ last[c] = None
    BY <2>1, <2>2 DEF Outcome
  <2>4. last'[c] = None
    BY <2>3 DEF TurnInv, Kept
  <2>5. e.pc = "ending" => /\ e.todo \notin {ToRemove, ToReturn, TellDone}
                           /\ e.todo = TellCancelled => c \in gone
    BY <2>1, Differ
  <2> QED BY <1>1, <2>1, <2>3, <2>4, <2>5 DEF Outcome
<1>5. \A d \in Chats : TurnOK(d)'
  <2>1. ASSUME NEW d \in Chats, d # c PROVE TurnOK(d)'
    <3>1. TurnOK(d)
      BY DEF TurnInv
    <3> QED BY <1>1, <1>2, <2>1, <3>1, Others
  <2> QED BY <1>4, <2>1 DEF TurnOK
<1>6. (Ids /\ Raised)'
  <2>1. Underway(c)
    <3>1. chat[c].id # 0
      BY DEF TurnInv, TurnOK, Shape
    <3> QED BY <3>1 DEF Underway
  <2>2. Underway(c)'
    <3>1. e.pc = "ending" => e.todo # ToReturn
      <4>1. CASE lane # "qwen36"
        BY <4>1, Differ
      <4>2. CASE lane = "qwen36"
        <5>1. e.pc = "ending" => e.todo \in LaneEndings
          BY <1>1, <4>2 DEF Shape
        <5>2. \A s \in LaneEndings : s # ToReturn
          BY Table, LaneTable DEF LaneEndings
        <5> QED BY <5>1, <5>2
      <4> QED BY <4>1, <4>2
    <3> QED BY <1>1, <2>1, <3>1 DEF Underway
  <2> QED BY <2>1, <2>2, StaysUnderway
<1> QED BY <1>3, <1>5, <1>6 DEF TurnInv

LEMMA EndingsTyped == L1Endings \cup LaneEndings \subseteq Seq(Steps)
<1>1. \A a, b, c, d \in Steps : <<a, b, c, d>> \in Seq(Steps)
  OBVIOUS
<1>2. \A a, b, c \in Steps : <<a, b, c>> \in Seq(Steps)
  OBVIOUS
<1>3. \A a, b \in Steps : <<a>> \in Seq(Steps) /\ <<a, b>> \in Seq(Steps)
  OBVIOUS
<1>4. /\ "send DONE" \in Steps /\ "send error" \in Steps /\ "send cancelled" \in Steps
      /\ "tell done" \in Steps /\ "tell cancelled" \in Steps /\ "remove" \in Steps
      /\ "return" \in Steps /\ "unlock" \in Steps
  BY DEF Steps
<1> HIDE DEF Steps
<1>5. Answered \in Seq(Steps) /\ Cancelled \in Seq(Steps) /\ Broken \in Seq(Steps)
  BY <1>1, <1>4 DEF Answered, Cancelled, Broken
<1>6. TellDone \in Seq(Steps) /\ TellCancelled \in Seq(Steps)
  BY <1>2, <1>4 DEF TellDone, TellCancelled
<1>7. ToRemove \in Seq(Steps) /\ ToReturn \in Seq(Steps)
  BY <1>3, <1>4 DEF ToRemove, ToReturn
<1>8. LaneBroken \in Seq(Steps) /\ LaneError \in Seq(Steps) /\ LaneEnd \in Seq(Steps)
  BY <1>1, <1>2, <1>4 DEF LaneBroken, LaneError, LaneEnd
<1>9. LaneDone \in Seq(Steps) /\ LaneRemove \in Seq(Steps)
  BY <1>3, <1>4 DEF LaneDone, LaneRemove
<1> QED BY <1>5, <1>6, <1>7, <1>8, <1>9 DEF L1Endings, LaneEndings

\* It begins to end.
LEMMA WorksEnd ==
  ASSUME TurnInv, HInv, NEW c \in Chats, chat[c].pc \notin {"idle", "ending", "over"},
         NEW s, chat' = [chat EXCEPT ![c].pc = "ending", ![c].todo = s],
         IF lane = "qwen36" THEN s \in LaneEndings
         ELSE s \in {Answered, Cancelled, Broken} \/ (s = TellCancelled /\ c \in gone),
         UNCHANGED <<lane, gone, registry, next_id, active, talking, told>>,
         UNCHANGED last \/ last' = [last EXCEPT ![c] = None],
         NEW n \in 0 .. Room, chan' = [chan EXCEPT ![c] = n],
         NEW f \in BOOLEAN, flag' = [flag EXCEPT ![c] = f],
         NEW l \in Nat, late' = [late EXCEPT ![c] = l],
         f = FALSE => l = 0,
         l <= AllowedAt("ending", chat[c].tokens)
  PROVE  TurnInv'
<1> DEFINE e == [chat[c] EXCEPT !.pc = "ending", !.todo = s]
<1>1. s \in L1Endings \cup LaneEndings /\ (lane # "qwen36" => s \in L1Endings)
  BY DEF L1Endings
<1>2. e \in Place /\ e.pc = "ending" /\ e.todo = s /\ e.id = chat[c].id /\ e.tokens = chat[c].tokens
  <2>1. s \in Seq(Steps)
    BY <1>1, EndingsTyped
  <2> QED BY <2>1 DEF HInv, Types, Place
<1>3. chat' = [chat EXCEPT ![c] = e]
  BY DEF HInv, Types
<1> HIDE DEF e
<1>4. chat'[c] = e
  BY <1>3 DEF HInv, Types
<1>5. chan'[c] = n /\ flag'[c] = f /\ late'[c] = l
  BY DEF TurnInv, Kept
<1>6. Shape(c)'
  <2>1. chat[c].id # 0 /\ chat[c].tokens \in 0 .. MaxTokens
    BY DEF TurnInv, TurnOK, Shape
  <2> QED BY <1>1, <1>2, <1>4, <1>5, <2>1 DEF Shape, Delegated
<1>7. Stopped(c)'
  BY <1>2, <1>4, <1>5 DEF Stopped, AllowedAt
<1> QED BY <1>2, <1>3, <1>6, <1>7, Works

\* It goes on.
LEMMA WorksGo ==
  ASSUME TurnInv, HInv, NEW c \in Chats, chat[c].pc \notin {"idle", "ending", "over"},
         NEW pc \in {"prefill", "emit", "send", "step", "flush", "close"} \cup Delegated,
         NEW k \in 0 .. MaxTokens,
         chat' = [chat EXCEPT ![c].pc = pc, ![c].tokens = k],
         pc = "send" => lane = "qwen36", pc \in Delegated => lane = "resident" /\ k = 0,
         pc \in {"prefill", "delegated", "emit", "send", "step"} => k < MaxTokens,
         UNCHANGED <<lane, gone, registry, next_id, active, talking, told>>,
         UNCHANGED last \/ last' = [last EXCEPT ![c] = None],
         NEW n \in 0 .. Room, chan' = [chan EXCEPT ![c] = n],
         UNCHANGED flag,
         NEW l \in Nat, late' = [late EXCEPT ![c] = l],
         flag[c] = FALSE => l = 0,
         l <= AllowedAt(pc, k)
  PROVE  TurnInv'
<1> DEFINE e == [chat[c] EXCEPT !.pc = pc, !.tokens = k]
<1>1. chat[c] \in Place
  BY DEF HInv, Types
<1>2. /\ e \in Place /\ e.pc = pc /\ e.todo = chat[c].todo /\ e.id = chat[c].id
      /\ e.tokens = k
  <2>1. k \in Nat /\ pc \in Working \cup Delegated \cup {"idle", "start", "ending", "over"}
    BY ChatAssumption DEF Working
  <2> QED BY <1>1, <2>1 DEF Place
<1>3. chat' = [chat EXCEPT ![c] = e]
  BY DEF HInv, Types
<1> HIDE DEF e
<1>4. chat'[c] = e
  BY <1>3 DEF HInv, Types
<1>5. chan'[c] = n /\ late'[c] = l /\ flag[c] \in BOOLEAN
  BY DEF TurnInv, Kept
<1>6. Shape(c)'
  <2>1. chat[c].id # 0 /\ chat[c].todo = <<>>
    BY DEF TurnInv, TurnOK, Shape
  <2> QED BY <1>2, <1>4, <1>5, <2>1 DEF Shape, Delegated
<1>7. Stopped(c)'
  <2>1. chat'[c].pc = pc /\ chat'[c].tokens = k /\ lane' = lane /\ flag'[c] = flag[c]
    BY <1>2, <1>4
  <2>2. l <= AllowedAt(pc, k)'
    BY <2>1 DEF AllowedAt
  <2> QED BY <1>5, <2>1, <2>2 DEF Stopped
<1>8. flag' = [flag EXCEPT ![c] = flag[c]]
  BY DEF TurnInv, Kept
<1> QED BY <1>2, <1>3, <1>5, <1>6, <1>7, <1>8, Works DEF Delegated, Working

\* What is known of a turn, and what sending a delta does.
LEMMA Known ==
  ASSUME TurnInv, NEW c \in Chats
  PROVE  /\ chan[c] \in 0 .. Room /\ chan = [chan EXCEPT ![c] = chan[c]]
         /\ late[c] \in Nat /\ late = [late EXCEPT ![c] = late[c]]
         /\ flag[c] \in BOOLEAN /\ flag = [flag EXCEPT ![c] = flag[c]]
         /\ flag[c] = FALSE => late[c] = 0
         /\ late[c] <= AllowedAt(chat[c].pc, chat[c].tokens)
         /\ chat[c].tokens \in 0 .. MaxTokens
         /\ chat[c].pc \in {"idle", "start", "delegated", "prefill", "emit", "send", "step"}
            => chat[c].tokens < MaxTokens
<1>1. TurnOK(c) /\ Kept BY DEF TurnInv
<1> QED BY <1>1 DEF TurnOK, Shape, Stopped, Kept

LEMMA DeltaIs ==
  ASSUME TurnInv, NEW c \in Chats, CanSend(c), Delta(c)
  PROVE  \E n \in 0 .. Room, l \in Nat :
           /\ chan' = [chan EXCEPT ![c] = n] /\ late' = [late EXCEPT ![c] = l]
           /\ l = late[c] \/ l = late[c] + 1
           /\ flag[c] = FALSE => l = 0
           /\ UNCHANGED last \/ last' = [last EXCEPT ![c] = None]
<1> DEFINE n == IF c \in gone THEN chan[c] ELSE chan[c] + 1
           l == IF flag[c] /\ c \notin gone THEN late[c] + 1 ELSE late[c]
<1>0. chan[c] \in 0 .. Room /\ late[c] \in Nat /\ (flag[c] = FALSE => late[c] = 0)
  BY Known, Zenon
<1>1. n \in 0 .. Room
  <2>1. c \in gone \/ chan[c] < Room
    BY DEF CanSend
  <2>2. Room \in Nat
    BY ChatAssumption
  <2> QED BY <1>0, <2>1, <2>2
<1>2. chan' = [chan EXCEPT ![c] = n] /\ (UNCHANGED last \/ last' = [last EXCEPT ![c] = None])
  BY Known DEF Delta, Sent
<1>3. late' = [late EXCEPT ![c] = l]
  BY DEF Delta
<1>4. l = late[c] \/ l = late[c] + 1
  BY Zenon
<1>5. l \in Nat
  <2>1. late[c] \in Nat /\ late[c] + 1 \in Nat
    BY <1>0
  <2> HIDE DEF l
  <2> QED BY <1>4, <2>1
<1>6. flag[c] = FALSE => l = 0
  BY <1>0
<1> HIDE DEF n, l
<1> QED BY <1>1, <1>2, <1>3, <1>4, <1>5, <1>6

\* Where a turn goes, and the list that each way to end begins with.
LEMMA GotoIs ==
  ASSUME HInv, NEW c \in Chats, NEW pc, Goto(c, pc)
  PROVE  chat' = [chat EXCEPT ![c].pc = pc, ![c].tokens = chat[c].tokens]
<1>1. chat[c] \in Place /\ chat \in [Chats -> Place]
  BY DEF HInv, Types
<1>2. [chat[c] EXCEPT !.pc = pc] = [chat[c] EXCEPT !.pc = pc, !.tokens = chat[c].tokens]
  BY <1>1 DEF Place
<1> QED BY <1>1, <1>2 DEF Goto

Ending(c, s) == chat' = [chat EXCEPT ![c].pc = "ending", ![c].todo = s]

LEMMA FinishIs ==
  ASSUME NEW c
  PROVE  /\ Finish(c, <<>>) /\ lane = "qwen36" => Ending(c, LaneEnd)
         /\ Finish(c, <<"send DONE", "tell done">>) /\ lane # "qwen36" => Ending(c, Answered)
         /\ Finish(c, <<"send cancelled", "tell cancelled">>) /\ lane # "qwen36"
            => Ending(c, Cancelled)
         /\ Finish(c, <<"tell cancelled">>) /\ lane # "qwen36" => Ending(c, TellCancelled)
         /\ Failed(c) => Ending(c, IF lane = "qwen36" THEN LaneBroken ELSE Broken)
<1>1. Finish(c, <<>>) /\ lane = "qwen36" => Ending(c, LaneEnd)
  BY Joined, Zenon DEF Finish, Ending
<1>2. Finish(c, <<"send DONE", "tell done">>) /\ lane # "qwen36" => Ending(c, Answered)
  BY Joined, Zenon DEF Finish, Ending
<1>3. Finish(c, <<"send cancelled", "tell cancelled">>) /\ lane # "qwen36" => Ending(c, Cancelled)
  BY Joined, Zenon DEF Finish, Ending
<1>4. Finish(c, <<"tell cancelled">>) /\ lane # "qwen36" => Ending(c, TellCancelled)
  BY Joined, Zenon DEF Finish, Ending
<1>5. Failed(c) => Ending(c, IF lane = "qwen36" THEN LaneBroken ELSE Broken)
  <2>1. CASE lane = "qwen36"
    BY <2>1, Joined, Zenon DEF Failed, Finish, Ending
  <2>2. CASE lane # "qwen36"
    BY <2>2, Joined, Zenon DEF Failed, Finish, Ending
  <2> QED BY <2>1, <2>2
<1> QED BY <1>1, <1>2, <1>3, <1>4, <1>5

\* A call that fails, whatever was late by then.
LEMMA FailsToEnd ==
  ASSUME TurnInv, HInv, NEW c \in Chats, chat[c].pc \in {"start", "prefill", "step"}, Failed(c),
         UNCHANGED <<lane, registry, next_id, flag, chan, last, told, late, gone, active, talking>>
  PROVE  TurnInv'
<1> DEFINE s == IF lane = "qwen36" THEN LaneBroken ELSE Broken
<1>1. Ending(c, s)
  BY FinishIs
<1>2. late[c] <= AllowedAt("ending", chat[c].tokens)
  <2>1. late[c] <= AllowedAt(chat[c].pc, chat[c].tokens) /\ late[c] \in Nat /\ chat[c].tokens \in 0 .. MaxTokens
        /\ chat[c].tokens < MaxTokens
    BY Known
  <2>2. MaxTokens \in Nat
    BY ChatAssumption
  <2>3. CASE lane = "qwen36"
    BY <2>1, <2>3 DEF AllowedAt
  <2>4. CASE lane = "generic"
    BY <2>1, <2>4 DEF AllowedAt
  <2>5. CASE lane \notin {"qwen36", "generic"}
    BY <2>1, <2>2, <2>5, LongestIs DEF AllowedAt
  <2> QED BY <2>3, <2>4, <2>5
<1>3. IF lane = "qwen36" THEN s \in LaneEndings ELSE s \in {Answered, Cancelled, Broken}
  BY DEF LaneEndings
<1> HIDE DEF s
<1>4. chat' = [chat EXCEPT ![c].pc = "ending", ![c].todo = s]
  BY <1>1 DEF Ending
<1>5. /\ chan' = [chan EXCEPT ![c] = chan[c]] /\ late' = [late EXCEPT ![c] = late[c]]
      /\ flag' = [flag EXCEPT ![c] = flag[c]] /\ chan[c] \in 0 .. Room /\ flag[c] \in BOOLEAN
      /\ late[c] \in Nat /\ (flag[c] = FALSE => late[c] = 0)
  BY Known
<1> QED BY <1>2, <1>3, <1>4, <1>5, WorksEnd

\* A turn that goes on without sending.
LEMMA GoesOn ==
  ASSUME TurnInv, HInv, NEW c \in Chats, chat[c].pc \notin {"idle", "ending", "over"},
         NEW pc \in {"prefill", "emit", "send", "step", "flush", "close"} \cup Delegated,
         Goto(c, pc),
         pc = "send" => lane = "qwen36",
         pc \in Delegated => lane = "resident" /\ chat[c].tokens = 0,
         pc \in {"prefill", "delegated", "emit", "send", "step"}
           => chat[c].pc \in {"start", "delegated", "prefill", "emit", "send", "step"},
         UNCHANGED <<lane, registry, next_id, flag, chan, last, told, late, gone, active, talking>>,
         late[c] <= AllowedAt(pc, chat[c].tokens)
  PROVE  TurnInv'
<1>1. chat' = [chat EXCEPT ![c].pc = pc, ![c].tokens = chat[c].tokens]
  BY GotoIs
<1>2. /\ chan' = [chan EXCEPT ![c] = chan[c]] /\ late' = [late EXCEPT ![c] = late[c]]
      /\ chan[c] \in 0 .. Room /\ flag[c] \in BOOLEAN
      /\ late[c] \in Nat /\ (flag[c] = FALSE => late[c] = 0)
      /\ chat[c].tokens \in 0 .. MaxTokens
      /\ chat[c].pc \in {"idle", "start", "delegated", "prefill", "emit", "send", "step"}
         => chat[c].tokens < MaxTokens
  BY Known
<1> DEFINE k == chat[c].tokens  l == late[c]  n == chan[c]
<1>3. /\ chat' = [chat EXCEPT ![c].pc = pc, ![c].tokens = k]
      /\ chan' = [chan EXCEPT ![c] = n] /\ late' = [late EXCEPT ![c] = l]
      /\ n \in 0 .. Room /\ l \in Nat /\ (flag[c] = FALSE => l = 0) /\ k \in 0 .. MaxTokens
      /\ pc \in {"prefill", "delegated", "emit", "send", "step"} => k < MaxTokens
  <2>1. pc \in {"prefill", "delegated", "emit", "send", "step"} => k < MaxTokens
    BY <1>2
  <2> QED BY <1>1, <1>2, <2>1, Zenon
<1>4. l <= AllowedAt(pc, k)
  OBVIOUS
<1>5. pc \in Delegated => lane = "resident" /\ k = 0
  OBVIOUS
<1> HIDE DEF k, l, n
<1> QED BY <1>3, <1>4, <1>5, WorksGo

-----------------------------------------------------------------------------
(***************************************************************************)
(* The steps of a turn, one by one.                                        *)
(***************************************************************************)
\* The bound, lane by lane.
LEMMA Allows ==
  ASSUME NEW pc, NEW k
  PROVE  /\ lane = "qwen36" => AllowedAt(pc, k) = IF pc = "send" THEN 0 ELSE 1
         /\ lane = "generic" => AllowedAt(pc, k) =
               IF pc \in {"idle", "start", "prefill", "emit"} THEN 0
               ELSE IF pc \in {"step", "flush"} THEN 1 ELSE 2
         /\ lane \notin {"qwen36", "generic"} => AllowedAt(pc, k) =
               IF pc \in {"idle", "start", "delegated", "prefill", "emit"} THEN k
               ELSE IF pc = "step" THEN k + 1
               ELSE IF pc = "answer" THEN 1 ELSE IF pc = "mark" THEN 2
               ELSE IF pc = "flush" THEN MaxTokens ELSE Longest
BY DEF AllowedAt

LEMMA StartKeeps ==
  ASSUME TurnInv, HInv, NEW c \in Chats, Start(c)
  PROVE  TurnInv'
<1>1. /\ chat[c].pc = "start"
      /\ UNCHANGED <<lane, registry, next_id, flag, chan, last, told, late, gone, active, talking>>
  BY DEF Start, minerVars
<1>2. CASE Failed(c)
  BY <1>1, <1>2, FailsToEnd
<1>3. CASE Goto(c, "prefill")
  <2>1. late[c] <= AllowedAt("prefill", chat[c].tokens)
    BY <1>1, Known DEF AllowedAt
  <2> QED BY <1>1, <1>3, <2>1, GoesOn DEF Delegated
<1>4. CASE Goto(c, "delegated") /\ lane = "resident"
  <2>1. late[c] <= AllowedAt("delegated", chat[c].tokens)
    BY <1>1, <1>4, Known DEF AllowedAt
  <2>2. chat[c].tokens = 0
    BY <1>1 DEF TurnInv, TurnOK, Shape
  <2> QED BY <1>1, <1>4, <2>1, <2>2, GoesOn DEF Delegated
<1> QED BY <1>2, <1>3, <1>4 DEF Start

\* A canned answer, or another model's.
LEMMA DelegateKeeps ==
  ASSUME TurnInv, HInv, NEW c \in Chats, Delegate(c) \/ Decline(c)
  PROVE  TurnInv'
<1> DEFINE Told == Finish(c, <<"send DONE", "tell done">>)
<1>1. /\ lane = "resident" /\ CanSend(c) /\ Delta(c)
      /\ UNCHANGED <<lane, registry, next_id, flag, told, gone, active, talking>>
      /\ \/ chat[c].pc \in {"delegated", "mark", "prefill"} /\ Told
         \/ chat[c].pc = "delegated" /\ Goto(c, "answer")
         \/ chat[c].pc = "answer" /\ Goto(c, "mark")
  <2>1. chat[c].pc \in Delegated => lane = "resident"
    BY DEF TurnInv, TurnOK, Shape
  <2> QED BY <2>1 DEF Delegate, Decline, minerVars, Delegated
<1>2. PICK n \in 0 .. Room, l \in Nat :
           /\ chan' = [chan EXCEPT ![c] = n] /\ late' = [late EXCEPT ![c] = l]
           /\ l = late[c] \/ l = late[c] + 1
           /\ flag[c] = FALSE => l = 0
           /\ UNCHANGED last \/ last' = [last EXCEPT ![c] = None]
  BY <1>1, DeltaIs
<1>3. /\ late[c] \in Nat /\ late[c] <= AllowedAt(chat[c].pc, chat[c].tokens)
      /\ chat[c].tokens \in 0 .. MaxTokens /\ MaxTokens \in Nat \ {0}
  BY Known, ChatAssumption, Zenon
<1>4. /\ chat[c].pc \in {"delegated", "prefill"} => AllowedAt(chat[c].pc, chat[c].tokens) = chat[c].tokens
      /\ chat[c].pc = "answer" => AllowedAt(chat[c].pc, chat[c].tokens) = 1
      /\ chat[c].pc = "mark" => AllowedAt(chat[c].pc, chat[c].tokens) = 2
      /\ AllowedAt("answer", 0) = 1 /\ AllowedAt("mark", 0) = 2
      /\ AllowedAt("ending", chat[c].tokens) = Longest
  BY <1>1, Allows
<1>5. flag' = [flag EXCEPT ![c] = flag[c]] /\ flag[c] \in BOOLEAN /\ UNCHANGED flag
  BY <1>1, Known
<1>6. CASE chat[c].pc \in {"delegated", "mark", "prefill"} /\ Told
  <2>1. l <= AllowedAt("ending", chat[c].tokens)
    <3>1. l <= late[c] + 1 /\ late[c] + 1 <= Longest
      <4>1. late[c] <= MaxTokens \/ late[c] <= 2
        <5>1. late[c] <= chat[c].tokens \/ late[c] <= 2
          BY <1>3, <1>4, <1>6, Zenon
        <5> QED BY <1>3, <5>1
      <4> QED BY <1>2, <1>3, <4>1, LongestIs
    <3> QED BY <1>3, <1>4, <3>1, LongestIs
  <2>2. chat' = [chat EXCEPT ![c].pc = "ending", ![c].todo = Answered]
    BY <1>1, <1>6, FinishIs DEF Ending
  <2>3. chat[c].pc \notin {"idle", "ending", "over"} /\ lane # "qwen36"
    BY <1>1, <1>6
  <2> QED BY <1>1, <1>2, <1>5, <2>1, <2>2, <2>3, WorksEnd
<1>7. ASSUME NEW pc \in {"answer", "mark"}, Goto(c, pc), chat[c].pc \in {"delegated", "answer"},
             pc = IF chat[c].pc = "delegated" THEN "answer" ELSE "mark"
      PROVE  TurnInv'
  <2>1. chat[c].tokens = 0
    BY <1>7 DEF TurnInv, TurnOK, Shape, Delegated
  <2>2. chat' = [chat EXCEPT ![c].pc = pc, ![c].tokens = 0]
    BY <1>7, <2>1, GotoIs
  <2>3. l <= AllowedAt(pc, 0)
    BY <1>2, <1>3, <1>4, <1>7, <2>1
  <2>4. pc \in Delegated /\ 0 \in 0 .. MaxTokens
    BY <1>3 DEF Delegated
  <2>5. chat[c].pc \notin {"idle", "ending", "over"}
    BY <1>7
  <2>6. pc # "send" /\ pc \notin {"prefill", "delegated", "emit", "send", "step"}
    OBVIOUS
  <2> QED BY <1>1, <1>2, <1>5, <2>2, <2>3, <2>4, <2>5, <2>6, WorksGo
<1> HIDE DEF Told
<1> QED BY <1>1, <1>6, <1>7

LEMMA PrefillKeeps ==
  ASSUME TurnInv, HInv, NEW c \in Chats, Prefill(c)
  PROVE  TurnInv'
<1>1. /\ chat[c].pc = "prefill"
      /\ UNCHANGED <<lane, registry, next_id, flag, chan, last, told, late, gone, active, talking>>
  BY DEF Prefill, minerVars
<1>2. CASE Failed(c)
  BY <1>1, <1>2, FailsToEnd
<1>3. CASE Goto(c, "emit")
  <2>1. late[c] <= AllowedAt("emit", chat[c].tokens)
    BY <1>1, Known DEF AllowedAt
  <2> QED BY <1>1, <1>3, <2>1, GoesOn DEF Delegated
<1> QED BY <1>2, <1>3 DEF Prefill

LEMMA PollKeeps ==
  ASSUME TurnInv, HInv, NEW c \in Chats, Poll(c)
  PROVE  TurnInv'
<1>1. /\ chat[c].pc = "emit" /\ lane = "qwen36"
      /\ UNCHANGED <<lane, registry, next_id, flag, chan, last, told, late, gone, active, talking>>
  BY DEF Poll, minerVars
<1>2. CASE flag[c]
  <2>1. Ending(c, LaneEnd)
    BY <1>1, <1>2, FinishIs DEF Poll
  <2>2. late[c] <= AllowedAt("ending", chat[c].tokens)
    BY <1>1, Known DEF AllowedAt
  <2>3. /\ chan' = [chan EXCEPT ![c] = chan[c]] /\ late' = [late EXCEPT ![c] = late[c]]
        /\ flag' = [flag EXCEPT ![c] = flag[c]] /\ chan[c] \in 0 .. Room /\ flag[c] \in BOOLEAN
        /\ late[c] \in Nat /\ (flag[c] = FALSE => late[c] = 0)
    BY <1>1, Known
  <2>4. LaneEnd \in LaneEndings
    BY DEF LaneEndings
  <2> QED BY <1>1, <2>1, <2>2, <2>3, <2>4, WorksEnd DEF Ending
<1>3. CASE ~flag[c]
  <2>1. late[c] <= AllowedAt("send", chat[c].tokens)
    <3>1. late[c] = 0
      BY <1>3, Known, Zenon
    <3> QED BY <1>1, <3>1, Allows
  <2>2. Goto(c, "send")
    BY <1>3 DEF Poll
  <2> QED BY <1>1, <2>1, <2>2, GoesOn DEF Delegated
<1> QED BY <1>2, <1>3

LEMMA EndOfTurnKeeps ==
  ASSUME TurnInv, HInv, NEW c \in Chats, EndOfTurn(c)
  PROVE  TurnInv'
<1>1. /\ chat[c].pc = "emit" /\ Goto(c, "flush")
      /\ UNCHANGED <<lane, registry, next_id, flag, chan, last, told, late, gone, active, talking>>
  BY DEF EndOfTurn, minerVars
<1>2. late[c] <= AllowedAt("flush", chat[c].tokens)
  <2>1. /\ late[c] \in Nat /\ late[c] <= AllowedAt("emit", chat[c].tokens)
        /\ chat[c].tokens \in 0 .. MaxTokens /\ MaxTokens \in Nat
    BY <1>1, Known, ChatAssumption, Zenon
  <2>2. CASE lane = "qwen36"
    BY <2>1, <2>2, Allows
  <2>3. CASE lane = "generic"
    BY <2>1, <2>3, Allows
  <2>4. CASE lane \notin {"qwen36", "generic"}
    BY <2>1, <2>4, Allows
  <2> QED BY <2>2, <2>3, <2>4
<1> QED BY <1>1, <1>2, GoesOn DEF Delegated

LEMMA EmitKeeps ==
  ASSUME TurnInv, HInv, NEW c \in Chats, Emit(c)
  PROVE  TurnInv'
<1>1. /\ chat[c].pc \in {"emit", "send"} /\ (chat[c].pc = "send" <=> lane = "qwen36")
      /\ UNCHANGED <<lane, registry, next_id, told, gone, active, talking>>
  BY DEF Emit, minerVars
<1>2. /\ late[c] \in Nat /\ late[c] <= AllowedAt(chat[c].pc, chat[c].tokens)
      /\ chat[c].tokens \in 0 .. MaxTokens /\ chat[c].tokens < MaxTokens
  BY <1>1, Known
<1>3. CASE Goto(c, "step") /\ UNCHANGED <<flag, chan, last, late>>
  <2>1. late[c] <= AllowedAt("step", chat[c].tokens)
    BY <1>1, <1>2 DEF AllowedAt
  <2> QED BY <1>1, <1>3, <2>1, GoesOn DEF Delegated
<1>4. CASE CanSend(c) /\ Delta(c)
  <2>1. PICK n \in 0 .. Room, l \in Nat :
           /\ chan' = [chan EXCEPT ![c] = n] /\ late' = [late EXCEPT ![c] = l]
           /\ l = late[c] \/ l = late[c] + 1
           /\ flag[c] = FALSE => l = 0
           /\ UNCHANGED last \/ last' = [last EXCEPT ![c] = None]
    BY <1>4, DeltaIs
  <2>2. l <= AllowedAt("step", chat[c].tokens)
    BY <1>1, <1>2, <2>1 DEF AllowedAt
  <2>3. lane # "qwen36" => l <= AllowedAt("flush", chat[c].tokens)
    BY <1>1, <1>2, <2>1, ChatAssumption DEF AllowedAt
  <2>4. CASE c \in gone /\ Finish(c, IF lane = "qwen36" THEN <<>> ELSE <<"tell cancelled">>)
             /\ flag' = [flag EXCEPT ![c] = @ \/ lane # "qwen36"]
    <3> DEFINE s == IF lane = "qwen36" THEN LaneEnd ELSE TellCancelled
               f == flag[c] \/ lane # "qwen36"
    <3>1. chat' = [chat EXCEPT ![c].pc = "ending", ![c].todo = s]
      BY <2>4, FinishIs DEF Ending
    <3>2. l <= AllowedAt("ending", chat[c].tokens)
      BY <1>1, <1>2, <2>1, ChatAssumption, LongestIs DEF AllowedAt
    <3>3. flag' = [flag EXCEPT ![c] = f] /\ f \in BOOLEAN /\ (f = FALSE => flag[c] = FALSE)
      <4>1. flag[c] \in BOOLEAN
        BY Known
      <4> QED BY <2>4, <4>1
    <3>4. IF lane = "qwen36" THEN s \in LaneEndings
          ELSE s \in {Answered, Cancelled, Broken} \/ (s = TellCancelled /\ c \in gone)
      BY <2>4 DEF LaneEndings
    <3>5. chat[c].pc \notin {"idle", "ending", "over"}
      BY <1>1
    <3>6. f = FALSE => l = 0
      BY <2>1, <3>3, Zenon
    <3> HIDE DEF s, f
    <3> QED BY <1>1, <2>1, <3>1, <3>2, <3>3, <3>4, <3>5, <3>6, WorksEnd
  <2>5. ASSUME UNCHANGED flag, NEW pc \in {"step", "flush"}, Goto(c, pc),
               pc = "flush" => lane # "qwen36"
        PROVE  TurnInv'
    <3> DEFINE k == chat[c].tokens
    <3>1. chat' = [chat EXCEPT ![c].pc = pc, ![c].tokens = k]
      BY <2>5, GotoIs
    <3>2. /\ k \in 0 .. MaxTokens /\ k < MaxTokens
          /\ chat[c].pc \notin {"idle", "ending", "over"}
      BY <1>1, <1>2
    <3>3. l <= AllowedAt(pc, k)
      BY <2>2, <2>3, <2>5
    <3> HIDE DEF k
    <3> QED BY <1>1, <2>1, <2>5, <3>1, <3>2, <3>3, WorksGo DEF Delegated
  <2>6. \/ c \in gone /\ Finish(c, IF lane = "qwen36" THEN <<>> ELSE <<"tell cancelled">>)
             /\ flag' = [flag EXCEPT ![c] = @ \/ lane # "qwen36"]
        \/ UNCHANGED flag /\ Goto(c, "step")
        \/ UNCHANGED flag /\ Goto(c, "flush") /\ lane # "qwen36"
        \/ Goto(c, "step") /\ UNCHANGED <<flag, chan, last, late>>
    BY DEF Emit
  <2> QED BY <1>3, <2>4, <2>5, <2>6
<1> QED BY <1>3, <1>4 DEF Emit

LEMMA DecodeKeeps ==
  ASSUME TurnInv, HInv, NEW c \in Chats, Decode(c)
  PROVE  TurnInv'
<1>1. /\ chat[c].pc = "step"
      /\ UNCHANGED <<lane, registry, next_id, flag, chan, last, told, late, gone, active, talking>>
  BY DEF Decode, minerVars
<1>2. /\ late[c] \in Nat /\ late[c] <= AllowedAt(chat[c].pc, chat[c].tokens)
      /\ flag[c] \in BOOLEAN /\ (flag[c] = FALSE => late[c] = 0)
      /\ chat[c].tokens \in 0 .. MaxTokens /\ chat[c].tokens < MaxTokens
  BY <1>1, Known
<1>3. CASE Failed(c)
  BY <1>1, <1>3, FailsToEnd
<1>4. CASE Goto(c, "flush")
  <2>1. late[c] <= AllowedAt("flush", chat[c].tokens)
    <3>1. CASE lane = "qwen36"
      BY <1>1, <1>2, <3>1, Allows, ChatAssumption
    <3>2. CASE lane = "generic"
      BY <1>1, <1>2, <3>2, Allows, ChatAssumption
    <3>3. CASE lane \notin {"qwen36", "generic"}
      BY <1>1, <1>2, <3>3, Allows, ChatAssumption
    <3> QED BY <3>1, <3>2, <3>3
  <2> QED BY <1>1, <1>4, <2>1, GoesOn DEF Delegated
<1>5. CASE /\ ~Interrupted(c)
           /\ chat' = [chat EXCEPT ![c].tokens = @ + 1,
                                   ![c].pc = IF chat[c].tokens + 1 < MaxTokens THEN "emit" ELSE "flush"]
  <2> DEFINE k == chat[c].tokens + 1
             pc == IF k < MaxTokens THEN "emit" ELSE "flush"
             l == late[c]  n == chan[c]
  <2>1. k \in 0 .. MaxTokens
    BY <1>2, ChatAssumption
  <2>2. chat' = [chat EXCEPT ![c].pc = pc, ![c].tokens = k]
    <3>1. chat[c] \in Place /\ chat \in [Chats -> Place]
      BY DEF HInv, Types
    <3>2. [chat[c] EXCEPT !.pc = pc, !.tokens = k] = [chat[c] EXCEPT !.tokens = k, !.pc = pc]
      BY <3>1 DEF Place
    <3> QED BY <1>5, <3>1, <3>2
  <2>3. l <= AllowedAt(pc, k)
    <3>1. CASE lane = "qwen36"
      BY <1>1, <1>2, <3>1 DEF AllowedAt
    <3>2. CASE lane = "generic"
      <4>1. flag[c] = FALSE
        BY <1>2, <1>5, <3>2, Zenon DEF Interrupted
      <4>2. l = 0
        BY <1>2, <4>1, Zenon
      <4> HIDE DEF l
      <4> QED BY <3>2, <4>2, Allows
    <3>3. CASE lane \notin {"qwen36", "generic"}
      BY <1>1, <1>2, <3>3, Allows, ChatAssumption
    <3> QED BY <3>1, <3>2, <3>3
  <2>4. pc \in {"emit", "flush"} /\ (pc # "flush" => k < MaxTokens)
    OBVIOUS
  <2>5. /\ chan' = [chan EXCEPT ![c] = n] /\ late' = [late EXCEPT ![c] = l]
        /\ n \in 0 .. Room /\ l \in Nat /\ (flag[c] = FALSE => l = 0)
    BY <1>1, Known
  <2> HIDE DEF k, pc, l, n
  <2> QED BY <1>1, <2>1, <2>2, <2>3, <2>4, <2>5, WorksGo DEF Delegated
<1> QED BY <1>3, <1>4, <1>5 DEF Decode

LEMMA FlushKeeps ==
  ASSUME TurnInv, HInv, NEW c \in Chats, Flush(c)
  PROVE  TurnInv'
<1>1. /\ chat[c].pc = "flush" /\ Goto(c, "close")
      /\ UNCHANGED <<lane, registry, next_id, flag, told, gone, active, talking>>
  BY DEF Flush, minerVars
<1>2. /\ late[c] \in Nat /\ late[c] <= AllowedAt(chat[c].pc, chat[c].tokens)
      /\ chat[c].tokens \in 0 .. MaxTokens
  BY <1>1, Known
<1>3. CASE UNCHANGED <<chan, last, late>>
  <2>1. late[c] <= AllowedAt("close", chat[c].tokens)
    BY <1>1, <1>2, ChatAssumption, LongestIs DEF AllowedAt
  <2> QED BY <1>1, <1>3, <2>1, GoesOn DEF Delegated
<1>4. CASE lane # "qwen36" /\ CanSend(c) /\ Delta(c)
  <2>1. PICK n \in 0 .. Room, l \in Nat :
           /\ chan' = [chan EXCEPT ![c] = n] /\ late' = [late EXCEPT ![c] = l]
           /\ l = late[c] \/ l = late[c] + 1
           /\ flag[c] = FALSE => l = 0
           /\ UNCHANGED last \/ last' = [last EXCEPT ![c] = None]
    BY <1>4, DeltaIs
  <2> DEFINE k == chat[c].tokens
  <2>2. l <= AllowedAt("close", k)
    BY <1>1, <1>2, <1>4, <2>1, ChatAssumption, LongestIs DEF AllowedAt
  <2>3. chat' = [chat EXCEPT ![c].pc = "close", ![c].tokens = k]
    BY <1>1, GotoIs
  <2>4. k \in 0 .. MaxTokens
    BY <1>2
  <2> HIDE DEF k
  <2> QED BY <1>1, <2>1, <2>2, <2>3, <2>4, WorksGo DEF Delegated
<1> QED BY <1>3, <1>4 DEF Flush

LEMMA CloseKeeps ==
  ASSUME TurnInv, HInv, NEW c \in Chats, Close(c)
  PROVE  TurnInv'
<1>1. /\ chat[c].pc = "close"
      /\ UNCHANGED <<lane, registry, next_id, flag, chan, last, told, late, gone, active, talking>>
  BY DEF Close, minerVars
<1> DEFINE s == IF lane = "qwen36" THEN LaneEnd ELSE IF flag[c] THEN Cancelled ELSE Answered
           l == late[c]  n == chan[c]  f == flag[c]
<1>2. chat' = [chat EXCEPT ![c].pc = "ending", ![c].todo = s]
  BY FinishIs, Zenon DEF Close, Ending
<1>3. l <= AllowedAt("ending", chat[c].tokens)
  BY <1>1, Known DEF AllowedAt
<1>4. /\ chan' = [chan EXCEPT ![c] = n] /\ late' = [late EXCEPT ![c] = l]
      /\ flag' = [flag EXCEPT ![c] = f] /\ n \in 0 .. Room /\ f \in BOOLEAN
      /\ l \in Nat /\ (f = FALSE => l = 0)
  BY <1>1, Known
<1>5. IF lane = "qwen36" THEN s \in LaneEndings ELSE s \in {Answered, Cancelled, Broken}
  BY DEF LaneEndings
<1> HIDE DEF s, l, n, f
<1> QED BY <1>1, <1>2, <1>3, <1>4, <1>5, WorksEnd

LEMMA StoppedIs ==
  ASSUME NEW c, NEW pc, NEW k, NEW l \in Nat, NEW f, UNCHANGED lane,
         chat'[c].pc = pc, chat'[c].tokens = k, late'[c] = l, flag'[c] = f,
         l <= AllowedAt(pc, k), f = FALSE => l = 0
  PROVE  Stopped(c)'
<1>1. CASE lane = "qwen36"
  BY <1>1 DEF Stopped, AllowedAt
<1>2. CASE lane = "generic"
  BY <1>2 DEF Stopped, AllowedAt
<1>3. CASE lane \notin {"qwen36", "generic"}
  BY <1>3 DEF Stopped, AllowedAt
<1> QED BY <1>1, <1>2, <1>3

\* A request is registered under a new id, or turned away with an error.
LEMMA AcceptKeeps ==
  ASSUME TurnInv, HInv, NEW c \in Chats, Accept(c)
  PROVE  TurnInv'
<1>1. chat[c].pc = "idle" /\ UNCHANGED <<lane, flag, told, late, gone, talking>>
  BY DEF Accept, minerVars
<1>2. /\ chat[c].id = 0 /\ chan[c] = 0 /\ c \notin gone /\ chat[c].todo = <<>> /\ late[c] \in Nat
      /\ late[c] <= AllowedAt("idle", chat[c].tokens) /\ (flag[c] = FALSE => late[c] = 0)
      /\ chat[c].tokens \in 0 .. MaxTokens /\ chat[c].tokens < MaxTokens
      /\ chat[c].tokens = 0
      /\ lane # "qwen36" => told[c] = <<>> /\ last[c] = None
  <2>1. TurnOK(c)
    BY DEF TurnInv
  <2> QED BY <1>1, <2>1 DEF TurnOK, Shape, Outcome, Stopped
<1>3. chat \in [Chats -> Place] /\ next_id \in Nat
  BY DEF HInv, Types
<1>4. Ids /\ Raised /\ Kept
  BY DEF TurnInv
<1>5. CASE /\ chat' = [chat EXCEPT ![c].pc = "start", ![c].id = next_id]
           /\ next_id' = next_id + 1
           /\ registry' = [i \in DOMAIN registry \cup {next_id} |->
                              IF i = next_id THEN c ELSE registry[i]]
           /\ active' = (active \/ lane # "qwen36")
           /\ UNCHANGED <<chan, last>>
  <2> DEFINE e == [chat[c] EXCEPT !.pc = "start", !.id = next_id]
             had == {d \in Chats : chat[d].id # 0}
  <2>1. /\ e.pc = "start" /\ e.id = next_id /\ e.todo = <<>> /\ e.tokens = chat[c].tokens
        /\ chat' = [chat EXCEPT ![c] = e]
    BY <1>2, <1>3, <1>5 DEF Place
  <2> HIDE DEF e
  <2>2. chat'[c] = e /\ (\A d \in Chats : d # c => chat'[d] = chat[d])
    BY <1>3, <2>1
  <2>3. /\ \A d \in Chats : chat[d].id < next_id
        /\ \A d, f \in Chats : chat[d].id = chat[f].id /\ chat[d].id # 0 => d = f
        /\ DOMAIN registry = {chat[d].id : d \in {x \in Chats : Underway(x)}}
        /\ \A i \in DOMAIN registry : registry[i] \in Chats /\ chat[registry[i]].id = i
        /\ next_id = 1 + Cardinality(had) /\ IsFiniteSet(had)
    BY <1>4, Zenon DEF Ids
  <2>4. \A d \in Chats : chat[d].id \in Nat
    BY <1>3 DEF Place
  <2>5. next_id > 0 /\ next_id # 0
    BY <1>3, <2>3, <2>4
  <2>6. TurnOK(c)'
    <3>1. Shape(c)'
      BY <1>1, <1>2, <1>5, <2>1, <2>2, <2>5, ChatAssumption DEF Shape, Delegated
    <3>2. Outcome(c)'
      BY <1>1, <1>2, <1>5, <2>1, <2>2 DEF Outcome
    <3>3. Stopped(c)'
      <4>1. chat'[c].pc = "start" /\ chat'[c].tokens = chat[c].tokens
            /\ late'[c] = late[c] /\ flag'[c] = flag[c] /\ lane' = lane
        BY <1>1, <2>1, <2>2
      <4>2. AllowedAt("idle", chat[c].tokens) = AllowedAt("start", chat[c].tokens)
        BY DEF AllowedAt
      <4> QED BY <1>2, <4>1, <4>2, StoppedIs
    <3> QED BY <3>1, <3>2, <3>3 DEF TurnOK
  <2>7. \A d \in Chats : d # c => TurnOK(d)'
    BY <1>1, <1>5, <2>2, Others DEF TurnInv
  <2>8. Kept'
    BY <1>1, <1>4, <1>5 DEF Kept
  <2>9. Ids'
    <3>1. {d \in Chats : chat'[d].id # 0} = had \cup {c}
      BY <2>1, <2>2, <2>5
    <3>2. c \notin had
      BY <1>2
    <3> HIDE DEF had
    <3>3. IsFiniteSet(had \cup {c}) /\ Cardinality(had \cup {c}) = Cardinality(had) + 1
          /\ Cardinality(had) \in Nat
      BY <2>3, <3>2, FS_AddElement, FS_CardinalityType
    <3>4. next_id' = 1 + Cardinality(had \cup {c})
      BY <1>3, <1>5, <2>3, <3>3
    <3>5. \A d \in Chats : Underway(d)' <=> (d = c \/ Underway(d))
      BY <1>1, <1>2, <2>1, <2>2, <2>5 DEF Underway
    <3>6. ~Underway(c)
      BY <1>2 DEF Underway
    <3>7. DOMAIN registry' = {chat'[d].id : d \in {x \in Chats : Underway(x)'}}
      <4>1. DOMAIN registry' = DOMAIN registry \cup {next_id}
        BY <1>5
      <4>2. ASSUME NEW i \in DOMAIN registry' PROVE \E d \in Chats : Underway(d)' /\ chat'[d].id = i
        <5>1. CASE i = next_id
          BY <2>1, <2>2, <3>5, <5>1
        <5>2. CASE i \in DOMAIN registry
          <6>1. PICK d \in Chats : Underway(d) /\ chat[d].id = i
            BY <2>3, <5>2
          <6>2. d # c
            BY <3>6, <6>1
          <6> QED BY <2>2, <3>5, <6>1, <6>2
        <5> QED BY <4>1, <5>1, <5>2
      <4>3. ASSUME NEW d \in Chats, Underway(d)' PROVE chat'[d].id \in DOMAIN registry'
        <5>1. CASE d = c
          BY <2>1, <2>2, <4>1, <5>1
        <5>2. CASE d # c
          BY <2>2, <2>3, <3>5, <4>1, <4>3, <5>2
        <5> QED BY <5>1, <5>2
      <4> QED BY <4>2, <4>3
    <3>8. \A i \in DOMAIN registry' : registry'[i] \in Chats /\ chat'[registry'[i]].id = i
      <4> TAKE i \in DOMAIN registry'
      <4>1. CASE i = next_id
        BY <1>5, <2>1, <2>2, <4>1
      <4>2. CASE i # next_id
        <5>1. i \in DOMAIN registry /\ registry'[i] = registry[i]
          BY <1>5, <4>2
        <5>2. registry[i] \in Chats /\ chat[registry[i]].id = i
          BY <2>3, <5>1
        <5>3. PICK d \in Chats : Underway(d) /\ chat[d].id = i
          BY <2>3, <5>1
        <5>4. registry[i] = d /\ d # c
          BY <2>3, <3>6, <5>2, <5>3 DEF Underway
        <5> QED BY <2>2, <5>1, <5>2, <5>4
      <4> QED BY <4>1, <4>2
    <3>9. /\ \A d \in Chats : chat'[d].id < next_id'
          /\ \A d, f \in Chats : chat'[d].id = chat'[f].id /\ chat'[d].id # 0 => d = f
      <4>1. \A d \in Chats : chat'[d].id = IF d = c THEN next_id ELSE chat[d].id
        BY <2>1, <2>2
      <4>2. next_id' = next_id + 1
        BY <1>5
      <4> QED BY <1>3, <2>3, <2>4, <4>1, <4>2
    <3> QED BY <3>1, <3>3, <3>4, <3>7, <3>8, <3>9 DEF Ids
  <2>10. Raised'
    <3>1. active' \in BOOLEAN
      BY <1>4, <1>5 DEF Raised
    <3>2. active' => lane' # "qwen36"
      BY <1>1, <1>4, <1>5 DEF Raised
    <3>3. chat'[c].pc \notin {"idle", "over"}
      BY <2>1, <2>2
    <3> QED BY <3>1, <3>2, <3>3 DEF Raised
  <2> QED BY <2>6, <2>7, <2>8, <2>9, <2>10 DEF TurnInv
<1>6. CASE /\ lane # "qwen36" /\ Goto(c, "over") /\ Sent(c, "error")
           /\ UNCHANGED <<next_id, registry, active>>
  <2> DEFINE e == [chat[c] EXCEPT !.pc = "over"]
  <2>1. /\ e.pc = "over" /\ e.id = 0 /\ e.todo = <<>> /\ e.tokens = chat[c].tokens
        /\ chat' = [chat EXCEPT ![c] = e]
    BY <1>2, <1>3, <1>6 DEF Place, Goto
  <2> HIDE DEF e
  <2>2. chat'[c] = e /\ (\A d \in Chats : d # c => chat'[d] = chat[d])
    BY <1>3, <2>1
  <2>3. chan' = [chan EXCEPT ![c] = @ + 1] /\ last' = [last EXCEPT ![c] = "error"]
    BY <1>2, <1>6 DEF Sent
  <2>4. Kept' /\ chan'[c] = 1
    <3>1. Kept
      BY <1>4
    <3>2. chan' \in [Chats -> Nat] /\ chan'[c] = 1
      BY <1>2, <2>3, <3>1 DEF Kept
    <3>3. last' = [d \in Chats |-> last'[d]]
      BY <2>3, <3>1 DEF Kept
    <3> QED BY <1>1, <3>1, <3>2, <3>3 DEF Kept
  <2>5. TurnOK(c)'
    <3>1. Shape(c)'
      BY <1>1, <1>2, <2>1, <2>2, <2>4, ChatAssumption DEF Shape, Delegated
    <3>2. Outcome(c)'
      BY <2>1, <2>2 DEF Outcome
    <3>3. Stopped(c)'
      <4>1. late[c] <= AllowedAt("over", chat[c].tokens)
        <5>1. CASE lane = "generic"
          BY <1>2, <1>6, <5>1, Allows
        <5>2. CASE lane # "generic"
          BY <1>2, <1>6, <5>2, Allows, ChatAssumption, LongestIs
        <5> QED BY <5>1, <5>2
      <4>2. chat'[c].pc = "over" /\ chat'[c].tokens = chat[c].tokens
            /\ late'[c] = late[c] /\ flag'[c] = flag[c] /\ lane' = lane
        BY <1>1, <2>1, <2>2
      <4> QED BY <1>2, <4>1, <4>2, StoppedIs
    <3> QED BY <3>1, <3>2, <3>3 DEF TurnOK
  <2>6. \A d \in Chats : d # c => TurnOK(d)'
    <3>1. \A d \in Chats : d # c => chan'[d] = chan[d] /\ last'[d] = last[d]
      BY <1>4, <2>3 DEF Kept
    <3> QED BY <1>1, <2>2, <3>1, Others DEF TurnInv
  <2>7. \A d \in Chats : chat'[d].id = chat[d].id /\ (Underway(d)' <=> Underway(d))
    BY <1>2, <2>1, <2>2 DEF Underway
  <2>8. Ids'
    BY <1>4, <1>6, <2>7, IdsOnly
  <2>9. Raised'
    BY <1>1, <1>4, <1>6, <2>2 DEF Raised
  <2> QED BY <2>4, <2>5, <2>6, <2>8, <2>9 DEF TurnInv
<1> QED BY <1>1, <1>5, <1>6 DEF Accept

\* The tables, row by row.
LEMMA Rows ==
  ASSUME NEW s \in L1Endings
  PROVE  \/ s = Answered /\ Head(s) = "send DONE" /\ Tail(s) = TellDone /\ Len(s) # 1
         \/ s = Cancelled /\ Head(s) = "send cancelled" /\ Tail(s) = TellCancelled /\ Len(s) # 1
         \/ s = Broken /\ Head(s) = "send error" /\ Tail(s) = TellCancelled /\ Len(s) # 1
         \/ s = TellDone /\ Head(s) = "tell done" /\ Tail(s) = ToRemove /\ Len(s) # 1
         \/ s = TellCancelled /\ Head(s) = "tell cancelled" /\ Tail(s) = ToRemove /\ Len(s) # 1
         \/ s = ToRemove /\ Head(s) = "remove" /\ Tail(s) = ToReturn /\ Len(s) # 1
         \/ s = ToReturn /\ Head(s) = "return" /\ Tail(s) = <<>> /\ Len(s) = 1
<1>1. Head(Answered) = "send DONE" /\ Tail(Answered) = TellDone /\ Len(Answered) # 1
  <2>1. Head(Answered) = "send DONE" /\ Len(Answered) = 4
    BY Table, Zenon
  <2>2. Tail(Answered) = TellDone
    BY Table, Zenon
  <2>3. Len(Answered) # 1
    <3>1. Len(Answered) = 4
      BY <2>1
    <3> QED BY <3>1
  <2> QED BY <2>1, <2>2, <2>3, Zenon
<1>2. Head(Cancelled) = "send cancelled" /\ Tail(Cancelled) = TellCancelled /\ Len(Cancelled) # 1
  <2>1. Head(Cancelled) = "send cancelled" /\ Len(Cancelled) = 4
    BY Table, Zenon
  <2>2. Tail(Cancelled) = TellCancelled
    BY Table, Zenon
  <2>3. Len(Cancelled) # 1
    <3>1. Len(Cancelled) = 4
      BY <2>1
    <3> QED BY <3>1
  <2> QED BY <2>1, <2>2, <2>3, Zenon
<1>3. Head(Broken) = "send error" /\ Tail(Broken) = TellCancelled /\ Len(Broken) # 1
  <2>1. Head(Broken) = "send error" /\ Len(Broken) = 4
    BY Table, Zenon
  <2>2. Tail(Broken) = TellCancelled
    BY Table, Zenon
  <2>3. Len(Broken) # 1
    <3>1. Len(Broken) = 4
      BY <2>1
    <3> QED BY <3>1
  <2> QED BY <2>1, <2>2, <2>3, Zenon
<1>4. Head(TellDone) = "tell done" /\ Tail(TellDone) = ToRemove /\ Len(TellDone) # 1
  <2>1. Head(TellDone) = "tell done" /\ Len(TellDone) = 3
    BY Table, Zenon
  <2>2. Tail(TellDone) = ToRemove
    BY Table, Zenon
  <2>3. Len(TellDone) # 1
    <3>1. Len(TellDone) = 3
      BY <2>1
    <3> QED BY <3>1
  <2> QED BY <2>1, <2>2, <2>3, Zenon
<1>5. Head(TellCancelled) = "tell cancelled" /\ Tail(TellCancelled) = ToRemove /\ Len(TellCancelled) # 1
  <2>1. Head(TellCancelled) = "tell cancelled" /\ Len(TellCancelled) = 3
    BY Table, Zenon
  <2>2. Tail(TellCancelled) = ToRemove
    BY Table, Zenon
  <2>3. Len(TellCancelled) # 1
    <3>1. Len(TellCancelled) = 3
      BY <2>1
    <3> QED BY <3>1
  <2> QED BY <2>1, <2>2, <2>3, Zenon
<1>6. Head(ToRemove) = "remove" /\ Tail(ToRemove) = ToReturn /\ Len(ToRemove) # 1
  <2>1. Head(ToRemove) = "remove" /\ Len(ToRemove) = 2
    BY Table, Zenon
  <2>2. Tail(ToRemove) = ToReturn
    BY Table, Zenon
  <2>3. Len(ToRemove) # 1
    <3>1. Len(ToRemove) = 2
      BY <2>1
    <3> QED BY <3>1
  <2> QED BY <2>1, <2>2, <2>3, Zenon
<1>7. Head(ToReturn) = "return" /\ Tail(ToReturn) = <<>> /\ Len(ToReturn) = 1
  <2>1. Head(ToReturn) = "return" /\ Len(ToReturn) = 1
    BY Table, Zenon
  <2>2. Tail(ToReturn) = <<>>
    BY Table, Zenon
  <2> QED BY <2>1, <2>2, Zenon
<1> QED BY <1>1, <1>2, <1>3, <1>4, <1>5, <1>6, <1>7, Zenon DEF L1Endings

LEMMA LaneRows ==
  ASSUME NEW s \in LaneEndings
  PROVE  \/ s = LaneBroken /\ Head(s) = "unlock" /\ Tail(s) = LaneError /\ Len(s) # 1
         \/ s = LaneError /\ Head(s) = "send error" /\ Tail(s) = LaneDone /\ Len(s) # 1
         \/ s = LaneEnd /\ Head(s) = "unlock" /\ Tail(s) = LaneDone /\ Len(s) # 1
         \/ s = LaneDone /\ Head(s) = "send DONE" /\ Tail(s) = LaneRemove /\ Len(s) # 1
         \/ s = LaneRemove /\ Head(s) = "remove" /\ Tail(s) = <<>> /\ Len(s) = 1
<1>1. Head(LaneBroken) = "unlock" /\ Tail(LaneBroken) = LaneError /\ Len(LaneBroken) # 1
  <2>1. Head(LaneBroken) = "unlock" /\ Len(LaneBroken) = 4
    BY LaneTable, Zenon
  <2>2. Tail(LaneBroken) = LaneError
    BY LaneTable, Zenon
  <2>3. Len(LaneBroken) # 1
    <3>1. Len(LaneBroken) = 4
      BY <2>1
    <3> QED BY <3>1
  <2> QED BY <2>1, <2>2, <2>3, Zenon
<1>2. Head(LaneError) = "send error" /\ Tail(LaneError) = LaneDone /\ Len(LaneError) # 1
  <2>1. Head(LaneError) = "send error" /\ Len(LaneError) = 3
    BY LaneTable, Zenon
  <2>2. Tail(LaneError) = LaneDone
    BY LaneTable, Zenon
  <2>3. Len(LaneError) # 1
    <3>1. Len(LaneError) = 3
      BY <2>1
    <3> QED BY <3>1
  <2> QED BY <2>1, <2>2, <2>3, Zenon
<1>3. Head(LaneEnd) = "unlock" /\ Tail(LaneEnd) = LaneDone /\ Len(LaneEnd) # 1
  <2>1. Head(LaneEnd) = "unlock" /\ Len(LaneEnd) = 3
    BY LaneTable, Zenon
  <2>2. Tail(LaneEnd) = LaneDone
    BY LaneTable, Zenon
  <2>3. Len(LaneEnd) # 1
    <3>1. Len(LaneEnd) = 3
      BY <2>1
    <3> QED BY <3>1
  <2> QED BY <2>1, <2>2, <2>3, Zenon
<1>4. Head(LaneDone) = "send DONE" /\ Tail(LaneDone) = LaneRemove /\ Len(LaneDone) # 1
  <2>1. Head(LaneDone) = "send DONE" /\ Len(LaneDone) = 2
    BY LaneTable, Zenon
  <2>2. Tail(LaneDone) = LaneRemove
    BY LaneTable, Zenon
  <2>3. Len(LaneDone) # 1
    <3>1. Len(LaneDone) = 2
      BY <2>1
    <3> QED BY <3>1
  <2> QED BY <2>1, <2>2, <2>3, Zenon
<1>5. Head(LaneRemove) = "remove" /\ Tail(LaneRemove) = <<>> /\ Len(LaneRemove) = 1
  <2>1. Head(LaneRemove) = "remove" /\ Len(LaneRemove) = 1
    BY LaneTable, Zenon
  <2>2. Tail(LaneRemove) = <<>>
    BY LaneTable, Zenon
  <2> QED BY <2>1, <2>2, Zenon
<1> QED BY <1>1, <1>2, <1>3, <1>4, <1>5, Zenon DEF LaneEndings

LEMMA NoneLate ==
  ASSUME NEW c, chat'[c].pc = "over", late'[c] = 0
  PROVE  Stopped(c)'
<1>1. MaxTokens \in Nat
  BY ChatAssumption
<1> QED BY <1>1, LongestIs DEF Stopped, AllowedAt

\* What the end of a turn has told and shown, list by list.
LEMMA EndAgrees ==
  ASSUME TurnInv, HInv, NEW c \in Chats, End(c), lane # "qwen36",
         NEW s \in L1Endings, chat[c].todo = s,
         chat'[c].todo = Tail(s), chat'[c].pc = IF Len(s) = 1 THEN "over" ELSE "ending"
  PROVE  Outcome(c)'
<1> DEFINE h == Head(s)  t == Tail(s)  n == Len(s)
<1>1. /\ chat[c].pc = "ending" /\ UNCHANGED <<lane, gone>>
      /\ IF IsSend(h) THEN Sent(c, Event(h)) ELSE UNCHANGED <<chan, last>>
      /\ told' = [told EXCEPT ![c] = IF IsTell(h) THEN Append(@, Status(h)) ELSE @]
      /\ chat'[c].todo = t /\ chat'[c].pc = IF n = 1 THEN "over" ELSE "ending"
  BY DEF End, minerVars
<1>0. \/ s = Answered /\ h = "send DONE" /\ t = TellDone /\ n # 1
      \/ s \in {Cancelled, Broken} /\ h \in {"send cancelled", "send error"}
         /\ t = TellCancelled /\ n # 1
      \/ s = TellDone /\ h = "tell done" /\ t = ToRemove /\ n # 1
      \/ s = TellCancelled /\ h = "tell cancelled" /\ t = ToRemove /\ n # 1
      \/ s \in {ToRemove, ToReturn} /\ h \in {"remove", "return"} /\ (n # 1 => t = ToReturn)
  BY Rows, Zenon
<1> HIDE DEF h, t, n
<1>2. Outcome(c)
  BY DEF TurnInv, TurnOK
<1>3. last = [d \in Chats |-> last[d]] /\ told = [d \in Chats |-> told[d]]
  BY DEF TurnInv, Kept
<1>4. told'[c] = IF IsTell(h) THEN Append(told[c], Status(h)) ELSE told[c]
  BY <1>1, <1>3
<1>5. last'[c] = IF IsSend(h) /\ c \notin gone THEN Event(h) ELSE last[c]
  BY <1>1, <1>3 DEF Sent
<1>6. Append(<<>>, "done") = <<"done">> /\ Append(<<>>, "cancelled") = <<"cancelled">>
      /\ <<"done">> # <<"cancelled">>
  OBVIOUS
<1>7. CASE s = Answered /\ h = "send DONE" /\ t = TellDone /\ n # 1
  <2>1. told[c] = <<>> /\ last[c] = None
    BY <1>1, <1>2, <1>7, Differ DEF Outcome
  <2>2. told'[c] = <<>> /\ last'[c] = IF c \notin gone THEN "DONE" ELSE None
    BY <1>4, <1>5, <1>7, <2>1 DEF IsTell, IsSend, Event
  <2> QED BY <1>1, <1>7, <2>2, Differ DEF Outcome
<1>8. CASE s \in {Cancelled, Broken} /\ h \in {"send cancelled", "send error"}
           /\ t = TellCancelled /\ n # 1
  <2>1. told[c] = <<>> /\ last[c] = None
    BY <1>1, <1>2, <1>8, Differ DEF Outcome
  <2>2. told'[c] = <<>>
    BY <1>4, <1>8, <2>1 DEF IsTell
  <2>3. IF c \notin gone THEN last'[c] \in {"cancelled", "error"} ELSE last'[c] = None
    BY <1>5, <1>8, <2>1 DEF IsSend, Event
  <2> QED BY <1>1, <1>8, <2>2, <2>3, Differ DEF Outcome
<1>9. CASE s = TellDone /\ h = "tell done" /\ t = ToRemove /\ n # 1
  <2>1. told[c] = <<>> /\ (last[c] = "DONE" \/ (last[c] = None /\ c \in gone))
    BY <1>1, <1>2, <1>9, Differ DEF Outcome
  <2>2. told'[c] = <<"done">> /\ last'[c] = last[c]
    BY <1>4, <1>5, <1>6, <1>9, <2>1 DEF IsTell, IsSend, Status
  <2>3. Agree(c)'
    BY <1>1, <2>1, <2>2 DEF Agree, None
  <2> QED BY <1>1, <1>9, <2>3 DEF Outcome
<1>10. CASE s = TellCancelled /\ h = "tell cancelled" /\ t = ToRemove /\ n # 1
  <2>1. told[c] = <<>> /\ (last[c] \in {"cancelled", "error"} \/ (last[c] = None /\ c \in gone))
    BY <1>1, <1>2, <1>10, Differ DEF Outcome
  <2>2. told'[c] = <<"cancelled">> /\ last'[c] = last[c]
    BY <1>4, <1>5, <1>6, <1>10, <2>1 DEF IsTell, IsSend, Status
  <2>3. Agree(c)'
    BY <1>1, <1>6, <2>1, <2>2 DEF Agree, None
  <2> QED BY <1>1, <1>10, <2>3 DEF Outcome
<1>11. CASE s \in {ToRemove, ToReturn} /\ h \in {"remove", "return"} /\ (n # 1 => t = ToReturn)
  <2>1. Agree(c)
    BY <1>1, <1>2, <1>11 DEF Outcome
  <2>2. told'[c] = told[c] /\ last'[c] = last[c]
    BY <1>4, <1>5, <1>11 DEF IsTell, IsSend
  <2>3. Agree(c)'
    BY <1>1, <2>1, <2>2 DEF Agree
  <2>4. IF n = 1 THEN chat'[c].pc = "over" ELSE chat'[c].todo \in {ToRemove, ToReturn}
    BY <1>1, <1>11
  <2> QED BY <1>1, <2>3, <2>4 DEF Outcome
<1> QED BY <1>0, <1>7, <1>8, <1>9, <1>10, <1>11

\* The last steps of a turn, and the registry, the flag and inference_active with them.
LEMMA EndKeeps ==
  ASSUME TurnInv, HInv, NEW c \in Chats, End(c)
  PROVE  TurnInv'
<1> DEFINE s == chat[c].todo
           h == Head(s)  t == Tail(s)  n == Len(s)
           e == [chat[c] EXCEPT !.todo = t, !.pc = IF n = 1 THEN "over" ELSE "ending"]
<1>1. /\ chat[c].pc = "ending" /\ UNCHANGED <<lane, next_id, gone, talking>>
      /\ IsSend(h) => CanSend(c)
      /\ IF IsSend(h) THEN Sent(c, Event(h)) ELSE UNCHANGED <<chan, last>>
      /\ told' = [told EXCEPT ![c] = IF IsTell(h) THEN Append(@, Status(h)) ELSE @]
      /\ IF h = "remove" THEN Remove(chat[c].id) ELSE UNCHANGED registry
      /\ IF h = "return" THEN Lower ELSE UNCHANGED active
      /\ IF n = 1 THEN Drop(c) ELSE UNCHANGED <<flag, late>>
      /\ chat' = [chat EXCEPT ![c].todo = Tail(@), ![c].pc = IF n = 1 THEN "over" ELSE @]
  BY DEF End, minerVars
<1>2. chat \in [Chats -> Place] /\ Kept /\ Ids /\ Raised /\ TurnOK(c)
  BY DEF HInv, Types, TurnInv
<1>3. /\ chat' = [chat EXCEPT ![c] = e] /\ e.todo = t /\ e.id = chat[c].id
      /\ e.tokens = chat[c].tokens /\ e.pc = IF n = 1 THEN "over" ELSE "ending"
  BY <1>1, <1>2 DEF Place
<1>4. /\ s \in IF lane = "qwen36" THEN LaneEndings ELSE L1Endings
      /\ chan[c] \in 0 .. Room /\ chat[c].id # 0 /\ chat[c].tokens \in 0 .. MaxTokens
      /\ late[c] \in Nat /\ late[c] <= AllowedAt("ending", chat[c].tokens)
      /\ flag[c] = FALSE => late[c] = 0
  BY <1>1, <1>2 DEF TurnOK, Shape, Stopped
<1> HIDE DEF e
<1>5. chat'[c] = e /\ (\A d \in Chats : d # c => chat'[d] = chat[d])
  BY <1>2, <1>3
\* One step further in the table.
<1>6. /\ IF n = 1 THEN t = <<>> /\ h = (IF lane = "qwen36" THEN "remove" ELSE "return")
         ELSE t \in (IF lane = "qwen36" THEN LaneEndings ELSE L1Endings)
      /\ h = "return" <=> s = ToReturn
      /\ s = ToReturn => n = 1
      /\ h = "remove" => n = 1 \/ t = ToReturn
      /\ t = ToReturn => h = "remove"
  <2>1. CASE lane = "qwen36"
    <3>1. \/ s = LaneBroken /\ h = "unlock" /\ t = LaneError /\ n # 1
          \/ s = LaneError /\ h = "send error" /\ t = LaneDone /\ n # 1
          \/ s = LaneEnd /\ h = "unlock" /\ t = LaneDone /\ n # 1
          \/ s = LaneDone /\ h = "send DONE" /\ t = LaneRemove /\ n # 1
          \/ s = LaneRemove /\ h = "remove" /\ t = <<>> /\ n = 1
      BY <1>4, <2>1, LaneRows
    <3> HIDE DEF h, t, n
    <3>2. ToReturn \notin LaneEndings \cup {<<>>}
      BY Apart
    <3> QED BY <1>4, <2>1, <3>1, <3>2 DEF LaneEndings
  <2>2. CASE lane # "qwen36"
    <3>1. \/ s = Answered /\ h = "send DONE" /\ t = TellDone /\ n # 1
          \/ s = Cancelled /\ h = "send cancelled" /\ t = TellCancelled /\ n # 1
          \/ s = Broken /\ h = "send error" /\ t = TellCancelled /\ n # 1
          \/ s = TellDone /\ h = "tell done" /\ t = ToRemove /\ n # 1
          \/ s = TellCancelled /\ h = "tell cancelled" /\ t = ToRemove /\ n # 1
          \/ s = ToRemove /\ h = "remove" /\ t = ToReturn /\ n # 1
          \/ s = ToReturn /\ h = "return" /\ t = <<>> /\ n = 1
      BY <1>4, <2>2, Rows
    <3> HIDE DEF h, t, n
    <3>2. /\ Answered # ToReturn /\ Cancelled # ToReturn /\ Broken # ToReturn
          /\ TellDone # ToReturn /\ TellCancelled # ToReturn /\ ToRemove # ToReturn
          /\ ToReturn # <<>>
      BY Differ, Apart
    <3> QED BY <2>2, <3>1, <3>2 DEF L1Endings
  <2> QED BY <2>1, <2>2
<1>7. n = 1 => h \in {"remove", "return"}
  BY <1>6
<1> HIDE DEF h, t, n
<1> HIDE DEF s
<1>8. Kept' /\ chan'[c] \in 0 .. Room
  <2>1. chan' \in [Chats -> Nat] /\ chan'[c] \in 0 .. Room
    <3>1. CASE UNCHANGED chan
      BY <1>2, <1>4, <3>1 DEF Kept
    <3>2. CASE chan' = [chan EXCEPT ![c] = @ + 1] /\ chan[c] < Room
      <4>1. chan[c] + 1 \in 0 .. Room /\ chan[c] + 1 \in Nat
        BY <1>4, <3>2, ChatAssumption
      <4> QED BY <1>2, <3>2, <4>1 DEF Kept
    <3> QED BY <1>1, <3>1, <3>2 DEF CanSend, Sent
  <2>2. last' = [d \in Chats |-> last'[d]] /\ told' = [d \in Chats |-> told'[d]]
    BY <1>1, <1>2 DEF Kept, Sent
  <2>3. flag' \in [Chats -> BOOLEAN] /\ late' \in [Chats -> Nat]
    <3>1. Drop(c) \/ UNCHANGED <<flag, late>>
      BY <1>1, Zenon
    <3>2. flag \in [Chats -> BOOLEAN] /\ late \in [Chats -> Nat]
      BY <1>2 DEF Kept
    <3>3. flag' \in [Chats -> BOOLEAN]
      <4>1. flag' = [flag EXCEPT ![c] = FALSE] \/ flag' = flag
        BY <3>1 DEF Drop
      <4> QED BY <3>2, <4>1
    <3>4. late' \in [Chats -> Nat]
      <4>1. late' = [late EXCEPT ![c] = 0] \/ late' = late
        BY <3>1 DEF Drop
      <4> QED BY <3>2, <4>1
    <3> QED BY <3>3, <3>4
  <2> QED BY <2>1, <2>2, <2>3 DEF Kept
<1>9. TurnOK(c)'
  <2>1. Shape(c)'
    BY <1>1, <1>3, <1>4, <1>5, <1>6, <1>8 DEF Shape, Delegated
  <2>2. Outcome(c)'
    <3>1. CASE lane = "qwen36"
      BY <1>1, <3>1 DEF Outcome
    <3>2. CASE lane # "qwen36"
      BY <1>3, <1>4, <1>5, <3>2, EndAgrees DEF s, t, n
    <3> QED BY <3>1, <3>2
  <2>3. Stopped(c)'
    <3>1. CASE n = 1
      <4>1. flag'[c] = FALSE /\ late'[c] = 0 /\ e.pc = "over"
        BY <1>1, <1>2, <1>3, <3>1 DEF Drop, Kept
      <4>2. chat'[c].pc = "over" /\ chat'[c].tokens = chat[c].tokens /\ lane' = lane
        BY <1>1, <1>3, <1>5, <4>1, Zenon
      <4> QED BY <4>1, <4>2, NoneLate
    <3>2. CASE n # 1
      <4>1. flag'[c] = flag[c] /\ late'[c] = late[c] /\ e.pc = "ending"
        BY <1>1, <1>3, <3>2
      <4>2. chat'[c].pc = "ending" /\ chat'[c].tokens = chat[c].tokens /\ lane' = lane
        BY <1>1, <1>3, <1>5, <4>1, Zenon
      <4> QED BY <1>4, <4>1, <4>2, StoppedIs
    <3> QED BY <3>1, <3>2
  <2> QED BY <2>1, <2>2, <2>3 DEF TurnOK
<1>10. \A d \in Chats : d # c => TurnOK(d)'
  <2>1. \A d \in Chats : d # c => /\ chan'[d] = chan[d] /\ last'[d] = last[d]
                                  /\ told'[d] = told[d] /\ flag'[d] = flag[d] /\ late'[d] = late[d]
    BY <1>1, <1>2 DEF Kept, Sent, Drop
  <2> QED BY <1>1, <1>5, <2>1, Others DEF TurnInv
<1>11. Ids'
  <2>1. \A d \in Chats : chat'[d].id = chat[d].id
    BY <1>3, <1>5
  <2>2. \A d \in Chats : d # c => (Underway(d)' <=> Underway(d))
    BY <1>5 DEF Underway
  <2>3. Underway(c) <=> s # ToReturn
    <3>1. chat[c].pc = "ending" /\ chat[c].id # 0
      BY <1>1, <1>4
    <3> QED BY <3>1 DEF Underway, s
  <2>4. Underway(c)' <=> n # 1 /\ t # ToReturn
    <3>1. chat'[c].id # 0 /\ chat'[c].todo = t /\ chat'[c].pc = IF n = 1 THEN "over" ELSE "ending"
      BY <1>3, <1>4, <1>5
    <3> QED BY <3>1 DEF Underway
  <2>5. CASE h # "remove"
    <3>1. Underway(c)' <=> Underway(c)
      BY <1>6, <1>7, <2>5, <2>3, <2>4
    <3>2. UNCHANGED <<registry, next_id>>
      BY <1>1, <2>5
    <3> QED BY <1>2, <2>1, <2>2, <3>1, <3>2, IdsOnly
  <2>6. CASE h = "remove"
    <3>1. Underway(c) /\ ~Underway(c)'
      BY <1>6, <2>6, <2>3, <2>4
    <3>2. registry' = [i \in DOMAIN registry \ {chat[c].id} |-> registry[i]]
      BY <1>1, <2>6 DEF Remove
    <3>3. /\ \A d \in Chats : chat[d].id < next_id
          /\ \A d, f \in Chats : chat[d].id = chat[f].id /\ chat[d].id # 0 => d = f
          /\ DOMAIN registry = {chat[d].id : d \in {x \in Chats : Underway(x)}}
          /\ \A i \in DOMAIN registry : registry[i] \in Chats /\ chat[registry[i]].id = i
          /\ next_id = 1 + Cardinality({d \in Chats : chat[d].id # 0})
          /\ IsFiniteSet({d \in Chats : chat[d].id # 0})
      BY <1>2, Zenon DEF Ids
    <3>4. DOMAIN registry' = {chat'[d].id : d \in {x \in Chats : Underway(x)'}}
      <4>1. ASSUME NEW i \in DOMAIN registry' PROVE \E d \in Chats : Underway(d)' /\ chat'[d].id = i
        <5>1. i \in DOMAIN registry /\ i # chat[c].id
          BY <3>2, <4>1
        <5>2. PICK d \in Chats : Underway(d) /\ chat[d].id = i
          BY <3>3, <5>1
        <5> QED BY <2>1, <2>2, <5>1, <5>2
      <4>2. ASSUME NEW d \in Chats, Underway(d)' PROVE chat'[d].id \in DOMAIN registry'
        <5>1. d # c /\ Underway(d) /\ chat'[d].id = chat[d].id
          BY <2>1, <2>2, <3>1, <4>2
        <5>2. chat[d].id # chat[c].id
          BY <3>3, <5>1, <1>4
        <5>3. chat[d].id \in DOMAIN registry
          BY <3>3, <5>1
        <5> QED BY <3>2, <5>1, <5>2, <5>3
      <4> QED BY <4>1, <4>2
    <3>5. \A i \in DOMAIN registry' : registry'[i] \in Chats /\ chat'[registry'[i]].id = i
      BY <2>1, <3>2, <3>3
    <3>6. {d \in Chats : chat'[d].id # 0} = {d \in Chats : chat[d].id # 0}
      BY <2>1
    <3>7. /\ \A d \in Chats : chat'[d].id < next_id'
          /\ next_id' = 1 + Cardinality({d \in Chats : chat'[d].id # 0})
          /\ IsFiniteSet({d \in Chats : chat'[d].id # 0})
      BY <1>1, <2>1, <3>3, <3>6
    <3>8. \A d, f \in Chats : chat'[d].id = chat'[f].id /\ chat'[d].id # 0 => d = f
      BY <2>1, <3>3
    <3> QED BY <3>4, <3>5, <3>7, <3>8 DEF Ids
  <2> QED BY <2>5, <2>6
<1>12. Raised'
  <2>1. CASE h = "return"
    BY <1>1, <2>1 DEF Raised, Lower
  <2>2. CASE h # "return"
    <3>1. active' = active /\ active \in BOOLEAN
      BY <1>1, <1>2, <2>2 DEF Raised
    <3>2. lane # "qwen36" => chat'[c].pc = "ending"
      BY <1>3, <1>5, <1>6, <2>2
    <3> QED BY <1>1, <1>2, <3>1, <3>2 DEF Raised
  <2> QED BY <2>1, <2>2
<1> QED BY <1>8, <1>9, <1>10, <1>11, <1>12 DEF TurnInv

-----------------------------------------------------------------------------
(***************************************************************************)
(* Clients, dialogues and the miner.                                       *)
(***************************************************************************)
LEMMA ReadKeeps ==
  ASSUME TurnInv, NEW c \in Chats, Read(c) \/ Leave(c)
  PROVE  TurnInv'
<1>1. /\ UNCHANGED <<lane, next_id, registry, chat, flag, last, told, late, active, talking>>
      /\ chan[c] \in 0 .. Room /\ Kept
  BY DEF Read, Leave, TurnInv, TurnOK, Shape
<1>2. PICK n \in 0 .. Room : chan' = [chan EXCEPT ![c] = n]
  <2>1. CASE Read(c)
    <3>1. chan[c] - 1 \in 0 .. Room /\ chan' = [chan EXCEPT ![c] = chan[c] - 1]
      BY <1>1, <2>1, ChatAssumption DEF Read
    <3> QED BY <3>1
  <2>2. CASE Leave(c)
    <3>1. chan' = [chan EXCEPT ![c] = 0] /\ 0 \in 0 .. Room
      BY <2>2, ChatAssumption DEF Leave
    <3> QED BY <3>1
  <2> QED BY <2>1, <2>2
<1>3. chan'[c] = n /\ (\A d \in Chats : d # c => chan'[d] = chan[d]) /\ chan' \in [Chats -> Nat]
  BY <1>1, <1>2, ChatAssumption DEF Kept
<1>4. /\ \A d \in Chats : d # c => (d \in gone' <=> d \in gone)
      /\ c \in gone => c \in gone'
      /\ c \in gone' => c \in gone \/ chat[c].pc \notin {"idle", "over"}
  BY DEF Read, Leave
<1>5. \A d \in Chats : d # c => TurnOK(d)'
  BY <1>1, <1>3, <1>4, Others DEF TurnInv
<1>6. TurnOK(c)'
  <2>1. TurnOK(c)
    BY DEF TurnInv
  <2>2. Shape(c)'
    <3>1. chat[c].pc = "idle" => chan'[c] = 0 /\ c \notin gone'
      <4>1. CASE Read(c)
        BY <2>1, <4>1 DEF TurnOK, Shape, Read
      <4>2. CASE Leave(c)
        BY <4>2 DEF Leave
      <4> QED BY <4>1, <4>2
    <3> QED BY <1>1, <1>3, <2>1, <3>1 DEF TurnOK, Shape
  <2>3. Outcome(c)'
    BY <1>1, <1>4, <2>1 DEF TurnOK, Outcome, Agree
  <2>4. Stopped(c)'
    BY <1>1, <2>1 DEF TurnOK, Stopped, AllowedAt
  <2> QED BY <2>2, <2>3, <2>4 DEF TurnOK
<1>7. Ids'
  BY <1>1, IdsOnly DEF TurnInv, Underway
<1>8. Raised'
  BY <1>1 DEF TurnInv, Raised
<1> QED BY <1>1, <1>3, <1>5, <1>6, <1>7, <1>8 DEF TurnInv, Kept

LEMMA AbortKeeps ==
  ASSUME TurnInv, NEW id \in DOMAIN registry, Abort(id)
  PROVE  TurnInv'
<1>0. PICK c \in Chats : c = registry[id]
  BY DEF TurnInv, Ids
<1>1. /\ UNCHANGED <<lane, next_id, registry, chat, chan, last, told, late, gone, active, talking>>
      /\ flag' = [flag EXCEPT ![c] = TRUE] /\ Kept /\ c \in Chats
  BY <1>0 DEF Abort, TurnInv
<1>2. \A d \in Chats : d # c => TurnOK(d)'
  <2>1. \A d \in Chats : d # c => flag'[d] = flag[d]
    BY <1>1 DEF Kept
  <2> QED BY <1>1, <2>1, Others DEF TurnInv
<1>3. TurnOK(c)'
  <2>1. TurnOK(c)
    BY <1>1 DEF TurnInv
  <2>2. Shape(c)' /\ Outcome(c)'
    BY <1>1, <2>1 DEF TurnOK, Shape, Outcome, Agree
  <2>3. Stopped(c)'
    <3>1. flag'[c] = TRUE
      BY <1>1 DEF Kept
    <3> QED BY <1>1, <2>1, <3>1 DEF TurnOK, Stopped, AllowedAt
  <2> QED BY <2>2, <2>3 DEF TurnOK
<1>4. Kept'
  <2>1. flag' \in [Chats -> BOOLEAN]
    BY <1>1 DEF Kept
  <2> QED BY <1>1, <2>1 DEF Kept
<1>5. Ids'
  BY <1>1, IdsOnly DEF TurnInv, Underway
<1>6. Raised'
  BY <1>1 DEF TurnInv, Raised
<1>7. \A d \in Chats : TurnOK(d)'
  BY <1>2, <1>3
<1> QED BY <1>4, <1>5, <1>6, <1>7 DEF TurnInv

\* Dialogues and rounds only touch the flag.
LEMMA RestKeeps ==
  ASSUME TurnInv, UNCHANGED <<lane, next_id, registry, turnVars, gone>>,
         \/ UNCHANGED <<active, talking>>
         \/ active' = FALSE
         \/ active' = TRUE /\ lane # "qwen36" /\ talking' # {}
  PROVE  TurnInv'
<1>1. UNCHANGED <<chat, flag, chan, last, told, late, lane, next_id, registry, gone>>
  BY DEF turnVars
<1>2. \A d \in Chats : TurnOK(d)'
  BY <1>1, Others DEF TurnInv
<1>3. Ids'
  BY <1>1, IdsOnly DEF TurnInv, Underway
<1>4. Raised'
  <2>1. Raised
    BY DEF TurnInv
  <2>2. CASE UNCHANGED <<active, talking>>
    BY <1>1, <2>1, <2>2 DEF Raised
  <2>3. CASE active' = FALSE
    BY <2>3 DEF Raised
  <2>4. CASE active' = TRUE /\ lane # "qwen36" /\ talking' # {}
    BY <1>1, <2>4 DEF Raised
  <2> QED BY <2>2, <2>3, <2>4
<1>5. Kept'
  BY <1>1 DEF TurnInv, Kept
<1> QED BY <1>2, <1>3, <1>4, <1>5 DEF TurnInv

LEMMA TurnInit == Init => TurnInv
<1> SUFFICES ASSUME Init PROVE TurnInv
  OBVIOUS
<1> USE ChatAssumption
<1>1. Kept
  BY DEF Init, Kept
<1>2. ASSUME NEW c \in Chats PROVE TurnOK(c)
  <2>1. /\ chat[c].pc = "idle" /\ chat[c].id = 0 /\ chat[c].tokens = 0 /\ chat[c].todo = <<>>
        /\ flag[c] = FALSE /\ chan[c] = 0 /\ last[c] = None /\ told[c] = <<>> /\ late[c] = 0
        /\ gone = {}
    BY DEF Init, NewChat
  <2>2. Shape(c)
    BY <2>1 DEF Shape, Delegated
  <2>3. Outcome(c)
    BY <2>1 DEF Outcome
  <2>4. Stopped(c)
    BY <2>1 DEF Stopped, AllowedAt
  <2> QED BY <2>2, <2>3, <2>4 DEF TurnOK
<1>3. Ids
  <2>1. \A c \in Chats : chat[c].id = 0
    BY DEF Init, NewChat
  <2>2. {c \in Chats : chat[c].id # 0} = {}
    BY <2>1
  <2>3. DOMAIN registry = {} /\ next_id = 1
    BY DEF Init
  <2>4. DOMAIN registry = {chat[c].id : c \in {d \in Chats : Underway(d)}}
    BY <2>1, <2>3 DEF Underway
  <2>5. next_id = 1 + Cardinality({c \in Chats : chat[c].id # 0})
        /\ IsFiniteSet({c \in Chats : chat[c].id # 0})
    BY <2>2, <2>3, FS_EmptySet
  <2> QED BY <2>1, <2>3, <2>4, <2>5 DEF Ids
<1>4. Raised
  BY DEF Init, Raised
<1> QED BY <1>1, <1>2, <1>3, <1>4 DEF TurnInv

LEMMA TurnNext == TurnInv /\ HInv /\ [Next]_vars => TurnInv'
<1> SUFFICES ASSUME TurnInv, HInv, [Next]_vars PROVE TurnInv'
  OBVIOUS
<1>1. ASSUME NEW c \in Chats, Turn(c) PROVE TurnInv'
  BY <1>1, AcceptKeeps, StartKeeps, DelegateKeeps, PrefillKeeps, PollKeeps, EndOfTurnKeeps,
     EmitKeeps, DecodeKeeps, FlushKeeps, CloseKeeps, EndKeeps DEF Turn
<1>2. ASSUME NEW c \in Chats, Read(c) \/ Leave(c) PROVE TurnInv'
  BY <1>2, ReadKeeps
<1>3. ASSUME NEW id \in DOMAIN registry, Abort(id) PROVE TurnInv'
  BY <1>3, AbortKeeps
<1>4. ASSUME NEW d \in Dialogues, DialogueStarts(d) \/ DialogueEnds(d) PROVE TurnInv'
  BY <1>4, RestKeeps DEF DialogueStarts, DialogueEnds
<1>5. CASE Look \/ Mine
  BY <1>5, RestKeeps DEF Look, Mine
<1>6. CASE UNCHANGED vars
  BY <1>6, RestKeeps DEF vars
<1> QED BY <1>1, <1>2, <1>3, <1>4, <1>5, <1>6 DEF Next

LEMMA TurnHolds == Spec => [](TurnInv /\ HInv)
BY TurnInit, TurnNext, HolderInit, HolderNext, PTL DEF Spec

(***************************************************************************)
(* However many requests there are, and however their turns end, nothing   *)
(* stays behind: the registry lists the turns that are underway and no     *)
(* other, each under its own id, and the miner is held back by no one who  *)
(* has gone.                                                               *)
(***************************************************************************)
THEOREM NothingStays == Spec => []NothingLeaks
<1>1. TurnInv /\ HInv => NothingLeaks
  <2> SUFFICES ASSUME TurnInv, HInv PROVE NothingLeaks
    OBVIOUS
  <2>1. ASSUME NEW c \in Chats
        PROVE  /\ chan[c] \in 0 .. Room /\ chat[c].tokens \in 0 .. MaxTokens
               /\ IF chat[c].pc = "ending"
                  THEN chat[c].todo \in IF lane = "qwen36" THEN LaneEndings ELSE L1Endings
                  ELSE chat[c].todo = <<>>
    BY DEF TurnInv, TurnOK, Shape
  <2>2. Ids /\ Raised
    BY DEF TurnInv
  <2>3. TypeOK
    <3>1. next_id = 1 + Cardinality({c \in Chats : chat[c].id # 0})
      BY <2>2 DEF Ids
    <3>2. \A c \in Chats : (chat[c].todo # <<>>) = (chat[c].pc = "ending")
      BY <2>1, Differ
    <3>3. cache \in Chats \cup {None} /\ active \in BOOLEAN
      BY <2>2 DEF HInv, Types, Raised
    <3> QED BY <2>1, <3>1, <3>2, <3>3 DEF TypeOK
  <2>4. RegistryExact
    <3> DEFINE Under(c) == /\ chat[c].id # 0 /\ chat[c].pc # "over"
                           /\ chat[c].pc = "ending" => Pending(c, "remove")
    <3>1. ASSUME NEW c \in Chats PROVE Under(c) <=> Underway(c)
      <4>1. chat[c].pc = "ending" => (Pending(c, "remove") <=> chat[c].todo # ToReturn)
        BY <2>1, Removes, Apart DEF Pending
      <4> QED BY <4>1 DEF Underway
    <3>2. {chat[c].id : c \in {d \in Chats : Under(d)}} = {chat[c].id : c \in {d \in Chats : Underway(d)}}
      BY <3>1
    <3>3. /\ DOMAIN registry = {chat[c].id : c \in {d \in Chats : Under(d)}}
          /\ \A i \in DOMAIN registry : chat[registry[i]].id = i
      BY <2>2, <3>2 DEF Ids
    <3> QED BY <3>3 DEF RegistryExact
  <2>5. NeverStuckBusy
    <3> SUFFICES ASSUME active, talking = {}
                 PROVE  \E c \in Chats : \/ chat[c].pc \notin {"idle", "ending", "over"}
                                         \/ Pending(c, "return")
      BY DEF NeverStuckBusy
    <3>1. lane # "qwen36" /\ \E c \in Chats : chat[c].pc \notin {"idle", "over"}
      BY <2>2 DEF Raised
    <3>2. \A c \in Chats : chat[c].pc = "ending" => Pending(c, "return")
      BY <2>1, <3>1, Removes DEF Pending
    <3> QED BY <3>1, <3>2
  <2> QED BY <2>3, <2>4, <2>5 DEF NothingLeaks
<1> QED BY <1>1, TurnHolds, PTL

(***************************************************************************)
(* An acknowledged abort bounds what the stream still gets in every lane   *)
(* that promises it, and client and subscribers are told of one end, the   *)
(* same one.                                                               *)
(***************************************************************************)
THEOREM OneEndIsTold == Spec => []EndsAsTold
<1>1. TurnInv => EndsAsTold
  <2> SUFFICES ASSUME TurnInv PROVE EndsAsTold
    OBVIOUS
  <2>1. AbortStops
    <3> SUFFICES ASSUME NEW c \in Chats
                 PROVE  late[c] <= CASE lane = "qwen36" -> 1
                                     [] lane = "generic" -> 2
                                     [] OTHER -> Longest
      BY DEF AbortStops
    <3>1. /\ late[c] \in Nat /\ late[c] <= AllowedAt(chat[c].pc, chat[c].tokens)
          /\ chat[c].tokens \in 0 .. MaxTokens /\ MaxTokens \in Nat
      BY Known, ChatAssumption, Zenon
    <3>2. CASE lane = "qwen36"
      BY <3>1, <3>2, Allows
    <3>3. CASE lane = "generic"
      BY <3>1, <3>3, Allows
    <3>4. CASE lane \notin {"qwen36", "generic"}
      BY <3>1, <3>4, Allows, LongestIs
    <3> QED BY <3>2, <3>3, <3>4
  <2>2. OneOutcome
    <3>1. \A c \in Chats : Outcome(c)
      BY DEF TurnInv, TurnOK
    <3> QED BY <3>1 DEF Outcome, Agree, OneOutcome
  <2> QED BY <2>1, <2>2 DEF EndsAsTold
<1> QED BY <1>1, TurnHolds, PTL
================================================================================

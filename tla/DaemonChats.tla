------------------------------ MODULE DaemonChats ------------------------------
(***************************************************************************)
(* The daemon around its turns: POST /v1/chat in its three lanes           *)
(* (routes.rs, qwen36_lane.rs), /v1/dialogue, /v1/abort/:id, the registry  *)
(* of cancel flags (sessions.rs), the events on /v1/events, the flag       *)
(* inference_active and the miner that backs off for it (mining.rs).  What *)
(* a turn computes is in ResidentChat and Dialogue; here a token is a      *)
(* step.                                                                   *)
(***************************************************************************)
EXTENDS Naturals, Sequences, FiniteSets

CONSTANTS Chats,         \* the requests to /v1/chat
          Dialogues,     \* the requests to /v1/dialogue
          Lanes,         \* the decode paths this daemon may have been started with
          Delegating,    \* BOOLEAN: SP_TELEPATHY_CHAT hands turns to another model
          MaxTokens,     \* max_tokens of a request
          Room,          \* events a stream's channel holds (64 in the code)
          MaxEvents,     \* bound: events one sieve batch yields
          MaxReceipts    \* bound: receipts minted in a behaviour

None == "none"

ASSUME ChatAssumption ==
    /\ None \notin Chats
    /\ Lanes \subseteq {"generic", "resident", "qwen36"}
    /\ Delegating \in BOOLEAN
    /\ MaxTokens \in Nat \ {0}
    /\ Room \in Nat \ {0}

VARIABLES lane,       \* the decode path of this process
          next_id,    \* Sessions::next_id
          registry,   \* [chat ids -> the chat whose flag is registered]
          chat,       \* [Chats -> the state of a turn]
          flag,       \* [Chats -> its cancel flag is set]
          chan,       \* [Chats -> events in its stream's channel]
          last,       \* [Chats -> the last event put on the stream, if not a delta]
          gone,       \* clients that closed their stream
          told,       \* [Chats -> statuses broadcast as DaemonEvent::Chat]
          cache,      \* holder of the resident cache's or the lane's mutex
          active,     \* inference_active
          talking,    \* dialogues in their blocking task
          miner,      \* [pc, todo] of the mining loop
          receipts,   \* receipt_store: the rounds in it
          mints,      \* rounds broadcast as DaemonEvent::Mint
          late        \* [Chats -> deltas sent after an acknowledged abort]

turnVars == <<chat, flag, chan, last, told, late>>
minerVars == <<miner, receipts, mints>>
vars == <<lane, next_id, registry, turnVars, gone, cache, active, talking, minerVars>>

NewChat == [pc |-> "idle", id |-> 0, tokens |-> 0, todo |-> <<>>]

Init ==
    /\ lane \in Lanes
    /\ next_id = 1
    /\ registry = <<>>
    /\ chat = [c \in Chats |-> NewChat]
    /\ flag = [c \in Chats |-> FALSE]
    /\ chan = [c \in Chats |-> 0]
    /\ last = [c \in Chats |-> None]
    /\ told = [c \in Chats |-> <<>>]
    /\ late = [c \in Chats |-> 0]
    /\ gone = {}
    /\ cache = None
    /\ active = FALSE
    /\ talking = {}
    /\ miner = [pc |-> "look", todo |-> 0]
    /\ receipts = <<>> /\ mints = <<>>

----------------------------------------------------------------------------
(* A turn.  Its last steps are listed in chat[c].todo and taken one by one. *)

Goto(c, pc) == chat' = [chat EXCEPT ![c].pc = pc]

\* What a failed call, a closed stream and the normal end leave to be done; the
\* resident cache is unlocked, and inference_active cleared, when the function
\* and the closure return; the qwen36 gate when run_turn does.
FinishHolds(c, steps) ==   \* mutated: run_turn returns without its gate's guard
    chat' = [chat EXCEPT ![c].pc = "ending", ![c].todo =
        IF lane = "qwen36" THEN steps \o <<"send DONE", "remove">>
                           ELSE steps \o <<"remove", "return">>]

Finish(c, steps) ==
    chat' = [chat EXCEPT ![c].pc = "ending", ![c].todo =
        IF lane = "qwen36" THEN <<"unlock">> \o steps \o <<"send DONE", "remove">>
                           ELSE steps \o <<"remove", "return">>]

Failed(c) == IF lane = "qwen36" THEN Finish(c, <<"send error">>)
                                ELSE Finish(c, <<"send error", "tell cancelled">>)

\* blocking_send: waits for room, fails once the client has gone.
CanSend(c) == c \in gone \/ chan[c] < Room
Sent(c, what) ==
    IF c \in gone THEN UNCHANGED <<chan, last>>
    ELSE /\ chan' = [chan EXCEPT ![c] = @ + 1]
         /\ last' = [last EXCEPT ![c] = what]
Delta(c) == /\ Sent(c, None)
            /\ late' = [late EXCEPT ![c] = IF flag[c] /\ c \notin gone THEN @ + 1 ELSE @]

\* The request is registered once its session is cloned (the qwen36 lane has no
\* session to clone), then inference_active is set, by the L1 lanes only.  A
\* clone that fails sends an error and nothing else.
Accept(c) ==
    /\ chat[c].pc = "idle"
    /\ \/ /\ chat' = [chat EXCEPT ![c].pc = "start", ![c].id = next_id]
          /\ next_id' = next_id + 1
          /\ registry' = [i \in DOMAIN registry \cup {next_id} |->
                              IF i = next_id THEN c ELSE registry[i]]
          /\ active' = (active \/ lane # "qwen36")
          /\ UNCHANGED <<chan, last>>
       \/ /\ lane # "qwen36"
          /\ Goto(c, "over")
          /\ Sent(c, "error")
          /\ UNCHANGED <<next_id, registry, active>>
    /\ UNCHANGED <<lane, flag, told, late, gone, cache, talking, minerVars>>

\* The resident lane holds the cache, the qwen36 lane its gate, for the turn.
\* An empty prompt or one that is too long is refused before that.
Start(c) ==
    /\ chat[c].pc = "start"
    /\ \/ /\ lane = "generic"
          /\ Goto(c, "prefill")
          /\ UNCHANGED cache
       \/ /\ lane # "generic"
          /\ cache = None
          /\ cache' = c
          /\ Goto(c, "prefill")
       \/ /\ lane # "generic"
          /\ Failed(c)
          /\ UNCHANGED cache
       \/ /\ lane = "resident"
          /\ Delegating
          /\ Goto(c, "delegated")
          /\ UNCHANGED cache
    /\ UNCHANGED <<lane, next_id, registry, flag, chan, last, told, late, gone, active,
                   talking, minerVars>>

\* A delegated turn sends the other model's answer, between two marks or bare,
\* whoever listens.
Delegate(c) ==
    /\ CanSend(c)
    /\ Delta(c)
    /\ \/ chat[c].pc = "delegated" /\ Goto(c, "answer")
       \/ chat[c].pc = "answer" /\ Goto(c, "mark")
       \/ chat[c].pc \in {"delegated", "mark"} /\ Finish(c, <<"send DONE", "tell done">>)
    /\ UNCHANGED <<lane, next_id, registry, flag, told, gone, cache, active, talking,
                   minerVars>>

\* The L1 session polls the cancel flag inside prefill and decode (external);
\* the resident cache and the qwen36 step do not know it.
Interrupted(c) == lane = "generic" /\ flag[c]

Prefill(c) ==
    /\ chat[c].pc = "prefill"
    /\ \/ ~Interrupted(c) /\ Goto(c, "emit")
       \/ Failed(c)
    /\ UNCHANGED <<lane, next_id, registry, flag, chan, last, told, late, gone, cache, active,
                   talking, minerVars>>

\* A recall may decline without decoding: a canned answer, reported as done.
Decline(c) ==
    /\ chat[c].pc = "prefill"
    /\ lane = "resident"
    /\ CanSend(c)
    /\ Delta(c)
    /\ Finish(c, <<"send DONE", "tell done">>)
    /\ UNCHANGED <<lane, next_id, registry, flag, told, gone, cache, active, talking, minerVars>>

PollIgnores(c) ==   \* mutated: the callback does not look at the flag
    /\ chat[c].pc = "emit"
    /\ lane = "qwen36"
    /\ Goto(c, "send")
    /\ UNCHANGED <<lane, next_id, registry, flag, chan, last, told, late, gone, cache, active,
                   talking, minerVars>>

\* The qwen36 lane's callback reads the flag first.
Poll(c) ==
    /\ chat[c].pc = "emit"
    /\ lane = "qwen36"
    /\ IF flag[c] THEN Finish(c, <<>>) ELSE Goto(c, "send")
    /\ UNCHANGED <<lane, next_id, registry, flag, chan, last, told, late, gone, cache, active,
                   talking, minerVars>>

\* An end-of-turn token ends the loop before it is sent.
EndOfTurn(c) ==
    /\ chat[c].pc = "emit"
    /\ Goto(c, "flush")
    /\ UNCHANGED <<lane, next_id, registry, flag, chan, last, told, late, gone, cache, active,
                   talking, minerVars>>

\* A token's text is sent, or held back for a stop string; a stop string ends
\* the loop, sent or not; a closed stream ends the turn at once.
Emit(c) ==
    /\ chat[c].pc = IF lane = "qwen36" THEN "send" ELSE "emit"
    /\ \/ Goto(c, "step") /\ UNCHANGED <<flag, chan, last, late>>
       \/ /\ CanSend(c)
          /\ Delta(c)
          /\ IF c \in gone
             THEN /\ Finish(c, IF lane = "qwen36" THEN <<>> ELSE <<"tell cancelled">>)
                  /\ flag' = [flag EXCEPT ![c] = @ \/ lane # "qwen36"]
             ELSE Goto(c, "step") /\ UNCHANGED flag
       \/ /\ lane # "qwen36"
          /\ CanSend(c)
          /\ Delta(c)
          /\ Goto(c, "flush")
          /\ UNCHANGED flag
    /\ UNCHANGED <<lane, next_id, registry, told, gone, cache, active, talking, minerVars>>

\* The next token's step; max_tokens bounds the loop.  A step that fails, or that
\* the flag interrupts, ends the loop (an error event in the qwen36 lane).
Decode(c) ==
    /\ chat[c].pc = "step"
    /\ \/ /\ ~Interrupted(c)
          /\ chat' = [chat EXCEPT ![c].tokens = @ + 1,
                                  ![c].pc = IF chat[c].tokens + 1 < MaxTokens THEN "emit" ELSE "flush"]
       \/ IF lane = "qwen36" THEN Failed(c) ELSE Goto(c, "flush")
    /\ UNCHANGED <<lane, next_id, registry, flag, chan, last, told, late, gone, cache, active,
                   talking, minerVars>>

\* What was held back is sent, whoever listens (not in the qwen36 lane).
Flush(c) ==
    /\ chat[c].pc = "flush"
    /\ Goto(c, "close")
    /\ \/ UNCHANGED <<chan, last, late>>
       \/ lane # "qwen36" /\ CanSend(c) /\ Delta(c)
    /\ UNCHANGED <<lane, next_id, registry, flag, told, gone, cache, active, talking,
                   minerVars>>

\* The cancel flag decides what the turn is reported as.
Close(c) ==
    /\ chat[c].pc = "close"
    /\ Finish(c, IF lane = "qwen36" THEN <<>>
                 ELSE IF flag[c] THEN <<"send cancelled", "tell cancelled">>
                                 ELSE <<"send DONE", "tell done">>)
    /\ UNCHANGED <<lane, next_id, registry, flag, chan, last, told, late, gone, cache, active,
                   talking, minerVars>>

----------------------------------------------------------------------------
(* The last steps, and what they do.                                       *)

Event(step) == CASE step = "send DONE" -> "DONE" [] step = "send error" -> "error"
                 [] step = "send cancelled" -> "cancelled"
IsSend(step) == step \in {"send DONE", "send error", "send cancelled"}
IsTell(step) == step \in {"tell done", "tell cancelled"}
Status(step) == IF step = "tell done" THEN "done" ELSE "cancelled"

Remove(id) == registry' = [i \in DOMAIN registry \ {id} |-> registry[i]]

LowerLeaks == UNCHANGED active   \* mutated: the guard is leaked

Lower == active' = FALSE   \* InferenceGuard::drop

\* The turn's Arc of the flag goes with its task.
Drop(c) == flag' = [flag EXCEPT ![c] = FALSE] /\ late' = [late EXCEPT ![c] = 0]

End(c) ==
    LET step == Head(chat[c].todo)
    IN /\ chat[c].pc = "ending"
       /\ IsSend(step) => CanSend(c)
       /\ IF IsSend(step) THEN Sent(c, Event(step)) ELSE UNCHANGED <<chan, last>>
       /\ told' = [told EXCEPT ![c] = IF IsTell(step) THEN Append(@, Status(step)) ELSE @]
       /\ IF step = "remove" THEN Remove(chat[c].id) ELSE UNCHANGED registry
       /\ cache' = IF step \in {"unlock", "return"} /\ cache = c THEN None ELSE cache
       /\ IF step = "return" THEN Lower ELSE UNCHANGED active
       /\ IF Len(chat[c].todo) = 1 THEN Drop(c) ELSE UNCHANGED <<flag, late>>
       /\ chat' = [chat EXCEPT ![c].todo = Tail(@),
                               ![c].pc = IF Len(chat[c].todo) = 1 THEN "over" ELSE @]
       /\ UNCHANGED <<lane, next_id, gone, talking, minerVars>>

----------------------------------------------------------------------------
(* Clients.                                                                *)

Read(c) ==
    /\ c \notin gone
    /\ chan[c] > 0
    /\ chan' = [chan EXCEPT ![c] = @ - 1]
    /\ UNCHANGED <<lane, next_id, registry, chat, flag, last, told, late, gone, cache, active,
                   talking, minerVars>>

Leave(c) ==
    /\ c \notin gone
    /\ chat[c].pc \notin {"idle", "over"}
    /\ gone' = gone \cup {c}
    /\ chan' = [chan EXCEPT ![c] = 0]
    /\ UNCHANGED <<lane, next_id, registry, chat, flag, last, told, late, cache, active, talking, minerVars>>

\* POST /v1/abort/:id, answered 204 when the id is registered.
Abort(id) ==
    /\ id \in DOMAIN registry
    /\ flag' = [flag EXCEPT ![registry[id]] = TRUE]
    /\ UNCHANGED <<lane, next_id, registry, chat, chan, last, told, late, gone, cache, active,
                   talking, minerVars>>

\* POST /v1/dialogue: the same guard around a task of its own; not registered.
DialogueStarts(d) ==
    /\ lane # "qwen36"
    /\ d \notin talking
    /\ talking' = talking \cup {d}
    /\ active' = TRUE
    /\ UNCHANGED <<lane, next_id, registry, turnVars, gone, cache, minerVars>>

DialogueEnds(d) ==
    /\ d \in talking
    /\ talking' = talking \ {d}
    /\ active' = FALSE
    /\ UNCHANGED <<lane, next_id, registry, turnVars, gone, cache, minerVars>>

----------------------------------------------------------------------------
(* The mining loop: look at the flag, evaluate a batch, mint its events.   *)

Look ==
    /\ miner.pc = "look"
    /\ ~active
    /\ \E n \in 0..MaxEvents :
          /\ Len(receipts) + n <= MaxReceipts
          /\ miner' = [pc |-> IF n = 0 THEN "look" ELSE "store", todo |-> n]
    /\ UNCHANGED <<lane, next_id, registry, turnVars, gone, cache, active, talking,
                   receipts, mints>>

StoreAndSend(r) ==   \* mutated: announced before it is in the store
    IF miner.pc = "store" THEN mints' = Append(mints, r) /\ UNCHANGED receipts
                          ELSE receipts' = Append(receipts, r) /\ UNCHANGED mints

\* global_round of the event being minted.
Mint(r) ==
    IF miner.pc = "store" THEN receipts' = Append(receipts, r) /\ UNCHANGED mints
                          ELSE mints' = Append(mints, r) /\ UNCHANGED receipts

Mine ==
    /\ miner.pc \in {"store", "announce"}
    /\ Mint(IF miner.pc = "store" THEN Len(receipts) ELSE Len(mints))
    /\ miner' = IF miner.pc = "store" THEN [miner EXCEPT !.pc = "announce"]
                ELSE [pc |-> IF miner.todo = 1 THEN "look" ELSE "store", todo |-> miner.todo - 1]
    /\ UNCHANGED <<lane, next_id, registry, turnVars, gone, cache, active, talking>>

----------------------------------------------------------------------------
Turn(c) == \/ Accept(c) \/ Start(c) \/ Delegate(c) \/ Prefill(c) \/ Decline(c)
           \/ Poll(c) \/ EndOfTurn(c) \/ Emit(c) \/ Decode(c) \/ Flush(c) \/ Close(c) \/ End(c)

Next == \/ \E c \in Chats : Turn(c) \/ Read(c) \/ Leave(c)
        \/ \E id \in DOMAIN registry : Abort(id)
        \/ \E d \in Dialogues : DialogueStarts(d) \/ DialogueEnds(d)
        \/ Look \/ Mine

Spec == Init /\ [][Next]_vars

----------------------------------------------------------------------------
(* Properties.                                                             *)

Pending(c, step) == \E i \in DOMAIN chat[c].todo : chat[c].todo[i] = step

\* Types: ids grow with the registrations, a channel never holds more than its
\* room, a turn's last steps are only listed while it ends.
TypeOK ==
    /\ next_id = 1 + Cardinality({c \in Chats : chat[c].id # 0})
    /\ \A c \in Chats : /\ chan[c] \in 0..Room
                        /\ chat[c].tokens \in 0..MaxTokens
                        /\ (chat[c].todo # <<>>) = (chat[c].pc = "ending")
    /\ cache \in Chats \cup {None}
    /\ active \in BOOLEAN

\* The registry lists exactly the turns that are not over yet, each under its
\* own id, on every way a turn can end: no flag is leaked, none is lost, and an
\* abort never reaches another turn (Sessions::register, remove).
RegistryExact ==
    LET Underway(c) == /\ chat[c].id # 0
                       /\ chat[c].pc # "over"
                       /\ chat[c].pc = "ending" => Pending(c, "remove")
    IN /\ DOMAIN registry = {chat[c].id : c \in {d \in Chats : Underway(d)}}
       /\ \A i \in DOMAIN registry : chat[registry[i]].id = i

\* A turn of the L1 lanes that is over has told its subscribers one status, and
\* the one its own client saw: done exactly if the stream ended with [DONE],
\* unless the client left before it could.
OneOutcome ==
    \A c \in Chats :
        chat[c].pc = "over" /\ chat[c].id # 0 /\ lane # "qwen36"
        => /\ told[c] \in {<<"done">>, <<"cancelled">>}
           /\ last[c] = "DONE" => told[c] = <<"done">>
           /\ last[c] \in {"cancelled", "error"} => told[c] = <<"cancelled">>
           /\ c \notin gone => (told[c] = <<"done">>) = (last[c] = "DONE")

\* The deltas of a whole turn of the resident lane.
Longest == IF MaxTokens = 1 THEN 3 ELSE MaxTokens + 1

\* Once an abort was acknowledged the stream gets at most the delta being sent
\* and, in the generic lane, what was held back; the resident lane promises
\* nothing (neither its loop nor a delegation reads the flag).
AbortStops ==
    \A c \in Chats : late[c] <= CASE lane = "qwen36" -> 1
                                 [] lane = "generic" -> 2
                                 [] OTHER -> Longest

\* inference_active is never left set when nobody decodes, so the miner always
\* gets its turn again, however turns end (InferenceGuard::drop).
NeverStuckBusy ==
    active => \/ talking # {}
              \/ \E c \in Chats : \/ chat[c].pc \notin {"idle", "ending", "over"}
                                 \/ Pending(c, "return")

\* However a turn ends, nothing of it stays behind: not its id, not its flag, not
\* the miner's hold (Sessions::remove, InferenceGuard::drop).
NothingLeaks == TypeOK /\ RegistryExact /\ NeverStuckBusy

\* An abort stops what it reaches, and client and subscribers hear of one end
\* (poll of the cancel flag, publish of the status).
EndsAsTold == AbortStops /\ OneOutcome

\* A receipt announced on /v1/events is in the store that /v1/receipts lists,
\* under its round.
MintedIsStored ==
    /\ receipts = [i \in DOMAIN receipts |-> i - 1]
    /\ Len(mints) \in {Len(receipts), Len(receipts) - 1}
    /\ mints = SubSeq(receipts, 1, Len(mints))

\* The resident cache and the qwen36 lane belong to one turn at a time, from its
\* first step to its last, and to none that is over: a turn that waits for them
\* is let in when the one before it has ended, however it ended.
OneDecodes ==
    /\ cache # None => chat[cache].pc \notin {"idle", "start", "over"}
    /\ lane # "generic" =>
          \A c \in Chats : chat[c].pc \in {"prefill", "emit", "send", "step", "flush", "close"}
                           => cache = c
===============================================================================

------------------------------- MODULE Dialogue -------------------------------
(***************************************************************************)
(* POST /v1/dialogue (routes.rs, dialogue_runner.rs, dialogue.rs): three   *)
(* turns of two models over cloned sessions - the executive asks, the      *)
(* memory model answers, the executive speaks - each attested by a         *)
(* receipt, and the append of the three receipts to the shared ledger.     *)
(***************************************************************************)
EXTENDS PouwLedger

CONSTANTS Dialogues,    \* the requests
          Server,       \* the handle the daemon opened at startup
          ServerPath,   \* --pouw-ledger-path
          Words,        \* tokens of which none ends a turn
          MaxPrompt,    \* DIALOGUE_MAX_PROMPT_TOKENS
          MaxTurn,      \* DIALOGUE_MAX_TURN_TOKENS
          MaxTools,     \* bound: files opened and appends begun by other processes
          KeyOf(_, _)   \* hash_buf over (turn and model, input), as a number

VARIABLES dlg,       \* [Dialogues -> the state of a request]
          holder,    \* the request holding the ledger's mutex
          tools      \* operations of the other processes so far

dialogueVars == <<dlg, holder, tools>>

Free == "free"
NewRequest == [pc |-> "idle", exec |-> <<>>, memo |-> <<>>, receipts |-> <<>>, next |-> 1]
Gone == [NewRequest EXCEPT !.pc = "gone"]

TokensUpTo(S, n) == UNION {[1..k -> S] : k \in 0..n}

\* What a turn may be given: the prompt cut to the cap, or a turn's output.
Inputs == TokensUpTo(Words, MaxPrompt) \cup TokensUpTo(Words, MaxTurn)

ASSUME CapAssumption == MaxPrompt \in Nat /\ MaxTurn \in Nat
ASSUME ServerAssumption == Server \in Handles /\ ServerPath \in Paths
ASSUME HolderAssumption == Free \notin Dialogues
ASSUME KeyAssumption == \A turn \in 1..3 : \A input \in Inputs : KeyOf(turn, input) \in Nat

\* SpinorReceipt::mint; rank 0 (nothing stamps one on this path).
Mint(d, turn, input, output) ==
    [rank |-> 0, key |-> KeyOf(turn, input), of |-> d, turn |-> turn,
     input |-> input, output |-> output]

DialogueInit ==
    /\ dlg = [d \in Dialogues |-> NewRequest]
    /\ holder = Free
    /\ tools = 0

----------------------------------------------------------------------------
TurnForgets(d, n, input, sess, outputs, then) ==   \* mutated: the input is not prefilled
    \E output \in (IF input = <<>> THEN {<<>>} ELSE outputs) :
        dlg' = [dlg EXCEPT ![d].pc = then,
                           ![d][sess] = @ \o output,
                           ![d].receipts = Append(@, Mint(d, n, input, output))]

\* One greedy turn: prefill the input, then decode until a stop or the cap.
\* Every token pushed is also decoded, so the session holds it.  An empty
\* input skips the model and leaves the output empty.
Turn(d, n, input, sess, outputs, then) ==
    \E output \in (IF input = <<>> THEN {<<>>} ELSE outputs) :
        dlg' = [dlg EXCEPT ![d].pc = then,
                           ![d][sess] = @ \o input \o output,
                           ![d].receipts = Append(@, Mint(d, n, input, output))]

\* The encoder puts a first token before any text, so a prompt is never empty;
\* one longer than the pool's capacity is cut to it.
Ground(d) ==
    /\ dlg[d].pc = "idle"
    /\ \E prompt \in TokensUpTo(Words, MaxPrompt + 1) \ {<<>>} :
          Turn(d, 1, SubSeq(prompt, 1, IF Len(prompt) > MaxPrompt THEN MaxPrompt ELSE Len(prompt)),
               "exec", TokensUpTo(Words, MaxTurn), "entity")
    /\ UNCHANGED <<holder, tools, ledgerVars>>

\* The memory model stops on token 0 only, the executive on its own
\* end-of-sequence tokens too; Words are the tokens of which none stops a turn.
Entity(d) ==
    /\ dlg[d].pc = "entity"
    /\ Turn(d, 2, dlg[d].receipts[1].output, "memo", TokensUpTo(Words, MaxTurn), "synthesis")
    /\ UNCHANGED <<holder, tools, ledgerVars>>

Synthesis(d) ==
    /\ dlg[d].pc = "synthesis"
    /\ Turn(d, 3, dlg[d].receipts[2].output, "exec", TokensUpTo(Words, MaxTurn), "answered")
    /\ UNCHANGED <<holder, tools, ledgerVars>>

\* An error of the clone, the tokenizer, a prefill or a decode: no receipt of
\* the turns that did finish is returned or stored.
Fails(d) ==
    /\ dlg[d].pc \in {"idle", "entity", "synthesis"}
    /\ dlg' = [dlg EXCEPT ![d] = Gone]
    /\ UNCHANGED <<holder, tools, ledgerVars>>

\* The client goes away while the handler awaits the blocking task: the turns
\* run to their end, the rest of the handler never does.
HangUp(d) ==
    /\ dlg[d].pc \in {"entity", "synthesis", "answered"}
    /\ dlg' = [dlg EXCEPT ![d] = Gone]
    /\ UNCHANGED <<holder, tools, ledgerVars>>

\* ledger-autowire: the mutex is held over the three appends.
Lock(d) ==
    /\ dlg[d].pc = "answered"
    /\ IsOpen(Server)
    /\ holder = Free
    /\ holder' = d
    /\ dlg' = [dlg EXCEPT ![d].pc = "storing"]
    /\ UNCHANGED <<tools, ledgerVars>>

Stored(d) == IF dlg[d].next = 3
             THEN /\ dlg' = [dlg EXCEPT ![d].next = 4, ![d].pc = "replied"]
                  /\ holder' = Free
             ELSE /\ dlg' = [dlg EXCEPT ![d].next = @ + 1]
                  /\ UNCHANGED holder

\* An append that fails is logged and the next one tried.
Store(d) ==
    /\ dlg[d].pc = "storing"
    /\ HasRoom(Server)
    /\ UNCHANGED tools
    /\ \/ Write(Server, dlg[d].receipts[dlg[d].next]) /\ Stored(d) /\ UNCHANGED todo
       \/ WriteFails(Server, dlg[d].receipts[dlg[d].next]) /\ Stored(d) /\ UNCHANGED todo
       \/ /\ WriteDies(Server, dlg[d].receipts[dlg[d].next])
          /\ holder' = Free
          /\ dlg' = [e \in Dialogues |-> IF dlg[e].pc \in {"idle", "gone", "replied"}
                                         THEN dlg[e] ELSE Gone]

\* Without a ledger (no path given, or none yet) the reply just goes out.
Reply(d) ==
    /\ dlg[d].pc = "answered"
    /\ ~IsOpen(Server)
    /\ dlg' = [dlg EXCEPT ![d].pc = "replied"]
    /\ UNCHANGED <<holder, tools, ledgerVars>>

\* The daemon opens its ledger once, at startup; other processes (the replay
\* tools) hold the other handles.
DialogueNext ==
    \/ \E d \in Dialogues : \/ Ground(d) \/ Entity(d) \/ Synthesis(d) \/ Fails(d)
                            \/ HangUp(d) \/ Lock(d) \/ Store(d) \/ Reply(d)
    \/ Open(Server, ServerPath) /\ UNCHANGED dialogueVars
    \/ /\ tools < MaxTools
       /\ tools' = tools + 1
       /\ UNCHANGED <<dlg, holder>>
       /\ \E h \in Handles \ {Server} :
             \/ \E p \in Paths : Open(h, p)
             \/ \E r \in Receipts : AppendOne(h, r)
             \/ \E p \in Paths : \/ ReplayFrom(h, p)
                                 \/ ReplayBroadcast(h, p)
                                 \/ ReplayCanonical(h, p)
    \/ /\ \E h \in Handles \ {Server} : Close(h) \/ ReplayStep(h)
       /\ UNCHANGED dialogueVars

Init == LedgerInit /\ DialogueInit
Next == DialogueNext
Spec == Init /\ [][Next]_<<ledgerVars, dialogueVars>>

----------------------------------------------------------------------------
(* Properties.                                                             *)

\* Types: handles, queued records and requests have the shape the code gives
\* them (Ledger, DialogueOutcome).
TypeOK ==
    /\ \A h \in Handles : handle[h] = Closed \/ (IsOpen(h) /\ handle[h].bytes \in Nat)
    /\ holder \in Dialogues \cup {Free}
    /\ \A d \in Dialogues : Len(dlg[d].receipts) <= 3 /\ dlg[d].next \in 1..4
    /\ holder # Free => dlg[holder].pc = "storing"

\* A file none of whose appends failed or died reads back, whole and without
\* an error, as the records appended to it in their order - whoever appended
\* them, through whichever handle (Ledger::append flushes every record).
ReadsBack == \A p \in Paths : ~hurt[p] => /\ Status(disk[p]) = "Ok"
                                          /\ ReadAll(disk[p]) = sound[p]

\* A torn or failed append never costs a record that was in the file before:
\* the iterator yields those first, whatever follows (LedgerIter::next).
EarlierSurvive == \A p \in Paths : /\ Len(sound[p]) <= Len(ReadAll(disk[p]))
                                   /\ SubSeq(ReadAll(disk[p]), 1, Len(sound[p])) = sound[p]

\* bytes_written, the offset the next append will return, is the length of the
\* file, as long as one handle alone writes it and no append failed.
CounterAgrees == \A h \in Handles : IsOpen(h) /\ ~hurt[handle[h].path] /\ ~shared[handle[h].path]
                                    => handle[h].bytes = Len(disk[handle[h].path])

\* Two ledgers holding the same records, no two of them with the same key, are
\* listed alike by canonical_sort, in whatever order each received them.
Converge ==
    \A p, q \in Paths :
        LET a == Records(disk[p])  b == Records(disk[q])
        IN (/\ Len(a) = Len(b)
            /\ {a[i] : i \in DOMAIN a} = {b[i] : i \in DOMAIN b}
            /\ \A i, j \in DOMAIN a : KeyEqual(a[i], a[j]) => i = j)
           => Canonical(a) = Canonical(b)

\* What the receipts attest is what the sessions hold: each turn's input is the
\* output of the turn before, and the executive's session holds turns 1 and 3,
\* the memory model's turn 2, token for token (run_dialogue).
Attested ==
    \A d \in Dialogues :
        LET r == dlg[d].receipts
        IN Len(r) = 3 => /\ r[2].input = r[1].output /\ r[3].input = r[2].output
                         /\ dlg[d].exec = r[1].input \o r[1].output \o r[3].input \o r[3].output
                         /\ dlg[d].memo = r[2].input \o r[2].output

\* The three receipts of a dialogue stand side by side in the ledger, whatever
\* other dialogues store at the same time, when no append to it failed and no
\* other process writes the file (the mutex held over the loop).
SideBySide ==
    \A d \in Dialogues :
        dlg[d].next = 4 /\ ~hurt[ServerPath] /\ ~shared[ServerPath]
        => \E n \in DOMAIN sound[ServerPath] :
              /\ n + 2 <= Len(sound[ServerPath])
              /\ \A i \in 1..3 : sound[ServerPath][n + i - 1] = Bytes(dlg[d].receipts[i])

\* What was stored is read back: in full from a file nothing happened to, with a
\* counter that names its end; up to the first fault from any other; a dialogue's
\* receipts in one piece (Ledger::append, LedgerIter::next).
LedgerExact == TypeOK /\ ReadsBack /\ EarlierSurvive /\ CounterAgrees /\ SideBySide
==============================================================================

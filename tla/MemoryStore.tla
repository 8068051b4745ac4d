------------------------------ MODULE MemoryStore ------------------------------
(***************************************************************************)
(* The daemon's episodic memory (routes.rs, recall.rs, daemon.rs): the     *)
(* registry file and the copy of it read at startup, the live "nightshift" *)
(* episodes, and the concept files of the shared store, with what changes  *)
(* them: the verbs FORGET and STORE, the capture, DECIDE and MERGE passes  *)
(* after a turn, the reconciler thread, and whoever edits the concepts.    *)
(*                                                                         *)
(* SP_RECALL_REGISTRY, SP_NIGHTSHIFT_PERSIST, SP_FORGET, SP_DECIDE and the *)
(* reconciler are on.  The similarity of texts and what the model answers  *)
(* are choices.  The disk does not fail, and the texts are ASCII: a crash  *)
(* cuts the file at any byte, inside a line or before its newline.         *)
(***************************************************************************)
EXTENDS Naturals, Sequences, Functions

CONSTANTS Fact, Addr,
          Curated,     \* the rows a run starts with: a set of sequences of facts
          Body,        \* the fact a concept file states
          MaxTurns, MaxEdits, MaxCrashes   \* bounds

MemoryAssumption ==
    /\ \A rows \in Curated : rows \in Seq(Fact)
    /\ Body \in [Addr -> Fact] /\ \A a \in Addr : a \notin Nat

Class == {"private-secret", "persona"}

\* The raw text of a fact, and the text a live capture stores of it (3976).
Raw(f) == [fact |-> f, said |-> FALSE]
Said(f) == [fact |-> f, said |-> TRUE]
Text == [fact : Fact, said : BOOLEAN]

\* An episode, or a row of the registry file.
Episode == [name : Nat \cup Addr, text : Text, superseded : BOOLEAN, class : Class \cup {"none"}]
Ep(n, t, c) == [name |-> n, text |-> t, superseded |-> FALSE, class |-> c]

VARIABLES
    lifecycle,   \* SP_MEM_LIFECYCLE: mark what is superseded, instead of dropping it
    booted,      \* recall_registry, as read at startup
    live,        \* nightshift
    file,        \* the rows of the registry file, the lines that parse
    tail,        \* its last line: "whole", or without its newline, "open" if it
                 \*   parses and is the last row, "cut" if it does not
    concepts,    \* what the store's directory holds: a class per address
    keys,        \* and beside it, the key that L5 selects the concept by
    clock,       \* milliseconds, the source of the names ep_live_m<millis>
    turn,        \* what the thread that holds the KV cache is doing
    scan,        \* what the reconciler is doing
    forgotten,   \* history: texts whose FORGET was confirmed, and not captured since
    victims,     \* history: texts that some pass chose to retire
    torn,        \* history: a crash cut a write to the file short
    stored,      \* history: name and text of the episodes that were captured
    shorn,      \* history: names of rows that a line cut short has taken
    merged,      \* history: how many captures went into such a line
    turns, edits, crashes

memory == <<booted, live, file, tail>>
store == <<concepts, keys>>
history == <<forgotten, victims, torn, stored, shorn, merged>>
bounds == <<turns, edits, crashes>>
vars == <<lifecycle, memory, store, clock, turn, scan, history, bounds>>

Idle == [pc |-> "idle"]
Rows == Range(file)
TextsOf(es) == {e.text : e \in es}

\* Retire the copies of the texts ts in a set or a sequence of episodes.
Mark(e, ts) == IF e.text \in ts THEN [e EXCEPT !.superseded = TRUE] ELSE e
Retire(es, ts) ==
    IF lifecycle THEN {Mark(e, ts) : e \in es} ELSE {e \in es : e.text \notin ts}
RewrittenFirst(s, ts) ==
    LET hit == {i \in DOMAIN s : s[i].text \in ts}
        one == {CHOOSE i \in hit : \A j \in hit : i <= j}
    IN  IF hit = {} THEN s
        ELSE [i \in 1..Len(s) - 1 |-> IF i \in one \/ \E j \in one : j < i THEN s[i + 1] ELSE s[i]]
Without(s, ts) ==
    LET kept[n \in 0..Len(s)] ==
          IF n = 0 THEN <<>>
          ELSE IF s[n].text \in ts THEN kept[n - 1] ELSE Append(kept[n - 1], s[n])
    IN  kept[Len(s)]
Rewritten(s, ts) ==
    IF lifecycle THEN [i \in DOMAIN s |-> Mark(s[i], ts)] ELSE Without(s, ts)

Init ==
    /\ lifecycle \in BOOLEAN
    /\ \E rows \in Curated : file = [i \in DOMAIN rows |-> Ep(i, Raw(rows[i]), "none")]
    /\ booted = Rows /\ tail = "whole"
    /\ live = {}
    /\ concepts = [a \in Addr |-> "absent"] /\ keys = [a \in Addr |-> "none"]
    /\ clock = Len(file) + 1
    /\ turn = [pc |-> "starting"] /\ scan = Idle
    /\ forgotten = {} /\ victims = {} /\ torn = FALSE /\ stored = {}
    /\ shorn = {} /\ merged = 0
    /\ turns = 0 /\ edits = 0 /\ crashes = 0

(***************************** The turn's thread ****************************)

\* Take the texts ts out of the live set; the file is rewritten next.
Drop(ts, next) ==
    /\ live' = Retire(live, ts)
    /\ victims' = victims \cup ts
    /\ turn' = [pc |-> "read", texts |-> ts, next |-> next]

BeginTurn == turn.pc = "idle" /\ turns < MaxTurns /\ turns' = turns + 1

\* FORGET: the memory that overlaps most with the request, of either set.
Forget ==
    /\ BeginTurn
    /\ \E t \in TextsOf(booted \cup live) : Drop({t}, [pc |-> "confirm", text |-> t])
    /\ UNCHANGED <<lifecycle, booted, file, tail, store, clock, scan, forgotten, torn, stored,
                   shorn, merged, edits, crashes>>

\* The file is read, then truncated and written: two steps a crash can part.
\* A line that does not parse is written back, and each gets its newline.
Truncate ==
    /\ turn.pc = "read"
    /\ file' = <<>> /\ tail' = "whole"
    /\ turn' = [pc |-> "write", rows |-> Rewritten(file, turn.texts), next |-> turn.next]
    /\ UNCHANGED <<lifecycle, booted, live, store, clock, scan, history, bounds>>

WriteBack ==
    /\ turn.pc = "write"
    /\ file' = turn.rows
    /\ turn' = turn.next
    /\ UNCHANGED <<lifecycle, booted, live, tail, store, clock, scan, history, bounds>>

Confirm ==
    /\ turn.pc = "confirm"
    /\ forgotten' = forgotten \cup {turn.text}
    /\ turn' = Idle
    /\ UNCHANGED <<lifecycle, memory, store, clock, scan, victims, torn, stored, shorn, merged, bounds>>

\* A capture: its row, and then the live episode.  A capture can fail before
\* it stores anything (tokenizer, device, directory).
Capture(t, next) ==
    /\ clock' = clock + 1
    /\ forgotten' = forgotten \ {t}
    /\ turn' = [pc |-> "append", ep |-> Ep(clock, t, "none"), next |-> next]

\* STORE, and the capture that follows a turn which states something.
Store ==
    /\ BeginTurn
    /\ \E f \in Fact : \E next \in {Idle, [pc |-> "decide", name |-> clock, new |-> f]} :
          Capture(Said(f), next)
    /\ UNCHANGED <<lifecycle, memory, store, scan, victims, torn, stored, shorn, merged, edits, crashes>>

\* The rows once something is written behind a last line without a newline:
\* it does not parse any more.
Joined == IF tail = "open" THEN SubSeq(file, 1, Len(file) - 1) ELSE file
Names(es) == {e.name : e \in es}

\* Whatever is lost is only logged: the capture is served as one that is kept.
AppendRow ==
    /\ turn.pc = "append"
    /\ file' = IF tail = "whole" THEN file \o <<turn.ep>> ELSE Joined
    /\ tail' = "whole"
    /\ shorn' = shorn \cup ((Names(Rows) \cup {turn.ep.name}) \ Names(Range(file')))
    /\ merged' = IF tail = "whole" THEN merged ELSE merged + 1
    /\ stored' = stored \cup {[name |-> turn.ep.name, text |-> turn.ep.text]}
    /\ turn' = [pc |-> "push", ep |-> turn.ep, next |-> turn.next]
    /\ UNCHANGED <<lifecycle, booted, live, store, clock, scan, forgotten, victims, torn, bounds>>

Push ==
    /\ turn.pc = "push"
    /\ live' = live \cup {turn.ep}
    /\ turn' = turn.next
    /\ UNCHANGED <<lifecycle, booted, file, tail, store, clock, scan, history, bounds>>

\* What DECIDE and MERGE may show the model beside the new fact.
Candidates ==
    {e.text : e \in {c \in booted \cup live : c.name # turn.name /\ c.text # Raw(turn.new)}}

\* DECIDE: the model names the memory that the new fact replaces.
Decide ==
    /\ turn.pc = "decide"
    /\ \E t \in Candidates : Drop({t}, Idle)
    /\ UNCHANGED <<lifecycle, booted, file, tail, store, clock, scan, forgotten, torn, stored,
                   shorn, merged, bounds>>

\* MERGE: it names none, and states one fact for the new one and the nearest.
Merge ==
    /\ turn.pc = "decide"
    /\ \E t \in Candidates, f \in Fact :
          Drop({Raw(turn.new), t}, [pc |-> "combine", fact |-> f])
    /\ UNCHANGED <<lifecycle, booted, file, tail, store, clock, scan, forgotten, torn, stored,
                   shorn, merged, bounds>>

\* The consolidated fact is captured as it is, unattributed.
Combine ==
    /\ turn.pc = "combine"
    /\ Capture(Raw(turn.fact), Idle)
    /\ UNCHANGED <<lifecycle, memory, store, scan, victims, torn, stored, shorn, merged, bounds>>

\* Nothing is related or chosen, or the second capture fails.
Leave ==
    /\ turn.pc \in {"decide", "combine"}
    /\ turn' = Idle
    /\ UNCHANGED <<lifecycle, memory, store, clock, scan, history, bounds>>

(****************************** The reconciler ******************************)

\* A pass: before the daemon serves, and then only when it finds no turn active.
\* It notes the names that are live, and visits the files it lists.
ScanBegin ==
    /\ scan.pc = "idle" /\ turn.pc \in {"idle", "starting"}
    /\ scan' = [pc |-> "visit", already |-> {e.name : e \in live}, todo |-> Addr, found |-> {}]
    /\ UNCHANGED <<lifecycle, memory, store, clock, turn, history, bounds>>

\* A file that is known: only its class is compared.
Reread(a) ==
    /\ live' = {IF e.name = a THEN [e EXCEPT !.class = concepts[a]] ELSE e : e \in live}
    /\ scan' = [scan EXCEPT !.todo = @ \ {a}]

Pass(a) == scan' = [scan EXCEPT !.todo = @ \ {a}]
Found(a, pc) == scan' = [scan EXCEPT !.pc = pc, !.todo = @ \ {a},
                                     !.found = @ \cup {Ep(a, Raw(Body[a]), concepts[a])}]

\* A file whose key is there; one cut short by a crash passes for a key, and the
\* concept is passed over for good.
Load(a) ==
    IF keys[a] = "whole" THEN Found(a, "visit") ELSE Pass(a)

\* The model makes up the question that the fact answers, in a cache of its own:
\* with an example, and without one if it does not share a word with the fact.
\* The key is that of the question, read as a live query is.
Attempt == {"grounded", "copied", "failed"}
Question(first, second) == first = "grounded" \/ second = "grounded"
MintQuestion ==
    {opened /\ Question(first, second) /\ read :
        opened \in BOOLEAN, first \in Attempt, second \in Attempt, read \in BOOLEAN}

\* A key that is made is written to its file, which a crash may cut short.
Mint(a) ==
    \E ok \in MintQuestion :
        IF ok THEN Found(a, "key") /\ keys' = [keys EXCEPT ![a] = "cut"]
        ELSE Pass(a) /\ UNCHANGED keys

WriteKey ==
    /\ scan.pc = "key"
    /\ keys' = [a \in Addr |-> IF \E e \in scan.found : e.name = a THEN "whole" ELSE keys[a]]
    /\ scan' = [scan EXCEPT !.pc = "visit"]
    /\ UNCHANGED <<lifecycle, memory, concepts, clock, turn, history, bounds>>

Visit ==
    /\ scan.pc = "visit"
    /\ \E a \in scan.todo :
          IF concepts[a] = "absent" THEN Pass(a) /\ UNCHANGED <<live, keys>>
          ELSE IF a \in scan.already THEN Reread(a) /\ UNCHANGED keys
          ELSE IF keys[a] = "none" THEN Mint(a) /\ UNCHANGED live
          ELSE Load(a) /\ UNCHANGED <<live, keys>>
    /\ UNCHANGED <<lifecycle, booted, file, tail, concepts, clock, turn, history, bounds>>

ScanEnd ==
    /\ scan.pc = "visit" /\ scan.todo = {}
    /\ live' = live \cup scan.found
    /\ IF turn.pc = "starting"
       THEN turn' = Idle /\ scan' = Idle
       ELSE /\ UNCHANGED turn
            \* The refinement pass looks again whether a turn is active.
            /\ scan' = IF turn.pc = "idle" THEN [pc |-> "refine", todo |-> Addr] ELSE Idle
    /\ UNCHANGED <<lifecycle, booted, file, tail, store, clock, history, bounds>>

\* The class is read, then the model classifies the body, which takes long.
RefineRead ==
    /\ scan.pc = "refine"
    /\ \E a \in scan.todo :
          scan' = IF concepts[a] = "absent" THEN [scan EXCEPT !.todo = @ \ {a}]
                  ELSE [pc |-> "judge", todo |-> scan.todo \ {a}, addr |-> a, class |-> concepts[a]]
    /\ UNCHANGED <<lifecycle, memory, store, clock, turn, history, bounds>>

\* What the model makes of a body, in a cache of its own: a class, or nothing
\* that names one.
ModelClassify == Class \cup {"none"}

\* It keeps what it was, or a private secret, or is corrected in both places.
Allowed(old, new) == new \notin {"none", old} /\ old # "private-secret"

\* The live copy, and then the file if it is still there: one step each.
RefineWrite ==
    /\ scan.pc = "judge"
    /\ \E c \in ModelClassify :
          IF Allowed(scan.class, c)
          THEN /\ live' = {IF e.name = scan.addr THEN [e EXCEPT !.class = c] ELSE e : e \in live}
               /\ concepts' = IF concepts[scan.addr] = "absent" THEN concepts
                              ELSE [concepts EXCEPT ![scan.addr] = c]
          ELSE UNCHANGED <<live, concepts>>
    /\ scan' = [pc |-> "refine", todo |-> scan.todo]
    /\ UNCHANGED <<keys, lifecycle, booted, file, tail, clock, turn, history, bounds>>

RefineEnd ==
    /\ scan.pc = "refine" /\ scan.todo = {}
    /\ scan' = Idle
    /\ UNCHANGED <<lifecycle, memory, store, clock, turn, history, bounds>>

(***************************** The environment ******************************)

\* The harness writes a concept, corrects its class, or removes it.
Edit ==
    /\ edits < MaxEdits
    /\ edits' = edits + 1
    /\ \E a \in Addr, c \in Class \cup {"absent"} :
          c # concepts[a] /\ concepts' = [concepts EXCEPT ![a] = c]
    /\ UNCHANGED <<keys, lifecycle, memory, clock, turn, scan, history, turns, crashes>>

\* What a crash leaves of the file: of a rewrite its first rows and perhaps a
\* part of the next line, a row or one that did not parse; of an append nothing,
\* a part of the line, or all but its newline.
Left ==
    CASE turn.pc = "write" ->
           \E n \in 0..Len(turn.rows) :
              /\ file' = SubSeq(turn.rows, 1, n)
              /\ \/ tail' = "whole"
                 \/ tail' = "cut" /\ (n < Len(turn.rows) \/ torn)
                 \/ tail' = "open" /\ n > 0
      [] turn.pc = "append" ->
           \/ UNCHANGED <<file, tail>>
           \/ file' = Joined /\ tail' = "cut"
           \/ tail = "whole" /\ file' = file \o <<turn.ep>> /\ tail' = "open"
      [] OTHER -> UNCHANGED <<file, tail>>

\* A crash and a restart, which reads the lines that parse.
Crash ==
    /\ crashes < MaxCrashes
    /\ crashes' = crashes + 1
    /\ Left
    /\ torn' = (torn \/ turn.pc \in {"write", "append"})
    /\ shorn' = shorn \cup (Names(Rows \cup IF turn.pc = "write" THEN Range(turn.rows) ELSE {})
                             \ Names(Range(file')))
    /\ booted' = Range(file') /\ live' = {}
    /\ turn' = [pc |-> "starting"] /\ scan' = Idle
    /\ UNCHANGED <<lifecycle, store, clock, forgotten, victims, stored, merged, turns, edits>>

TurnStep ==
    \/ Truncate \/ WriteBack \/ Confirm \/ AppendRow \/ Push
    \/ Decide \/ Merge \/ Combine \/ Leave
ScanStep == ScanBegin \/ Visit \/ WriteKey \/ ScanEnd \/ RefineRead \/ RefineWrite \/ RefineEnd
Next == Forget \/ Store \/ TurnStep \/ ScanStep \/ Edit \/ Crash

Spec == Init /\ [][Next]_vars

(******************************** Properties ********************************)

\* Every component is of its type; only a capture of this process is live under
\* a number.
TypeOK ==
    /\ lifecycle \in BOOLEAN /\ torn \in BOOLEAN /\ tail \in {"whole", "open", "cut"}
    /\ booted \subseteq Episode /\ live \subseteq Episode /\ Rows \subseteq Episode
    /\ concepts \in [Addr -> Class \cup {"absent"}]
    /\ keys \in [Addr -> {"none", "cut", "whole"}]
    /\ forgotten \subseteq Text /\ victims \subseteq Text
    /\ shorn \subseteq Nat /\ merged \in Nat
    /\ turn.pc \in {"starting", "idle", "read", "write", "confirm", "append", "push",
                   "decide", "combine"}
    /\ scan.pc \in {"idle", "visit", "key", "refine", "judge"}

\* Between two turns, the episodes captured in this run and what the file holds
\* of them are the same, mark by mark: what is retired in one place is retired
\* in the other, and a restart changes nothing, but for what a cut line took.
Captured(es) == {[name |-> e.name, superseded |-> e.superseded] : e \in {x \in es : x.name \in Nat}}
LiveMatchesFile ==
    turn.pc = "idle" =>
        {r \in Captured(live) : r.name \notin shorn}
          = {r \in Captured(Rows) : r.name \notin Names(booted)}

\* What was confirmed as forgotten is in no row that a restart would recall: not
\* through a second copy, nor through a pass that rewrites the file later.
ForgottenIsDurable ==
    turn.pc \in {"idle", "starting"} =>
        \A e \in Rows : e.text \in forgotten => e.superseded

\* Retiring a memory takes nothing else with it: the row of a capture stays
\* until a pass chooses its text, or a crash cuts its line short or the one
\* that it was appended to.
NothingElseLost ==
    turn.pc # "write" =>
        \A r \in stored :
            \/ \E e \in Rows : e.name = r.name
            \/ ~lifecycle /\ r.text \in victims
            \/ r.name \in shorn

\* A crash costs at most one capture that is made after it.
LostLater == merged <= crashes

\* A concept is served only with a key that is whole in its file, whatever a
\* crash left of it: the key that selects it is the one of a later start.
ServedByItsKey ==
    \A e \in live : e.name \in Addr => keys[e.name] = "whole"
================================================================================

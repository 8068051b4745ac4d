----------------------------- MODULE DaemonLife -----------------------------
(***************************************************************************)
(* The life of daemon processes: the commands start and stop with the PID  *)
(* file between them, the boot of the inner process part by part, its      *)
(* requests, and the graceful shutdown (main.rs, daemon.rs, server.rs).    *)
(*                                                                         *)
(* A part is what the boot makes: a field of AppState, the reconciler's    *)
(* thread, the listeners.  What the parts compute is left out.             *)
(***************************************************************************)
EXTENDS Naturals, Sequences

CONSTANTS
  Pid,        \* process ids; the system reuses the ids of ended processes
  Operator,   \* those who type commands
  Config,     \* command lines and environments the daemon is started with
  Graceful,   \* TRUE: SIGTERM (Unix); FALSE: taskkill /F (Windows)
  MaxStarts   \* bound on the processes spawned

None == "none"

LifeAssumption == Graceful \in BOOLEAN /\ MaxStarts \in Nat /\ None \notin Pid

VARIABLES
  pid_file,   \* the process the PID file names, or None
  cmd,        \* what each operator's command does next
  proc,       \* each process, or Gone
  port,       \* the process that listens on the HTTP port, or None
  starts,     \* processes spawned so far
  crossed     \* the last start came over a daemon nobody had told to stop, or
              \* two commands ran at once since: start and stop do not look

vars == <<pid_file, cmd, proc, port, starts, crossed>>

Gone == [phase |-> "gone"]
Idle == [do |-> "idle"]

Phase(p) == proc[p].phase
Live     == {p \in Pid : Phase(p) # "gone"}

Init ==
  /\ pid_file = None /\ port = None /\ starts = 0 /\ crossed = FALSE
  /\ cmd = [o \in Operator |-> Idle]
  /\ proc = [p \in Pid |-> Gone]

-----------------------------------------------------------------------------
(***************************************************************************)
(* run_inner makes the parts that its configuration asks for, in order.    *)
(***************************************************************************)
Option(c, part) == IF part \in c.options THEN <<part>> ELSE <<>>

\* The qwen36 arch has a lane of its own instead of a session.
TargetParts(c) ==
  <<"model">> \o (IF c.qwen36 THEN <<>> ELSE <<"session">>) \o <<"tokenizer">>
  \o (IF c.qwen36 THEN <<"qwen36_lane">> ELSE <<>>)

DraftParts(c) == IF c.draft THEN <<"draft_model", "draft_session">> ELSE <<>>

MemoParts(c) == IF c.memo THEN <<"memo_model", "memo_session", "memo_tokenizer">> ELSE <<>>

LedgerPart(c) == Option(c, "ledger")

DspParts(c) == Option(c, "dsp_session") \o Option(c, "dsp_model") \o Option(c, "kv_cache")

HexPart(c) == Option(c, "ntt_hex_backend")

BackendPart(c) == Option(c, "forward_backend")

KvDecodePart(c) == Option(c, "cuda_kvdecode_handle")

RegistryPart(c) == Option(c, "recall_registry")

ReconcilerPart(c) == Option(c, "reconciler")

QuicPart(c) == Option(c, "quic")

Boot(c) ==
  TargetParts(c) \o DraftParts(c) \o MemoParts(c) \o LedgerPart(c) \o DspParts(c) \o HexPart(c)
  \o BackendPart(c) \o KvDecodePart(c) \o RegistryPart(c) \o ReconcilerPart(c) \o QuicPart(c)
  \o <<"listener">>

\* Their failure panics; any other part is done without.
Required == {"model", "session", "tokenizer", "qwen36_lane", "draft_model", "draft_session",
             "memo_model", "memo_session", "memo_tokenizer", "ledger", "listener"}

-----------------------------------------------------------------------------
(***************************************************************************)
(* start spawns the inner process, then writes its id, whether or not a    *)
(* daemon runs; stop reads the id, signals it, then removes the file.      *)
(***************************************************************************)
Alone(o) == \A q \in Operator \ {o} : cmd[q] = Idle

Spawn(o, p, c) ==
  /\ cmd[o] = Idle /\ p \notin Live /\ starts < MaxStarts
  /\ proc' = [proc EXCEPT ![p] = [phase |-> "boot", left |-> Boot(c), parts |-> {}, worker |-> {},
                                  conn |-> {}, stalled |-> {}, signalled |-> FALSE]]
  /\ cmd' = [cmd EXCEPT ![o] = [do |-> "write", pid |-> p]]
  /\ starts' = starts + 1
  /\ crossed' = ~ (Alone(o) /\ \A q \in Live : proc[q].signalled)
  /\ UNCHANGED <<pid_file, port>>

WritePidOnce(o) ==                       \* mutant of WritePid: an old file stays
  /\ cmd[o].do = "write"
  /\ pid_file' = IF pid_file = None THEN cmd[o].pid ELSE pid_file
  /\ cmd' = [cmd EXCEPT ![o] = Idle]
  /\ UNCHANGED <<proc, port, starts, crossed>>

WritePid(o) ==
  /\ cmd[o].do = "write"
  /\ pid_file' = cmd[o].pid
  /\ cmd' = [cmd EXCEPT ![o] = Idle]
  /\ UNCHANGED <<proc, port, starts, crossed>>

ReadPid(o) ==
  /\ cmd[o] = Idle /\ pid_file # None
  /\ cmd' = [cmd EXCEPT ![o] = [do |-> "term", pid |-> pid_file]]
  /\ crossed' = (crossed \/ ~ Alone(o))
  /\ UNCHANGED <<pid_file, proc, port, starts>>

\* The process ends at once; the system closes what it held.
Ended(p) ==
  /\ proc' = [proc EXCEPT ![p] = Gone]
  /\ port' = IF port = p THEN None ELSE port

\* send_term: a signal before the server polls its handler kills, as /F does.
SendTerm(o) ==
  /\ cmd[o].do = "term"
  /\ LET p == cmd[o].pid IN
       \/ p \notin Live /\ UNCHANGED <<proc, port>>
       \/ p \in Live /\ (Phase(p) = "boot" \/ ~ Graceful) /\ Ended(p)
       \/ /\ p \in Live /\ Phase(p) # "boot" /\ Graceful
          /\ proc' = [proc EXCEPT ![p].signalled = TRUE]
          /\ UNCHANGED port
  /\ cmd' = [cmd EXCEPT ![o].do = "remove"]
  /\ UNCHANGED <<pid_file, starts, crossed>>

RemovePid(o) ==
  /\ cmd[o].do = "remove"
  /\ pid_file' = None
  /\ cmd' = [cmd EXCEPT ![o] = Idle]
  /\ UNCHANGED <<proc, port, starts, crossed>>

-----------------------------------------------------------------------------
\* Backends are registered on the target session and expect() it.
NeedsSession == {"forward_backend", "cuda_kvdecode_handle"}

\* What an optional part is made on, and done without if it is not there.
MadeOn(part) == IF part = "kv_cache" THEN {"dsp_model"}
                ELSE IF part = "ntt_hex_backend" THEN {"memo_session"} ELSE {}

Booting(p) == Phase(p) = "boot"
Part(p)    == Head(proc[p].left)

BootFits(p) ==
  /\ Part(p) \in NeedsSession => "session" \in proc[p].parts
  /\ Part(p) = "listener" => port = None

BootOK(p) ==
  /\ Booting(p) /\ BootFits(p) /\ MadeOn(Part(p)) \subseteq proc[p].parts
  /\ proc' = [proc EXCEPT ![p].parts = @ \union {Part(p)}, ![p].left = Tail(@),
                          ![p].phase = IF Part(p) = "listener" THEN "serving" ELSE @]
  /\ port' = IF Part(p) = "listener" THEN p ELSE port
  /\ UNCHANGED <<pid_file, cmd, starts, crossed>>

BootWithout(p) ==
  /\ Booting(p) /\ BootFits(p) /\ Part(p) \notin Required
  /\ proc' = [proc EXCEPT ![p].left = Tail(@)]
  /\ UNCHANGED <<pid_file, cmd, port, starts, crossed>>

BootPanics(p) ==
  /\ Booting(p)
  /\ Part(p) \in Required \/ ~ BootFits(p)
  /\ Ended(p)
  /\ UNCHANGED <<pid_file, cmd, starts, crossed>>

\* A device fault or the operating system ends the process.
Crash(p) ==
  /\ p \in Live
  /\ Ended(p)
  /\ UNCHANGED <<pid_file, cmd, starts, crossed>>

-----------------------------------------------------------------------------
(***************************************************************************)
(* Requests.  A chat runs on a blocking thread; its client may leave       *)
(* before it ends.  (A dialogue does too; its client has nothing to leave  *)
(* unread.)  An events stream is a connection only, and ends only with its *)
(* client.  A client may leave a chat unread: its thread then waits in     *)
(* blocking_send for room among 64 events, and what is in the channel      *)
(* keeps the connection open.                                              *)
(***************************************************************************)
Requests == {"chat", "events"}

Request(p, r) ==
  /\ Phase(p) = "serving" /\ r \notin proc[p].worker \union proc[p].conn
  /\ proc' = [proc EXCEPT ![p].conn = @ \union {r},
                          ![p].worker = IF r = "events" THEN @ ELSE @ \union {r}]
  /\ UNCHANGED <<pid_file, cmd, port, starts, crossed>>

WorkerEnds(p, r) ==
  /\ p \in Live /\ r \in proc[p].worker
  /\ proc' = [proc EXCEPT ![p].worker = @ \ {r},
                          ![p].conn = IF r \in proc[p].stalled THEN @ ELSE @ \ {r}]
  /\ UNCHANGED <<pid_file, cmd, port, starts, crossed>>

\* A thread that nobody keeps from ending.
FreeWorkerEnds(p, r) == p \in Live /\ r \notin proc[p].stalled /\ WorkerEnds(p, r)

ClientStalls(p) ==
  /\ p \in Live /\ "chat" \in proc[p].conn \ proc[p].stalled
  /\ proc' = [proc EXCEPT ![p].stalled = {"chat"}]
  /\ UNCHANGED <<pid_file, cmd, port, starts, crossed>>

\* The client reads on, to the end if the thread has ended.
ClientReads(p) ==
  /\ p \in Live /\ "chat" \in proc[p].stalled
  /\ proc' = [proc EXCEPT ![p].stalled = {},
                          ![p].conn = IF "chat" \in proc[p].worker THEN @ ELSE @ \ {"chat"}]
  /\ UNCHANGED <<pid_file, cmd, port, starts, crossed>>

ClientLeaves(p, r) ==
  /\ p \in Live /\ r \in proc[p].conn
  /\ proc' = [proc EXCEPT ![p].conn = @ \ {r}, ![p].stalled = @ \ {r}]
  /\ UNCHANGED <<pid_file, cmd, port, starts, crossed>>

-----------------------------------------------------------------------------
(***************************************************************************)
(* Shutdown.  The listener closes at the signal, the server waits for its  *)
(* connections, the runtime for its blocking threads.  Then the last Arc   *)
(* drops AppState; the reconciler's thread, which never ends, holds one:   *)
(* main returns all the same and the process ends with nothing dropped.    *)
(***************************************************************************)
Drain(p) ==
  /\ Phase(p) = "serving" /\ proc[p].signalled
  /\ proc' = [proc EXCEPT ![p].phase = "draining"]
  /\ port' = None
  /\ UNCHANGED <<pid_file, cmd, starts, crossed>>

Drained(p) ==
  /\ Phase(p) = "draining" /\ proc[p].conn = {}
  /\ proc' = [proc EXCEPT ![p].phase = "leaving"]
  /\ UNCHANGED <<pid_file, cmd, port, starts, crossed>>

ExitJoins(p) ==                          \* mutant of Exit: the reconciler is joined
  /\ Phase(p) = "leaving" /\ proc[p].worker = {} /\ "reconciler" \notin proc[p].parts
  /\ Ended(p)
  /\ UNCHANGED <<pid_file, cmd, starts, crossed>>

Exit(p) ==
  /\ Phase(p) = "leaving" /\ proc[p].worker = {}
  /\ Ended(p)
  /\ UNCHANGED <<pid_file, cmd, starts, crossed>>

-----------------------------------------------------------------------------
Command(o) ==
  \/ \E p \in Pid, c \in Config : Spawn(o, p, c)
  \/ WritePid(o) \/ ReadPid(o) \/ SendTerm(o) \/ RemovePid(o)

Closing(p) == Drained(p) \/ Exit(p)

Process(p) ==
  \/ BootOK(p) \/ BootWithout(p) \/ BootPanics(p) \/ Crash(p)
  \/ \E r \in Requests : Request(p, r) \/ ClientLeaves(p, r) \/ WorkerEnds(p, r)
  \/ ClientStalls(p) \/ ClientReads(p)
  \/ Drain(p) \/ Closing(p)

Next == (\E o \in Operator : Command(o)) \/ (\E p \in Pid : Process(p))

Spec     == Init /\ [][Next]_vars
FairSpec ==
  Spec /\ \A p \in Pid :
    /\ WF_vars(Drain(p)) /\ WF_vars(Closing(p))
    /\ \A r \in Requests : WF_vars(FreeWorkerEnds(p, r))

-----------------------------------------------------------------------------
(***************************************************************************)
(* "Write PID before the parent exits so `stop` can locate the process":   *)
(* between commands the PID file names every daemon that nobody has told   *)
(* to stop, whatever a crash, a failed boot or a daemon still draining     *)
(* left behind, unless the last start came over such a daemon or commands  *)
(* crossed.                                                                *)
(***************************************************************************)
Locatable ==
  ~ crossed /\ (\A o \in Operator : cmd[o] = Idle)
    => \A p \in Live : pid_file = p \/ proc[p].signalled

(***************************************************************************)
(* A daemon that was told to stop ends, unless a client keeps an events    *)
(* stream open, which no server event closes, or leaves a chat unread.     *)
(***************************************************************************)
StopEnds ==
  \A p \in Pid :
    (p \in Live /\ proc[p].signalled) ~>
      (p \notin Live \/ "events" \in proc[p].conn \/ proc[p].stalled # {})
=============================================================================

-------------------------------- MODULE Captures --------------------------------
(***************************************************************************)
(* How an episode's rows reach its directory.  A batched forward writes    *)
(* them where the process-wide variable SP_XBAR_RECALL_WRITE points, which *)
(* a capture sets before its forward and unsets after it (routes.rs, the   *)
(* glue of the CUDA backend, gemma4_decode_cuda).  A turn captures with    *)
(* the resident cache's mutex held; POST /v1/capture holds nothing.        *)
(***************************************************************************)
CONSTANTS Turns,   \* captures of chat turns: what was said, STORE, MERGE
          Posts,   \* captures of POST /v1/capture
          None

Capture == Turns \cup Posts   \* each stands for its directory as well
File == {"ep.mf", "ep.k", "ep.v"}

CapturesAssumption == None \notin Capture /\ Turns \cap Posts = {}

VARIABLES kv,        \* who holds the resident cache's mutex
          env,       \* the directory that SP_XBAR_RECALL_WRITE names
          work,      \* [Capture -> where it is]
          disk,      \* [Capture -> its directory: whose text each file is of]
          outcome    \* [Capture -> what its caller was answered]

vars == <<kv, env, work, disk, outcome>>

Idle == [pc |-> "idle", wr |-> None, stale |-> FALSE, left |-> {}, failed |-> FALSE]

Init ==
  /\ kv = None /\ env = None
  /\ work = [c \in Capture |-> Idle]
  /\ disk = [c \in Capture |-> [f \in File |-> None]]
  /\ outcome = [c \in Capture |-> "none"]

At(c, pc) == work[c].pc = pc

\* The model is borrowed under the session's lock, which is dropped again, and
\* the directory is made.
Begin(c) ==
  /\ At(c, "idle")
  /\ c \in Turns => kv = None
  /\ kv' = IF c \in Turns THEN c ELSE kv
  /\ work' = [work EXCEPT ![c].pc = "set"]
  /\ UNCHANGED <<env, disk, outcome>>

\* Setting the variable frees the string that a forward may have a pointer to.
Moved(c, pc) ==
  [d \in Capture |-> IF d = c THEN [work[c] EXCEPT !.pc = pc]
                     ELSE [work[d] EXCEPT !.stale = @ \/ work[d].wr # None]]

SetDir(c) ==
  /\ At(c, "set")
  /\ env' = c
  /\ work' = Moved(c, "forward")
  /\ UNCHANGED <<kv, disk, outcome>>

\* The forward reads the variable first: without one it keeps no rows, and that
\* is not an error.
Forward(c) ==
  /\ At(c, "forward")
  /\ \E ok \in BOOLEAN :
       work' = [work EXCEPT ![c].pc = "write", ![c].wr = env, ![c].failed = ~ ok,
                            ![c].left = IF ok /\ env # None THEN File ELSE {}]
  /\ UNCHANGED <<kv, env, disk, outcome>>

\* It writes through the pointer that it read, or through what has become of it.  Files
\* can be written.
Write(c, f) ==
  /\ At(c, "write") /\ f \in work[c].left
  /\ \E d \in IF work[c].stale THEN Capture \cup {None} ELSE {work[c].wr} :
       disk' = IF d = None THEN disk ELSE [disk EXCEPT ![d][f] = c]
  /\ work' = [work EXCEPT ![c].left = @ \ {f}]
  /\ UNCHANGED <<kv, env, outcome>>

Unset(c) ==
  /\ At(c, "write") /\ work[c].left = {}
  /\ env' = None
  /\ work' = Moved(c, "answer")
  /\ UNCHANGED <<kv, disk, outcome>>

\* A turn reads the keys back before it appends the episode; POST does not look.
Kept(c) == ~ work[c].failed /\ (c \in Turns => disk[c]["ep.k"] # None)

Answer(c) ==
  /\ At(c, "answer")
  /\ outcome' = [outcome EXCEPT ![c] = IF Kept(c) THEN "ok" ELSE "error"]
  /\ kv' = IF kv = c THEN None ELSE kv
  /\ work' = [work EXCEPT ![c] = [Idle EXCEPT !.pc = "over"]]
  /\ UNCHANGED <<env, disk>>

Next ==
  \E c \in Capture :
    \/ Begin(c) \/ SetDir(c) \/ Forward(c) \/ Unset(c) \/ Answer(c)
    \/ \E f \in File : Write(c, f)

Spec == Init /\ [][Next]_vars
-----------------------------------------------------------------------------
\* A capture that was answered as done left all of its episode in its own
\* directory, and no directory holds rows of a text that is not its own.
CapturesOwn ==
  \A c \in Capture :
    /\ outcome[c] = "ok" => disk[c] = [f \in File |-> c]
    /\ \A f \in File : disk[c][f] \in {None, c}
================================================================================

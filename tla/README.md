# Shannon-Prime engine in TLA+

Modules, model-checking configurations and proofs about the engine in this repository. Line numbers
refer to the sources as they are beside this directory; `PROJECT.json` ties every definition of a
module to the lines it models.

## 1. The system

A Rust daemon (`tools/sp_daemon`) serves a chat API and drives C, CUDA, Vulkan and Hexagon backends
(`src/backends`) through a C ABI. It keeps the K/V rows of a conversation on the device between two
turns, recalls stored memories ("episodes") into a turn, captures new ones, spills attention blocks
to a disk-backed store or to a peer, recombines residues that remote shard workers compute, and
writes receipts of its dialogues. Memories are files, replicated between nodes by `tools/sp_swarm`.
The same executable holds a dozen one-shot programs that the environment selects, and
`tools/sp_dsp_smoke` the programs that drive the Hexagon DSP.

    request --> chat turn (routes.rs) --> resident K/V cache (cuda_forward.cu)
                  |    |     |                 |
                  |    |     +-- taps          +-- rewind / replay / ablate for memory scoring
                  |    +-- recall cascade <--> memory: registry file, live set, concept files
                  |    +-- capture of the turn as an episode; POST /v1/capture beside it
                  +-- sessions, cancel flags, event streams
                  +-- inference_active --> miner, kairos (they back off)
    dialogue --> receipts --> ledger file <-- replay tool
    attention --> Ring-2 store (ring2_arm_backend.c) --> disk (ring2_disk.c) or ring2_quic.rs
    shard workers --QUIC--> garner loop (quic_shard.rs) --> recombined sequences
    memory files <--QUIC--> memory swarm (sp_swarm) <--> other nodes
    main --> one of: daemon start/stop/serve, kairos, latent tools, curator, spec_validate

### Inventory

**Device K/V cache** (`src/backends/cuda/cuda_forward.cu` 4040-6110). *State*: `sp_g4_kv` with the
positions `dpos` and `commit_pos`; for each owner layer either a full cache, a row per position, or
a ring of `ring_W` rows for the sliding-window layers; the undo journal of `Jmax` rows per ring
owner. *Operations*: `prefill`, `prefill_batched`, `decode_logits`, `read_global_q` (a peek),
`replay`, `inject`, `inject_tokens`, `ablate_rows`, `rewind`, `commit`, `reset`, `reset_cold`.
*Hard*: a ring slot is clobbered by a later position and has to be put back by a rewind; the journal
slides when it is full; a step may fail between two layers. *Correct when* the window a step attends
to holds, for each of its positions, the row last computed for that position.

**Resident chat turn** (`routes.rs` `run_kvdecode_chat`, 1326-4268). *State*: the resident cache in
a process-wide mutex, and `KV_COMMITTED`, the tokens that the last turn left in it. *Operations*:
reuse the common prefix or reset, prefill, inject frames, deliver a recall, replay, decode,
generate, record. *Hard*: the turn ends in a dozen places and one of them updates the record; a
recall may take the cache over for a prompt of its own and be refused its rebuilding; reuse trusts
lengths. *Correct when* the answer is decoded from its own prompt or an announced memory.

**Recall cascade** (`routes.rs`, `spine.rs`, `recall.rs`, `telepathy.rs`). Between prefill and
sampling a ladder of stages may take the turn, each behind an environment switch, all working in
the resident cache; a draft may be held back and vetoed. *Hard*: a probe must leave the rows it
found; two stages may both deliver; a veto comes after text was produced. *Correct when* an answer
is decoded over at most one memory, the announced one, and nothing of a vetoed draft is sent.

**Episodic memory** (`routes.rs`, `recall.rs`, `daemon.rs`). *State*: the registry file, the copy of
it read at start, the live episodes, the concept files with their key sidecars. *Operations*: STORE,
FORGET, DECIDE, MERGE, the reconciler thread, edits from outside, restart. *Hard*: file and memory
change at different moments, the file is truncated before it is written, a crash falls in between or
inside a line.
*Correct when* what was confirmed as forgotten is recalled by no later start, and retiring one
memory takes no other with it.

**Episode capture** (`routes.rs` 3925-3990 and 4286-4350, `cuda_kvdecode_dispatch.rs`, the CUDA
glue). A forward writes its rows where the process-wide variable `SP_XBAR_RECALL_WRITE` points.
*Hard*: set, forward, write, unset are four steps and the variable is one. *Correct when* an
episode answered as captured lies whole in its own directory.

**Latent taps and K/V handles** (`cuda_kvdecode_dispatch.rs`, taps in `routes.rs` and
`cuda_forward.cu`). One slot on the handle that the next forward writes through. *Hard*: a refused
step leaves the tap armed when its buffer is dropped. *Correct when* a tap writes for the step it
was armed for, into memory that is still there.

**Sampler, tokenizer and stop strings** (`sampler.rs`, `tokenizer.rs`, decode loop of `routes.rs`).
*Hard*: bytes held back for a character or a stop string; special tokens masked and waited for at
once. *Correct when* what is shown is the text that was decoded up to its stop, and a turn can end.

**Ring-2 store** (`src/backends/cpu/ring2_arm_backend.c`, `ring2_disk.c`). *State*: for K and for V
a file and a staging cache: slab of slots, open-address table, doubly linked list of use. *Hard*:
repair of probe chains that wrap around, reuse of evicted slots, a batch that fails for one stream
only. *Correct when* a cached read equals a device read, and what stays cached is what was used last.

**Remote Ring-2 store** (`network/ring2_quic.rs`). The same interface over QUIC: a client behind a
mutex, a server with a map of blocks. *Hard*: timeouts that race answers, tasks of a lost connection
that still run, a peer that comes back empty. *Correct when* a read answers with what was written,
and no call hangs.

**Garner loop** (`network/quic_shard.rs`). *State*: `pending`, halves by sequence number;
`peer_map`, shard by address; the channel of results. *Operations*: accept, a close-watcher and a
stream loop per connection, a task per block. *Hard*: both tasks of a pair may see it complete,
blocks are sent again, entries of peers are refined after their connection ended. *Correct when*
every pair that has arrived is recombined and no block is used twice.

**Memory swarm** (`tools/sp_swarm`). *State*: per node a directory of objects by address, a roster
of public keys, a list of peers. *Operations*: serve `have` and `get`; pull: list, diff, get,
verify, write; move on to the next peer. *Hard*: files are listed before they are filled, nodes
crash, connections break, write errors are ignored, trust is not symmetric. *Correct when* only what
passes its checks spreads, nothing held is lost, and a node obtains what the peers it trusts hold.

**Receipt ledger** (`pouw_ledger.rs`) and **dialogue** (`dialogue.rs`, `dialogue_runner.rs`,
`/v1/dialogue`). *State*: an append-only file of 64-byte receipts, the count of bytes written;
three turns over two cloned sessions. *Hard*: a crash in an append leaves a torn record; two handles
share a file; a receipt is made before the session goes on. *Correct when* receipts are read back,
replays in any order list alike, and a receipt attests what the sessions hold.

**Sessions, abort and background mining** (`sessions.rs`, `mining.rs`, `routes.rs`,
`qwen36_lane.rs`). *State*: session id to cancel flag; `inference_active`, shared by the chats and
dialogues; event channels; the receipt store. *Hard*: an abort races the end of its turn, a client
leaves, a channel is full. *Correct when* nothing of a turn outlives it, one turn decodes at a time,
and what is announced is stored.

**Daemon life cycle and programs** (`main.rs`, `daemon.rs`, `state.rs`, `server.rs`). *State*: the
PID file, the parts that boot made, the requests in flight. *Hard*: a step of the boot fails, a
signal arrives during a decode, a client reads no further, a start comes over a running daemon.
*Correct when* a stop finds the daemon, and a daemon told to stop ends.

**Speculative decoding** (`spec.rs`, `session.rs`, `bin/spec_validate.rs`), **drafted decode and
latent tools** (`eagle_accept.rs`), **Kairos** (`kairos.rs`, `kairos_runner.rs`). Sessions that go
forward and back. *Hard*: a rejected proposal, an idle tick, a tapped event must be taken out of a
session exactly. *Correct when* the text is the target's own, an idle tick leaves no trace, and a
latent is tapped over its own event.

**DSP bridge and arithmetic** (`dsp_rpc.rs`, `tools/sp_dsp_smoke`, `ntt_hex_dispatch.rs`,
`sp_trick1`). Buffers on a shared heap, calls on a device handle, products modulo two primes.
*Correct when* a buffer lives as long as what uses it, an answer is to its own request, and the
recombined product is the integer one.

**Nightshift curator** (`nightshift_curator.rs`). Scores each live episode with and without its
secret rows. *Correct when* the two passes differ by those rows alone.

Not modelled: the numerical **forward passes and loaders** (`src/backends/*`, `src/forward`,
`src/io`; the mathematical core `lib/shannon-prime-system` is another repository), the **backend
trampolines and telemetry**, and the **model transcoder** (`tools/sp_transcode`).

`PROJECT.json` lists, under `hazards`, what in this code is hard to test, each at its line with the
properties that cover it or the reason why none does.

## 2. What is modelled

| module | stands for | kind |
|---|---|---|
| `KVRing` | the device cache: positions, rings, journal | detailed |
| `KVCache` | a log of rows whose end the windowed layers see | abstract, implemented by `KVRing` |
| `ResidentChat` | a chat turn on the resident cache and its record | detailed |
| `FreshChat` | a daemon that computes every context anew | abstract, implemented by `ResidentChat` where no recall went astray |
| `RecallCascade` | the stages that may claim a turn's recall, probes, delivery, veto | part of `TurnParts` |
| `MemoryStore` | registry, live set, concepts, and what edits them, with crashes | part of `TurnParts` |
| `Captures` | the variable that points a forward at an episode's directory | part of `TurnParts` |
| `TextStream` | from messages to the text of the answer | part of `TurnParts` |
| `KvHandle` | the tap slot behind the cache's handle and the buffers of a turn | part of `TurnParts` |
| `DualNtt` | integer products on two primes | part of `TurnParts` |
| `DspBridge` | FastRPC sessions, their buffers, four programs over them | part of `TurnParts` |
| `Curator` | the pass that admits live episodes | part of `TurnParts` |
| `TurnParts` | one of the eight parts in play | composition |
| `Ring2Cache` | staging cache of one Ring-2 stream over its device | part of `Network` |
| `LruStore` | a store that remembers the blocks used last | abstract, implemented by `Network` |
| `RemoteRing2` | a peer as the store | part of `Network` |
| `GarnerLoop` | connections, block tasks, the two shared maps | part of `Network` |
| `Swarm` | nodes that serve and pull | part of `Network` |
| `ReplicaStores` | nodes that copy an object at a stroke and keep it | abstract, implemented by `Swarm` |
| `Network` | one of the three protocols between machines in play, or the disk | composition |
| `PouwLedger` | the receipt ledger's files and handles | extended by `Dialogue` |
| `Dialogue` | the three turns of dialogues and their receipts, over the ledger | composition |
| `DaemonChats` | requests, lanes, cancel flags, event channels, miner | detailed |
| `DaemonLife` | PID file, boot, requests in flight, shutdown, release | part of `Programs` |
| `SpecDecode` | speculative decoding and the loops that drive it | part of `Programs` |
| `Greedy` | the target's own greedy continuation | abstract, implemented by `Programs` |
| `Kairos` | heartbeat and runner on one session | part of `Programs` |
| `LatentTools` | the one-shot tools of `eagle_accept.rs` | part of `Programs` |
| `Programs` | what a process of the executable is | composition |
| `KVRingProofs`, ... | theorems about the module so named and, for a composition, about its parts; `RecallProofs` also about `TextStream` | proofs |
| `MC...` | values for the constants of the small instances | model checking |

In every module an operator whose comment says *mutant* or *mutated* is a plausible bug in the
definition it names. It takes no part in the specification; `PROJECT.json` names the property that
fails when it does. A composition puts parts in one specification that share no state or share it
through one interface, so that a run explores all of them from their own initial states; the parts
that do share state (`Dialogue` over `PouwLedger`; the lanes, dialogues and miner of `DaemonChats`)
interleave.

### KVRing

`dpos`, `commit_pos` are the fields of `sp_g4_kv`; `full` is one global owner (`dKc[L]`, a row per
position), `ring` one SWA owner (`dKc[L]`, slot `p % ring_W`), `jrnl` its `jK[L]`. Every step writes
all owners alike, so one of each kind is enough. A `Value` names the step that computed a row, and
K and V of a position are one row. `jcur`, which mirrors `dpos - commit_pos` and is never read for
an index, is left out.

| action | call |
|---|---|
| `Prefill`, `DecodeLogits` | `g4_kv_step` under the position check of its caller, with the slide of the journal |
| `FailedStep` | `g4_kv_step` that returns -1 after an SWA layer wrote and before the global one did |
| `ReadGlobalQ` | a step whose counters are put back: rows and journal entry stay |
| `ReplayRow` | a row of `gemma4_kv_replay`, journal check included |
| `Ablate`, `Attenuate` | rows rewritten in place |
| `Rewind` | restores from the highest position down, so the snapshot of the earliest user of a slot stays |
| `Commit`, `Reset`, `ResetCold` | the calls of those names |
| `PrefillBatched` | the batched pass over a cold cache, of up to `Pmax` rows |

A batch may be longer than the journal; the step after it slides `commit_pos`. Between the two a
rewind would look past the journal's end unchecked (`cuda_forward.cu` 5230), and no caller makes one:
`Rewind` has that as a premise (`Journaled`).

### ResidentChat

`cache` is the sequence of rows in the resident cache, a row being the token it was computed for (the
kernels, `byteexact`, are left out); `committed` is `KV_COMMITTED`; `turn` is the turn that holds the
mutex; `persist` is `SP_PERSIST_KV` without the switches that exclude it (1398-1405). `Begin` is the
guard of `routes.rs` 1397-1444 with its two outcomes, and each action after it one stage of the function:
`PrefillHead`, `InjectFrames`, a recall, `Replay`, `DecodeLast`, `Generate`, `End`. `Kind` separates what
one field of the request decides: `plain` (the only one that reuses and that replaces the record),
`single`, `frames`, `replay`; all four come with `persist` on and off.

The stages of a recall succeed or are refused, and a refusal is only logged: the turn goes on over what
is there. `SidePass` leaves a side prompt in the cache, all of it or its first rows; only the judge puts
the prompt back (`Restore`, which may be refused too, and leaves out the frames). `DeliverText` rebuilds
the cache from an augmented prompt; `TextRefused` is its reset followed by a prefill that stops after `n`
rows. `DeliverEpisode` appends rows, `EpisodeRefused` some of them. `Decline` answers with a fixed string,
`NullRecall` goes on. `PrefillFails`, `EpisodeFails` and `Abandon` (the client hangs up, or the last
token's `decode_step` fails) end the turn and leave the record; `GenerateFails` ends it and replaces it.
Which episode a recall selects is a free choice here; it is `RecallCascade`'s subject.

Two histories say when an answer cannot be promised. `turn.astray`: what a recall of this turn left is
neither the prompt nor a memory's text. `turn.foreign`: the turn reuses rows on the word of a record
that is not `intact`, that is, that another turn left beside rows of its own.

### The parts of a turn

* `RecallCascade`: `cfg` is the set of switches that are on. `Stages` lists the stages in the code's
  order; `Runs` is the guard of each, `Ladder` and `Spine` the two implementations of the L5 policy.
  `Probe`, `Ablation`, `Continuation` work in `cache` and put it back, `JudgeRead`/`JudgePick` use a
  nested pass after which the prompt is restored, or nothing if that prefill is refused, `Announce` says
  which memory was recalled, `Decode`/`Test`/`Flush` hold a draft and
  release or veto it. Scores are ranks or free choices.
* `MemoryStore`: the file is read, truncated and written back in separate steps (`Truncate`,
  `WriteBack`), the live set changes before (`Drop`); `AppendRow`, `Push` are a capture; DECIDE and
  MERGE run after a turn that stated something; `ScanStep` is the reconciler thread over the concept
  files and key sidecars. `Crash` falls anywhere and the next start reads the lines that parse. A write
  is cut at any byte: `file` is the lines that parse and `tail` says how the last one ends (whole,
  without its newline, or cut). `Joined` is what becomes of such a line when the next capture is appended
  to it: neither parses, and nobody is told (`shorn`, `merged`). The disk does not fail, and texts are
  ASCII (a character cut in two makes the whole file unreadable, see 7).
* `Captures`: `Begin` borrows the model and, for a turn, takes the cache's mutex; `SetDir`, `Forward`,
  `Write`, `Unset`, `Answer`. `stale` says that the string a forward points to was freed by a `setenv`.
* `TextStream`: `Encode` and the templates, `EosIds`, `TurnStopIds`, `SuppressTokenIds` and
  `BanRepeatNgram` build the prompt and the mask; `Draw` samples; `PushStops` and `PushEmits` are the
  streaming decoder with its hold-back.
* `KvHandle`: `Arm` writes a buffer's address to the slot, a step fires, is refused before the
  forward or fails after it (`Reached`, `Failed`); buffers are in use, leaked or freed.
* `DualNtt`: transform, pointwise product and inverse per prime, `Combine` is Garner's formula with
  its wrapping subtraction; words are `2^WordBits` wide and small primes keep the code's relations.
* `DspBridge`: `New`, `LoadTensor`, `KvAlloc` allocate on the heap and may fail; `EchoIn` to
  `EchoReturns` are the echo request on a blocking task that outlives its client; `Stop` and
  `DropState` the shutdown; `Starts`, `Finishes`, `Join` the test of two threads.
* `Curator`: `Replay`, `Score`, `Back`, `Again`, `Judge` per episode, a call may fail anywhere.

### Stores, network, ledger

`Ring2Cache`: `dev` is the file of a stream, `c` its `blk_cache`. `Find`, `Entered`, `HashRemove`,
`Unlink`, `PushFront`, `Put` are the functions of the C file. Slots count from 1 so that 0 is the
empty entry. `RemoteRing2`: `Call` opens a stream per block under the mutex, `Serve` is the peer's
task, `Return` collects with the first error, `TimesOut`, `ConnLost`, `PeerCrash`, `PeerStart`,
`HandshakeFails` are the environment; `acked` and `doubt` remember what was confirmed and what may
still land.

`GarnerLoop`: a task's place is the next thing it does under a lock: refine the peer's entry, insert
its half and look whether both are there, remove, send. `watcher` and `streams` are the two tasks of
each connection that remove the peer's entry. Two blocks equal in all but their `id` are a resend.
`Swarm`: `store` holds a text, nothing, or a cut-off file; `pull` is where the loop of `run_node` is;
`Get` creates the file, `Fill` fills it: a listing or a crash may come between.

`PouwLedger`: a record is `Width` units, the last one the sentinel; `WriteFails` leaves the rest in
the buffered writer, `WriteDies` ends the process in the middle. `Dialogue`: `Ground`, `Entity`,
`Synthesis` are the turns, `Lock` and `Store` the append of three receipts under the mutex, and a
replay tool uses the same files through a handle of its own.

### The daemon and the programs

`DaemonChats`: a turn's place is in `chat[c].pc`, and what each of its ends leaves to do is listed in
`chat[c].todo` and taken step by step; `registry` is `Sessions`, `chan` the stream's channel,
`cache` the mutex of the resident cache or the qwen36 gate, `active` is `inference_active`. The three
lanes differ where the code does: only qwen36's callback reads the flag, only the L1 session is
interrupted by it, the resident loop never looks, nor does a turn that `Delegate` has handed to another
model: it sends one delta, or an opening mark, the answer and a closing mark.

`DaemonLife`: `start`, `stop` and the PID file (`Spawn`, `WritePid`, `ReadPid`, `SendTerm`,
`RemovePid`): neither command looks whether a daemon runs, so a second one may be started over any other
in any phase, and overwrites the file. `Boot` lists the parts that a configuration asks for, `BootOK`,
`BootWithout` and `BootPanics` the outcomes of each; `Request`, `WorkerEnds`, `ClientLeaves`, and
`ClientStalls`/`ClientReads`: a thread whose client does not read waits for room in the stream. Then
`Drain` and `Exit`. `SpecDecode`:
`Propose`, `ForceToken`, `Accept`, `Reject`, `CorrectTarget`, `Resync` over the two sessions and the
three loops. `Kairos`: `Beat` is the heartbeat, `FrameTick`, `ReplyToken`, `Decide` the runner.
`LatentTools`: `Prefill`, `Tap`, `Probe`, `Capture`, `Roll`, `Dump` play the tape; `Round`, `Match`,
`Miss` are the drafted decode. `Programs` chooses the program as `main` does.

## 3. What the runs check

Passing runs. Deadlock is checked in `kv_wide` and `chat`; elsewhere the system may stop (tapes,
tasks, programs and bounded requests come to an end).

| run | question | bounds |
|---|---|---|
| `kv_wide` | does a ring wider than the window by the journal survive every call, failed steps, peeks and slides included? | 5 positions, ring 4, window 2, journal 2 |
| `chat` | do turns answer from the context of a daemon without reuse, but where a recall went astray or the record is another turn's? | prompts up to 3 tokens of 2, 1 generated, rewinds up to 2, 4 kinds, side prompts of 2 rows |
| `parts` | does each of the eight parts beside the turn keep its promises? | below |
| `ring2` | do table, list and slots implement a least-recently-used store over the device; does a peer that crashes answer with what was written, and never hang a call? | 4 offsets, 3 slots, 8 entries; 1 key, 3 calls, 2 connections; 2 blocks, batches up to 2 |
| `network` | is every pair recombined and none twice; do nodes obtain what they trust, keep it, and pass on nothing unchecked? | 2 workers, 4 blocks of one sequence number, both halves resent, one short; 3 nodes, 2 addresses, 5 texts, 1 failure |
| `dialogue` | are receipts read back whatever is torn, do replays list alike, does a receipt attest the sessions? | 2 dialogues, 2 handles, 2 files, records of 2 units, files of 12, 1 fault, 2 uses by the tool; symmetric dialogues |
| `daemon` | does nothing of a turn outlive it, one turn decode at a time, and every client hear its end? | 2 chats, 1 dialogue, 3 lanes, 2 tokens, channel of 1, 1 mined event, 1 receipt; symmetric chats |
| `programs` | is the text the target's own, an idle tick without trace, a tap over its own event; can every daemon be found, and does everything end? | 3 proposals, 4 tokens, 2 batches; tapes of 3, 2 ticks; 2 processes, 2 starts, 3 configurations |

Bounds of `parts`: memory with 2 facts, 1 concept, 2 turns, 2 edits, 1 crash; the cascade with 2
memories, 13 sets of switches, a journal of 3, a draft of 1 word; three vocabularies (Gemma with and
without turn tokens, Qwen with the mask and without), stop strings of one and two bytes and an empty
one; a handle of 6 positions, 2 turns, 2 thoughts; vectors of 4 modulo 97 and 89; a model of 1 layer, 2
clients, 2 rounds of two threads; 3 episodes and 5 secrets; 2 captures.

Why these bounds reach the hard cases:

* `kv_wide`: 5 positions wrap the ring of 4 and slide the journal of 2 three times. Two values
  suffice to tell a right row from a wrong one: the calls never compare rows.
* `chat`: three tokens give a common prefix that is empty, partial, or all but the last token, a
  record shorter and longer than the prompt, and a tail within and beyond `REWIND_BOUND`. Every kind,
  every side pass, refusal and interruption is in, with `SP_PERSIST_KV` on or off; prompt, memory, side
  prompt and episode have lengths of which sums coincide, so that a stale record is reused.
* `ring2`: three offsets share a home at the end of the table and a fourth has the entry after it,
  so chains wrap, overlap and are repaired after evictions; four offsets over three slots evict. The
  code rounds the table up to a power of two of at least 16; only `2 * nslot <= hcap` matters. For the
  peer, two connections let a task of the first store its block after a write of the second; three
  calls are a write given up, a write that is confirmed and the read that must not see the first.
  The peer's map keeps keys apart, so one key is enough for an answer to mix old and new blocks, and
  for one read of a batch to miss what another found (a crash between them); the theorem is about any.
* `network`: four tasks cover two pairs that race, a pair opened anew by a resend, a late removal and
  a block that spoils its pair; sequence numbers do not interact. `c` does not know `a` and can have
  `a`'s object only if `b` passes it on; texts differ in hash, episode and signer. One failure of any
  kind, at any point, is followed by a full recovery.
* `dialogue`: a record of two units can be torn in one place; twelve units hold two dialogues' six
  receipts; a second handle makes the counter and the file's end differ.
* `daemon`: two chats are needed for one to wait for the cache and for an abort to miss; a channel of
  one event makes every send wait (64 in the code, the protocol is the same).
* `programs`: three proposals have a first, an inner and a last rejection; a tape of three has a
  frame after an idle tick and one after an action; two processes give a second `start` while the
  first boots, serves, drains or is dead.
* `parts`: one crash anywhere parts the steps of every rewrite; sets of switches are the stacks that
  comments of the code describe; 97 and 89 with N = 4 make Garner's subtraction wrap.

Runs that end in a violation, each a disagreement between the code and what its comments claim:

* `chat_hangup`: a turn that a client leaves returns before the record is replaced. If the cache's
  position equals the old record's length, the next turn reuses rows of the wrong prompt. (Plain
  requests, one token generated.)
* `chat_side`: a CANON or RERANK pass has run a prompt of its own in the cache and its stage then delivers
  nothing; the turn decodes its last token over the side prompt. (Plain requests, nothing fails.)
* `tap_seed`: a last prompt step that is refused leaves the tap armed while the seed's buffer is
  freed; the next turn's prefill writes there.
* `capture_race`: POST `/v1/capture` drops the guard that its comment says it holds, and runs beside a
  turn's capture: files go to the other's directory, or nowhere although the answer is ok. Without it
  `CapturesOwn` holds (`parts`, and for any number of turns `CapturesApart`).

### Properties worth reading

`WindowAgrees`: the ring slots that the next step attends hold what the global layers hold.
`PromptFidelity` is what the comments promise, that an answer without a memory is decoded from its own
prompt; it fails in `chat_hangup` and `chat_side`. `AnswersPrompt` is that nothing else than these two
ways (`Lost`) makes it fail; `RecordMatches`, that an intact record whose length is the cache's position
is the cache. `MemoryKept`: registry and live set agree, retiring one memory loses no other, a confirmed
FORGET survives a restart, a crash in a write costs the lines it cut and at most one later capture, a
concept is served with its own key, captures stay apart. `OneMemory`, `ProbesRestore`,
`VetoedNeverSent`: the cascade. `StreamIsText`, `CleanStop`: the stream. `TapsHit`: a tap is filled by
the step it was armed for. `DmaOwned`, `CallsExact`: the bridge. `CacheExact`, `ReadsWhatWasWritten`,
`CallsReturn`: the stores. `NoneStranded`, `UsedOnce`, `Settles`: the garner loop; `Settles` is that
every pair is recombined and the peer map is empty of workers that are gone. `OnlyAccepted`, `Obtains`:
the swarm. `LedgerExact`, `Converge`, `Attested`: receipts. `NothingLeaks`, `EndsAsTold`,
`MintedIsStored`, `OneDecodes`: the daemon; for the resident lane `EndsAsTold` bounds what follows an
abort only by a whole turn, which is all that the code promises. `SpeculationExact`,
`IdleLeavesNoTrace`, `TapsOwnFrame`, `RowsAligned`, `Locatable`, `Ends`: the programs.
`ImplementsCache`, `ServesFresh`, `ImplementsLru`, `Replicates`, `ImplementsGreedy`: the refinements.

## 4. Fairness

* `network`: the garner runtime goes on while one of its tasks can (tokio polls every ready task; all
  of these steps are finitely many, so none is left out for ever), and each node's loop of `run_node`
  is treated fairly, as is the restart of a stopped node. Nothing is assumed of workers, and failures
  are finite (`MaxFailures`): a node whose every connection is lost obtains nothing.
* `ring2`: something goes on while the peer has a stream to serve, the client an answer to collect, or
  an idle timeout can fire because no answer can come. Between two calls these steps are finitely many,
  so none is left out for ever. Nothing is assumed of the peer's health.
* `programs`: a one-shot program's own next step, the drain and the exit of a daemon, and the end of each
  blocking thread whose client reads (`FreeWorkerEnds`): a decode is finite, and only `blocking_send`
  waits for somebody else. Nothing makes a client read or leave. A heartbeat may be held off for ever by
  a chat, and an events stream or an unread chat may hold a shutdown for ever: `Ends` excepts these, as
  the code does. What it claims is that nothing else holds one, the reconciler's endless thread included.
* The other runs promise safety only and assume nothing.

## 5. What is proved

`tlapm` checks the proofs for all values of the constants under each module's assumption. A property
named with "run" is also checked on a small instance.

`KVRingProofs`, from `KVRingAssumption` (positive sizes, and a window that fits in the ring, which
`gemma4_kv_open` does not enforce: the width is read from the environment):

* `TypeCorrect`: `Spec => [](TypeOK /\ Indexed)`. After a batch `dpos - commit_pos` may exceed the
  journal; `Indexed` is that no step, replay or failed step writes out of it all the same, since the
  slide of `commit_pos` comes first.
* `WideRing` (run `kv_wide`): if `ring_W >= SW + Jmax` then `Spec => []WindowAgrees`. Failed steps
  and peeks overwrite rows and journal entries at once, so the invariant cannot speak of the journal.
  `Settled` instead says that a row is right if no position up to `commit_pos + Jmax` shares its
  slot: those are the rows that no rewind ever has to restore. The shipped ring of 2048 satisfies the
  assumption with a window of 1024 and a journal of 64.
* `WideRingImplements` (run `kv_wide`): under the same condition `Spec => ImplementsCache`. Where the
  window agrees, the view is the end of the log (`ViewIsEnd`); what is left is what each call does to
  the log: it extends it, rewrites a row, cuts it, fills it, or leaves it alone.
* `TickExact`: `TickSpec => []WindowAgrees` for every ring not narrower than the window and callers
  that stay within the journal and never peek. `LiveExact` says that a position still in its slot
  holds its row, `JournalExact` that the journal holds the row that each position since `commit_pos`
  clobbered; a rewind turns the second into the first.

`ResidentChatProofs`: `AnswersOwnPrompt` and `RecordIsSound` (run `chat`), for all prompts, kinds,
bounds and lengths, from `ChatInv`, which says what the cache holds at each point of a turn that is not
`Lost`, and between turns if the record is `intact`. The two need each other: an answer starts from the
record's rows because the record was right, and the record is right because the answer was decoded from
the prompt that is then written down. What an interruption, a turn of another kind or a refused call
leaves is not described at all: `intact` is down, and the proof shows that a turn which does not trust
the record makes it so again. `ServesAsFresh` (run `chat`): `Spec => ServesFresh`; each stage of a turn
that is not `Lost` extends the part of the answer's context that is there, and a turn that goes astray
closes its request in the abstract daemon unanswered.

`DaemonChatsProofs`: `OneTurnDecodes` (run `daemon`): whoever holds the cache is at work or has a last
step left that gives it back (`Holder`), and whoever works holds it (`Holds`); every way a turn can
end lists such a step. `AnnouncedIsStored` (run `daemon`): between storing and announcing a round the
store is exactly one ahead.

`NothingStays` (run `daemon`): each id in the registry belongs to the one live turn that put it there
(`Ids`), and every end of a turn, early or late, takes it out before the turn is over; the flag of
`inference_active` is up only while some turn still has its clearing step ahead (`Raised`). `OneEndIsTold` (run
`daemon`): the status that is told is fixed by the turn's way of ending, which no later step changes, and
what may still be sent after an abort is counted from the delta under way, by lane: one in the two lanes
that read the flag, a whole turn (`Longest`) in the resident one and in a delegated turn.

`NetworkProofs`, from the assumptions of `GarnerLoop`, `Swarm`, `RemoteRing2` and `Ring2Cache`, about
`NetSpec`, whose protocols share nothing:

* `GarnerTypes`; `NoPairStranded` (run `network`), inductive with the types because the lock makes
  inserting a half and deciding to remove one step; `EachBlockUsedOnce` (run `network`), from
  `OncePlaced`: a block is with its task, in the map, in one taken pair, or in one result.
* `SwarmTypes`; `NothingUnchecked` (run `network`): a text about to be written has passed all checks
  (`WritesAccepted`), and with it every text that is held.
* `CopiesOnly` (run `network`): `NetSpec => Replicates`. A whole text is never written over, since only
  addresses at which nothing is held are asked for, and the text that fills a file is a peer's own.
* `ReadsAreWritten` (run `ring2`), by `RemoteInv`: what a task whose write was given up may still store
  is in doubt for its key, and known to any write that follows it (`GivenUp`); a peer keeps for a key
  the block confirmed last, one in doubt, the one being written, or nothing after a crash (`AtPeer`);
  so a stream that answered holds one of these (`Fetched`), and a call of which one stream failed is
  not answered with 0. `Serving` ties each task to the stream of the call that waits for it.
* `CacheIsExact` (run `ring2`), by `CacheInv`. Of the table (`TableOf`): probing from the home of a cached
  offset meets no empty entry before its slot's, and a slot has one entry. The difficulty is the removal,
  which enters anew every entry up to the next gap: distances are measured from the gap behind the
  removed entry (`Past`), which turns the circle into a line, and `Moved` says of each step of that loop
  that the entries before it lead from their homes and those after it are as they were. That gap exists
  because the table has at least twice as many entries as the cache has slots.
* `LruImplemented` (run `ring2`): `NetSpec => ImplementsLru`, the refinement of `LruStore`. `Order` says
  that `head`, `next`, `prev` and `tail` thread the slots in use in one sequence; `Listing` adds that the
  offsets of those slots are the abstract store's `recent`. `Unlink` and `PushFront` drop an element of
  that sequence and put one in front, and a step of the cache is one of the store with the same
  sequence (`CacheSteps`); a batch, whose hits are touched before its misses are put, is followed block
  by block (`ProbedLists`, `FetchedLists`). Blocks that were missing when the batch was probed stay
  those that are put, even when an earlier one of the same batch was put meanwhile.

`DialogueProofs`, from the ledger's and the dialogue's assumptions, through one invariant `DInv`:

* `LedgerIsExact` (run `dialogue`): a file begins with the records appended before its first fault, in
  order; a handle that no fault met has nothing left in its buffer, and its counter is the number of
  those records if no other handle appended. A dialogue's three receipts lie side by side because the
  request that stores them holds the lock from the first to the last.
* `LedgersConverge` (run `dialogue`): the canonical order gives each record a place that depends on the
  set of records alone, so two devices with the same receipts list them alike.
* `ReceiptsAttest` (run `dialogue`): each turn's input is the output of the turn before it in the same
  request, whatever other requests do, and a receipt is made from the turn that has just ended.

`ProgramsProofs`, about `Spec` of `Programs`, in which a process runs one program, each with an
invariant of its own:

* `SpeculationIsExact`, `DecodingIsGreedy` (run `programs`): text, target and target logits are one
  sequence (`OneText`), a prefix of the target's continuation that still has room for a batch (`Room`);
  `DraftInv` says by how many tokens the draft is ahead at each phase, hence that the distance
  `sp_session_rewind` is given is the right one. The tools' drafted and plain decodes add to the same
  text (`GreedyInv`), so every program refines `Greedy`.
* `IdleTicksLeaveNothing` (run `programs`), by `KairosInv`: while a tick is decided, the session is what
  the ticks before it left and then the frame and the reply's tokens that were put in (`Played`); the
  length to rewind to is that of the first part. Each outcome is counted as often as the log has it.
* `TapsAreOwn`, `RowsAreAligned` (run `programs`), by `TapeInv` and `RowsInv`: between a frame's prefill
  and its tap the session is that frame over the shared prefix; a rollout's row `i` is of the rows
  before the token that it labels. The heartbeat with a failed call or a frame that does not begin with
  the prefix is excepted, as the property does: it goes on after a failed decode without a rewind.
* `DaemonLocatable` (run `programs`), by `LifeInv`: for any number of operators, processes and starts,
  each stage of a command has left the number of a process that nobody told to stop in the file or in
  the command. It excepts what `crossed` records: a start over such a process, and commands that run at
  the same time, neither of which the code prevents (see 7).

`TurnPartsProofs`, about `Spec` of `TurnParts`. The parts share no state, so each has an invariant
of its own, kept by its own steps and, trivially, by those of the others:

* `TapsAlwaysHit` (run `parts`), by `HandleInv`: a buffer that is read was written by its own step; of
  the dropped ones only a seed is ever written to, which is the finding of `tap_seed`.
* `CapturesApart`, by `CaptureInv`, from the assumption that no POST `/v1/capture` runs: who is at work
  holds the mutex, so the variable it set is the one it reads. With such a POST `CapturesOwn` is false,
  which is what run `capture_race` shows.
* `PassesDifferByAblation` (run `parts`), by `CurInv`: between replay and judgement the handle's rows
  are the episode's, ablated or not as the stage says, followed by what the current pass appended,
  unless a call has failed; the rows that scored a token are those that the baseline saw.
* `BuffersWithinSessions`, `AnswersOwnRequest` (run `parts`), by `BridgeInv`: the heap is counted by
  owner, every loop that allocates or frees knows how much of its owner's there is, an echo holds its
  two buffers from its allocation to its release and the session for its call, and the clock of the
  two threads counts each thread's time and the time of both.

* `MemoriesKept` (run `parts`), by `MemInv`, for any number of facts, concepts, turns, edits and crashes.
  The registry is rewritten in several steps and the live set changes at another moment, so neither
  agrees with the other as they stand. `Due` is the file as it will be once the rewrite under way has
  ended and `Ours` the live set once the episode in hand is pushed: these agree at every step
  (`Agree`), but for the rows that a cut line took (`shorn`); what was confirmed as forgotten is superseded
  in `Due` and in whatever rows the file has (`Durable`), and no capture is missing from `Due` unless its
  line was cut (`NotLost`). A capture that joins a cut line makes the file whole again, hence at most one
  per crash. `Named`: a number names one text. `Keyed`: the reconciler serves a concept with the key it
  has read.
  `Posts = {}` is assumed only for the property's last conjunct, `CapturesOwn`.

`RecallProofs`, about the same `Spec`, from `CascadeAssumption`, for every set of memories, every view
of a query and every depth of the journal. What a stage does to the cache is followed row by row
(`Over`: the old rows and some more, the journal reaching back to where they end), so that a probe
that was refused half way is taken back like one that went through:

* `DraftStaysHeld` (run `parts`), by `CascadeInv`, which is inductive for every stack of switches:
  until its first token a turn has sent no text (`Quiet`), and while a draft is held the loop, its
  flushes and its stop string are all on this side of that point.
* `NothingLeftBehind` (run `parts`): on `CascadeInv`, a probe of INT2 or, where its probes fit in the
  journal (`Fitting`: the disposer does not check it), of the disposer nets to the rows it found; the
  judge, whose pass runs over the prompt's own cache, leaves the memory that it recalls, the prompt, or,
  when a prefill was refused, nothing.
* `AnswersOverOneMemory` (run `parts`), by `OnePick`: a stage that is reached finds no memory in the
  cache and none recalled. This one is false for some stacks, since the disposer and the q.K threshold
  do not ask whether a stage before them recalled. It is proved under `Uncombined`, which is what the
  code asks of its operator (`routes.rs:2008`, "run WITHOUT SP_B3_DISPOSER/SP_B3_TAU_QK"; 1561, "MUST
  NOT double-fire"; `run_console_recall.bat:36`) and, for the disposer on a ring, that its probes fit in
  the journal. The stacks of `MCConfigs` satisfy it. The proof also had to say that an episode without
  rows is refused by `gemma4_kv_replay` and that the spine passes where there is nothing to select from.

* `TextIsShown` (run `parts`), from `StreamAssumption`, which gives names, messages and stop strings their
  types: for every vocabulary, request and list of stop strings. `StreamInv`: while a turn runs, what was
  sent and what is held back make up the decoded text, what was sent are whole characters, no stop string
  is in the text, and the held bytes are at least `Hold` unless nothing was sent. A stop string that the
  next token completes then begins in what is held back (`NoneCompleted`), so the cut falls after what
  was sent; `Hold` is one byte less than the longest of them, which is just enough. Of the guard against
  recitals the proof is that the n-gram that a drawn token completes is that of an earlier place only if
  everything was masked (`BannedNext`). An empty stop string is found everywhere and ends the turn at
  once; the property excepts it.

Only model-checked: liveness (`Settles`, `Obtains`, `CallsReturn`, `Ends`) and everything about
`ENABLED`, which the prover does not handle; `ProductsExact`, which is number theory about the
transforms of `DualNtt`; `CleanStop` of `TextStream`, which needs a mask without the tokens that end a
turn (`EndsUnmasked`, and a `generation_config.json` that leaves them out) and messages that do not spell
out the turn tokens. The library's induction
theorems cannot be instantiated, but a statement about all numbers can be had from the least
counterexample (`LeastOf`, from the well-foundedness of the order on `Nat`): so the proofs about the
recursive `Without` of `MemoryStore`, about the concatenations of `TextStream`, and about the sums and
filters of the other parts, are made.
## 6. What is left out

Everywhere: logging, metrics, wording, the parsing of the environment and of JSON. Per component:

* **Device K/V cache**: arithmetic, head sharing between layers, saving and loading episodes, the
  memory budget that fits `Pmax`, a rewind between a batch longer than `Jmax` and the next step, which
  no caller makes. `TickSpec` has no peeks.
* **Resident chat turn**: the kernels of a row (`byteexact`), the limit of positions, the residual that stays staged when the prefill of its placeholder refuses
  (`cuda_forward.cu` 5684).
* **Recall cascade**: rows are positions only; scores, candidate order and rankings are a free choice.
  Failures modelled are those of replay, of the template and of prefill; a prefill that is refused has
  computed nothing (`ResidentChat` has the ones cut short). The F3 capture, telemetry and
  the end-of-turn debug lines are left out.
* **Episodic memory**: errors of file calls other than a crash, text that is not ASCII, the rows'
  `mem_class`. That every
  memory in the end has its concept is not checked.
* **Episode capture**: `fopen` failures, which the code ignores; output directories are distinct.
* **Latent taps**: arming always succeeds on a live handle; the step counter of
  `KVDECODE_STEP_COUNT` is left out.
* **Sampler and tokenizer**: BPE merges; penalties, temperature, top-k and nucleus are "any token
  that is not masked".
* **Ring-2 stores**: torn device writes and the queues of `ring2_disk.c`; two callers at once, which
  the chat mutex excludes. The remote store has one client.
* **Garner loop**: workers that share an address.
* **Memory swarm**: `discover_similar`, which `run_node` does not call, the identity file, frames on
  the wire. A file that a crash cut off stays cut off; `Obtains` excepts it.
* **Dialogue**: head masks and the wording of prompts.
* **Daemon life cycle**: the order in which the parts are dropped (no property would hold of it that the
  type of the program does not give, see 7); dialogues, whose client has no stream to leave unread; the
  diagnostic block of `daemon.rs` 843-945; a foreign process that is given
  the number in a stale PID file.
* **Latent tools**: `SP_EAGLE_PROFILE`, memory emission of the gate, what the tools print.
* **DSP**: offsets inside buffers, the DSP's own code; the five errors of a session's opening are one;
  floats of `pack` are fixed point, and a prime's two forward calls one step.
* **Curator**: ablation of positions older than the window on a ring handle; memory emission.

Not modelled at all: forward passes and loaders (arithmetic on arrays; a model of them is their
code), backend trampolines and the handlers that only read, and the transcoder (a batch conversion
with no state beside its output).

## 7. Observations

Besides the disagreements that runs show, modelling met the following. They are stated for a
maintainer to judge; where a run was possible, the model allows the behaviour and no property of this
project claims the contrary.

**Turns and cache**
* A peek saves the row that it clobbers in the journal, where the next step saves the peek's row
  over it. `cuda_forward.cu:6010` calls this harmless since the chat never rewinds; the reuse of a
  prefix does (`routes.rs:1425`). With the shipped wide ring it is harmless all the same (`WideRing`).
* A ring exactly as wide as the window loses rows once the journal is full
  (`cuda_forward.cu:4395`, 5230), and `prefill_batched` writes no journal (4811), so that reuse after
  it depends on the wide ring too (`routes.rs:1397`).
* `byteexact` is not compared when rows are reused (`routes.rs:1417`): a byte-exact request may answer
  over float rows, and one "that did not ask for it" (1331-1341) over byte-exact ones.
* Turns of kind single, frames and replay refill the cache and leave the record (1398-1405, 4250), as
  an interrupted one does: a later plain turn of equal length reuses their rows.
* When rebuilding the prompt after `reset_cold` is refused (`routes.rs` 2062-2072, 2120-2145, 2525-2541),
  the turn goes on over a cold or partial cache. Comment 4246 ("NO side-call above touched the cache")
  is contradicted by the side passes of 2234-2375.
* `SP_B3_DISPOSER` does not ask whether something was recalled already, nor whether its probes fit in the
  journal; INT2 does (1924-1930).
* The batched prefill is declined only if `SP_PERSIST_KV` begins with `1` (`cuda_forward.cu:4809`), while
  `routes.rs:1398` takes persistence to be on when the variable is not set.
* `inference_active` is cleared by the first of two turns that ends (`routes.rs:530`, `state.rs:110`).
* `POST /v1/capture` answers ok without looking at what was written.

**Memory**
* A turn recalls from the registry read at start, which FORGET does not change until a restart
  (`routes.rs` 1568-1570).
* A crash inside a write of the registry leaves a line without its end; the next capture is appended to
  it (`routes.rs` 1220, 3987), and the restart skips both (539-542): the later capture is lost although
  nothing failed in its own turn. If the cut falls inside a multi-byte character, `read_to_string`
  (`recall.rs:532`) fails and the whole registry is not read.
* MERGE compares the old text with the raw new text and so never matches "The user said: ..."
  (comment 4194); DECIDE excludes only equal names or equal raw text (4049). A merged capture may fail
  after both of its sources were dropped.
* The lifecycle flag is looked at in one place (`routes.rs:2199`) although `recall.rs:261` says that
  an excluded memory is excluded. A concept whose file was removed is served until restart. A torn
  key sidecar excludes its concept for good (988-991, 1006).

**Text**
* The default mask holds every token that ends a turn of a Qwen vocabulary (`<|im_end|>`,
  `<|endoftext|>`; `tokenizer.rs:563`): only `<eos>` is spared, of which 551-554 says that "suppressing it
  would prevent clean stopping". Such an answer ends at its limit of tokens.
* `sampler.rs:353` says that the first index wins a tie; `max_by` takes the last, as its test expects.
* A byte that can never begin a character holds back everything after it until the final flush.
* Of several stop strings the first listed wins, not the earliest; an empty one stops at once.
* The n-gram ban covers the tokens that end a turn, so `CleanStop` is stated with the ban off.

**Stores, swarm, garner**
* A failed handshake ends the accept loop (`quic_shard.rs:282`, `ring2_quic.rs:68`), where comments
  promise to serve until the endpoint closes (265) and forever (64).
* Two clients of one Ring-2 peer share its map; a client reconnects only by registering again.
* Where the first modulus exceeds the second, as the shipped ones do, the subtraction of Garner's
  step can wrap: `sp_trick1` 189-193 and the reference in `sp_matmul_q_ref.rs` 84-90 assume it cannot.
* The ledger's `canonical_sort` is said to drop duplicates; it keeps them.

**Life cycle and programs**
* `state.rs` 55-67 declares model and draft model before their sessions, and the model before the CUDA
  handle, so they are dropped first, contrary to `state.rs` 46-47, 153-154 and `daemon.rs:1010`. A
  reconciler thread holds the state and nothing is dropped at all.
* `start` over a running daemon overwrites the PID file (`daemon.rs` 80-83); the new process panics at the
  bound port, and no `stop` reaches the first one any more.
* A graceful stop waits as long as a client leaves its chat stream unread (`blocking_send` among 64
  events, `routes.rs` 397, 445) or keeps an events stream open; other turns wait for the cache meanwhile.
* A failed boot leaves a PID file. An empty registry is armed although its field's comment says that
  it is present only with rows.
* The heartbeat predicts by the common prefix of the first two events only (`eagle_accept.rs:347`
  against 340-341); it goes on after a failed decode without a rewind. An empty tool result panics.
* `spec_validate.rs:275` can index past the reference. Kairos' header says that pruning is not wired
  (26), which `SP_KAIROS_PRUNE` does, and that decision tokens stay in the cache (24), where the last
  one does not.
* `sp_full_load_smoke` returns 0 after a failed K/V allocation (107-110). The gate
  `T_PARTIAL_LOAD_CLEANUP` tests a missing file only and prints PASS when it failed. Two comments
  disagree on whether FastRPC handles may be used by two threads (`axum_server.rs` 72-74,
  `ntt_hex_dispatch.rs` 11-13). A tensor entry smaller than its dimensions panics at boot, contrary
  to `daemon.rs` 247-249.
* In a debug build the curator's `position == anchor` assertion fires after a device fault that left
  its row.

## 8. What remains

* The staged residual, by giving the rows of `ResidentChat` an embedding and a limit of positions.
* Proofs: `ProductsExact` needs number theory.
  `CleanStop` holds for masks without the end tokens and for messages that do not spell out the turn
  tokens; a theorem would have these as assumptions.
* The kernels of a row: `ResidentChat` with `byteexact`, and a property that its reuse breaks.
* The replica that is cut off: `Obtains` counts a cut-off file as obtained, since the code never fetches
  it again; a checked property of repair would need the code to change.
* Liveness of concepts: that each confirmed memory is served or was dropped once edits stop.
* Larger instances: a second owner of the K/V handle with its own tap, a second client of a peer.

# keryx-miner in TLA+

A verification project for keryx-miner: TLA+ modules translated from the Rust
source, TLC configurations that check them on small instances, and TLAPS proofs
of what can be proved for every instance. Line numbers refer to the repository
at the commit this project was written for; `PROJECT.json` maps every definition
to the lines it models.

## 1. The system

keryx-miner mines keryx blocks on Vulkan GPUs (and legacy blocks on CPUs),
answers AI requests for a reward, proves to the network that it computed the
answers, and claims the rewards, which are locked in escrow outputs. One session
runs at a time, against a node (gRPC) or a pool (stratum): `client_main` connects,
listens until the connection ends, drops everything and connects again.

| Component | State | Operations | Talks to |
|---|---|---|---|
| watch channel (`watch.rs`) | value, id, receiver count, sender flag, mutex and Condvar | send, get_changed, wait_for_change, clone, drop | manager writes, workers read |
| mining manager and workers (`miner.rs`) | command channel, thread handles, kill switches; per worker its template, nonce cursor, installed walk | process_block, drop, the loops of the GPU and CPU threads, the freeze watchdogs | clients (templates in, found blocks out), resident weights, block tasks |
| nonce ranges (`pom_gpu.rs`, `stratum.rs`) | mask, fixed bits, cursor | set_extranonce, pom_batch_start, one batch | stratum client, GPU workers |
| escrow watcher (`escrow.rs`) | entries, claims in flight, known outpoints, block index, pending validation | handle_block, track_block_escrows, chain changes, validation, find_claim, submit answers, inference escrows | gRPC client, node |
| claim selection (`escrow.rs`) | none (a function of the queue) | select_claim_batch | escrow watcher |
| escrow persistence (`escrow.rs`) | snapshot and journal files, sequence number, pending lines | append, compact, replay, flush | escrow watcher |
| gRPC client (`client/grpc.rs`) | AI requests queued, running, being published, submitted; traces and their draws, openings; chain log, backfill and restoration | handle_message, the one-second tick, inference, publish, openings, restore, drop | node, manager, watcher, model serving, trace store |
| stratum client (`client/stratum*`) | ids in flight, proof encoding, job and task, AI and opening state | mining.notify, submit, answers, AI requests, openings, chats, challenges, self-check | pool, manager, model serving |
| model serving, LLM engine (`slm.rs`, `inference.rs`, `llm_engine.rs`) | served engine, checked and failed kinds of trace per model, the manifest each engine is configured for, what the device traces for | ensure_loaded, run_inference, traced inference, replay, self-check | gRPC and stratum clients, resident weights |
| resident weights (`pom_gpu.rs`) | miners per device, LOADING counter | ensure_installed, uninstall, mine | workers, model serving |
| block task (`block_task.rs`) | cached window seed and traced task | observe, task_for | gRPC client, workers |
| traces (`trace*.rs`) | leaves of a response, files of pending audits | record, draw, open, save, load | clients, model serving |
| verifiable inference (`verifiable-inference/`) | none | draws, checks, Merkle proofs, formats of openings and manifests | traces, and the node |
| payload formats (`inference/`) | none | requests, responses, private envelopes | clients |
| notifications (`notify.rs`) | link and hash rate state, bounded queue, messages in flight | alerts, watcher threads, sender, stop | everyone |
| reconnection (`main.rs`) | back-off, short sessions, stop signal | connect, listen, drop, flush, exit | clients |
| model tables, PoW/PoM, kernels, IPFS, keys | mostly none | tables, hashing, numerics, one-shot I/O | |

What is hard here: the hand-made channel between threads; worker threads that
run calls nobody can interrupt and must still be stopped; two users of one GPU,
one of whom may belong to a session that is over; an escrow state and a set of
audits that must agree with a chain that reorganises while claims, answers,
replays and reconnections are under way; ids and answers of a pool that replies
in any order; two independent derivations, the miner's and the node's, of what an
audit opens; and files that must survive a process that dies between two writes.
`PROJECT.json` lists these as hazards, each at its line.

What makes each part correct:

- *channel*: no wake-up is lost, no value is missed for good, a dropped sender
  ends everyone, a refused send is final;
- *workers*: a command is taken promptly, a pause drains the device it is for,
  shutdown ends although a worker hangs, and ends no worker that is mining;
- *nonce ranges*: every nonce tried lies in the range the pool assigned and no
  part of it is tried twice in one pass or passed by;
- *escrow watcher*: what is in flight is exactly what unanswered claims spend; an
  entry counts as claimed only when its output was spent and is given up only when
  the output is lost; live entries belong to the chain; claiming is never off for
  good;
- *claim selection*: caps, windows and priorities hold together and nothing that
  could be claimed waits behind what cannot;
- *persistence*: what was reported saved is read back after any crash;
- *solo inference*: a request is worked on once, answered in the form its era
  asks for and its reward is tracked; mining comes back after it; nothing readable
  is left unanswered;
- *audits*: the draw the client works on is the chain's, an acceptance it was told
  of is noted and undone with its block, and every audit the chain makes is
  answered;
- *pool session*: mining is paused exactly while the card is in use, a refused
  encoding costs a share and not the session, every command is answered;
- *serving*: a batch walks the weights of its block, a model is barred from traces
  only by the GPU, neither mining nor inference is locked out;
- *openings*: what the miner builds is what the node checks, from leaves a replay
  can give back, and no committed value is out of every draw's reach;
- *formats*: what one side writes the other reads, as that and as nothing else.

## 2. Modules

| Module | Models | State and actions |
|---|---|---|
| `LatestValue` | what the channel promises (abstract) | the newest value, what each member was given, who is a member, whether the sender is there: `Publish`, `Deliver`, `Join`, `Leave`, `CloseSender` |
| `WatchChannel` | `watch.rs` | every atomic access, lock and Condvar operation is a step. `value`/`id`/`mutex` are the shared fields, `rpc` the control point of a receiver inside `get_changed` or `wait_for_change`, `spc` that of the sender inside `send` or `drop`. `SpuriousWake` is a wake-up the Condvar may give at any time |
| `EscrowJournal` | journal, snapshot, replay | memory (entries, sequence number, pending lines) against the two files. `AppendStops` and `SnapshotStops` end a write half-way, by an error or with the process; `Start` is `load_state` plus the replay |
| `ClaimBatch` | `select_claim_batch` | operators only: candidates, the order of visits, who joins a batch, which batch is released, and what is asked of it |
| `ClaimCases` | its calls | `SelectNext` gives it a queue of entries and a current window |
| `EscrowClaims` | `EscrowWatcher` with the node | the watcher's fields, the stream from the node as a queue, and the node's chain, spent and burned outputs. One action per message handled (`OnBlockAdded`, `OnBlock`, `OnValidated`, `OnBlockError`, `OnChainChanged`, `OnSubmitResponse`), `TrackInference`, `Reconnect`, and the node's own steps (marked external). It extends `ClaimBatch` |
| `MinerWorkers` | `MinerManager` and its threads | the command channel by what `LatestValue` promises (newest value, possibly twice), the loop of each worker by its control points, the bounded queue of found blocks, and `Drop` with one watchdog per handle |
| `NonceRange` | nonce cursor | `SetExtranonce` and `MineBatch` |
| `SoloInference` | the AI requests of a gRPC session | the client as one record, its helpers as functions on it (`ScanRequest`, `BackfillNoteBlock`, `Harvested`, ...) since one message runs several; `Announce`, `BlockComes`, `OnTemplate`, `Tick`, the ends of the spawned tasks, `Disconnect` and `Connect` with what a reconnection keeps |
| `TraceOpenings` | the audits of a gRPC session | a block tree and the node's tip, messages under way, the client's chain log, traces, replay and openings, and the files of `trace_store`. `OnChainChanged`, `OnBlock`, `OnRestoreAnswer`, `OnOpeningAnswer`, `Tick` (resolve, submit, replay, retry, prune in the order of the code), `ReplayEnds`, `Disconnect`, `Connect` |
| `StratumSession` | a pool session | the handler as one record: ids and answers under way, encoding, job, inference slot, queued openings, tasks of the blocking pool, which outlive the session as `orphans`; one action per message of the pool and per end of a task |
| `SessionLoop` | `client_main`, `main`, `notify.rs` | where the main task is, back-off, short sessions, the escrow flush, the link state, what each thread is about to post, the bounded queue and its sender, the stop signal |
| `Serving` | one card between mining and answering | the served engine, the installed walk, engines as references, the manifest each is configured for and the one the device traces (a model and one of two kinds); the worker, the inference task and the task of a closed session, one step per access to a shared lock |
| `TierManifest`, `TracedRun` | manifests and leaves of a position; how a traced run is fed, padded, committed and replayed | operators |
| `PointOpening`, `SeqOpening` | the miner: what a draw falls on, which leaves it captures, what is built from them (points, links, prefix, residual; attention phases, recurrent points) | operators |
| `PointCheck`, `SeqCheck` | the node: what it derives from a draw on its own and requires of an opening, and which committed values an accepted opening has related | operators |
| `Merkle`, `OpeningBodies`, `Payloads` | range and chunk proofs; opening bodies, bundles and manifest entries; request, response and private payloads | operators: writers concatenate, readers answer {} on failure |
| `AuditCases`, `FormatCases` | the inputs those operators are checked on | one action per kind of question; `Descend` follows an attention point through its phases |
| `WatchChannelProofs`, `SessionLoopProofs`, `ServingProofs`, `MinerWorkersProofs`, `EscrowJournalProofs`, `EscrowClaimsProofs`, `StratumSessionProofs`, `SoloInferenceProofs` | | the inductive invariant of a module, its lemmas and theorems, see section 5; `MinerWorkersProofs` has those of `NonceRange` too, `EscrowClaimsProofs` those of `ClaimCases` |
| `MC*` | | instances for TLC; `MCAlgorithms` puts the algorithms into one run |

`PointOpening`/`SeqOpening` and `PointCheck`/`SeqCheck` are two translations on
purpose: the code derives everything twice, and `HonestAccepted` is about the two
agreeing.

Operators called "Faulty variant" or "Mutant of the definition below" stand
before the definition they alter. They are what the code would be with one
mistake, and are used by nothing else: they show that each property can be broken
by such a mistake.

### Abstractions

Mining and escrow:

- A template is its number, its era and its extranonce; a found block is a unit
  in the queue. Hash rate counters and logging are left out.
- An escrow output of a block reward stands for its block (one output per
  block); a txid is the sequence of outputs it spends, since claims are
  deterministic. Amounts, scripts and signatures are left out, except that a
  batch of outputs too small for the fee is not built (`Dust`).
- An announced block that comes without its transactions is fetched by the
  client first; the announcement and the answer are one message of the stream.
- The node calls red only blocks off the selected chain, answers requests in any
  order, loses an answer only with `MaxLost`, and refuses a claim of outputs that
  are spent, burned or not on the chain. All of it is marked external.
- A journal line is an entry and a sequence number. What a cut append leaves is
  whole lines (`clean`), whole lines and a fragment (`frag`), or a whole last line
  without its newline (`line`).
- `size` of `NonceRange` is `nonce_mask + 1`: the mask is always one less than a
  power of two and the fixed bits a multiple of it, so the bit operations are
  arithmetic.

Clients and process:

- `SoloInference`: a block is known by its place in the chain; blocks without AI
  transactions are announced but not stored. The gates of the chain are an era
  the run chooses. A connection has no score before its first template, and what it
  starts, harvests or submits until then is formed as before every gate; `blind` is
  the history of such answers.
- `TraceOpenings`: a block's DAA score is its depth, a seed is its block, an
  opening a response and a seed block. What a replay computes is in the trace
  modules; here it is built or failed. An opening is sent again when it is refused and
  when its answer is late (three seconds in the code, a choice here); late answers and
  refusals for another reason count as faults.
- `StratumSession`: the writer behind `send_channel` drains and the workers are
  alive, so a line sent is on the wire. Capabilities and the CID slot are outputs.
  The answer to authorize only matters when it is fatal, and then it is an end of
  the session. A worker keeps off the inference card while the flag is raised
  (`miner.rs:366`); its own steps are in `MinerWorkers`.
- `SessionLoop`: notifications are configured; time is what the code compares it
  with (short or long, fresh or old, recent or stale). The hash rate logger and
  the poller post at once. The minimum gap between reject alerts is left open.
- `Serving`: calls under the engine's own lock are one step, or two where a Drop
  elsewhere can disturb them; the worker polls its newest job at each turn; whether
  a blob fits next to the engine (`pom_keep_resident`) is a choice; the era of
  traces and the last change of the mined model are one. Tasks of closed sessions
  are those past the last check of the pause. A trace is configured with room for the
  engine's whole context, as every request does (`slm.rs:1144`), so that only the
  manifest tells configurations apart. The worker's own trace, of a block task
  (`slm.rs:1020`), would arm the stage-2 kind beside an inference; the gate of block
  tasks is `u64::MAX` (`pom.rs:1567-1571`, asserted in the tests at 2352), so a worker
  never makes one, and `Serving` has no step for it. `MinerWorkers` models the wait for
  that trace all the same, since the control flow is in the loop of the worker.

Audits and formats:

- Numbers are not computed. A check is the set of committed values it relates and
  the conditions on shape, place and manifest it makes; a partial softmax is the
  positions it sums. The three manifests of `AuditCases` have every kind of layer
  and product the shipped ones have, with small dimensions. (The Vulkan engine's
  `seq_spec` also refuses some of these kinds; the checks are those of the shared
  crate.)
- A body or payload is a sequence of units, one per integer, hash or payload byte;
  a u8 count wraps at `CountValues`. Hashes and ciphertexts are the terms they are
  computed from. `read_file` of a file shorter than its header, which panics, is
  left out, and so are challenge payloads and base58.

## 3. Runs

| Run | Instance | Shows |
|---|---|---|
| `watch` | 2 receivers, 2 sends | `ReceiversServed`: nobody sleeps on news, a recorded id never stands for a value the receiver misses although the id is read without the lock, a refused send means that nobody is left. `NoRegress`. With fairness, `ImplementsLatestValue` and `CloseReachesAll` |
| `escrow_journal` | 2 outpoints, 4 lines, 2 faults | `SavedSurvives`: after any crash and start an entry is at least as far as it was when a save was reported. `RecoveryIsExact`: what is read back is some state the watcher was in, and a line written from now on is not stale to a replay |
| `escrow_claims` | 3 outputs, 2 claims in flight, 1 lost answer, 3 chain changes | `ClaimsAreExact` (in flight is what unanswered claims spend, claimed is spent), `SlashedIsLost`, and within one connection `ReAddedIsTracked` |
| `escrow_chain` | 3 blocks, 3 chain changes, 1 reconnection, ghosts and unknown blocks | `TrackingMatchesChain` (live entries are on the chain, none twice), `ValidationNeverWedges` |
| `solo_inference` | 2 requests, one private and rewarded, 2 blocks, a queue of 1, 2 attempts, 1 fault | `AnswersAreRight` (no work twice, the form of the era once the score is known, the reward tracked), `MiningResumes`, `EveryRequestServed` |
| `trace_openings` | 1 response, 7 blocks with 2 forks, 3 moves of the tip, 1 fault (a late or refused opening is one) | `TracesFollowTheChain` (the draw is the chain's, acceptances told are noted, an opened draw is under way), `AuditsAnswered` |
| `stratum` | 2 sessions, 1 request, 3 lines, 3 forms of job, 2 gates | `SessionIsExact` (pause and slot follow the tasks, an awaited id is under way, a refused base64 proof costs a share), `EveryCommandAnswered`, `MiningGoesOn` |
| `session_loop` | back-off to 30, 3 short sessions, a queue of 2, two inference threads (one left by an earlier session), restarts of the process | `ReconnectsSafely` (retries are counted, nothing unflushed at a retry or an exit), `AlertsAreTrue` (an announced outage is open, AI messages pass their half of the queue by less than the threads that post them), `StopEnds` |
| `serving` | 1 card, 2 eras, the session's task and one left behind, 2 kinds of trace, 1 fault | `GrindsItsModel`, `BarredByTheGpuOnly`, `CardIsShared` (the walk comes back, every inference ends) |
| `miner` | a GPU and a CPU worker, alone against node and pool with 3 commands, together with 2; 1 failed run | `WorkersObey` (commands are prompt, only loads outlive the grace, gone means quiet), `PauseDrains`, `ShutdownEnds` |
| `algorithms` | see below | audits: `HonestAccepted`, `ReplayCovers`, `NothingUnaudited`, `CommitsItsShape`; formats: `ProofsExact`, `BodiesExact`, `PayloadsExact`, `PrivateExact`; claim selection: `BatchesSpendable`, `NothingWaits`; nonces: `RunInRange`, `RunsTile` |
| `escrow_torn` (violated) | as `escrow_journal`, cuts inside a line | the finding of section 4 |

A property that is a conjunction of named parts is one statement about one
component; the parts are defined next to it and say more.

### Why the bounds are enough

- *watch*: the channel has one sender; a lost wake-up, a missed value or a stale
  count takes one send against one call, and two sends with a drop let one
  overtake a receiver in the middle of another. Two receivers give a clone and a
  last drop. The safety properties are proved for every number of both.
- *escrow_journal*: an outpoint moves through three stages; two outpoints give a
  journal whose lines belong to different entries, four lines a compaction
  between them, two faults a failure of a retry or of the start after a crash.
- *escrow_claims*, *escrow_chain*: claims and chain changes are checked apart,
  since each needs its own depth: two claims in flight with time-outs, retries and
  halved caps; a block that leaves, returns and leaves again while its validation
  is open. Windows and time-outs are one or two scores, which keeps their order.
- *solo_inference*: one request runs while another waits in a full queue; one
  fault is a lost connection, a failed task, a refusal or a replayed block, each
  at every point; two attempts are a retry and a last one.
- *trace_openings*: the inner fork replaces the seed block of an accepted
  response, the outer one its accepting block too, and a third move undoes
  either; one fault is a disconnection, a failed replay, a failed request, or an answer to an
  opening that is late or refuses it for another reason. Block 6 draws no audit.
  `AI_RESPONSE_MAX_ATTEMPTS` is not reached: a refused opening is dropped sooner, and
  more late answers than one fault allows would be needed.
- *stratum*: a second session shares the process with tasks of the first, and one
  request may be asked for again; three lines are a command, a share and an answer
  that cross; caps are small enough to fill.
- *session_loop*: a queue of two has one place for AI messages and one for alerts, and
  two threads are enough to pass the check together; the theorem is for any queue and
  any threads. In the code (`QUEUE_LEN` 32) two threads leave 15 places at least.
- *serving*: three actors are all the card has; two eras change the mined model
  once, under each of their steps; two inferences are one of each kind of trace, on one
  engine.
- *miner*: workers share only the command and the queue (of capacity 1, so that it
  fills); three commands are a template, a pause or another template, and Close.
  `GraceBatches` is above the number of batches a worker may end late, as 60 s is
  above the length of two batches.
- *algorithms*: every draw (position, product, row, slot, block, phase) of three
  manifests and three lengths (no answer, a prompt that fills its batches, one that
  does not); every tree of up to 9 leaves, and every claim and proof of up to two
  nodes put together from those of trees of up to 4; every shape of a body with
  parts absent, once and twice, cut at every length (bodies with more than one point
  at their last unit only; the wrap of a count is not reached); every subset and order of up to 3 of 3 recipients;
  every queue of up to 4 entries against batches of 3; every cursor of 64 nonces
  against two sizes and batches that do not divide them. `CommitsItsShape` takes the
  answer to be valid UTF-8 with room in its context. That all draws of one audit fit
  `REPLAY_MAX_CAPTURES` slots is a fact about the shipped manifests, which the
  repository's own test asserts (`trace.rs:1532`); the modules do not count slots.

Deadlock is not checked where the system may stop: a session ends, bounds on
sends, scores or faults are used up, and a list of inputs has no next state.
The three actors of `serving` never stop, and there it is checked.

### Fairness

- *WatchChannel*: a thread inside a call goes on (weak fairness); a thread that
  wants the mutex or the read lock gets it in the end (strong fairness: both are
  held for a few instructions, and neither implementation lets one thread barge
  for ever); a worker keeps polling, as its loop does. Nobody has to send, clone or
  leave.
- *MinerWorkers*: threads run, the forwarder task runs (`drop` blocks the thread
  of `block_on`, not a worker of the runtime), a watchdog's sleep ends, and senders
  waiting for room are served in order (strong fairness of `Submit`; the channel of
  tokio is first come, first served). Nothing makes a load or a trace return,
  a batch lose or a message come.
- *SoloInference*, *TraceOpenings*: spawned tasks end, the tick comes, a client
  that lost its connection connects again, and the node answers, announces its
  blocks and offers templates while the connection holds. Faults are bounded.
- *StratumSession*: the tasks of the blocking pool go on, one or another of them;
  the pool goes on sending jobs of the v4 form; a lost session is followed by another. The pool need
  not answer anything.
- *SessionLoop*: the main task, the link watcher and the timer of the stop run.
  Delivery is not fair: Telegram may hold a message for ever, and `StopEnds` holds
  all the same.
- *Serving*: the worker and each task take their next step. A launch or an install
  may fail, within `MaxFaults`.

## 4. Findings

*Torn journal line* (`escrow_torn`). After an append cut inside a line, the next
line is glued to the fragment, does not parse and is skipped, although its write
was reported. With cuts between lines everything saved survives
(`escrow_journal`).

The modules also state what comments and documents of the repository say and the
models refute. These have no run of their own:

- `EscrowClaims.SpentIsNotSlashed` (`escrow.rs:269-272`): after a lost answer the
  outputs may be batched with others; the retry has another txid, is an orphan and
  not a duplicate, and outputs already paid end up as given up. No coin is lost,
  the books are wrong.
- `EscrowClaims.ReAddedIsTracked` with a reconnection (`MaxRestarts = 1`;
  `escrow.rs:754` "so a block re-added later is tracked afresh"): `rebuild_indexes`
  knows purged outpoints again, and the escrow of a block that returns is never
  claimed.
- `MinerWorkers.NoKernelDuringInference` (`grpc.rs:1841` "Pause and drain mining
  BEFORE spawning inference"): nothing waits for the batch in progress. What does
  hold is `PauseDrains`: at most one batch ends on the device after the pause.
- `TraceOpenings.NoAuditLost` (`trace_store.rs:1-2`): a response accepted while
  no connection was up, by a block above which the restored chain starts, is not
  known to be accepted.
- `StratumSession.AckedIsFree` (`stratum.rs:323` "until the bridge acknowledges
  it"): ids start again with a session while the pending shares are the process's,
  so an acknowledgement may be taken for that of a share of an earlier session.
- `StratumSession.SelfCheckStarts` (README.md:152-154 "runs the self-check once at
  its first job"): a job drives the queued openings first (`stratum.rs:1574-1575`),
  and while a pool keeps that queue filled the card is never free for the
  self-check.
- `SoloInference.AnswersAlwaysFit` (`grpc.rs:1635-1636` "From the gate on it
  travels inline"): a parked inference that ends while there is no connection is harvested by
  the first tick of the next one, or by a block before its first template
  (`grpc.rs:426-454`, `597-610`), with `last_known_daa` 0 (`grpc.rs:580`). The body
  is published instead of sealed inline, the response is not signed and its trace is
  dropped. `AnswersAreRight` holds of all answers but these.
- `SessionLoop.HalfIsLeft` (`notify.rs:535` "Leave half the queue to alerts"): two
  threads, those of this session and of an earlier one, both read the counter before
  either posts. What holds is the half and one place less than there are threads.
- `Serving.HandedItsModel` (`slm.rs:682`): between `ensure_loaded` and the clone of
  the served engine another task may have replaced it.
- `Serving.ZeroDup` (`pom_gpu.rs`, "the in-process engine's own resident weight
  buffers"): an engine launched twice leaves the walk on the first while the second
  serves.

Other behaviours the models have: a receiver may be given one value twice, under
the old and then under the new id (`watch.rs:125`), which `LatestValue` allows; an
accepted claim settles the first entry of an outpoint, which after a
reorganisation is the purged one (`escrow.rs:1068`); a pool worker whose every
batch wins polls no command, so that `OnlyLoadsOutliveGrace` is claimed for solo
templates only (`miner.rs:495`); the watchdog may signal a thread that was joined
after it read the kill switch (`miner.rs:63`), after which `ShutdownEnds` claims
nothing; a CPU worker keeps the extranonce of its previous template when a new one
comes while it hashes (`miner.rs:624`); two actors that both find no engine both
launch one (`slm.rs:505`); a connect that hangs for a minute counts as a healthy
session (`main.rs:757`).

## 5. Proofs

Checked by TLAPS for every value of the constants:

- `WatchChannelProofs`, for any finite set of receivers and any bound on sends:
  `TypeCorrect`, `LostWakeupFree`, `DeliveredThroughId`, `CounterExact`,
  `RefusalIsFinal`, `ValuesNeverRegress`, `ReceiversAreServed`, which puts the
  invariants of the run together, and `ImplementsContract`, that every step of the
  channel is a step of `LatestValue` or leaves it unchanged.

  None of these is inductive. The invariant `IInv` adds what the code's
  argument rests on: who holds the mutex is at one of the points between lock and
  unlock (`MutexInv`); a receiver enters the wait only after a check under the
  mutex (`EnterInv`); the id is behind the value only inside `replace_value`
  (`SenderInv`); a recorded id is not above the channel's, and the value cloned
  next is at least as new (`ObservedInv`); for a sleeper with news pending the
  sender is still on its way to `wake_up_threads` (`WaitInv`); an unborn handle has
  no state (`UnbornInv`). The counter is separate (`CountInv`), since it speaks of
  cardinalities: each step adds, removes or keeps one live handle (`LiveSteps`).
- `MinerWorkersProofs`, about `NonceRange`, for any space, sub-ranges and batch: `RunsStayInRange` and
  `RangesAreTiled`. The lemmas say what `pom_batch_start` returns in a sub-range
  that holds a batch (`StartInRange`) and in any range (`StartIsNonce`), and that
  what `set_extranonce` assigns is a whole sub-range that begins at a multiple of
  its size (`AssignedRange`). That rests on `DivisionAssumption`, sizes divide the
  space, which powers of two do; without it neither half is true. The invariant
  adds the alignment (`Aligned`) and that the cursor stands behind the last run
  (`CursorFollows`): `NextRunTiles` needs both to know where the next run starts.
- `SessionLoopProofs`, for any back-off, limit of short sessions, queue, number
  of messages and finite set of threads that post AI messages (`Tellers`): `SessionsReconnectSafely` and `AlertsStayTrue`. The properties speak
  of the points where main retries or exits and where a message is queued; the
  invariant says what holds between them: the delay is the one of the count so
  far (`DelayFollowsCount`), records are unwritten only inside a session
  (`DirtyInSession`), an outage is announced only while the link is down
  (`OutageIsDown`), and each thread that has decided to post is one of the tellers,
  so that what they hold together with the queue stays below the half and their number
  (`RoomIsKept`).
- `ServingProofs`, for any finite set of tasks, eras and faults: `TypeCorrect`,
  `BatchesGrindTheirModel`, `EnginesInUseStay`, `NoEngineLeaks` and
  `OnlyTheGpuBars`. An actor refers
  to an engine in one way at a time (`OneHandEach`), the engines on the card are
  those somebody refers to (`ResidentIffReferenced`), and each reference finds the
  model its holder expects (`EnginesMatch`). The last is what `mine_v4` relies on
  when it clones an entry without looking at its model. `ServingAssumption` says
  that tasks are finitely many and none is the worker. `OnlyTheGpuBars` adds `Calm`,
  what holds while no task of a closed session runs and no task was handed a wrong
  engine: one engine at most is configured, for the manifest of the task that traces on
  it, and the device traces the same (`DeviceTraces`, `TaskTraces`), nobody but the task at work computes with a configured engine
  that no longer serves (`OutOfService`), the worker loads with no walk installed
  (`WorkerLoads`), an engine on its way to `SERVER` is known to nobody else
  (`FreshAlone`), and a task replaces the served engine only while none is configured
  (`TaskTraces`). A Drop then never releases the device under a trace (`TraceKept`), and
  a trace of the other kind finds no evaluation under way on the engine it reconfigures. Its hypothesis
  `OneAtATime` says that the session has one task of its own, as the handler starts
  no inference while one runs (`SessionsAgree` below proves that of `StratumSession`).
- `MinerWorkersProofs`, about the workers, for any number of them and of commands and faults: `PausesDrain`,
  `NobodyIsForgotten`, `CommandsAreTaken`; and when the grace spans more batches
  than faults can delay a worker (`1 + MaxFaults < GraceBatches`, the hypothesis of
  the theorem; `FREEZE_GRACE` is 60 s, against batches of a second or less) `OnlyLoadsAreShot` and
  `WorkersDoObey`. A counter like `late` or `overlap` alone says nothing about the
  next step: the invariant relates it to the control point of the worker, that
  only one about to poll may have ended its batch (`OnlyWinnersAreLate`), that one
  which ended a batch in a pause is out of the mining loop (`DrainedStayOut`), and
  that whoever runs has a handle in the manager (`RunningIsHandled`).
- `EscrowJournalProofs`, for any finite set of outpoints and any number of lines,
  crashes and failed writes, under the hypothesis that an append stops between
  lines (`Cuts = {"clean"}`; with cuts inside a line the statements are false,
  which is the finding `escrow_torn`): `FilesFollowTheLog`, `SavedIsRead`,
  `RestartsAreExact`. The invariant compares everything with the log of all lines
  ever made: the memory is the state after it, the files replay to the state
  after some prefix, and that prefix covers what a save reported. The replay is a
  recursive function over the file: that it is defined at all (`ReplayIsDefined`)
  and reads one line more than before (`ReadsOneMore`) is proved by induction done
  by hand, over the least length at which the claim would fail.
- `StratumSessionProofs`, for any requests, sessions, lines and caps:
  `SessionsAgree`, and `SessionsAreExact` when no more lines are sent than ids of
  base64 proofs are kept (`RoomForProofs`, 4096 in the code: past that the set is
  cleared, and a fatal answer to a forgotten proof does end the session). The
  handler is one record that a message changes through several helpers, so the
  invariant is a predicate of a record (`Sound`) and the lemmas say that each
  helper leaves a sound one (`Benign`): drive_openings, a task taking the card, a
  line going out. It adds what the properties hide: the task that is to send the
  awaited response is one that answers requests, ids are given once
  (`IdsAreGivenOnce`, `SharesAreOurs`), so the answer to another line cannot clear
  or bury the one waited for, and id 0 is the subscription's.

- `EscrowClaimsProofs`, for any outputs, windows and batch sizes and any number of
  chain changes, reconnections and lost answers:
  - `ValidationGoesOn`: a block that waits for its validation and is not queued has a
    request or an answer under way, and the queue is shorter than the list of blocks
    that wait (`VInv`). The chain rebuild may have a queued block validated early, so
    the queue is no subset of that list. `WindowAssumption` says that the validation
    window is not 0 (it is 64 in the code): with 0 nothing is ever asked.
  - `TrackingFollowsChain`: the entries, the known outpoints and the index by block
    agree (`Books`), and what the node said of a block still holds or a removal comes
    after it in the stream (`TInv`). Each handler is shown to change the entries in
    place or to add one, never to bring a dead one back (`Tamer`).
  - `PaymentsAreReal`: the node's acceptance is behind every answer that settles a
    claim (`PInv`), and an answer settles entries of the outputs the claim spends
    (`FoundIsNamed`).
  - `BatchesAreSpendable` and `NothingIsLeftWaiting`, about `select_claim_batch` alone,
    for every queue of entries, every current window and every batch size. A batch is
    built entry by entry, so what it promises is kept at every join: ready entries not
    visited yet (`Fresh`), within the limit, of one window and one pool (`Bounded`),
    filled from its window as long as there is room (`Filled`), empty only if no visited
    entry would do (`Waiting`). Each is carried along the visits by an argument on the
    first visit that would break it (`BatchOnce`, `BatchBounded`, `NominalIsFilled`,
    `SomeBatch`); the visits name each entry once (`VisitsOnce`) and leave none out
    (`VisitsAll`). A selection then ends in one of three ways (`SelectionEnds`): nothing
    is sent, a full batch of a window, or a batch of one of the last three passes while no
    window is full. The case that takes an argument is a drain batch as large as a full
    one: its window would have been full, and its nominal candidate came first
    (`InferenceGoesFirst`).
  - `ClaimsNeverCompete`: a new claim spends entries that are in no claim in flight,
    and no output has two live entries, so it is disjoint from them (`FInv`).
  - `OnlyTheLostAreGivenUp`: the cause of a rejection lasts until the watcher reads it.
    An orphaned claim of one output means that the output is spent, burned or off the
    chain, and when it is off the chain, its removal comes before the rejection in the
    stream, so a later block of the same output has not been tracked in between
    (`LInv`, `Justified`).
  - `ClaimsStayExact`: the type invariant, with the two facts above. A cap halves the
    size of a claim in flight, so claims no larger than a batch (`YInv`, from
    `BatchBounded`) keep caps within their range. `DurationsAssumption` says
    that the times are numbers and that no lock is 0, the mark for "no window yet".
  - `ReAddedBlocksAreTracked`, within the first connection (`restarts = 0`; after a
    reconnection the statement is false, see section 4): the news of a block lasts from
    the chain change to the entry. While its output is neither spent nor burned, a block
    of the chain is known to the watcher with no removal unread, or it is coming: asked
    for, or its block or the chain change is unread in the stream (`AInv`). A known
    output has an entry that is not given up, unless it is worth nothing (`Accounted`),
    and that entry is in the index by which purges find it (`Indexed`); so a purge
    releases the outpoint together with the entry, and the block is tracked anew when it
    returns. Two more things give an entry up: a block that lists the entry's block as
    red, by whose reading no such entry is left (`Harmless`), and a rejected claim, of
    an output that is worth nothing or leaving the chain (`GivenUpIsWorthless`).

- `SoloInferenceProofs`, for any requests, eras, queues and chains, however often the
  connection is lost: `SessionAnswersRight`. A message of the node runs several helpers on
  the client, which is one record, so the invariant is a predicate of a record, and each
  helper is shown to leave a good one (`Follows`). `Sound` says that a request is in one
  place only (queued, with the task, being published) and that the form of what is under
  way was decided by the gates or is noted as blind; `Seen`, which a lost connection
  suspends, that whatever is under way is among the ids seen and its reward is known. The property needs both: a request announced
  again is turned away because of `Seen`, and work is not done twice because of `Sound`.
  `Retain` and the scan of a block's transactions are recursive functions over a list;
  that they are defined is shown by the least length at which they would not be. One
  hypothesis: `Ample`, there are no more requests than `MAX_AI_SEEN_IDS` (a full set is
  rebuilt from the queue and forgets the request that runs, which may then be taken up
  again). Nothing is assumed of when the first template comes.

Each invariant was first checked with TLC on the instance of the module's run.

Only model-checked: liveness and the fairness half of the refinement (outside the
prover's reach); the algorithms of `AuditCases` and `FormatCases`, which are recursive
over data; and the properties of `TraceOpenings`. `TracesFollowTheChain` is about paths
of the block tree, a recursive function of the parents, and excuses the responses that
its history variable saw given up: an inductive invariant would have to say for every
response where along a path it was given up, and none has been written.

## 6. Not modelled

Hash functions, PoW and PoM walks, GPU kernels, the quantised arithmetic inside
the checks of verifiable inference (`chainkit.rs`), signatures and key files:
numerics and cryptography, where a model checker adds nothing to the tests. IPFS
and the download of models are I/O. The tables of `models.rs` are constants; the
modules use the gates they give, as eras. The window seeds and the caches of
`block_task.rs` are inputs of `MinerWorkers` and `StratumSession`. The hash rate
logger counts. Commands of the Telegram bot only read state.

## 7. Plan

1. Proofs: `TraceOpenings`.
2. `EscrowClaims` with blocks behind the tip (`Lag`) and outputs below the fee
   (`Dust`).
3. The caches of `block_task` and the window seeds they are keyed by; the model
   downloads and the choice of files of `inference.rs`.
4. The era tables of `models` against the gates of the serving and trace modules.

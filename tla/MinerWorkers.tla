---------------------------- MODULE MinerWorkers ----------------------------
(***************************************************************************)
(* MinerManager and its mining threads (src/miner.rs): commands published   *)
(* on the watch channel, the loops of the GPU and the CPU workers with      *)
(* their uninterruptible operations, the bounded queue of found blocks, and *)
(* the shutdown that joins the threads one by one under a watchdog.         *)
(*                                                                          *)
(* The channel keeps the promise of LatestValue: what is taken is the       *)
(* newest command, and the id noted for it may be older, so the same        *)
(* command can be taken twice.  A template is its id, the era its DAA score *)
(* falls in and the extranonce the pool gave with it.                       *)
(***************************************************************************)
EXTENDS Naturals, Sequences, FiniteSets, SequencesExt

CONSTANTS
    Gpu,           \* GPU workers
    Cpu,           \* CPU workers
    InferGpu,      \* the GPU workers whose device also runs inference
    Eras,          \* eras a template may fall in
    Sessions,      \* the sessions to look at: [full, crew, posts]
    QueueCap,      \* capacity of the channel of found blocks
    PollEvery,     \* nonces between two polls of a CPU worker (128)
    GraceBatches,  \* batches that fit in FREEZE_GRACE
    MaxExt,        \* bound on the extranonces of a session
    MaxFaults      \* bound on failed kernel runs

Workers == Gpu \cup Cpu

ASSUME WorkersAssumption == Gpu \cap Cpu = {} /\ InferGpu \subseteq Gpu /\ IsFiniteSet(Workers)
ASSUME ErasAssumption == Eras \subseteq {"legacy", "old", "pom", "task"}
ASSUME BoundsAssumption ==
    /\ Sessions \subseteq [full : BOOLEAN, crew : SUBSET Workers, posts : Nat \ {0}] /\ IsFiniteSet(Sessions)
    /\ QueueCap \in Nat \ {0} /\ PollEvery \in Nat \ {0} /\ GraceBatches \in Nat \ {0}
    /\ MaxExt \in Nat /\ MaxFaults \in Nat

VARIABLES
    session,      \* fixed with the connection: a node's templates (full blocks) or a pool's (partial),
                  \* the workers launched, and the bound on published commands
    cmd,          \* the command in the watch channel
    posted,       \* its number
    is_synced,    \* MinerManager.is_synced
    next_id,      \* MinerManager.current_state_id
    opoi,         \* opoi_challenge_active
    ext,          \* the client's extranonce
    inferring,    \* an inference task is running its kernels
    mgr,          \* "run", then Drop: "close", "join", "joined" (switch not cleared yet), "gone"
    handles,      \* MinerManager.handles
    dog,          \* the watchdog of a handle: "none", "asleep", "fire", "off"
    kill_switch,  \* its kill switch
    stuck,        \* where the worker was when its watchdog decided to fire
    misfired,     \* pthread_kill was given a thread that had ended: undefined from there on
    pc,           \* control point of a worker
    state,        \* its template
    seen,         \* its Receiver.last_observed
    installed,    \* its walk is resident on its device
    nonce,        \* CPU: the counter that paces the polls
    fixed,        \* CPU: the extranonce it applies
    queue,        \* found blocks not forwarded yet
    open,         \* the forwarder still reads the queue
    linked,       \* the connection is up
    late,         \* batches finished since a command was posted that the worker has not taken
    overlap,      \* PoM batches ended since the last pause began
    faults

commands == <<cmd, posted, is_synced, next_id>>
client == <<opoi, ext, inferring>>
drop == <<mgr, handles, dog, kill_switch, stuck, misfired>>
workers == <<pc, state, seen, installed, nonce, fixed, late, overlap>>
blocks == <<queue, open, linked>>
vars == <<commands, client, drop, workers, blocks, faults>>

NoJob == [kind |-> "none"]
Close == [kind |-> "close"]
Job(id, era, e) == [kind |-> "job", id |-> id, era |-> era, ext |-> e]
MaxPosts == Max({s.posts : s \in Sessions})
Jobs == {Job(id, era, e) : id \in 0..MaxPosts, era \in Eras, e \in 0..MaxExt}

Ended == {"exit", "dead"}
Alive == {w \in Workers : pc[w] \notin Ended}
HasJob(w) == state[w] # NoJob
InPom(w) == HasJob(w) /\ state[w].era # "legacy"
-----------------------------------------------------------------------------
(* The client's side: process_block, and the messages that lead to it.       *)

\* block_channel.send: it fails once every receiver is gone, which ends the client's listen loop.
Send(c) ==
    IF Alive = {}
      THEN /\ mgr' = "close"
           /\ UNCHANGED <<cmd, posted, late>>
      ELSE /\ posted < session.posts
           /\ cmd' = c
           /\ posted' = posted + 1
           /\ late' = [w \in Workers |-> 0]
           /\ UNCHANGED mgr

\* process_block(None): published once, until a template comes again.
Suspend ==
    IF is_synced
      THEN is_synced' = FALSE /\ UNCHANGED next_id /\ Send(NoJob)
      ELSE UNCHANGED <<commands, mgr, late>>

dropRest == <<handles, dog, kill_switch, stuck, misfired>>
workersRest == <<pc, state, seen, nonce, fixed>>

\* A template to mine: the pause ends, process_block(Some).
OnTemplate(era) ==
    /\ mgr = "run"
    /\ ~inferring
    /\ opoi' = FALSE
    /\ is_synced' = TRUE
    /\ next_id' = next_id + 1
    /\ Send(Job(next_id, era, ext))
    /\ UNCHANGED <<ext, inferring, dropRest, workersRest, installed, overlap, blocks, faults>>

\* A template of a node that is not synced.
OnUnsynced ==
    /\ mgr = "run"
    /\ ~inferring
    /\ opoi' = FALSE
    /\ Suspend
    /\ UNCHANGED <<ext, inferring, dropRest, workersRest, installed, overlap, blocks, faults>>

\* set_opoi_pause(true); a pause that lasts goes on.
Pause ==
    /\ opoi' = TRUE
    /\ overlap' = IF opoi THEN overlap ELSE [w \in Workers |-> 0]

\* A template while no model can be served: mining is held until there is one.
OnNoModel ==
    /\ mgr = "run"
    /\ ~inferring
    /\ Pause
    /\ Suspend
    /\ UNCHANGED <<ext, inferring, dropRest, workersRest, installed, blocks, faults>>

\* A request to answer: the pause is set, mining suspended, and the inference task spawned. It may
\* evict the walk of its device first.
OnInference ==
    /\ mgr = "run"
    /\ ~inferring
    /\ Pause
    /\ Suspend
    /\ inferring' = TRUE
    /\ \E evicted \in {{}, InferGpu} : installed' = [w \in Gpu |-> installed[w] /\ w \notin evicted]
    /\ UNCHANGED <<ext, dropRest, workersRest, blocks, faults>>

\* The task ends by itself; the pause stays until the next template.
InferenceEnds ==
    /\ inferring
    /\ inferring' = FALSE
    /\ UNCHANGED <<commands, opoi, ext, drop, workers, blocks, faults>>

\* The pool moves this miner to another nonce range.
OnSetExtranonce ==
    /\ mgr = "run"
    /\ ~session.full
    /\ ext < MaxExt
    /\ ext' = ext + 1
    /\ UNCHANGED <<commands, opoi, inferring, drop, workers, blocks, faults>>

\* The listen loop ends, with the connection or without it.
ListenEnds ==
    /\ mgr = "run"
    /\ mgr' = "close"
    /\ linked' \in {linked, FALSE}
    /\ UNCHANGED <<commands, client, dropRest, workers, queue, open, faults>>
-----------------------------------------------------------------------------
(* Drop for MinerManager.                                                    *)

DropSendsClose ==
    /\ mgr = "close"
    /\ mgr' = "join"
    /\ cmd' = IF Alive = {} THEN cmd ELSE Close
    /\ posted' = IF Alive = {} THEN posted ELSE posted + 1
    /\ late' = IF Alive = {} THEN late ELSE [w \in Workers |-> 0]
    /\ UNCHANGED <<is_synced, next_id, client, dropRest, workersRest, installed, overlap, blocks, faults>>

\* handles.pop(), a watchdog for it, join().
Joining == Last(handles)

\* Faulty variant: the switch is not set.
StartJoinUnarmed ==
    /\ mgr = "join"
    /\ handles # <<>>
    /\ dog[Joining] = "none"
    /\ dog' = [dog EXCEPT ![Joining] = "asleep"]
    /\ UNCHANGED <<commands, client, mgr, handles, kill_switch, stuck, misfired, workers, blocks, faults>>

StartJoin ==
    /\ mgr = "join"
    /\ handles # <<>>
    /\ dog[Joining] = "none"
    /\ dog' = [dog EXCEPT ![Joining] = "asleep"]
    /\ kill_switch' = [kill_switch EXCEPT ![Joining] = TRUE]
    /\ UNCHANGED <<commands, client, mgr, handles, stuck, misfired, workers, blocks, faults>>

JoinReturns ==
    /\ mgr = "join"
    /\ handles # <<>>
    /\ dog[Joining] # "none"
    /\ pc[Joining] \in Ended
    /\ mgr' = "joined"
    /\ UNCHANGED <<commands, client, dropRest, workers, blocks, faults>>

ClearKillSwitch ==
    /\ mgr = "joined"
    /\ mgr' = "join"
    /\ kill_switch' = [kill_switch EXCEPT ![Joining] = FALSE]
    /\ handles' = Front(handles)
    /\ UNCHANGED <<commands, client, dog, stuck, misfired, workers, blocks, faults>>

AllJoined ==
    /\ mgr = "join"
    /\ handles = <<>>
    /\ mgr' = "gone"
    /\ UNCHANGED <<commands, client, dropRest, workers, blocks, faults>>

\* FREEZE_GRACE passes: only an operation that does not end, or that many batches, takes so long.
GraceOver(w) == pc[w] \in {"load", "trace"} \/ late[w] >= GraceBatches

\* trigger_freeze_handler: the switch is read after the grace period, the signal sent after that.
WatchdogChecks(w) ==
    /\ dog[w] = "asleep"
    /\ GraceOver(w) \/ ~kill_switch[w]
    /\ dog' = [dog EXCEPT ![w] = IF kill_switch[w] THEN "fire" ELSE "off"]
    /\ stuck' = [stuck EXCEPT ![w] = IF kill_switch[w] THEN pc[w] ELSE @]
    /\ UNCHANGED <<commands, client, mgr, handles, kill_switch, misfired, workers, blocks, faults>>

\* pthread_kill: the panic of signal_panic unwinds the thread.
WatchdogFires(w) ==
    /\ dog[w] = "fire"
    /\ dog' = [dog EXCEPT ![w] = "off"]
    /\ misfired' = (misfired \/ pc[w] \in Ended)
    /\ pc' = [pc EXCEPT ![w] = IF @ \in Ended THEN @ ELSE "dead"]
    /\ UNCHANGED <<commands, client, mgr, handles, kill_switch, stuck, state, seen, installed, nonce, fixed,
                   late, overlap, blocks, faults>>
-----------------------------------------------------------------------------
(* The workers.                                                              *)

\* What a worker does with a command it took: a template replaces its own, Close makes it return,
\* and None leaves it with `kept`.
Take(w, kept) ==
    /\ seen[w] < posted
    /\ \E n \in (seen[w] + 1)..posted : seen' = [seen EXCEPT ![w] = n]
    /\ state' = [state EXCEPT ![w] = IF cmd.kind = "job" THEN cmd ELSE kept]
    /\ pc' = [pc EXCEPT ![w] = IF cmd = Close THEN "exit" ELSE "top"]
    /\ late' = [late EXCEPT ![w] = 0]

\* get_changed, then on to `next` when there is nothing new.
Poll(w, kept, next) ==
    \/ Take(w, kept)
    \/ seen[w] = posted /\ pc' = [pc EXCEPT ![w] = next] /\ UNCHANGED <<seen, state, late>>

others == <<commands, client, drop, blocks, faults>>

\* wait_for_change of a worker without a template. A CPU worker adopts the template's nonce range.
WaitForChange(w) ==
    /\ pc[w] = "top"
    /\ ~HasJob(w)
    /\ Take(w, NoJob)
    /\ fixed' = [c \in Cpu |-> IF c = w /\ cmd.kind = "job" THEN cmd.ext ELSE fixed[c]]
    /\ UNCHANGED <<installed, nonce, overlap, others>>

Pausing(w) == w \in InferGpu /\ opoi

\* The inference GPU's worker sits out the challenge.
PausedPoll(w) ==
    /\ pc[w] = "top"
    /\ InPom(w)
    /\ Pausing(w)
    /\ Poll(w, state[w], "top")
    /\ UNCHANGED <<installed, nonce, fixed, overlap, others>>

\* The walk is not resident: act on a pending command, else start the reload.
PollBeforeLoad(w) ==
    /\ pc[w] = "top"
    /\ InPom(w)
    /\ ~Pausing(w)
    /\ ~installed[w]
    /\ Poll(w, NoJob, "load")
    /\ UNCHANGED <<installed, nonce, fixed, overlap, others>>

\* ensure_installed returns; after a success the worker goes on to mine.
LoadReturns(w) ==
    /\ pc[w] = "load"
    /\ \E ok \in BOOLEAN :
         /\ installed' = [installed EXCEPT ![w] = ok]
         /\ pc' = [pc EXCEPT ![w] = IF ok THEN "ready" ELSE "top"]
    /\ UNCHANGED <<state, seen, nonce, fixed, late, overlap, others>>

\* Faulty variant: the pause is not checked.
AdmitUnpaused(w) ==
    /\ pc[w] = "top"
    /\ InPom(w)
    /\ installed[w]
    /\ pc' = [pc EXCEPT ![w] = "ready"]
    /\ UNCHANGED <<state, seen, installed, nonce, fixed, late, overlap, others>>

\* The pause and the walk were checked.
Admit(w) ==
    /\ pc[w] = "top"
    /\ InPom(w)
    /\ ~Pausing(w)
    /\ installed[w]
    /\ pc' = [pc EXCEPT ![w] = "ready"]
    /\ UNCHANGED <<state, seen, installed, nonce, fixed, late, overlap, others>>

\* A template of an era before v4 is dropped.
SkipOldEra(w) ==
    /\ pc[w] = "ready"
    /\ state[w].era = "old"
    /\ state' = [state EXCEPT ![w] = NoJob]
    /\ pc' = [pc EXCEPT ![w] = "top"]
    /\ UNCHANGED <<seen, installed, nonce, fixed, late, overlap, others>>

\* The block task of the template is not there: wait for another template.
TaskMissing(w) ==
    /\ pc[w] = "ready"
    /\ state[w].era = "task"
    /\ Poll(w, NoJob, "top")
    /\ UNCHANGED <<installed, nonce, fixed, overlap, others>>

\* task_for traces the task of a new window seed on the device, a call that cannot be interrupted.
TraceTask(w) ==
    /\ pc[w] = "ready"
    /\ state[w].era = "task"
    /\ pc' = [pc EXCEPT ![w] = "trace"]
    /\ UNCHANGED <<state, seen, installed, nonce, fixed, late, overlap, others>>

\* The trace is there and the template is mined with it, or there is none.
TraceReturns(w) ==
    /\ pc[w] = "trace"
    /\ \/ pc' = [pc EXCEPT ![w] = "mine"] /\ UNCHANGED <<state, seen, late>>
       \/ Poll(w, NoJob, "top")
    /\ UNCHANGED <<installed, nonce, fixed, overlap, others>>

\* The next batch: the checks passed and a task that applies is known, or the era has neither.
StartBatch(w) ==
    /\ \/ pc[w] = "ready" /\ state[w].era \in {"pom", "task"}
       \/ pc[w] = "top" /\ HasJob(w) /\ state[w].era = "legacy"
    /\ pc' = [pc EXCEPT ![w] = "mine"]
    /\ UNCHANGED <<state, seen, installed, nonce, fixed, late, overlap, others>>

CountOverlap(w) ==
    overlap' = [overlap EXCEPT ![w] = IF Pausing(w) /\ InPom(w) /\ @ < 2 THEN @ + 1 ELSE @]

BatchDone(w) ==
    /\ late' = [late EXCEPT ![w] = IF seen[w] < posted /\ @ < GraceBatches THEN @ + 1 ELSE @]
    /\ CountOverlap(w)

\* mine_v4 or the legacy kernel returns. Without a winner the worker polls: None takes the template
\* away on the legacy path only.
BatchEnds(w) ==
    /\ pc[w] = "mine"
    /\ CountOverlap(w)
    /\ Poll(w, IF InPom(w) THEN state[w] ELSE NoJob, "top")
    /\ UNCHANGED <<installed, nonce, fixed, others>>

BatchWins(w) ==
    /\ pc[w] = "mine"
    /\ BatchDone(w)
    /\ pc' = [pc EXCEPT ![w] = "submit"]
    /\ UNCHANGED <<state, seen, installed, nonce, fixed, others>>

\* A winner the host does not confirm, or a failed legacy run: on to the next batch, or, for a
\* wrong legacy nonce, out of the loop.
BatchFails(w) ==
    /\ pc[w] = "mine"
    /\ faults < MaxFaults
    /\ faults' = faults + 1
    /\ BatchDone(w)
    /\ \E next \in IF InPom(w) THEN {"top"} ELSE {"top", "exit"} : pc' = [pc EXCEPT ![w] = next]
    /\ UNCHANGED <<state, seen, installed, nonce, fixed, commands, client, drop, blocks>>

\* Faulty variant: a solved template is kept.
KeepSolved(w) == state[w]

HasRoom == open => queue < QueueCap
\* A solved solo template is done with, a pool's goes on giving shares.
AfterBlock(w) == IF session.full THEN NoJob ELSE state[w]

\* blocking_send of a found block: it waits for room, and fails once the forwarder is gone.
Submit(w) ==
    /\ pc[w] = "submit"
    /\ HasRoom
    /\ queue' = IF open THEN queue + 1 ELSE queue
    /\ state' = [state EXCEPT ![w] = AfterBlock(w)]
    /\ pc' = [pc EXCEPT ![w] = IF w \in Cpu THEN "count" ELSE "top"]
    /\ UNCHANGED <<seen, installed, nonce, fixed, late, overlap, open, linked, commands, client, drop, faults>>

\* One nonce of a CPU worker.
CpuHash(w) ==
    /\ pc[w] = "top"
    /\ HasJob(w)
    /\ \E next \in IF state[w].era = "task" THEN {"count"} ELSE {"submit", "count"} :
         pc' = [pc EXCEPT ![w] = next]
    /\ UNCHANGED <<state, seen, installed, nonce, fixed, late, overlap, others>>

CpuCount(w) ==
    /\ pc[w] = "count"
    /\ nonce' = [nonce EXCEPT ![w] = (@ + 1) % PollEvery]
    /\ IF nonce'[w] = 0
         THEN Poll(w, NoJob, "top")
         ELSE pc' = [pc EXCEPT ![w] = "top"] /\ UNCHANGED <<state, seen, late>>
    /\ UNCHANGED <<installed, fixed, overlap, others>>

\* The task of create_block_channel forwards a block, or stops when the connection is gone.
Forward ==
    /\ open
    /\ queue > 0
    /\ queue' = IF linked THEN queue - 1 ELSE 0
    /\ open' = linked
    /\ UNCHANGED <<commands, client, drop, workers, linked, faults>>
-----------------------------------------------------------------------------
Init ==
    /\ session \in Sessions
    /\ cmd = NoJob
    /\ posted = 1
    /\ is_synced = TRUE
    /\ next_id = 0
    /\ opoi = FALSE
    /\ ext = 0
    /\ inferring = FALSE
    /\ mgr = "run"
    /\ handles = SetToSeq(Cpu \cap session.crew) \o SetToSeq(Gpu \cap session.crew)
    /\ dog = [w \in Workers |-> "none"]
    /\ kill_switch = [w \in Workers |-> FALSE]
    /\ stuck = [w \in Workers |-> "no"]
    /\ misfired = FALSE
    /\ pc = [w \in Workers |-> IF w \in session.crew THEN "top" ELSE "exit"]
    /\ state = [w \in Workers |-> NoJob]
    /\ seen = [w \in Workers |-> 0]
    /\ installed = [w \in Gpu |-> FALSE]
    /\ nonce = [w \in Cpu |-> 0]
    /\ fixed = [w \in Cpu |-> 0]
    /\ queue = 0
    /\ open = TRUE
    /\ linked = TRUE
    /\ late = [w \in Workers |-> 0]
    /\ overlap = [w \in Workers |-> 0]
    /\ faults = 0

ClientNext ==
    \/ \E era \in Eras : OnTemplate(era)
    \/ OnUnsynced
    \/ OnNoModel
    \/ OnInference
    \/ InferenceEnds
    \/ OnSetExtranonce
    \/ ListenEnds

DropNext ==
    \/ DropSendsClose
    \/ StartJoin
    \/ JoinReturns
    \/ ClearKillSwitch
    \/ AllJoined

WatchdogNext(w) == WatchdogChecks(w) \/ WatchdogFires(w)

GpuNext(w) ==
    \/ PausedPoll(w)
    \/ PollBeforeLoad(w)
    \/ Admit(w)
    \/ SkipOldEra(w)
    \/ TaskMissing(w)
    \/ TraceTask(w)
    \/ StartBatch(w)
    \/ BatchEnds(w)
    \/ BatchWins(w)
    \/ BatchFails(w)

CpuNext(w) == CpuHash(w) \/ CpuCount(w)

\* What a running thread does without being held up; a load or a trace may take for ever.
WorkerStep(w) ==
    \/ WaitForChange(w)
    \/ Submit(w)
    \/ w \in Gpu /\ GpuNext(w)
    \/ w \in Cpu /\ CpuNext(w)

Next ==
    \/ ClientNext
    \/ DropNext
    \/ Forward
    \/ \E w \in Workers : WatchdogNext(w) \/ WorkerStep(w)
    \/ \E w \in Gpu : LoadReturns(w) \/ TraceReturns(w)

Safe == Init /\ [][Next /\ UNCHANGED session]_<<vars, session>>

\* Threads run, the forwarder's task is scheduled (drop blocks the thread of block_on, which is not
\* one of the runtime's workers), the senders waiting for room are served in order, and a watchdog's
\* sleep ends. Nothing makes the client's messages come, a load or a trace return, or a batch lose.
Fairness ==
    /\ WF_vars(DropNext)
    /\ WF_vars(Forward)
    /\ \A w \in Workers : WF_vars(WorkerStep(w)) /\ SF_vars(Submit(w)) /\ WF_vars(WatchdogNext(w))

Spec == Safe /\ Fairness
-----------------------------------------------------------------------------
PC == {"top", "load", "ready", "trace", "mine", "submit", "count", "exit", "dead"}

TypeOK ==
    /\ cmd \in Jobs \cup {NoJob, Close}
    /\ posted \in 1..(MaxPosts + 1)
    /\ mgr \in {"run", "close", "join", "joined", "gone"}
    /\ dog \in [Workers -> {"none", "asleep", "fire", "off"}]
    /\ pc \in [Workers -> PC]
    /\ state \in [Workers -> Jobs \cup {NoJob}]
    /\ seen \in [Workers -> 0..posted]
    /\ queue \in 0..QueueCap

\* "so this ceiling only ever applies mid-load": the grace period of a worker runs out inside a call
\* that cannot be interrupted, a load or a task trace, and for no worker that is mining, since each
\* polls Close between its batches.
OnlyLoadsOutliveGrace == session.full => \A w \in Workers : stuck[w] \in {"no", "load", "trace"}

\* With solo templates a command is picked up promptly: between its publication and the moment a
\* worker takes it the worker ends at most one batch, and one more for each failed run, whatever it
\* was doing: pausing, loading, waiting for its block task, or handing over a found block.
CommandsArePrompt == session.full => \A w \in Workers : late[w] <= 1 + faults

\* A pause drains the inference GPU: from the moment it is set at most one batch ends there, the one
\* in flight or the one a reload leads to without another look at the flag.
PauseDrains == opoi => \A w \in InferGpu : overlap[w] <= 1

\* Nobody returns from the join loop before its thread ended, nor is a thread forgotten: when the
\* manager is gone no worker runs, and none can publish a block any more.
GoneMeansQuiet == mgr = "gone" => Alive = {}

\* The workers do what they are told: a command is picked up promptly, Close too, and a manager
\* that is gone leaves nobody running.
WorkersObey == TypeOK /\ CommandsArePrompt /\ OnlyLoadsOutliveGrace /\ GoneMeansQuiet

\* Shutdown always ends: a worker in a load that never returns, in a send on a full queue or in an
\* unbroken run of winners is waited for no longer than its watchdog sleeps. A signal to a thread
\* that was joined is undefined, and nothing is claimed after one.
ShutdownEnds == (mgr = "close") ~> (mgr = "gone" \/ misfired)

\* "Pause and drain mining BEFORE spawning inference": the walk and the inference never run kernels
\* on one device at a time.
NoKernelDuringInference == inferring => \A w \in InferGpu : pc[w] # "mine"
=============================================================================

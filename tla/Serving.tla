------------------------------ MODULE Serving ------------------------------
(***************************************************************************)
(* One card that answers and mines with the same weights (slm.rs,          *)
(* pom_gpu.rs, llm_engine.rs).  Three actors take turns on it without a    *)
(* lock over their steps: the GPU worker, which installs the walk of the   *)
(* model its block needs; the inference task of the session; and the task  *)
(* a closed session left behind, whose pause flag is not the worker's.     *)
(*                                                                         *)
(* SERVER, MINERS, TRACE_CHECKED and TRACE_FAILED are mutexes held for one *)
(* access each, so every access is a step of its own.  An engine is an     *)
(* Arc: it leaves the card with its last reference, and its Drop releases  *)
(* the trace of the device if it had configured one.  Calls under          *)
(* LlamaEngine::lock are one step, or two where a Drop or another          *)
(* configuration can disturb them.                                         *)
(*                                                                         *)
(* A traced request names its kind, and each kind of each tier has its     *)
(* manifest; an engine is configured for one manifest at a time, with room *)
(* for its whole context.  The worker's block task, which would configure  *)
(* the engine beside an inference (miner.rs:412), is scheduled for no block*)
(* (pom.rs:1569-1571) and is no step of this module.                       *)
(***************************************************************************)
EXTENDS Integers, FiniteSets, FiniteSetsExt

CONSTANTS
    Tasks,      \* inference tasks; each runs on a blocking thread
    Orphans,    \* those of an earlier session: they do not pause the worker
    Eras,       \* the last era; the mined model changes with the era
    MaxTasks,   \* bound: inferences started
    MaxFaults   \* bound: launches, installs, traces and self-checks that fail

ASSUME ServingAssumption ==
    /\ IsFiniteSet(Tasks) /\ "worker" \notin Tasks /\ Orphans \subseteq Tasks
    /\ Eras \in Nat \ {0} /\ MaxTasks \in Nat /\ MaxFaults \in Nat

VARIABLES
    era,      \* CHAIN_DAA, by era
    job,      \* the era of the block the worker mines
    server,   \* SERVER: the engine that serves and the model it is recorded under
    walk,     \* MINERS[inference device]: e = 0 is a streamed blob
    ld,       \* what each actor is doing inside ensure_loaded
    held,     \* the engine each actor has cloned out of SERVER or MINERS
    wpc,      \* the worker
    grinding, \* ghost: the model whose weights the running batch walks
    task,     \* the tasks: step, model asked for, kind of trace
    paused,   \* opoi_challenge_active of the worker's session
    eng,      \* the models resident on the card, by engine (0: none)
    conf,     \* the manifest each engine believes the device traces for it
    dev,      \* the manifest the device was last configured for
    built,    \* models with a possession index
    checked,  \* TRACE_CHECKED: the manifests whose self-check passed
    failed,   \* TRACE_FAILED: those that are never traced again
    started, faults,
    broken,   \* ghost: manifests whose trace the GPU really failed
    mixed,    \* ghost: a task was handed the engine of another model
    strayed   \* ghost: a task of a closed session was left running

card == <<eng, conf, dev>>
chain == <<era, job>>
trace == <<checked, failed, broken>>
vars == <<era, job, server, walk, ld, held, wpc, grinding, task, paused, eng, conf, dev, built,
          checked, failed, started, faults, broken, mixed, strayed>>

Worker == "worker"
Procs == Tasks \cup {Worker}
Own == Tasks \ Orphans
Engines == 1..Cardinality(Procs) + 2
NoServer == [m |-> 0, e |-> 0]
NoWalk == [m |-> 0, e |-> 0]
Out == [pc |-> "out", m |-> 0, e |-> 0]
Loading(m, k) == [pc |-> "load", m |-> m, kind |-> k]
Idle == [pc |-> "idle", m |-> 0, kind |-> "none"]

\* trace_kind: the stage-2 trace, or the attention rule's with its sequence leaves.
Kinds == {"stage-2", "attention"}
\* trace_manifest: a model has one tier, so its kind of trace names the manifest.
Manifest(t) == [m |-> task[t].m, kind |-> task[t].kind]
NoTrace == [m |-> 0, kind |-> "none"]

\* mining_model: the model a block of this era needs is the era's.
MiningModel(era_) == era_
\* A traced request is answered for a model of the last lineup only, past its gate (H15).
TraceActive == era = Eras

----------------------------------------------------------------------------
(* Engines and their references.                                           *)

\* Mutant of the definition below.
ReferencedWeakly(e) == server.e = e \/ walk.e = e \/ \E p \in Procs : ld[p].e = e

Referenced(e) ==
    \/ server.e = e
    \/ walk.e = e
    \/ \E p \in Procs : ld[p].e = e \/ held[p] = e

\* LlamaEngine::drop of every engine whose last reference this step gives up.
Settle(models, configured, device) ==
    LET gone == {e \in Engines : models[e] # 0 /\ ~Referenced(e)'}
    IN /\ eng' = [e \in Engines |-> IF e \in gone THEN 0 ELSE models[e]]
       /\ conf' = [e \in Engines |-> IF e \in gone THEN NoTrace ELSE configured[e]]
       /\ dev' = IF \E e \in gone : configured[e] # NoTrace THEN NoTrace ELSE device

Drops == Settle(eng, conf, dev)

----------------------------------------------------------------------------
(* slm::ensure_loaded                                                      *)

InLoad(p, pc) == ld[p].pc = pc

\* active_engine: the served engine, if it is recorded under the model.
ActiveEngine(m) == IF server.m = m THEN server.e ELSE 0

Enter(p, m) == ld' = [ld EXCEPT ![p] = [pc |-> "check", m |-> m, e |-> 0]]

\* pom_keep_resident: a shared walk holds no memory of its own and reports 0 bytes; whether
\* a blob fits next to the model depends on their sizes and the card's.
KeepResident == IF walk.m # 0 /\ walk.e = 0 THEN BOOLEAN ELSE {FALSE}

\* The two reads, of SERVER and of MINERS, are one step: nothing is decided between them.
Check(p) ==
    /\ InLoad(p, "check")
    /\ \E keep \in KeepResident :
          ld' = [ld EXCEPT ![p].pc = IF server.m = ld[p].m THEN "up"
                                     ELSE IF keep THEN "clear" ELSE "uninstall"]
    /\ UNCHANGED <<chain, server, walk, held, wpc, grinding, task, paused, card, built, trace,
                   started, faults, mixed, strayed>>

Uninstall(p) ==
    /\ InLoad(p, "uninstall")
    /\ walk' = NoWalk
    /\ ld' = [ld EXCEPT ![p].pc = "clear"]
    /\ UNCHANGED <<server, held>>
    /\ Drops
    /\ UNCHANGED <<chain, wpc, grinding, task, paused, built, trace, started, faults, mixed, strayed>>

Clear(p) ==
    /\ InLoad(p, "clear")
    /\ server' = NoServer
    /\ ld' = [ld EXCEPT ![p].pc = "launch"]
    /\ UNCHANGED <<walk, held>>
    /\ Drops
    /\ UNCHANGED <<chain, wpc, grinding, task, paused, built, trace, started, faults, mixed, strayed>>

\* LlamaEngine::launch: a new engine, with no trace; or no memory for it.
Launch(p) ==
    /\ InLoad(p, "launch")
    /\ \/ LET e == Min({i \in Engines : eng[i] = 0})
          IN /\ ld' = [ld EXCEPT ![p].pc = "publish", ![p].e = e]
             /\ eng' = [eng EXCEPT ![e] = ld[p].m]
             /\ UNCHANGED faults
       \/ /\ faults < MaxFaults
          /\ faults' = faults + 1
          /\ ld' = [ld EXCEPT ![p].pc = "down"]
          /\ UNCHANGED eng
    /\ UNCHANGED <<chain, server, walk, held, wpc, grinding, task, paused, conf, dev, built, trace,
                   started, mixed, strayed>>

Publish(p) ==
    /\ InLoad(p, "publish")
    /\ server' = [m |-> ld[p].m, e |-> ld[p].e]
    /\ ld' = [ld EXCEPT ![p].pc = "up", ![p].e = 0]
    /\ UNCHANGED <<walk, held>>
    /\ Drops
    /\ UNCHANGED <<chain, wpc, grinding, task, paused, built, trace, started, faults, mixed, strayed>>

EnsureLoaded(p) == Check(p) \/ Uninstall(p) \/ Clear(p) \/ Launch(p) \/ Publish(p)

----------------------------------------------------------------------------
(* The worker of the inference GPU: its loop, ensure_installed, mine_v4.   *)

\* Mutant of the definition below.
IsInstalledAny(m) == walk.m # 0

IsInstalled(m) == walk.m # 0 /\ walk.m = m

\* The worker polls for the newest template in every turn of its loop.  The pause is looked
\* at here only: a load under way goes on through it.
Top ==
    /\ wpc = "top" /\ ~paused
    /\ job' = era
    /\ wpc' = IF IsInstalled(MiningModel(era)) THEN "mine" ELSE "stale"
    /\ UNCHANGED <<grinding, era, server, walk, ld, held, task, paused, card, built, trace, 
                   started, faults, mixed, strayed>>

\* The pause: the worker sleeps and polls.
Wait ==
    /\ wpc = "top" /\ paused
    /\ job' = era
    /\ UNCHANGED <<era, server, walk, ld, held, wpc, grinding, task, paused, card, built, trace,
                   started, faults, mixed, strayed>>

\* ensure_installed_inner: an entry of another era's model leaves the card, then the index is
\* built, unless the model is not downloaded or has the wrong anchor.
DropStale ==
    /\ wpc = "stale"
    /\ walk' = IF walk.m = MiningModel(job) THEN walk ELSE NoWalk
    /\ \/ /\ built' = built \cup {MiningModel(job)}
          /\ Enter(Worker, MiningModel(job))
          /\ wpc' = "share"
          /\ UNCHANGED faults
       \/ /\ MiningModel(job) \notin built /\ faults < MaxFaults
          /\ faults' = faults + 1
          /\ wpc' = "top"
          /\ UNCHANGED <<built, ld>>
    /\ UNCHANGED <<server, held>>
    /\ Drops
    /\ UNCHANGED <<grinding, chain, task, paused, trace, started, mixed, strayed>>

\* install_shared: the engine must serve the mining model.
Share ==
    /\ wpc = "share" /\ ld[Worker].pc \in {"up", "down"}
    /\ LET e == IF InLoad(Worker, "up") THEN ActiveEngine(MiningModel(job)) ELSE 0
       IN /\ held' = [held EXCEPT ![Worker] = e]
          /\ wpc' = IF e = 0 THEN "blob" ELSE "build"
    /\ ld' = [ld EXCEPT ![Worker] = Out]
    /\ UNCHANGED <<grinding, chain, server, walk, task, paused, card, built, trace, started, faults,
                   mixed, strayed>>

\* The walk over the engine's buffers; its chunks are compared with the index.
Build ==
    /\ wpc = "build"
    /\ held' = [held EXCEPT ![Worker] = 0]
    /\ \/ /\ eng[held[Worker]] = MiningModel(job)
          /\ walk' = [m |-> MiningModel(job), e |-> held[Worker]]
          /\ wpc' = "mine"
          /\ UNCHANGED faults
       \/ /\ faults < MaxFaults \/ eng[held[Worker]] # MiningModel(job)
          /\ faults' = IF eng[held[Worker]] = MiningModel(job) THEN faults + 1 ELSE faults
          /\ wpc' = "blob"
          /\ UNCHANGED walk
    /\ UNCHANGED <<server, ld>>
    /\ Drops
    /\ UNCHANGED <<grinding, chain, task, paused, built, trace, started, mixed, strayed>>

Blob ==
    /\ wpc = "blob"
    /\ \/ /\ walk' = [m |-> MiningModel(job), e |-> 0]
          /\ wpc' = "mine"
          /\ UNCHANGED faults
       \/ /\ faults < MaxFaults
          /\ faults' = faults + 1
          /\ wpc' = "top"
          /\ UNCHANGED walk
    /\ UNCHANGED <<server, ld, held>>
    /\ Drops
    /\ UNCHANGED <<grinding, chain, task, paused, built, trace, started, mixed, strayed>>

\* mine_v4 clones the entry out of the map and runs the batch without its lock.
Mine ==
    /\ wpc = "mine"
    /\ wpc' = IF walk.m = 0 THEN "top" ELSE "grind"
    /\ held' = [held EXCEPT ![Worker] = walk.e]
    /\ grinding' = IF walk.e = 0 THEN walk.m ELSE eng[walk.e]
    /\ UNCHANGED <<chain, server, walk, ld, task, paused, card, built, trace, started, faults,
                   mixed, strayed>>

Ground ==
    /\ wpc = "grind"
    /\ wpc' = "top"
    /\ grinding' = 0
    /\ held' = [held EXCEPT ![Worker] = 0]
    /\ UNCHANGED <<server, walk, ld>>
    /\ Drops
    /\ UNCHANGED <<chain, task, paused, built, trace, started, faults, mixed, strayed>>

WorkerStep == Top \/ Wait \/ DropStale \/ Share \/ Build \/ Blob \/ Mine \/ Ground \/ EnsureLoaded(Worker)

----------------------------------------------------------------------------
(* Inference tasks: run_inference, run_traced_inference, open_trace and    *)
(* check_attention_trace all take the engine the same way.                 *)

NewEra ==
    /\ era < Eras
    /\ era' = era + 1
    /\ UNCHANGED <<job, server, walk, ld, held, wpc, grinding, task, paused, card, built, trace, 
                   started, faults, mixed, strayed>>

\* is_model_ready lets the era's model through; the guard pauses the session's worker.  The pool
\* names the kind of trace with each request, and the self-check asks for "attention".
Start(t) ==
    /\ task[t].pc = "idle" /\ started < MaxTasks
    /\ started' = started + 1
    /\ \E k \in {"none"} \cup Kinds :
          /\ k \in Kinds => TraceActive
          /\ task' = [task EXCEPT ![t] = Loading(MiningModel(era), k)]
    /\ Enter(t, MiningModel(era))
    /\ paused' = TRUE
    /\ UNCHANGED <<chain, server, walk, held, wpc, grinding, card, built, trace, faults, mixed, strayed>>

\* Mutant of the definition below.
LeavesPaused(t) ==
    /\ task' = [task EXCEPT ![t] = Idle]
    /\ held' = [held EXCEPT ![t] = 0]
    /\ UNCHANGED <<paused, server, walk>>

\* The end of the task: its clone and its guard are dropped.
Leaves(t) ==
    /\ task' = [task EXCEPT ![t] = Idle]
    /\ held' = [held EXCEPT ![t] = 0]
    /\ paused' = (paused /\ t \notin Own)
    /\ UNCHANGED <<server, walk>>

\* engine_for: the engine is taken from SERVER again, whatever it serves by now.
ServedEngine(m) == server.e

Grab(t) ==
    /\ task[t].pc = "load" /\ ld[t].pc \in {"up", "down"}
    /\ ld' = [ld EXCEPT ![t] = Out]
    /\ LET e == IF InLoad(t, "up") THEN ServedEngine(task[t].m) ELSE 0
       IN \/ /\ e # 0
             /\ held' = [held EXCEPT ![t] = e]
             /\ task' = [task EXCEPT ![t].pc = IF task[t].kind \in Kinds THEN "arm" ELSE "generate"]
             /\ mixed' = (mixed \/ eng[e] # task[t].m)
             /\ UNCHANGED <<paused, server, walk>>
          \/ e = 0 /\ Leaves(t) /\ UNCHANGED mixed
    /\ Drops
    /\ UNCHANGED <<chain, wpc, grinding, built, trace, started, faults, strayed>>

\* LlamaEngine::generate, whole under the engine's lock.
Generate(t) ==
    /\ task[t].pc = "generate"
    /\ Leaves(t)
    /\ UNCHANGED ld
    /\ Drops
    /\ UNCHANGED <<chain, wpc, grinding, built, trace, started, faults, mixed, strayed>>

\* Mutant of the definition below.
ConfiguredOnce(e, want) == conf[e] # NoTrace

\* trace_configure does nothing on an engine that is configured for the same manifest.
ConfiguredFor(e, want) == conf[e] = want

\* arm_trace up to the self-check.  trace_configure takes the device over; one that fails forgets
\* the engine's configuration, and the device keeps the last one, has the new one or none.
Arm(t) ==
    /\ task[t].pc = "arm"
    /\ LET want == Manifest(t)  e == held[t]
       IN \/ /\ want \in failed
             /\ Leaves(t)
             /\ UNCHANGED <<ld, failed, broken, faults>>
             /\ Drops
          \/ /\ want \notin failed
             /\ task' = [task EXCEPT ![t].pc = IF want \in checked THEN "begin" ELSE "try"]
             /\ UNCHANGED <<server, walk, ld, held, paused, eng, failed, broken, faults>>
             /\ IF ConfiguredFor(e, want) THEN UNCHANGED <<conf, dev>>
                ELSE conf' = [conf EXCEPT ![e] = want] /\ dev' = want
          \/ /\ want \notin failed /\ ~ConfiguredFor(e, want) /\ faults < MaxFaults
             /\ faults' = faults + 1
             /\ failed' = failed \cup {want}
             /\ broken' = broken \cup {want}
             /\ Leaves(t)
             /\ UNCHANGED ld
             /\ \E device \in {dev, want, NoTrace} : Settle(eng, [conf EXCEPT ![e] = NoTrace], device)
    /\ UNCHANGED <<chain, wpc, grinding, built, checked, started, mixed, strayed>>

\* The self-check ("try") or the answer ("begin") begins: trace_leaves refuses an engine that is
\* not configured for the manifest any more, trace_begin a device that traces for nobody.  A
\* refused self-check is final, a refused answer is dropped.
Begins(t) == conf[held[t]] = Manifest(t) /\ dev # NoTrace

Begin(t) ==
    /\ task[t].pc \in {"try", "begin"}
    /\ \/ /\ Begins(t)
          /\ task' = [task EXCEPT ![t].pc = IF task[t].pc = "try" THEN "trying" ELSE "tracing"]
          /\ UNCHANGED <<server, walk, ld, held, paused, card, failed>>
       \/ /\ ~Begins(t)
          /\ failed' = IF task[t].pc = "try" THEN failed \cup {Manifest(t)} ELSE failed
          /\ Leaves(t)
          /\ UNCHANGED ld
          /\ Drops
    /\ UNCHANGED <<chain, wpc, grinding, built, checked, broken, started, faults, mixed, strayed>>

\* The evaluation reproduces its trace if engine and device are still configured for it (each
\* replay of the check asks trace_leaves again) and the engine has the model.
Reproduces(t) ==
    conf[held[t]] = Manifest(t) /\ dev = Manifest(t) /\ eng[held[t]] = task[t].m

\* chain_self_check: opens its own trace under two seeds, as the node would.
SelfCheck(t) ==
    /\ task[t].pc = "trying"
    /\ \/ /\ Reproduces(t)
          /\ checked' = checked \cup {Manifest(t)}
          /\ task' = [task EXCEPT ![t].pc = "begin"]
          /\ UNCHANGED <<server, walk, held, paused, ld, card, failed, broken, faults>>
       \/ /\ ~Reproduces(t) \/ faults < MaxFaults
          /\ faults' = IF Reproduces(t) THEN faults + 1 ELSE faults
          /\ broken' = IF Reproduces(t) THEN broken \cup {Manifest(t)} ELSE broken
          /\ failed' = failed \cup {Manifest(t)}
          /\ Leaves(t)
          /\ UNCHANGED <<ld, checked>>
          /\ Drops
    /\ UNCHANGED <<chain, wpc, grinding, built, started, mixed, strayed>>

\* generate_traced or a replay: an answer (without its trace if that is incomplete), or nothing.
Traced(t) ==
    /\ task[t].pc = "tracing"
    /\ Leaves(t)
    /\ UNCHANGED ld
    /\ Drops
    /\ UNCHANGED <<chain, wpc, grinding, built, trace, started, faults, mixed, strayed>>

TaskStep(t) == EnsureLoaded(t) \/ Grab(t) \/ Generate(t) \/ Arm(t) \/ Begin(t) \/ SelfCheck(t) \/ Traced(t)

----------------------------------------------------------------------------
Init ==
    /\ era \in 1..Eras /\ job = era
    /\ server = NoServer /\ walk = NoWalk
    \* the session starts alone, or (a bound: past the last gate only, and tracing under the
    \* attention rule) next to the tasks an earlier one left running
    /\ \E left \in {{}} \cup {o \in {Orphans} : TraceActive} :
          /\ strayed = (left # {}) /\ started = Cardinality(left)
          /\ task = [t \in Tasks |-> IF t \in left THEN Loading(era, "attention") ELSE Idle]
          /\ ld = [p \in Procs |-> IF p \in left THEN [pc |-> "check", m |-> era, e |-> 0] ELSE Out]
    /\ held = [p \in Procs |-> 0]
    /\ wpc = "top" /\ grinding = 0 /\ paused = FALSE
    /\ eng = [e \in Engines |-> 0] /\ conf = [e \in Engines |-> NoTrace] /\ dev = NoTrace
    /\ built = {} /\ checked = {} /\ failed = {}
    /\ faults = 0
    /\ broken = {} /\ mixed = FALSE

Next ==
    \/ NewEra \/ WorkerStep
    \/ \E t \in Own : Start(t)
    \/ \E t \in Tasks : TaskStep(t)

\* Every thread is scheduled, and every call into the card returns.
Fairness ==
    /\ WF_vars(WorkerStep)
    /\ \A t \in Tasks : WF_vars(TaskStep(t))

Spec == Init /\ [][Next]_vars /\ Fairness

----------------------------------------------------------------------------
(* Properties.                                                             *)

\* The batch a worker grinds walks the weights of the model its block needs, although
\* mine_v4 does not look at the entry's model and the era changes under it
\* (pom_gpu.rs:127-145, 279-318; miner.rs:380-399).
GrindsItsModel == wpc = "grind" => grinding = MiningModel(job)

\* "The served engine for `model_id`" (slm.rs:682): the engine a task is handed serves the
\* model it asked for.
HandedItsModel == ~mixed

\* While no task of a closed session runs and no task is handed a wrong engine, a model is
\* barred from a kind of traced answers only by the GPU, never because the Drop of another engine
\* released the device it was being traced on, nor because the engine was left configured for
\* another kind (slm.rs:968-1004, llm_engine.rs:203-210, 920-970).
BarredByTheGpuOnly == strayed \/ mixed \/ failed \subseteq broken

\* Once the inferences stop, the worker gets the walk of the newest era's model back, whatever
\* was evicted and whatever failed on the way (slm.rs:483-523, pom_gpu.rs:352-455).
WalkComesBack == <>[](IsInstalled(MiningModel(era)) /\ job = era)

\* An inference ends, so its guard is dropped (slm.rs:631-667, 1141-1186).
EveryInferenceEnds == \A t \in Tasks : task[t].pc # "idle" ~> task[t].pc = "idle"

\* The card is shared: neither the walk nor the inferences are locked out by the other for good.
CardIsShared == WalkComesBack /\ EveryInferenceEnds

\* What pom_gpu.rs says of the zero-dup walk: it uses "the in-process engine's own resident
\* weight buffers", so once nobody loads, the engine it walks is the one that serves.
ZeroDup ==
    (wpc = "grind" /\ walk.e # 0 /\ \A p \in Procs : ld[p].pc = "out") => server.e = walk.e
============================================================================

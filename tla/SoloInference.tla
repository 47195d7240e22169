---------------------------- MODULE SoloInference ----------------------------
(***************************************************************************)
(* The AI requests of a solo session (client/grpc.rs): scanning and        *)
(* backfill, the queue, the inference task, publishing, resubmission, the  *)
(* pause of mining, and what a reconnection keeps of all that.             *)
(*                                                                         *)
(* The client is one record c, and its helpers are functions on it, since  *)
(* a message runs several of them in one go: \E s \in {f(c)} names the     *)
(* client after f.  Tasks spawned on the blocking pool and the node are    *)
(* actions of their own.  A block is known by its place in the chain;      *)
(* blocks without AI transactions are announced but not stored.            *)
(***************************************************************************)
EXTENDS Naturals, Sequences, FiniteSets, SequencesExt

CONSTANTS
    Requests,       \* AiRequests
    Rewarded,       \* those that lock an inference_reward
    Private,        \* those sealed to this miner
    Unreadable,     \* private ones that do not open
    Eras,           \* which sets of gates the chain may have passed
    QueueCap,       \* MAX_AI_QUEUE_SIZE
    SeenCap,        \* MAX_AI_SEEN_IDS
    Window,         \* AI_BACKFILL_WINDOW_DAA
    MaxAttempts,    \* AI_RESPONSE_MAX_ATTEMPTS
    MaxBlocks,      \* bound: blocks with AI transactions
    MaxTrouble      \* bound: connections lost, tasks that fail, models deleted,
                    \* refusals of the node, replays

ASSUME RequestAssumption ==
    /\ "none" \notin Requests
    /\ Rewarded \subseteq Requests
    /\ Unreadable \subseteq Private
    /\ Private \subseteq Requests
ASSUME CapAssumption == QueueCap \in Nat /\ SeenCap \in Nat
\* Answers are signed from H6 on and traced from H15 on.
ASSUME EraAssumption ==
    /\ Eras \subseteq SUBSET {"v2", "inline", "trace", "attention"}
    /\ \A e \in Eras : "trace" \in e => "v2" \in e

VARIABLES
    chain,      \* the node: AI transactions of each block
    pool,       \* requests whose answer the node has taken
    era,        \* the gates the chain has passed
    up,         \* whether a connection is open
    c,          \* the client (KeryxdHandler)
    sent,       \* history: the answers submitted
    tracked,    \* rewards the escrow watcher was told of
    dropped,    \* history: requests given up for a reason the code states
    trouble     \* how much may still go wrong

vars == <<chain, pool, era, up, c, sent, tracked, dropped, trouble>>

Req(r) == [kind |-> "request", r |-> r]
Resp(r) == [kind |-> "response", r |-> r]

NoJob == [r |-> "none", out |-> "none", traced |-> FALSE]
NoPublish == [r |-> "none", out |-> "none"]

(* A connection starts with nothing known; last_known_daa is 0, below every *)
(* gate, until the first template.  What is started or harvested before it  *)
(* is formed as for a chain that has passed no gate: blind is the history   *)
(* of such requests under way, of the private ones alone, whose form is     *)
(* settled before they are submitted.                                       *)
Fresh ==
    [queue |-> <<>>, seen |-> {}, answered |-> {}, txids |-> {},
     seeded |-> FALSE, cutoff |-> 0, bq |-> <<>>, bp |-> {}, visited |-> {},
     asks |-> {}, job |-> NoJob, publish |-> NoPublish,
     replay |-> "none", inflight |-> {}, daa |-> FALSE,
     asked |-> TRUE, flag |-> FALSE, stale |-> {}, blind |-> {}]

Passed(s, gate) == s.daa /\ gate \in era

(* Whether the GPU is taken by a request or a replay.  (A challenge of the   *)
(* node is ignored since the PoM gate.)                                     *)
InferenceBusy(s) ==
    s.job # NoJob \/ s.replay # "none"

-----------------------------------------------------------------------------
(* Scanning *)

(* Faulty variant: the reward is noted only for a request not seen before. *)
ScanRequestOnce(s, r) ==
    IF r \in s.answered THEN s
    ELSE IF r \in s.seen THEN [s EXCEPT !.stale = @ \ {r}]
    ELSE LET q == Append(s.queue, r) IN
         [s EXCEPT !.seen = @ \cup {r},
                   !.queue = IF Len(q) > QueueCap THEN Tail(q) ELSE q,
                   !.txids = @ \cup ({r} \cap Rewarded),
                   !.stale = @ \ {r}]

(* One AiRequest of a block or template: queued when new, its reward noted *)
(* in any case.  A queue at its cap loses its oldest request; a full set of *)
(* ids is rebuilt from the queue.                                           *)
ScanRequest(s, r) ==
    IF r \in s.answered THEN s
    ELSE LET new == r \notin s.seen
             q == IF new THEN Append(s.queue, r) ELSE s.queue
             kept == IF Len(q) > QueueCap THEN Tail(q) ELSE q
             ids == s.seen \cup {r}
         IN [s EXCEPT !.queue = kept,
                      !.seen = IF Cardinality(ids) > SeenCap
                               THEN ToSet(kept) ELSE ids,
                      !.txids = @ \cup ({r} \cap Rewarded),
                      !.stale = @ \ {r}]

(* What is left of a queue without these requests, in its order.            *)
Retain(q, gone) ==
    LET kept[n \in 0..Len(q)] ==
          IF n = 0 THEN <<>>
          ELSE IF q[n] \in gone THEN kept[n - 1] ELSE Append(kept[n - 1], q[n])
    IN kept[Len(q)]

(* Own answers found in the transactions are noted first and taken out of   *)
(* the queue, then the requests are queued in order.                        *)
ScanTxs(s, txs) ==
    LET own == {t.r : t \in {x \in ToSet(txs) : x.kind = "response"}}
        all == s.answered \cup own
        noted == [s EXCEPT
                    !.answered = IF Cardinality(all) > SeenCap THEN {} ELSE all,
                    !.queue = Retain(@, own)]
        scanned[n \in 0..Len(txs)] ==
          IF n = 0 THEN noted
          ELSE IF txs[n].kind = "request" THEN ScanRequest(scanned[n - 1], txs[n].r)
          ELSE scanned[n - 1]
    IN scanned[Len(txs)]

Evicted(s, t) == ToSet(s.queue) \ (ToSet(t.queue) \cup t.answered)

-----------------------------------------------------------------------------
(* The backfill walk *)

Parents(b) == {b - 1} \ {0}

Enqueue(s, bs) ==
    [s EXCEPT !.visited = @ \cup bs,
              !.bq = @ \o SetToSeq(bs \ s.visited)]

(* The first announcement of a connection starts the walk at its parents.  *)
BackfillSeed(s, b) ==
    IF s.seeded THEN s
    ELSE Enqueue([s EXCEPT !.seeded = TRUE,
                           !.cutoff = IF b > Window THEN b - Window ELSE 0],
                 Parents(b))

(* Requests up to AI_BACKFILL_INFLIGHT blocks, more than the chain has here. *)
BackfillPump(s) ==
    [s EXCEPT !.bq = <<>>, !.bp = @ \cup ToSet(s.bq),
              !.asks = @ \cup {<<b, "backfill">> : b \in ToSet(s.bq)}]

(* Faulty variant: a block is scanned but its parents are not walked.      *)
BackfillStops(s, b) == [s EXCEPT !.bp = @ \ {b}]

(* An awaited block was scanned: its parents are next, above the cutoff.   *)
BackfillNoteBlock(s, b) ==
    IF b \notin s.bp THEN s
    ELSE LET t == [s EXCEPT !.bp = @ \ {b}]
             u == IF b > s.cutoff THEN Enqueue(t, Parents(b)) ELSE t
         IN [u EXCEPT !.visited = IF u.bq = <<>> /\ u.bp = {} THEN {} ELSE @]

-----------------------------------------------------------------------------
(* Inference, publishing and the answer *)

Pause(s) == [s EXCEPT !.flag = TRUE]

AskTemplate(s) == [s EXCEPT !.asked = TRUE]

Blinded(s, r) == IF s.daa THEN s.blind ELSE s.blind \cup ({r} \cap Private)

(* Takes the next request that is not answered yet.  An unreadable private *)
(* one has its answer at once; past the attention gate, or with its model   *)
(* gone, a request is given up (ok is FALSE when the files were deleted).   *)
TryStartInference(s, ok) ==
    LET live == Retain(s.queue, s.answered)
        r == Head(live)
        traced == Passed(s, "trace")
        popped == [s EXCEPT !.queue = Tail(live)]
        started == [popped EXCEPT !.blind = Blinded(s, r)]
    IN CASE InferenceBusy(s) -> s
         [] ~InferenceBusy(s) /\ live = <<>> -> [s EXCEPT !.queue = <<>>]
         [] OTHER ->
              IF r \in Unreadable
              THEN [started EXCEPT !.job =
                       [r |-> r, out |-> "text", traced |-> FALSE]]
              ELSE IF (traced /\ Passed(s, "attention")) \/ ~ok THEN popped
              ELSE [started EXCEPT !.job =
                       [r |-> r, out |-> "running", traced |-> traced]]

(* What a message does when it finds work queued and the GPU free: it      *)
(* pauses mining, whether or not a task is started then.                   *)
StartIfIdle(s, ok) ==
    IF InferenceBusy(s) \/ s.queue = <<>> THEN s
    ELSE TryStartInference(Pause(s), ok)

(* The answer transaction for request r: signed from H6 on, with the sealed *)
(* body and its trace inline from the private gate on.                      *)
Answer(s, r, inline, traced) ==
    [r |-> r, signed |-> Passed(s, "v2"), inline |-> inline,
     traced |-> inline /\ traced /\ Passed(s, "v2"),
     resumed |-> r \in s.stale, blind |-> ~s.daa \/ r \in s.blind]

(* submit_ai_response: the answer is kept until the mempool has it, and     *)
(* the reward of the request is handed to the watcher, if it is known.      *)
SubmitAiResponse(s, a) ==
    [s EXCEPT !.inflight = @ \cup {[a |-> a, n |-> 1, st |-> "sent"]},
              !.txids = @ \ {a.r}]

Done(s, a) == [s |-> s, ended |-> TRUE, answers |-> a]
NotDone(s) == [s |-> s, ended |-> FALSE, answers |-> {}]

(* Faulty variant: an inference without a result is put back for good.     *)
HarvestedText(j) == j.out \in {"text", "long"}

(* The result of the task is there.  A task that died without sending one   *)
(* reads as one that still runs.                                            *)
Harvested(j) == j.out \in {"text", "long", "failed"}

(* poll_inference: the publish task first, then the inference task.  A      *)
(* finished text is submitted inline (private, past the gate) or handed to  *)
(* a publish task; a sealed body that is too long is not submitted.         *)
PollInference(s) ==
    LET p == s.publish
        j == s.job
        noPublish == [s EXCEPT !.publish = NoPublish, !.blind = @ \ {p.r}]
        noJob == [s EXCEPT !.job = NoJob, !.blind = @ \ {j.r}]
        byCid == Answer(s, p.r, FALSE, FALSE)
        body == Answer(s, j.r, TRUE, j.traced)
    IN IF p # NoPublish
       THEN CASE p.out = "running" -> NotDone(s)
              [] p.out = "cid" -> Done(SubmitAiResponse(noPublish, byCid), {byCid})
              [] OTHER -> Done(noPublish, {})
       ELSE CASE ~Harvested(j) -> NotDone(s)
              [] Harvested(j) /\ j.out # "text" -> Done(noJob, {})
              [] Harvested(j) /\ j.out = "text" ->
                    IF j.r \in Private /\ Passed(s, "inline")
                    THEN Done(SubmitAiResponse(noJob, body), {body})
                    ELSE NotDone([noJob EXCEPT
                            !.publish = [r |-> j.r, out |-> "running"],
                            !.blind = Blinded(s, j.r)])

(* retry_pending_ai_responses: refused answers are sent again, up to the   *)
(* number of attempts.                                                     *)
RetryAnswers(s) ==
    LET due == {i \in s.inflight : i.st = "refused"} IN
    [s EXCEPT !.inflight = (@ \ due) \cup
        {[i EXCEPT !.n = @ + 1, !.st = "sent"]
            : i \in {j \in due : j.n < MaxAttempts}}]

(* A replay of the audit component starts when the GPU and the queue are    *)
(* free; poll_replay ends it.                                               *)
StartReplay(s) ==
    IF InferenceBusy(s) \/ s.publish # NoPublish \/ s.queue # <<>> THEN s
    ELSE [Pause(s) EXCEPT !.replay = "running"]

-----------------------------------------------------------------------------
(* The handlers *)

(* What one handler did: the history variables and the watcher.             *)
After(s, answers, lost) ==
    /\ c' = s
    /\ sent' = sent \cup answers
    /\ tracked' = tracked \cup {r \in c.txids : \E a \in answers : a.r = r}
    /\ dropped' = dropped \cup lost

Trouble(some) == trouble' = IF some THEN trouble - 1 ELSE trouble

(* The request a start gave up: it left the queue and has no job.          *)
GivenUp(s, t) ==
    (ToSet(s.queue) \ (ToSet(t.queue) \cup t.answered)) \ {t.job.r}

(* BlockAdded: a block that comes with its transactions is scanned, one     *)
(* that comes without is fetched.                                           *)
OnBlockAdded(b, txs, full, ok) ==
    \E s1 \in {BackfillSeed(c, b)} : \E s2 \in {BackfillPump(s1)} :
    \E s3 \in {ScanTxs(s2, txs)} : \E s4 \in {StartIfIdle(s3, ok)} :
        IF full
        THEN After(s4, {}, Evicted(c, s3) \cup GivenUp(s3, s4))
        ELSE After([s2 EXCEPT !.asks = @ \cup {<<b, "added">>}], {}, {})

(* A block without AI transactions.                                         *)
Announce(ok) ==
    /\ up
    /\ ok \/ trouble > 0
    /\ OnBlockAdded(Len(chain) + 1, <<>>, TRUE, ok)
    /\ Trouble(~ok)
    /\ UNCHANGED <<chain, pool, era, up>>

(* The node adds a block with one AI transaction: a request, or an answer   *)
(* it has taken.  A closed connection misses it.                            *)
BlockComes(t, full) ==
    /\ Len(chain) < MaxBlocks
    /\ \A b \in DOMAIN chain : t \notin ToSet(chain[b])
    /\ t.kind = "response" => t.r \in pool
    /\ chain' = Append(chain, <<t>>)
    /\ \/ up /\ OnBlockAdded(Len(chain) + 1, <<t>>, full, TRUE)
       \/ ~up /\ full /\ UNCHANGED <<c, sent, tracked, dropped>>
    /\ UNCHANGED <<pool, era, up, trouble>>

(* GetBlock answered: the block is scanned, the walk goes on.              *)
OnBlock(ask) ==
    /\ up
    /\ ask \in c.asks
    /\ \E s1 \in {ScanTxs(c, chain[ask[1]])} :
       \E s2 \in {BackfillNoteBlock(s1, ask[1])} : \E s3 \in {BackfillPump(s2)} :
       \E s4 \in {StartIfIdle(s3, TRUE)} :
        After([s4 EXCEPT !.asks = @ \ {ask}], {},
              Evicted(c, s1) \cup GivenUp(s3, s4))
    /\ UNCHANGED <<chain, pool, era, up, trouble>>

(* A template: the score, the result of the inference, the requests the     *)
(* template holds, and mining, which goes on only when nothing runs.        *)
OnTemplate(txs) ==
    /\ up
    /\ c.asked
    /\ \A t \in ToSet(txs), b \in DOMAIN chain : t \notin ToSet(chain[b])
    /\ \E s1 \in {[c EXCEPT !.asked = FALSE, !.daa = TRUE]} :
       \E polled \in {PollInference(s1)} :
       \E s3 \in {ScanTxs(polled.s, txs)} :
       \E s4 \in {StartIfIdle(s3, TRUE)} :
        IF polled.ended
        THEN After(AskTemplate(polled.s), polled.answers, {})
        ELSE After(IF InferenceBusy(s4) THEN Pause(s4)
                   ELSE [s4 EXCEPT !.flag = FALSE],
                   polled.answers, Evicted(polled.s, s3) \cup GivenUp(s3, s4))
    /\ UNCHANGED <<chain, pool, era, up, trouble>>

(* NewBlockTemplate, or the probe of a silent connection.                  *)
NewBlockTemplate ==
    /\ up
    /\ c' = AskTemplate(c)
    /\ UNCHANGED <<chain, pool, era, up, sent, tracked, dropped, trouble>>

(* The 200 ms timer: harvests what is done, sends refused answers again and *)
(* starts a replay the audits ask for.                                      *)
Tick(audit) ==
    /\ up
    /\ audit => trouble > 0
    /\ \E polled \in {IF c.job # NoJob \/ c.publish # NoPublish
                      THEN PollInference(c) ELSE NotDone(c)} :
       \E s1 \in {CASE polled.ended -> AskTemplate(polled.s)
                   [] ~polled.ended /\ c.replay = "text" ->
                        AskTemplate([polled.s EXCEPT !.replay = "none"])
                   [] OTHER -> polled.s} :
       \E s2 \in {RetryAnswers(s1)} :
        After(IF audit THEN StartReplay(s2) ELSE s2, polled.answers,
              {i.a.r : i \in s1.inflight} \ {i.a.r : i \in s2.inflight})
    /\ Trouble(audit)
    /\ UNCHANGED <<chain, pool, era, up>>

(* SubmitTransactionResponse for an answer: accepted and known ones are     *)
(* done, others wait for their next attempt.                                *)
OnSubmitResponse(i) ==
    /\ up
    /\ i \in c.inflight
    /\ i.st \in {"ok", "known", "no"}
    /\ c' = [c EXCEPT !.inflight =
                (@ \ {i}) \cup IF i.st = "no" THEN {[i EXCEPT !.st = "refused"]}
                               ELSE {}]
    /\ UNCHANGED <<chain, pool, era, up, sent, tracked, dropped, trouble>>

-----------------------------------------------------------------------------
(* The connection *)

(* Drop: the queue and the running inference are parked, the publish task,  *)
(* the unanswered submissions, and the replay are not.                      *)
Disconnect ==
    /\ up
    /\ trouble > 0
    /\ up' = FALSE
    /\ c' = [Fresh EXCEPT !.queue = c.queue, !.job = c.job,
                          !.blind = c.blind \cap {c.job.r}]
    /\ Trouble(TRUE)
    /\ UNCHANGED <<chain, pool, era, sent, tracked, dropped>>

(* restore_parked marks them as seen; their rewards are known again only    *)
(* when the request is scanned again.                                       *)
RestoreParked(s) ==
    LET held == ToSet(s.queue) \cup ({s.job.r} \cap Requests) IN
    [s EXCEPT !.seen = held, !.stale = held \cap Rewarded]

Connect ==
    /\ ~up
    /\ up' = TRUE
    /\ c' = RestoreParked(c)
    /\ UNCHANGED <<chain, pool, era, sent, tracked, dropped, trouble>>

-----------------------------------------------------------------------------
(* Tasks and node *)

(* A task fails, or dies without sending its result.                       *)
Faults(r) ==
    IF trouble = 0 THEN {}
    ELSE {"failed", "dead"} \cup IF r \in Private THEN {"long"} ELSE {}

(* The inference task ends; it runs on while the client reconnects.        *)
InferenceEnds ==
    /\ c.job.out = "running"
    /\ \E out \in {"text"} \cup Faults(c.job.r) :
        /\ c' = [c EXCEPT !.job.out = out]
        /\ dropped' = IF out = "text" THEN dropped ELSE dropped \cup {c.job.r}
        /\ Trouble(out # "text")
    /\ UNCHANGED <<chain, pool, era, up, sent, tracked>>

PublishEnds ==
    /\ c.publish.out = "running"
    /\ \E out \in {"cid"} \cup (Faults(c.publish.r) \ {"long"}) :
        /\ c' = [c EXCEPT !.publish.out = out]
        /\ dropped' = IF out = "cid" THEN dropped ELSE dropped \cup {c.publish.r}
        /\ Trouble(out # "cid")
    /\ UNCHANGED <<chain, pool, era, up, sent, tracked>>

ReplayEnds ==
    /\ c.replay = "running"
    /\ c' = [c EXCEPT !.replay = "text"]
    /\ UNCHANGED <<chain, pool, era, up, sent, tracked, dropped, trouble>>

(* What an answer must look like in the era of the chain.                   *)
Fits(a) ==
    /\ a.signed = ("v2" \in era)
    /\ a.inline = (a.r \in Private /\ "inline" \in era)
    /\ a.traced = (a.inline /\ "trace" \in era /\ a.r \notin Unreadable)

(* The node judges a submission: it takes an answer of the right form, once *)
(* per request, and may refuse it for a while.                              *)
NodeJudges(i) ==
    /\ i \in c.inflight
    /\ i.st = "sent"
    /\ \E st \in {"ok", "known", "no"} :
        /\ st = "ok" => Fits(i.a) /\ i.a.r \notin pool
        /\ st = "known" => i.a.r \in pool
        /\ st = "no" => ~Fits(i.a) \/ trouble > 0
        /\ c' = [c EXCEPT !.inflight = (@ \ {i}) \cup {[i EXCEPT !.st = st]}]
        /\ pool' = IF st = "ok" THEN pool \cup {i.a.r} ELSE pool
        /\ Trouble(st = "no" /\ Fits(i.a))
    /\ UNCHANGED <<chain, era, up, sent, tracked, dropped>>

-----------------------------------------------------------------------------
Init ==
    /\ chain = <<>>
    /\ pool = {}
    /\ era \in Eras
    /\ up = TRUE
    /\ c = Fresh
    /\ sent = {}
    /\ tracked = {}
    /\ dropped = {}
    /\ trouble = MaxTrouble

Txs == {Req(r) : r \in Requests} \cup {Resp(r) : r \in Requests}

(* Requests of the mempool, which a template may hold.                      *)
Templates == {<<>>} \cup {<<Req(r)>> : r \in Requests}

Next ==
    \/ \E ok \in BOOLEAN : Announce(ok)
    \/ \E t \in Txs, full \in BOOLEAN : BlockComes(t, full)
    \/ \E ask \in c.asks : OnBlock(ask)
    \/ \E txs \in Templates : OnTemplate(txs)
    \/ NewBlockTemplate
    \/ \E audit \in BOOLEAN : Tick(audit)
    \/ \E i \in c.inflight : OnSubmitResponse(i) \/ NodeJudges(i)
    \/ Disconnect
    \/ Connect
    \/ InferenceEnds
    \/ PublishEnds
    \/ ReplayEnds

(* Tasks end, the node answers and a lost connection is opened again.  Each *)
(* of these happens a bounded number of times.                              *)
Progress ==
    \/ \E ask \in c.asks : OnBlock(ask)
    \/ \E i \in c.inflight : OnSubmitResponse(i) \/ NodeJudges(i)
    \/ Connect
    \/ InferenceEnds
    \/ PublishEnds
    \/ ReplayEnds

(* Blocks go on coming, the timer runs, a silent connection is probed, and  *)
(* a template asked for comes.                                              *)
Fairness ==
    /\ WF_vars(Progress)
    /\ WF_vars(Announce(TRUE))
    /\ WF_vars(Tick(FALSE))
    /\ WF_vars(NewBlockTemplate)
    /\ WF_vars(OnTemplate(<<>>))

Spec == Init /\ [][Next]_vars /\ Fairness

-----------------------------------------------------------------------------
(* Properties *)

(* A request is under way at most once: queued, running or being published. *)
(* Blocks, templates, the backfill and a reconnection all offer it again.   *)
NoDoubleWork ==
    /\ IsInjective(c.queue)
    /\ c.job.r \notin ToSet(c.queue)
    /\ c.publish.r \notin ToSet(c.queue)
    /\ c.job.r = c.publish.r => c.job = NoJob

(* Every answer has the form its era asks for: signed from H6 on, sealed    *)
(* inline and traced from the gates of private and verifiable inference on, *)
(* unless it was submitted, or as a private one started or harvested, by a  *)
(* connection that had no template yet.                                     *)
AnswerFitsEra == \A a \in sent : a.blind \/ Fits(a)

(* "From the gate on it travels inline" (grpc.rs:1635-1636), without exception.  *)
(* The model refutes it: the first tick of a connection comes at once, and  *)
(* harvests an inference that ended while there was none with a score of 0. *)
AnswersAlwaysFit == \A a \in sent : Fits(a)

(* The reward of every answered request is handed to the escrow watcher,    *)
(* except of a request taken over from a lost connection and not scanned    *)
(* again before its answer.                                                 *)
RewardTracked ==
    \A a \in sent : a.r \in Rewarded /\ ~a.resumed => a.r \in tracked

(* Every request is worked on once at a time and answered right: in the     *)
(* form its era asks for once the score is known, with its reward claimed.  *)
AnswersAreRight == NoDoubleWork /\ AnswerFitsEra /\ RewardTracked

(* No pause outlives its work: once the last request is through, templates  *)
(* reach the workers for good, unless a task died without a result, which   *)
(* holds the client for the life of the process.                            *)
MiningResumes == <>[](up /\ ~c.flag) \/ <>[](c.job.out = "dead")

(* Every request on the chain is answered in the end or given up for a      *)
(* reason, although connections are lost with answers, uploads and          *)
(* submissions.  (The chain grows by a bounded number of blocks.)           *)
OnChain(r) == \E b \in DOMAIN chain : Req(r) \in ToSet(chain[b])

EveryRequestServed ==
    <>[](\A r \in Requests :
            OnChain(r) => r \in pool \cup dropped \/ c.job.out = "dead")
=============================================================================

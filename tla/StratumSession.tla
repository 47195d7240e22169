--------------------------- MODULE StratumSession ---------------------------
(***************************************************************************)
(* The pool sessions of a miner (client/stratum.rs, with stratum/ai.rs,    *)
(* stratum/traces.rs): ids and their answers, share encoding, jobs, the     *)
(* inference tasks a pool can start, the queue of openings, reconnection   *)
(* and restart.  When a session ends, and what follows, is in SessionLoop. *)
(*                                                                         *)
(* Messages are handled one at a time by the session's task; the tasks it  *)
(* spawns on the blocking pool run beside it and outlive the session.  The *)
(* handler is the record c.  The lines a session has sent and the pool has *)
(* not answered are c.wire; a pool answers in any order, or not at all.    *)
(* The writer behind send_channel is taken to drain.                       *)
(***************************************************************************)
EXTENDS Naturals, Sequences, FiniteSets, Functions

CONSTANTS
    Requests,       \* request hashes of AI requests and tasks
    Jobs,           \* the forms of mining.notify the pool uses
    Eras,           \* gates the chain passes, in order
    Offers,         \* whether the pool offers base64 proofs
    QueueCap,       \* MAX_QUEUED_OPENINGS
    AuxCap,         \* 256 ids of auxiliary requests
    B64Cap,         \* 4096 ids of base64 submits
    MaxSessions,    \* bound: connections made
    MaxLines        \* bound: shares, reports, commands and failed uploads

ASSUME StratumAssumption ==
    /\ Jobs \subseteq {"v4", "v3", "v3task", "short"}
    /\ \A i \in DOMAIN Eras : Eras[i] \in {"tasks", "private", "attention"}
    /\ Offers \subseteq BOOLEAN
    /\ {QueueCap, AuxCap, B64Cap, MaxSessions, MaxLines} \subseteq Nat

VARIABLES
    up,         \* whether a session is open
    c,          \* the handler of the session (StratumHandler)
    pending,    \* SHARE_STATS.shares_pending: id -> session of the share
    refused,    \* whether this pool is in B64_REFUSED_BY
    ready,      \* whether the served model is loaded
    selfTest,   \* TRACE_SELF_TEST_STARTED
    kept,       \* requests whose trace is kept, in memory and on disk
    orphans,    \* tasks of closed sessions that still run and keep a trace
    costly,     \* history: a session was ended by the answer to a base64 proof
    chain,      \* index in Eras of the tip
    left        \* how many more lines may be sent

outside == <<chain, left>>
process == <<pending, refused, ready, selfTest, kept, orphans, costly>>
vars == <<up, c, process, outside>>

None == 0
Gate(e, n) == \E i \in 1..n : Eras[i] = e

(* A new connection: the ids start again, nothing is known of the pool.    *)
Fresh(n) ==
    [no |-> n, id |-> 0, template |-> FALSE,
     wire |-> <<>>, aux |-> {}, telemetry |-> TRUE, b64 |-> FALSE, b64ids |-> {},
     busy |-> FALSE, flag |-> FALSE, aiPending |-> None, openings |-> <<>>,
     tasks |-> {}, results |-> {}, inProgress |-> {}, owed |-> {}, swallowed |-> {}]

-----------------------------------------------------------------------------
(* Lines that carry an id *)

With(f, ids, v) == [i \in DOMAIN f \cup ids |-> IF i \in ids THEN v ELSE f[i]]

Sent(s, i, kind) == [s EXCEPT !.wire = With(@, {i}, kind)]

(* take_aux and take_ai_response_ack both clear what they find.            *)
SendAux(s) ==
    LET ids == IF Cardinality(s.aux) > AuxCap THEN {} ELSE s.aux
    IN Sent([s EXCEPT !.id = @ + 1, !.aux = ids \cup {s.id}], s.id, "aux")

Encode(s, i) ==
    IF ~s.b64 THEN s
    ELSE [s EXCEPT !.b64ids =
            (IF Cardinality(@) > B64Cap THEN {} ELSE @) \cup {i}]

-----------------------------------------------------------------------------
(* Inference tasks *)

(* The card is taken and the workers are told to stop: challenge_in_flight, *)
(* the flag of the manager, and process_block(None).                        *)
Pause(s) == [s EXCEPT !.busy = TRUE, !.flag = TRUE, !.template = FALSE]

(* Faulty variant: the workers are not told that the card is free again.    *)
ResumeBusyOnly(s) == [s EXCEPT !.busy = FALSE]

(* InferenceGuard::drop, or the two stores at the end of a challenge or task. *)
Resume(s) == [s EXCEPT !.busy = FALSE, !.flag = FALSE]

Task(kind, r, i) == [kind |-> kind, r |-> r, id |-> i, phase |-> "gpu"]

Spawn(s, t) == [Pause(s) EXCEPT !.tasks = @ \cup {t}]

InferenceBusy(s) == s.aiPending # None \/ s.busy

(* What the pool must hear of: an opening by its id, a chat by its number. *)
Opening(i) == [kind |-> "opening", n |-> i]
Chat(n) == [kind |-> "chat", n |-> n]
Settle(s, x) == [s EXCEPT !.owed = @ \ {x}]

AnswerOpenings(s, ids) ==
    [s EXCEPT !.wire = With(@, ids, "aux"), !.owed = @ \ {Opening(i) : i \in ids}]
AnswerOpening(s, i) == AnswerOpenings(s, {i})

Late(q) == {q[k].id : k \in {j \in DOMAIN q : q[j].late}}

(* Faulty variant: an opening whose trace is gone is dropped in silence.    *)
DriveForgets(s) ==
    LET t == AnswerOpenings(s, Late(s.openings))
        rest == SelectSeq(s.openings, LAMBDA o : ~o.late)
    IN IF rest = <<>> \/ s.busy THEN [t EXCEPT !.openings = rest]
       ELSE LET o == Head(rest)
                u == [t EXCEPT !.openings = Tail(rest)]
            IN IF o.r \in kept THEN Spawn(u, Task("opening", o.r, o.id)) ELSE u

(* Openings that waited too long are answered with an error, then the       *)
(* oldest of the others starts if the card is free.  Its trace may have     *)
(* been dropped since it was queued.                                        *)
DriveOpenings(s) ==
    LET t == AnswerOpenings(s, Late(s.openings))
        rest == SelectSeq(s.openings, LAMBDA o : ~o.late)
    IN IF rest = <<>> \/ s.busy THEN [t EXCEPT !.openings = rest]
       ELSE LET o == Head(rest)
                u == [t EXCEPT !.openings = Tail(rest)]
            IN IF o.r \in kept THEN Spawn(u, Task("opening", o.r, o.id))
               ELSE AnswerOpening(u, o.id)

-----------------------------------------------------------------------------
(* Connecting *)

(* connect and register: subscribe, authorize, the models and the hello go   *)
(* out.  The answer to authorize changes nothing unless it is fatal (Lost).  *)
Connect ==
    /\ ~up /\ c.no < MaxSessions
    /\ up' = TRUE
    /\ c' = SendAux(Sent([Fresh(c.no + 1) EXCEPT !.id = 2], 0, "subscribe"))
    /\ UNCHANGED <<process, outside>>

(* The handler is dropped: the tasks it spawned run on without a session.  *)
(* When main has seen too many short sessions it exits, and the supervisor   *)
(* starts it again: only the files of the kept traces remain.                *)
SessionEnds(shares) ==
    /\ up' = FALSE
    /\ c' = Fresh(c.no)
    /\ \/ /\ orphans' = orphans \cup {t \in c.tasks : t.kind = "traced" /\ t.phase = "gpu"}
          /\ pending' = shares
          /\ UNCHANGED <<refused, selfTest>>
       \/ /\ orphans' = {} /\ pending' = <<>>
          /\ refused' = FALSE /\ selfTest' = FALSE
    /\ UNCHANGED <<ready, kept, outside>>

(* The stream ends or carries a line that cannot be decoded or handled, or    *)
(* the login is refused.                                                     *)
Lost == up /\ SessionEnds(pending) /\ UNCHANGED costly

-----------------------------------------------------------------------------
(* Answers of the pool *)

AbsorbSubscribe(s, offered) ==
    [s EXCEPT !.b64 = @ \/ (offered /\ ~refused)]

Answered(s, i) == [s EXCEPT !.wire = Restrict(@, DOMAIN @ \ {i})]

(* The result of the subscription carries the extranonce (see NonceRange).  *)
OnSubscribed(i) ==
    /\ up /\ i \in DOMAIN c.wire /\ c.wire[i] = "subscribe"
    /\ \E offered \in Offers : c' = AbsorbSubscribe(Answered(c, i), offered)
    /\ UNCHANGED <<up, process, outside>>

(* Faulty variant: an acknowledged response stays pending.                 *)
TakeAckKept(s, i) == s

TakeAiResponseAck(s, i) ==
    IF s.aiPending = i THEN [s EXCEPT !.aiPending = None] ELSE s

(* result: true.  The share map is asked before the pending AI response.    *)
OnTrue(i) ==
    /\ up /\ i \in DOMAIN c.wire /\ c.wire[i] # "subscribe"
    /\ LET s == Answered(c, i) IN
       IF i \in c.aux
       THEN c' = [s EXCEPT !.aux = @ \ {i}] /\ UNCHANGED pending
       ELSE LET t == [s EXCEPT !.b64ids = @ \ {i}] IN
            IF i \in DOMAIN pending
            THEN /\ c' = IF pending[i] = c.no THEN t
                         ELSE [t EXCEPT !.swallowed = @ \cup {i}]
                 /\ pending' = Restrict(pending, DOMAIN pending \ {i})
            ELSE c' = TakeAiResponseAck(t, i) /\ UNCHANGED pending
    /\ UNCHANGED <<up, refused, ready, selfTest, kept, orphans, costly, outside>>

(* result: false or null, no error.                                        *)
OnFalse(i) ==
    /\ up /\ i \in DOMAIN c.wire /\ c.wire[i] # "subscribe"
    /\ LET s == Answered(c, i) IN
       IF i \in c.aux
       THEN c' = [s EXCEPT !.aux = @ \ {i}] /\ UNCHANGED <<pending, refused>>
       ELSE IF i = c.aiPending
       THEN c' = TakeAiResponseAck(s, i) /\ UNCHANGED <<pending, refused>>
       ELSE /\ refused' = (refused \/ (i \in c.b64ids /\ i \in DOMAIN pending))
            /\ c' = [s EXCEPT !.b64ids = @ \ {i},
                              !.b64 = @ /\ ~(i \in c.b64ids /\ i \in DOMAIN pending)]
            /\ pending' = Restrict(pending, DOMAIN pending \ {i})
    /\ UNCHANGED <<up, ready, selfTest, kept, orphans, costly, outside>>

(* What is left of an error once auxiliary requests and AI responses are out *)
(* of the way: a refused base64 proof costs the share and the encoding.      *)
RefuseB64(i) ==
    /\ c' = [Answered(c, i) EXCEPT !.b64ids = @ \ {i}, !.b64 = FALSE]
    /\ refused' = TRUE

(* An error.  "unknown" (20, or method not found) turns telemetry off;       *)
(* "fatal" (24, 25) ends the session unless it answers a base64 proof.       *)
OnError(i, code) ==
    /\ up /\ i \in DOMAIN c.wire
    /\ IF i \in c.aux
       THEN /\ c' = [Answered(c, i) EXCEPT !.aux = @ \ {i},
                                           !.telemetry = @ /\ code # "unknown"]
            /\ UNCHANGED <<up, process, outside>>
       ELSE IF i = c.aiPending
       THEN /\ c' = TakeAiResponseAck(Answered(c, i), i)
            /\ UNCHANGED <<up, process, outside>>
       ELSE IF i \in c.b64ids
       THEN /\ RefuseB64(i)
            /\ pending' = Restrict(pending, DOMAIN pending \ {i})
            /\ UNCHANGED <<up, ready, selfTest, kept, orphans, costly, outside>>
       ELSE IF code = "fatal"
       THEN /\ SessionEnds(Restrict(pending, DOMAIN pending \ {i}))
            /\ costly' = (costly \/ c.wire[i] = "b64")
       ELSE /\ c' = Answered(c, i)
            /\ pending' = Restrict(pending, DOMAIN pending \ {i})
            /\ UNCHANGED <<up, refused, ready, selfTest, kept, orphans, costly, outside>>

-----------------------------------------------------------------------------
(* Shares and reports *)

(* create_block_channel: a share of the workers becomes mining.submit, with  *)
(* a proof that is base64 when the pool takes it.                            *)
Submit ==
    /\ up /\ left > 0 /\ c.template
    /\ pending' = With(pending, {c.id}, c.no)
    /\ LET s == Encode([c EXCEPT !.id = @ + 1], c.id)
       IN c' = Sent(s, c.id, IF c.b64 THEN "b64" ELSE "share")
    /\ left' = left - 1
    /\ UNCHANGED <<up, refused, ready, selfTest, kept, orphans, costly, chain>>

Telemetry ==
    /\ up /\ left > 0 /\ c.telemetry
    /\ c' = SendAux(c)
    /\ left' = left - 1
    /\ UNCHANGED <<up, process, chain>>

-----------------------------------------------------------------------------
(* Jobs *)

(* Past the attention gate the first job that gets here starts the traced     *)
(* self-check, once per process.                                             *)
SelfTestDue(s, e) ==
    /\ Gate("attention", e)
    /\ ~selfTest /\ ~InferenceBusy(s)

StartSelfTest(s) == Spawn(s, Task("self", None, None))

Feed(s) == [s EXCEPT !.template = TRUE]

(* Every job counts, carries the score (not the short form) and declares the  *)
(* models again when they changed.                                           *)
NoteJob(form) ==
    /\ form \in Jobs /\ up
    /\ chain' \in {chain, chain + 1} \cap 1..Len(Eras)

(* Without a ready model nothing is mined.                                  *)
NoModel(form) ==
    /\ NoteJob(form) /\ ~ready
    /\ c' = [c EXCEPT !.template = FALSE]
    /\ UNCHANGED <<up, process, left>>

(* handle_notify_v4: openings and the self-check are driven here.           *)
NotifyV4 ==
    /\ NoteJob("v4") /\ ready
    /\ \E s \in {DriveOpenings(c)} :
         LET test == SelfTestDue(s, chain') IN
         /\ c' = Feed(IF test THEN StartSelfTest(s) ELSE s)
         /\ selfTest' = (selfTest \/ test)
    /\ UNCHANGED <<up, pending, refused, ready, kept, orphans, costly, left>>

(* v2 and v3 without a task, and the short form.                            *)
NotifyPlain(form) ==
    /\ NoteJob(form) /\ ready
    /\ c' = Feed(c)
    /\ UNCHANGED <<up, process, left>>

(* v2 and v3 with a task: handle_ai_task infers and uploads it once, unless  *)
(* the card is taken; past the private-inference gate it is left alone.      *)
NotifyTask(r) ==
    /\ NoteJob("v3task") /\ ready
    /\ c' = IF /\ \A i \in 1..chain' : Eras[i] = "tasks"
               /\ r \notin c.results \cup c.inProgress
               /\ ~c.busy
            THEN [Spawn(c, Task("task", r, None)) EXCEPT !.inProgress = @ \cup {r}]
            ELSE Feed(c)
    /\ UNCHANGED <<up, process, left>>

-----------------------------------------------------------------------------
(* Commands *)

Command == up /\ left > 0 /\ left' = left - 1

(* A request, traced from the attention gate on; a busy or unready miner      *)
(* declines by staying silent.                                               *)
AiRequest(r) ==
    /\ Command
    /\ c' = IF ready /\ ~InferenceBusy(c)
            THEN Spawn(c, Task(IF Gate("attention", chain) THEN "traced" ELSE "ai", r, None))
            ELSE c
    /\ UNCHANGED <<up, process, chain>>

AiOpening(r) ==
    /\ Command
    /\ \E s \in {[c EXCEPT !.id = @ + 1, !.aux = @ \cup {c.id},
                           !.owed = @ \cup {Opening(c.id)}]} :
         c' = IF r \notin kept \/ Len(c.openings) >= QueueCap
              THEN AnswerOpening(s, c.id)
              ELSE DriveOpenings([s EXCEPT !.openings =
                     Append(@, [r |-> r, id |-> c.id, late |-> FALSE])])
    /\ UNCHANGED <<up, process, chain>>

(* Ten minutes pass for the oldest openings that wait.                      *)
QueueAges(k) ==
    /\ up /\ k \in DOMAIN c.openings /\ ~c.openings[k].late
    /\ \A j \in 1..(k - 1) : c.openings[j].late
    /\ c' = [c EXCEPT !.openings[k].late = TRUE]
    /\ UNCHANGED <<up, process, outside>>

(* A chat is answered whatever happens: when it cannot run, at once.        *)
InferenceRequest ==
    /\ Command
    /\ c' = IF ready /\ ~InferenceBusy(c)
            THEN [Spawn(c, Task("chat", None, left)) EXCEPT !.owed = @ \cup {Chat(left)}]
            ELSE c
    /\ UNCHANGED <<up, process, chain>>

(* A challenge asks only whether the card is taken, not for a response that   *)
(* waits for its acknowledgement.                                            *)
Challenge ==
    /\ Command
    /\ c' = IF ready /\ ~c.busy THEN Spawn(c, Task("challenge", None, None)) ELSE c
    /\ UNCHANGED <<up, process, chain>>

-----------------------------------------------------------------------------
(* The tasks *)

Sending(s, t, i) ==
    [s EXCEPT !.tasks = (@ \ {t}) \cup {[t EXCEPT !.phase = "send", !.id = i]}]

(* The inference is over: the trace is kept, an answer takes its id and is    *)
(* pending, and the card is free again before the line goes out.  An empty    *)
(* answer of a request is not sent.  A task that fails runs again at the next  *)
(* job that carries it, so failures are bounded.                             *)
GpuDone(t, ok) ==
    /\ up /\ t \in c.tasks /\ t.phase = "gpu"
    /\ IF t.kind = "task" /\ ~ok THEN left > 0 /\ left' = left - 1 ELSE UNCHANGED left
    /\ LET s == Resume(c) IN
       CASE t.kind \in {"ai", "traced"} /\ ok ->
              c' = [Sending(s, t, c.id) EXCEPT !.id = @ + 1, !.aiPending = c.id]
         [] t.kind = "ai" /\ ~ok ->
              c' = [s EXCEPT !.tasks = @ \ {t}, !.id = @ + 1]
         [] t.kind = "traced" /\ ~ok -> c' = [s EXCEPT !.tasks = @ \ {t}]
         [] t.kind = "self" -> c' = [s EXCEPT !.tasks = @ \ {t}]
         [] t.kind = "task" ->
              c' = [s EXCEPT !.tasks = @ \ {t}, !.inProgress = @ \ {t.r},
                             !.results = IF ok THEN @ \cup {t.r} ELSE @]
         [] t.kind \in {"chat", "challenge", "opening"} -> c' = Sending(s, t, t.id)
    /\ kept' = IF t.kind = "traced" /\ ok THEN kept \cup {t.r} ELSE kept
    /\ UNCHANGED <<up, pending, refused, ready, selfTest, orphans, costly, chain>>

(* blocking_send: a request's answer is awaited, the others are not.         *)
LineSent(t) ==
    /\ up /\ t \in c.tasks /\ t.phase = "send"
    /\ LET s == [c EXCEPT !.tasks = @ \ {t}] IN
       CASE t.kind \in {"ai", "traced"} -> c' = Sent(s, t.id, "ai")
         [] t.kind = "opening" -> c' = AnswerOpening(s, t.id)
         [] t.kind = "chat" -> c' = Settle(s, Chat(t.id))
         [] t.kind = "challenge" -> c' = s
    /\ UNCHANGED <<up, process, outside>>

(* A task of a closed session ends: what it keeps of a trace is not lost.    *)
OrphanDone(t, ok) ==
    /\ t \in orphans
    /\ orphans' = orphans \ {t}
    /\ kept' = IF ok THEN kept \cup {t.r} ELSE kept
    /\ UNCHANGED <<up, c, pending, refused, ready, selfTest, costly, outside>>

(* The download of the served model ends.                                   *)
ModelReady ==
    /\ ~ready /\ ready' = TRUE
    /\ UNCHANGED <<up, c, pending, refused, selfTest, kept, orphans, costly, outside>>

(* A kept trace expires after nine hours.                                   *)
Forget(r) ==
    /\ r \in kept /\ kept' = kept \ {r}
    /\ UNCHANGED <<up, c, pending, refused, ready, selfTest, orphans, costly, outside>>

-----------------------------------------------------------------------------
Init ==
    /\ up = FALSE /\ c = Fresh(0)
    /\ pending = <<>> /\ refused = FALSE
    /\ chain = 1
    /\ ready \in BOOLEAN /\ selfTest = FALSE /\ kept = {}
    /\ orphans = {} /\ costly = FALSE
    /\ left = MaxLines

Reply == \E i \in DOMAIN c.wire :
    \/ OnSubscribed(i)
    \/ OnTrue(i)
    \/ OnFalse(i)
    \/ \E code \in {"unknown", "share", "fatal"} : OnError(i, code)

Job ==
    \/ \E form \in Jobs : NoModel(form)
    \/ NotifyV4
    \/ \E form \in {"v3", "short"} : NotifyPlain(form)
    \/ \E r \in Requests : NotifyTask(r)

PoolCommand ==
    \/ \E r \in Requests : AiRequest(r) \/ AiOpening(r)
    \/ InferenceRequest
    \/ Challenge

Inference == \E t \in c.tasks, ok \in BOOLEAN : GpuDone(t, ok)
Delivery == \E t \in c.tasks : LineSent(t)
Orphan == \E t \in orphans, ok \in BOOLEAN : OrphanDone(t, ok)

Next ==
    \/ Connect \/ Lost
    \/ Reply \/ Job \/ PoolCommand
    \/ Inference \/ Delivery \/ Orphan
    \/ Submit \/ Telemetry
    \/ \E k \in DOMAIN c.openings : QueueAges(k)
    \/ ModelReady
    \/ \E r \in Requests : Forget(r)

(* The runtime goes on with the blocking tasks, one or another of them, the   *)
(* download ends, a pool of the v4 form keeps sending its jobs; main         *)
(* reconnects.                                                               *)
Fairness ==
    /\ WF_vars(Inference \/ Delivery) /\ WF_vars(ModelReady)
    /\ WF_vars(NotifyV4) /\ WF_vars(Connect)

Spec == Init /\ [][Next]_vars /\ Fairness

-----------------------------------------------------------------------------
(* Properties *)

OnCard == {t \in c.tasks : t.phase = "gpu"}

(* One inference at a time holds the card, *)
(* the workers on it are told to keep off for exactly as long, and no request, *)
(* task, opening, chat, challenge or self-check leaves the pause behind or     *)
(* lifts it under another.                                                   *)
PauseIsExact ==
    /\ Cardinality(OnCard) <= 1
    /\ c.busy = (OnCard # {})
    /\ c.flag = (OnCard # {})

(* A response that waits for the pool is one the pool has not answered yet,   *)
(* so requests, chats and the self-check are declined only while there is     *)
(* something to wait for.  The exception is the id of a share that an earlier  *)
(* session left in the process-wide map: its first `true` is taken for the     *)
(* share.                                                                    *)
PendingIsAwaited ==
    c.aiPending # None =>
        \/ c.aiPending \in DOMAIN c.wire
        \/ \E t \in c.tasks : t.phase = "send" /\ t.id = c.aiPending
        \/ c.aiPending \in c.swallowed

(* "Stratum id of the in-flight mining.ai_response, until the bridge          *)
(* acknowledges it" (stratum.rs).                                            *)
AckedIsFree == c.swallowed = {} \/ c.aiPending \notin c.swallowed

(* A pool that offers base64 proofs and refuses them, with any code, never     *)
(* costs a session, and is sent hex from then on, also after a reconnection.  *)
RefusalCostsAShare ==
    /\ ~costly
    /\ refused => ~c.b64

(* What a session keeps agrees with what is under way: the pause with the work *)
(* on the card, the response waited for with the pool's answer, the encoding   *)
(* of proofs with what the pool refused.                                      *)
SessionIsExact == PauseIsExact /\ PendingIsAwaited /\ RefusalCostsAShare

(* Every opening and every chat the session took is answered, unless the      *)
(* session ends first: however busy the card is kept, nothing stays owed.     *)
EveryCommandAnswered == []<>(c.owed = {})

(* "Past the gate the miner runs the self-check once at its first job"         *)
(* (README): a session that keeps receiving jobs past the gate starts it.     *)
SelfCheckStarts ==
    []((up /\ ready /\ Gate("attention", chain)) => <>(selfTest \/ ~up))

(* Mining is resumed: a session with a model is fed templates again and the    *)
(* inference card is released, whatever the pool asks of it.                  *)
MiningGoesOn == []<>(~up \/ (c.template /\ ~c.flag))
=============================================================================

---------------------------- MODULE SessionLoop ----------------------------
(***************************************************************************)
(* The life of the process around its sessions (main.rs) and the           *)
(* notifications it sends (notify.rs): reconnection with backoff, the exit  *)
(* after short sessions, the stop signal, and the threads that decide on   *)
(* alerts, queue them, deliver them and wait for them.                     *)
(*                                                                         *)
(* Notifications are taken to be configured (a token and a chat); without   *)
(* them every post is a no-op.  Time is abstracted to what the code         *)
(* compares it with: a session is short or long, an outage fresh or old, a  *)
(* hashrate recent or stale.  An alert is decided under the lock of the     *)
(* state and posted after it is released, and an inference reads how full    *)
(* the queue is before it posts, so each thread has a hand in which its next *)
(* message waits (the hashrate logger and the poller post at once: no other  *)
(* thread looks at what they decide on).  A message is an alert, answers to  *)
(* commands included, or about an AI request.                               *)
(***************************************************************************)
EXTENDS Integers, Sequences, FiniteSets, FiniteSetsExt

CONSTANTS
    MaxShortSessions,   \* MAX_SHORT_SESSIONS
    MaxBackoff,         \* MAX_BACKOFF, in seconds
    QueueLen,           \* QUEUE_LEN
    Tellers,            \* threads that may tell of an AI request at a time: the task of
                        \* a session, those that outlive theirs, and the main task in
                        \* its call for a request it gives up
    Statuses            \* what the node says of the service bond; "clear" is one

ASSUME SessionLoopAssumption ==
    /\ MaxShortSessions \in Nat \ {0} /\ MaxBackoff \in Nat \ {0}
    /\ QueueLen \in Nat \ {0, 1}
    /\ "clear" \in Statuses
    /\ IsFiniteSet(Tellers) /\ Tellers \cap {"main", "watch", "handler"} = {}

VARIABLES
    main,       \* where the main task is, and how old its session is
    backoff,    \* seconds of the next sleep
    short,      \* short_sessions
    escrow,     \* "saved", "dirty" or "failed" (a flush was refused by the disk)
    link,       \* the part of State about the connection and the hashrate
    bond,       \* the standing the node last reported
    hand,       \* thread -> the message it is about to post
    queue,      \* the channel to the sender
    sending,    \* what the sender holds
    inFlight,   \* IN_FLIGHT
    stop        \* the signal, whether it woke client_main, STOPPING

state == <<link, bond>>
channel == <<queue, sending, inFlight>>
loop == <<main, backoff, short, escrow>>
vars == <<loop, state, hand, channel, stop>>

Threads == {"main", "watch", "handler"} \cup Tellers
None == "none"
Half == QueueLen \div 2

Quiet == [t \in Threads |-> None]
NoLink == [up |-> FALSE, down |-> "no", alerted |-> FALSE, idle |-> FALSE, seen |-> FALSE, stalled |-> FALSE]

(* What a process starts with; init queues the start message.               *)
Fresh(where, messages) ==
    /\ main' = [at |-> where, age |-> "short"]
    /\ backoff' = 1 /\ short' = 0 /\ escrow' = "saved"
    /\ link' = NoLink /\ bond' = "clear"
    /\ hand' = Quiet
    /\ queue' = messages /\ sending' = None /\ inFlight' = Len(messages)

NoStop == [signal |-> FALSE, woken |-> FALSE, said |-> FALSE]

(* std::process::exit: nothing of the process is left.                      *)
Exit == Fresh("exited", <<>>) /\ UNCHANGED stop

At(where) == main.at = where /\ hand["main"] = None
Goes(where) == main' = [main EXCEPT !.at = where]
Alive == main.at # "exited"
Hold(t, m) == hand' = [hand EXCEPT ![t] = m]

-----------------------------------------------------------------------------
(* The main task *)

(* client_main could not connect or register.                              *)
ConnectFails ==
    /\ At("idle")
    /\ Goes("closed")
    /\ UNCHANGED <<backoff, short, escrow, state, hand, channel, stop>>

(* connect loaded the escrow state from disk and register succeeded; link_up  *)
(* tells so if the outage was announced.                                    *)
LinkUp ==
    /\ At("idle")
    /\ Goes("listen") /\ escrow' = "saved"
    /\ link' = [link EXCEPT !.up = TRUE, !.down = "no", !.alerted = FALSE,
                            !.idle = FALSE, !.seen = TRUE, !.stalled = FALSE]
    /\ IF link.alerted THEN Hold("main", "alert") ELSE UNCHANGED hand
    /\ UNCHANGED <<backoff, short, bond, channel, stop>>

(* A message of the node changes the escrow state; its lines may wait for a  *)
(* later write.                                                             *)
EscrowChanges ==
    /\ At("listen") /\ escrow # "failed"
    /\ escrow' = IF escrow = "saved" THEN "dirty" ELSE "saved"
    /\ UNCHANGED <<main, backoff, short, state, hand, channel, stop>>

(* At most one alert an hour: whether this one is told is left open.        *)
BlockRejected ==
    /\ At("listen")
    /\ Hold("main", "alert")
    /\ UNCHANGED <<loop, state, channel, stop>>

(* Before the first report nothing is held against the miner.               *)
ServiceBond(status) ==
    /\ At("listen")
    /\ bond' = status
    /\ IF bond # status THEN Hold("main", "alert") ELSE UNCHANGED hand
    /\ UNCHANGED <<loop, link, channel, stop>>

(* A minute passes in this attempt to hold a session.                      *)
SessionAges ==
    /\ main.at \in {"idle", "listen"} /\ main.age = "short"
    /\ main' = [main EXCEPT !.age = "long"]
    /\ UNCHANGED <<backoff, short, escrow, state, hand, channel, stop>>

(* listen returns, with or without an error.                               *)
ListenEnds ==
    /\ At("listen")
    /\ Goes("flush")
    /\ UNCHANGED <<backoff, short, escrow, state, hand, channel, stop>>

Flushed(ok) == escrow' = IF escrow = "dirty" THEN (IF ok THEN "saved" ELSE "failed") ELSE escrow

(* The final flush; dropping the handler tries once more what it refused.   *)
Flush(ok) ==
    /\ At("flush")
    /\ Flushed(ok)
    /\ Goes("closed")
    /\ UNCHANGED <<backoff, short, state, hand, channel, stop>>

(* Faulty variant: a healthy session resets the delay but not the count.    *)
ClosedDelayOnly ==
    /\ At("closed")
    /\ link' = [link EXCEPT !.up = FALSE, !.down = IF @ = "no" THEN "fresh" ELSE @]
    /\ IF main.age = "long"
       THEN backoff' = 1 /\ short' = short /\ Goes("sleep")
       ELSE /\ short' = short + 1 /\ backoff' = backoff
            /\ Goes(IF short' >= MaxShortSessions THEN "stopping" ELSE "sleep")
    /\ UNCHANGED <<escrow, bond, hand, channel, stop>>

(* The loop of main judges the session: a long one resets delay and count,   *)
(* too many short ones in a row end the process.                            *)
Closed ==
    /\ At("closed")
    /\ link' = [link EXCEPT !.up = FALSE, !.down = IF @ = "no" THEN "fresh" ELSE @]
    /\ IF main.age = "long"
       THEN backoff' = 1 /\ short' = 0 /\ Goes("sleep")
       ELSE /\ short' = short + 1 /\ backoff' = backoff
            /\ Goes(IF short' >= MaxShortSessions THEN "stopping" ELSE "sleep")
    /\ UNCHANGED <<escrow, bond, hand, channel, stop>>

Wake ==
    /\ At("sleep")
    /\ main' = [at |-> "idle", age |-> "short"]
    /\ backoff' = Min({2 * backoff, MaxBackoff})
    /\ UNCHANGED <<short, escrow, state, hand, channel, stop>>

(* The select of client_main takes the branch of the signal: flush, stop.   *)
SeesStop(ok) ==
    /\ At("listen") /\ stop.woken
    /\ Flushed(ok)
    /\ Goes("stopping")
    /\ UNCHANGED <<backoff, short, state, hand, channel, stop>>

(* notify::stopping: the message goes out once per process.                 *)
SayStop(t) ==
    /\ stop' = [stop EXCEPT !.said = TRUE]
    /\ IF stop.said THEN UNCHANGED hand ELSE Hold(t, "alert")

Stopping ==
    /\ At("stopping")
    /\ SayStop("main")
    /\ Goes("drain")
    /\ UNCHANGED <<backoff, short, escrow, state, channel>>

(* The queue is empty, or 2.5 s have passed.                               *)
Drained ==
    /\ At("drain")
    /\ Exit

-----------------------------------------------------------------------------
(* The stop signal.  notify_waiters reaches a client_main that waits in its  *)
(* select; one that connects, closes or sleeps does not hear of it.          *)
Signal ==
    /\ Alive /\ ~stop.signal
    /\ stop' = [signal |-> TRUE, woken |-> main.at = "listen", said |-> TRUE]
    /\ IF stop.said THEN UNCHANGED hand ELSE Hold("handler", "alert")
    /\ UNCHANGED <<loop, state, channel>>

(* Faulty variant: the exit waits for the messages.                         *)
TimerPolite ==
    /\ Alive /\ stop.signal /\ inFlight = 0
    /\ Exit

(* Three seconds later the process exits, whatever holds up the others.     *)
Timer ==
    /\ Alive /\ stop.signal
    /\ Exit

(* The launcher starts the miner again, unless it stopped it itself.        *)
Restart ==
    /\ ~Alive /\ ~stop.signal
    /\ Fresh("idle", <<"alert">>)
    /\ stop' = NoStop

-----------------------------------------------------------------------------
(* The threads of the notifications *)

(* post: a full queue drops the message.                                    *)
Enqueue(m) ==
    IF Len(queue) < QueueLen
    THEN queue' = Append(queue, m) /\ inFlight' = inFlight + 1
    ELSE UNCHANGED <<queue, inFlight>>

(* The hashrate logger of a session: hashes, or a pause that explains none. *)
Hashes(some) ==
    /\ main.at = "listen"
    /\ link.idle \/ link.stalled
    /\ link' = [link EXCEPT !.idle = FALSE, !.stalled = @ /\ ~some]
    /\ IF some /\ link.stalled THEN Enqueue("alert") ELSE UNCHANGED <<queue, inFlight>>
    /\ UNCHANGED <<loop, bond, hand, sending, stop>>

(* Two minutes without a connection; five without a hash.                   *)
OutageAges ==
    /\ Alive /\ link.down = "fresh"
    /\ link' = [link EXCEPT !.down = "old"]
    /\ UNCHANGED <<loop, bond, hand, channel, stop>>

HashrateAges ==
    /\ Alive /\ link.seen /\ ~link.idle
    /\ link' = [link EXCEPT !.idle = TRUE]
    /\ UNCHANGED <<loop, bond, hand, channel, stop>>

WatchLink ==
    /\ Alive /\ hand["watch"] = None
    /\ link.down = "old" /\ ~link.alerted
    /\ link' = [link EXCEPT !.alerted = TRUE]
    /\ Hold("watch", "alert")
    /\ UNCHANGED <<loop, bond, channel, stop>>

WatchStall ==
    /\ Alive /\ hand["watch"] = None
    /\ link.down = "no" /\ ~link.stalled /\ link.idle
    /\ link' = [link EXCEPT !.stalled = TRUE]
    /\ Hold("watch", "alert")
    /\ UNCHANGED <<loop, bond, channel, stop>>

(* Faulty variant: a request is told as long as the queue is not full.      *)
AiExchangeGreedy(t) ==
    /\ Alive /\ hand[t] = None
    /\ IF inFlight >= QueueLen THEN UNCHANGED hand ELSE Hold(t, "ai")
    /\ UNCHANGED <<loop, state, channel, stop>>

(* One request, told only while half of the queue is free; others may post    *)
(* before this thread does.                                                 *)
AiExchange(t) ==
    /\ Alive /\ hand[t] = None
    /\ IF inFlight >= Half THEN UNCHANGED hand ELSE Hold(t, "ai")
    /\ UNCHANGED <<loop, state, channel, stop>>

(* A command of the configured chat, once the explorer was read.            *)
Command ==
    /\ Alive
    /\ Enqueue("alert")
    /\ UNCHANGED <<loop, state, hand, sending, stop>>

Post(t) ==
    /\ Alive /\ hand[t] # None
    /\ Hold(t, None)
    /\ Enqueue(hand[t])
    /\ UNCHANGED <<loop, state, sending, stop>>

Take ==
    /\ Alive /\ sending = None /\ queue # <<>>
    /\ sending' = Head(queue) /\ queue' = Tail(queue)
    /\ UNCHANGED <<loop, state, hand, inFlight, stop>>

(* The message is delivered, or dropped: after its attempts, or at once when  *)
(* an earlier refusal has turned the sender off and it only empties the queue. *)
Deliver ==
    /\ Alive /\ sending # None
    /\ sending' = None /\ inFlight' = inFlight - 1
    /\ UNCHANGED <<loop, state, hand, queue, stop>>

-----------------------------------------------------------------------------
Init ==
    /\ main = [at |-> "idle", age |-> "short"]
    /\ backoff = 1 /\ short = 0 /\ escrow = "saved"
    /\ link = NoLink /\ bond = "clear"
    /\ hand = Quiet
    /\ queue = <<"alert">> /\ sending = None /\ inFlight = 1
    /\ stop = NoStop

Main ==
    \/ ConnectFails \/ LinkUp \/ ListenEnds \/ Closed \/ Wake
    \/ \E ok \in BOOLEAN : Flush(ok) \/ SeesStop(ok)
    \/ Stopping \/ Drained

Environment ==
    \/ EscrowChanges \/ BlockRejected \/ \E s \in Statuses : ServiceBond(s)
    \/ SessionAges \/ OutageAges \/ HashrateAges
    \/ \E some \in BOOLEAN : Hashes(some)
    \/ \E t \in Tellers : AiExchange(t)
    \/ Command
    \/ Signal \/ Restart

Notifier ==
    \/ WatchLink \/ WatchStall
    \/ \E t \in Threads : Post(t)
    \/ Take \/ Deliver

Next == Main \/ Environment \/ Notifier \/ Timer

(* The main task and the threads keep running.  Telegram may never answer,   *)
(* so Deliver is not fair; the timer of the signal handler is.              *)
Fairness == WF_vars(Main) /\ WF_vars(WatchLink) /\ WF_vars(Timer)

Spec == Init /\ [][Next]_vars /\ Fairness

-----------------------------------------------------------------------------
(* Properties *)

(* The delay and the count of short sessions move together: after k short     *)
(* sessions in a row the next sleep is 2^(k-1) seconds, or 2^k when a healthy  *)
(* one went before, and main gives up at MAX_SHORT_SESSIONS and never sooner:  *)
(* a link that was healthy is given all its retries again.                    *)
RetriesAreCounted ==
    /\ main.at = "sleep" =>
         /\ short < MaxShortSessions
         /\ backoff \in {Min({MaxBackoff, 2 ^ k}) : k \in {short - 1, short} \cap Nat}
    /\ main.at = "stopping" /\ ~stop.woken => short = MaxShortSessions

(* No way out of a session loses an escrow record: whether listen returned,   *)
(* the signal arrived or main gave up, the state is saved before the next      *)
(* session loads it or the process exits by itself, unless the disk refused.  *)
NothingUnflushed ==
    main.at \in {"idle", "closed", "sleep", "stopping", "drain"} => escrow # "dirty"

(* Between two sessions nothing is lost: neither a retry nor a record.        *)
ReconnectsSafely == RetriesAreCounted /\ NothingUnflushed

AiMessages ==
    Cardinality({i \in DOMAIN queue : queue[i] = "ai"}) + (IF sending = "ai" THEN 1 ELSE 0)

(* "Leave half the queue to alerts" (notify.rs:535).  The model refutes it:   *)
(* the check and the post are two steps, so threads that pass the check        *)
(* together fill one place each.                                             *)
HalfIsLeft == AiMessages <= Half

(* However many requests are served while Telegram hangs, they hold less than  *)
(* half of the queue and one place for each thread that tells of them.        *)
AlertsHaveRoom == AiMessages < Half + Cardinality(Tellers)

(* An outage is announced once, and its end once: the note that it was is      *)
(* held exactly while the outage lasts.                                      *)
AnnouncedOutageIsOpen ==
    link.alerted => link.down = "old" /\ ~link.up

(* Alerts are true and get through: an announced outage is still open, and     *)
(* what AI messages hold of the queue does not grow with the requests served. *)
AlertsAreTrue == AnnouncedOutageIsOpen /\ AlertsHaveRoom

(* A stop signal ends the process, even when Telegram never answers, the       *)
(* session is not waiting for it or the main task is connecting.              *)
StopEnds == [](stop.signal => <>(main.at = "exited"))
=============================================================================

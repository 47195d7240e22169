---------------------------- MODULE WatchChannel ----------------------------
(***************************************************************************)
(* The watch channel of src/watch.rs, one action per atomic access: the     *)
(* RwLock around the value, the id counter read outside that lock, the      *)
(* receiver count, the sender_alive flag, and the Mutex / Condvar pair that *)
(* receivers sleep on.  The values are abstracted to their numbers: the     *)
(* value the channel is made with is number 1, the n-th send is n + 1.      *)
(* Memory is sequentially consistent: every access is an acquire load, a    *)
(* release store or made under a lock.                                      *)
(***************************************************************************)
EXTENDS Integers, FiniteSets

CONSTANTS Receivers,  \* receiver handles that can ever exist
          Root,       \* the handle channel() returns; the others are its clones
          Free,       \* nobody holds the mutex
          MaxSends    \* bound on the number of sends

ASSUME RootAssumption == Root \in Receivers
ASSUME FiniteAssumption == IsFiniteSet(Receivers)
ASSUME FreeAssumption == Free \notin Receivers
ASSUME BoundAssumption == MaxSends \in Nat

VARIABLES
    value,            \* Shared.value: number of the value in the RwLock
    id,               \* Shared.id
    receivers_count,  \* Shared.receivers_count
    sender_alive,     \* Shared.sender_alive
    mutex,            \* holder of Shared.wait_for_change, or Free
    spc,              \* control point of the sender
    refused,          \* some send has returned ChannelClosed
    rpc,              \* rpc[r]: control point of receiver r
    call,             \* call[r]: which use of get_changed_internal r is in
    last_observed,    \* Receiver.last_observed
    seen              \* seen[r]: number of the value r was given last

vars == <<value, id, receivers_count, sender_alive, mutex, spc, refused,
          rpc, call, last_observed, seen>>
senderVars == <<value, id, sender_alive, spc, refused>>

\* "user": between calls; "closed": the call returned Err, the owner's thread returns.
RPC == {"unborn", "user", "alive", "load", "clone", "lock", "enter", "waiting",
        "woken", "closed", "dropped"}
SPC == {"idle", "replace", "bump", "wake", "wake_drop", "gone"}
\* get_changed, the fast path of wait_for_change, its loop under the mutex.
Calls == {"get", "fast", "slow"}

Live == {r \in Receivers : rpc[r] \notin {"unborn", "dropped"}}
\* replace_value holds the write lock from the assignment to the new id.
WriteLocked == spc = "bump"

Init ==
    /\ value = 1
    /\ id = 1
    /\ receivers_count = 1
    /\ sender_alive = TRUE
    /\ mutex = Free
    /\ spc = "idle"
    /\ refused = FALSE
    /\ rpc = [r \in Receivers |-> IF r = Root THEN "user" ELSE "unborn"]
    /\ call = [r \in Receivers |-> "get"]
    /\ last_observed = [r \in Receivers |-> 0]
    /\ seen = [r \in Receivers |-> 0]
-----------------------------------------------------------------------------
(* Sender::send and Sender::drop.                                           *)

\* send: the receiver count is read once, before anything is written.
Send ==
    /\ spc = "idle"
    /\ sender_alive
    /\ value <= MaxSends
    /\ receivers_count > 0
    /\ spc' = "replace"
    /\ UNCHANGED <<value, id, receivers_count, sender_alive, mutex, refused,
                   rpc, call, last_observed, seen>>

SendRefused ==
    /\ spc = "idle"
    /\ sender_alive
    /\ receivers_count = 0
    /\ refused' = TRUE
    /\ UNCHANGED <<value, id, receivers_count, sender_alive, mutex, spc,
                   rpc, call, last_observed, seen>>

\* Faulty variant: an old buffer is put back.
ReplaceFlips ==
    /\ spc = "replace"
    /\ value' = IF value = 1 THEN 2 ELSE 1
    /\ spc' = "bump"
    /\ UNCHANGED <<id, receivers_count, sender_alive, mutex, refused,
                   rpc, call, last_observed, seen>>

\* replace_value: the write lock is taken and the value stored ...
ReplaceValue ==
    /\ spc = "replace"
    /\ value' = value + 1
    /\ spc' = "bump"
    /\ UNCHANGED <<id, receivers_count, sender_alive, mutex, refused,
                   rpc, call, last_observed, seen>>

\* ... and the id is incremented before the write lock is released.
IncrementId ==
    /\ spc = "bump"
    /\ id' = id + 1
    /\ spc' = "wake"
    /\ UNCHANGED <<value, receivers_count, sender_alive, mutex, refused,
                   rpc, call, last_observed, seen>>

\* Faulty variant: notify_all without the mutex.
WakeWithoutMutex ==
    /\ spc \in {"wake", "wake_drop"}
    /\ rpc' = [r \in Receivers |-> IF rpc[r] = "waiting" THEN "woken" ELSE rpc[r]]
    /\ spc' = IF spc = "wake" THEN "idle" ELSE "gone"
    /\ UNCHANGED <<value, id, receivers_count, sender_alive, mutex, refused,
                   call, last_observed, seen>>

\* wake_up_threads: notify_all while holding the mutex, so no receiver is between its check and its wait.
WakeUpThreads ==
    /\ spc \in {"wake", "wake_drop"}
    /\ mutex = Free
    /\ rpc' = [r \in Receivers |-> IF rpc[r] = "waiting" THEN "woken" ELSE rpc[r]]
    /\ spc' = IF spc = "wake" THEN "idle" ELSE "gone"
    /\ UNCHANGED <<value, id, receivers_count, sender_alive, mutex, refused,
                   call, last_observed, seen>>

\* Faulty variant: the sender goes without waking anybody.
DropSilently ==
    /\ spc = "idle"
    /\ sender_alive' = FALSE
    /\ spc' = "gone"
    /\ UNCHANGED <<value, id, receivers_count, mutex, refused,
                   rpc, call, last_observed, seen>>

DropSender ==
    /\ spc = "idle"
    /\ sender_alive' = FALSE
    /\ spc' = "wake_drop"
    /\ UNCHANGED <<value, id, receivers_count, mutex, refused,
                   rpc, call, last_observed, seen>>
-----------------------------------------------------------------------------
(* Receiver.                                                                *)

\* Clone: the new handle copies last_observed.
CloneReceiver(p, r) ==
    /\ rpc[p] = "user"
    /\ rpc[r] = "unborn"
    /\ receivers_count' = receivers_count + 1
    /\ rpc' = [rpc EXCEPT ![r] = "user"]
    /\ last_observed' = [last_observed EXCEPT ![r] = last_observed[p]]
    /\ seen' = [seen EXCEPT ![r] = seen[p]]
    /\ UNCHANGED <<senderVars, mutex, call>>

DropReceiver(r) ==
    /\ rpc[r] \in {"user", "closed"}
    /\ receivers_count' = receivers_count - 1
    /\ rpc' = [rpc EXCEPT ![r] = "dropped"]
    /\ UNCHANGED <<senderVars, mutex, call, last_observed, seen>>

\* get_changed, or wait_for_change entering its fast path.
Call(r, c) ==
    /\ c \in {"get", "fast"}
    /\ rpc[r] = "user"
    /\ rpc' = [rpc EXCEPT ![r] = "alive"]
    /\ call' = [call EXCEPT ![r] = c]
    /\ UNCHANGED <<senderVars, receivers_count, mutex, last_observed, seen>>

\* A call that returns drops the guard it may hold.
Unlock(r) == mutex' = IF call[r] = "slow" THEN Free ELSE mutex

\* get_changed_internal, first load: a dropped sender ends the call, a value not seen yet included.
CheckAlive(r) ==
    /\ rpc[r] = "alive"
    /\ IF sender_alive
         THEN /\ rpc' = [rpc EXCEPT ![r] = "load"]
              /\ UNCHANGED mutex
         ELSE /\ rpc' = [rpc EXCEPT ![r] = "closed"]
              /\ Unlock(r)
    /\ UNCHANGED <<senderVars, receivers_count, call, last_observed, seen>>

\* Where a call goes on when get_changed_internal finds nothing new.
AfterNone == [get |-> "user", fast |-> "lock", slow |-> "enter"]

\* get_changed_internal, second load: the id is recorded before the value is read.
LoadId(r) ==
    /\ rpc[r] = "load"
    /\ IF last_observed[r] = id
         THEN /\ rpc' = [rpc EXCEPT ![r] = AfterNone[call[r]]]
              /\ UNCHANGED last_observed
         ELSE /\ rpc' = [rpc EXCEPT ![r] = "clone"]
              /\ last_observed' = [last_observed EXCEPT ![r] = id]
    /\ UNCHANGED <<senderVars, receivers_count, mutex, call, seen>>

\* clone_value under the read lock; the value goes back to the caller.
CloneValue(r) ==
    /\ rpc[r] = "clone"
    /\ ~WriteLocked
    /\ seen' = [seen EXCEPT ![r] = value]
    /\ rpc' = [rpc EXCEPT ![r] = "user"]
    /\ Unlock(r)
    /\ UNCHANGED <<senderVars, receivers_count, call, last_observed>>

\* wait_for_change takes the mutex, at first and again each time the Condvar lets it go.
Lock(r) ==
    /\ rpc[r] \in {"lock", "woken"}
    /\ mutex = Free
    /\ mutex' = r
    /\ call' = [call EXCEPT ![r] = "slow"]
    /\ rpc' = [rpc EXCEPT ![r] = "alive"]
    /\ UNCHANGED <<senderVars, receivers_count, last_observed, seen>>

\* Condvar::wait: release the mutex and sleep, in one step.
EnterWait(r) ==
    /\ rpc[r] = "enter"
    /\ mutex' = Free
    /\ rpc' = [rpc EXCEPT ![r] = "waiting"]
    /\ UNCHANGED <<senderVars, receivers_count, call, last_observed, seen>>

\* The wait may return without a notification.
SpuriousWake(r) ==
    /\ rpc[r] = "waiting"
    /\ rpc' = [rpc EXCEPT ![r] = "woken"]
    /\ UNCHANGED <<senderVars, receivers_count, mutex, call, last_observed, seen>>
-----------------------------------------------------------------------------
SenderNext == Send \/ SendRefused \/ ReplaceValue \/ IncrementId \/ WakeUpThreads \/ DropSender

\* The steps of a call in progress, and the drop that follows a closed one.
InCall(r) ==
    \/ CheckAlive(r)
    \/ LoadId(r)
    \/ CloneValue(r)
    \/ Lock(r)
    \/ EnterWait(r)
    \/ (rpc[r] = "closed" /\ DropReceiver(r))

ReceiverNext(r) ==
    \/ InCall(r)
    \/ \E c \in Calls : Call(r, c)
    \/ DropReceiver(r)
    \/ SpuriousWake(r)
    \/ \E p \in Receivers : CloneReceiver(p, r)

Next == SenderNext \/ \E r \in Receivers : ReceiverNext(r)

\* Threads are scheduled: a send or a call that has begun goes on, and a worker keeps polling.
Fairness ==
    /\ WF_vars(ReplaceValue \/ IncrementId)
    /\ SF_vars(WakeUpThreads)
    /\ \A r \in Receivers :
         /\ WF_vars(CheckAlive(r) \/ LoadId(r) \/ EnterWait(r) \/ (rpc[r] = "closed" /\ DropReceiver(r)))
         /\ SF_vars(CloneValue(r))
         /\ SF_vars(Lock(r))
         /\ WF_vars(\E c \in Calls : Call(r, c))

Safe == Init /\ [][Next]_vars
Spec == Safe /\ Fairness
-----------------------------------------------------------------------------
TypeOK ==
    /\ value \in Nat
    /\ id \in Nat
    /\ receivers_count \in Int
    /\ sender_alive \in BOOLEAN
    /\ mutex \in Receivers \cup {Free}
    /\ spc \in SPC
    /\ refused \in BOOLEAN
    /\ rpc \in [Receivers -> RPC]
    /\ call \in [Receivers -> Calls]
    /\ last_observed \in [Receivers -> Nat]
    /\ seen \in [Receivers -> Nat]

\* A receiver asleep on the Condvar has nothing to be told, or the sender is still on its way
\* to wake_up_threads: a send or a drop can never slip between the check and the wait of
\* wait_for_change.
NoLostWakeup ==
    \A r \in Receivers :
        rpc[r] = "waiting" => /\ last_observed[r] = id \/ spc = "wake"
                              /\ sender_alive \/ spc = "wake_drop"

\* get_changed_internal records an id before it reads the value: outside that window the value
\* a receiver holds is at least as new as the id it recorded, so "nothing changed" is never
\* answered to a receiver that misses the newest value.
ObservedIsDelivered ==
    \A r \in Live : rpc[r] # "clone" => seen[r] >= last_observed[r]

\* send refuses only a channel no receiver is left on, and such a channel stays refused: a
\* clone is made from a live receiver.
RefusedMeansDead == refused => Live = {}

\* The channel serves its receivers: nobody sleeps on news, nobody misses the value of an id it
\* recorded, and nobody is left on a channel that send has refused.
ReceiversServed == TypeOK /\ NoLostWakeup /\ ObservedIsDelivered /\ RefusedMeansDead

\* A receiver never gets a value older than the one it already has.
NoRegress == [][\A r \in Receivers : seen'[r] >= seen[r]]_vars

Latest == INSTANCE LatestValue WITH
    published <- value,
    delivered <- seen,
    members   <- Live,
    open      <- sender_alive

\* Every behaviour of the channel is one of the latest-value contract, its liveness included:
\* a receiver that is behind is given the newest value or leaves.
ImplementsLatestValue == Latest!AbsSpec

\* A dropped sender ends every receiver: whatever call it is in returns ChannelClosed.
CloseReachesAll == \A r \in Receivers : ~sender_alive ~> r \notin Live
=============================================================================

------------------------- MODULE WatchChannelProofs -------------------------
(***************************************************************************)
(* Proofs about WatchChannel for any finite set of receiver handles and any *)
(* number of sends.                                                         *)
(***************************************************************************)
EXTENDS WatchChannel, FiniteSetTheorems, TLAPS

USE RootAssumption, FiniteAssumption, FreeAssumption, BoundAssumption

\* The mutex is held by exactly the receiver that runs the loop of wait_for_change.
MutexInv ==
    \A r \in Receivers :
        mutex = r <=> call[r] = "slow" /\ rpc[r] \in {"alive", "load", "clone", "enter"}

\* A receiver about to sleep holds the mutex.
EnterInv == \A r \in Receivers : rpc[r] = "enter" => call[r] = "slow"

\* The id trails the value by one inside the write lock only; the flag follows the sender.
SenderInv ==
    /\ value = IF spc = "bump" THEN id + 1 ELSE id
    /\ sender_alive <=> spc \notin {"wake_drop", "gone"}

\* No receiver is ahead of the channel, and an id is recorded with its value or on the way to it.
ObservedInv ==
    \A r \in Receivers :
        /\ last_observed[r] <= id
        /\ seen[r] <= value
        /\ rpc[r] # "clone" => seen[r] >= last_observed[r]

\* A receiver past its check, about to sleep or asleep, has nothing to be told yet or a wake-up coming.
WaitInv ==
    \A r \in Receivers :
        /\ rpc[r] \in {"enter", "waiting"} => last_observed[r] = id \/ spc = "wake"
        /\ rpc[r] \in {"enter", "waiting"} \/ (rpc[r] = "load" /\ call[r] = "slow")
              => sender_alive \/ spc = "wake_drop"

\* A handle that does not exist yet has seen nothing.
UnbornInv == \A r \in Receivers : rpc[r] = "unborn" => seen[r] = 0

\* The counter is the number of live handles.
CountInv ==
    /\ IsFiniteSet(Live)
    /\ receivers_count = Cardinality(Live)

IInv == TypeOK /\ MutexInv /\ EnterInv /\ SenderInv /\ ObservedInv /\ WaitInv /\ UnbornInv

-----------------------------------------------------------------------------
\* The step relation as one disjunction over the actions of the code.
LEMMA NextCases ==
    ASSUME [Next]_vars
    PROVE  \/ Send \/ SendRefused \/ ReplaceValue \/ IncrementId \/ WakeUpThreads \/ DropSender
           \/ \E r \in Receivers :
                 \/ CheckAlive(r) \/ LoadId(r) \/ CloneValue(r) \/ Lock(r)
                 \/ EnterWait(r) \/ DropReceiver(r) \/ SpuriousWake(r)
                 \/ \E c \in Calls : Call(r, c)
                 \/ \E p \in Receivers : CloneReceiver(p, r)
           \/ UNCHANGED vars
  BY DEF Next, SenderNext, ReceiverNext, InCall

\* The channel as channel() makes it satisfies the inductive invariant.
LEMMA InitIInv == Init => IInv
  <1> SUFFICES ASSUME Init PROVE IInv
    OBVIOUS
  <1> USE DEF Init
  <1>1. TypeOK
    <2>1. sender_alive \in BOOLEAN /\ refused \in BOOLEAN  OBVIOUS
    <2>2. mutex \in Receivers \cup {Free} /\ spc \in SPC  BY DEF SPC
    <2>3. rpc \in [Receivers -> RPC] /\ call \in [Receivers -> Calls]  BY DEF RPC, Calls
    <2>4. /\ value \in Nat /\ id \in Nat /\ receivers_count \in Int
          /\ last_observed \in [Receivers -> Nat] /\ seen \in [Receivers -> Nat]
      OBVIOUS
    <2> QED  BY <2>1, <2>2, <2>3, <2>4 DEF TypeOK
  <1>2. MutexInv /\ EnterInv /\ SenderInv  BY DEF MutexInv, EnterInv, SenderInv
  <1>3. ObservedInv  BY DEF ObservedInv
  <1>4. WaitInv /\ UnbornInv  BY DEF WaitInv, UnbornInv
  <1> QED  BY <1>1, <1>2, <1>3, <1>4 DEF IInv

\* The sender's steps keep the inductive invariant.
LEMMA SenderIInv ==
    ASSUME IInv,
           Send \/ SendRefused \/ ReplaceValue \/ IncrementId \/ WakeUpThreads \/ DropSender
    PROVE  IInv'
  <1> USE DEF IInv, TypeOK, MutexInv, EnterInv, SenderInv, ObservedInv, WaitInv, UnbornInv, RPC, SPC, Calls
  <1>1. CASE Send  BY <1>1 DEF Send
  <1>2. CASE SendRefused  BY <1>2 DEF SendRefused
  <1>3. CASE ReplaceValue  BY <1>3 DEF ReplaceValue
  <1>4. CASE IncrementId  BY <1>4 DEF IncrementId
  <1>5. CASE WakeUpThreads  BY <1>5 DEF WakeUpThreads
  <1>6. CASE DropSender  BY <1>6 DEF DropSender
  <1> QED  BY <1>1, <1>2, <1>3, <1>4, <1>5, <1>6

\* A receiver's steps keep the inductive invariant.
LEMMA ReceiverIInv ==
    ASSUME IInv, NEW r \in Receivers,
           \/ CheckAlive(r) \/ LoadId(r) \/ CloneValue(r) \/ Lock(r)
           \/ EnterWait(r) \/ DropReceiver(r) \/ SpuriousWake(r)
           \/ \E c \in Calls : Call(r, c)
           \/ \E p \in Receivers : CloneReceiver(p, r)
    PROVE  IInv'
  <1> USE DEF IInv, TypeOK, MutexInv, EnterInv, SenderInv, ObservedInv, WaitInv, UnbornInv, RPC, SPC, Calls,
              senderVars
  <1>1. CASE CheckAlive(r)  BY <1>1 DEF CheckAlive, Unlock
  <1>2. CASE LoadId(r)  BY <1>2 DEF LoadId, AfterNone
  <1>3. CASE CloneValue(r)  BY <1>3 DEF CloneValue, Unlock, WriteLocked
  <1>4. CASE Lock(r)  BY <1>4 DEF Lock
  <1>5. CASE EnterWait(r)  BY <1>5 DEF EnterWait
  <1>6. CASE DropReceiver(r)  BY <1>6 DEF DropReceiver
  <1>7. CASE SpuriousWake(r)  BY <1>7 DEF SpuriousWake
  <1>8. ASSUME NEW c \in Calls, Call(r, c) PROVE IInv'  BY <1>8 DEF Call
  <1>9. ASSUME NEW p \in Receivers, CloneReceiver(p, r) PROVE IInv'  BY <1>9 DEF CloneReceiver
  <1> QED  BY <1>1, <1>2, <1>3, <1>4, <1>5, <1>6, <1>7, <1>8, <1>9

\* The inductive invariant holds in every reachable state of the channel.
THEOREM InductiveInvariant == Safe => []IInv
  <1>1. IInv /\ [Next]_vars => IInv'
    <2> SUFFICES ASSUME IInv, [Next]_vars PROVE IInv'
      OBVIOUS
    <2>1. CASE UNCHANGED vars
      BY <2>1 DEF vars, IInv, TypeOK, MutexInv, EnterInv, SenderInv, ObservedInv, WaitInv, UnbornInv
    <2> QED  BY <2>1, NextCases, SenderIInv, ReceiverIInv
  <1> QED  BY <1>1, InitIInv, PTL DEF Safe

\* The variables of the channel keep their types through every step of send, drop and the receivers.
THEOREM TypeCorrect == Safe => []TypeOK
  <1>1. IInv => TypeOK
    BY DEF IInv
  <1> QED  BY <1>1, InductiveInvariant, PTL

\* wait_for_change and wake_up_threads lose no wake-up, for any number of receivers.
THEOREM LostWakeupFree == Safe => []NoLostWakeup
  <1>1. IInv => NoLostWakeup
    BY DEF IInv, WaitInv, NoLostWakeup
  <1> QED  BY <1>1, InductiveInvariant, PTL

\* A recorded id never stands for a value the receiver misses.
THEOREM DeliveredThroughId == Safe => []ObservedIsDelivered
  <1>1. IInv => ObservedIsDelivered
    BY DEF IInv, ObservedInv, ObservedIsDelivered, Live
  <1> QED  BY <1>1, InductiveInvariant, PTL

-----------------------------------------------------------------------------
\* What a step does to the set of live handles and to the counter.
LEMMA LiveSteps ==
    ASSUME TypeOK, [Next]_vars
    PROVE  \/ Live' = Live /\ receivers_count' = receivers_count
           \/ \E r \in Receivers : /\ r \notin Live /\ Live # {}
                                   /\ Live' = Live \cup {r}
                                   /\ receivers_count' = receivers_count + 1
           \/ \E r \in Live : /\ Live' = Live \ {r}
                              /\ receivers_count' = receivers_count - 1
  <1> USE DEF Live, TypeOK, RPC, Calls
  <1>1. CASE Send \/ SendRefused \/ ReplaceValue \/ IncrementId \/ WakeUpThreads \/ DropSender
    BY <1>1 DEF Send, SendRefused, ReplaceValue, IncrementId, WakeUpThreads, DropSender
  <1>2. ASSUME NEW r \in Receivers,
               CheckAlive(r) \/ LoadId(r) \/ CloneValue(r) \/ Lock(r) \/ EnterWait(r)
                 \/ SpuriousWake(r) \/ \E c \in Calls : Call(r, c)
        PROVE  Live' = Live /\ receivers_count' = receivers_count
    BY <1>2 DEF CheckAlive, LoadId, AfterNone, CloneValue, Lock, EnterWait, SpuriousWake, Call
  <1>3. ASSUME NEW r \in Receivers, DropReceiver(r)
        PROVE  r \in Live /\ Live' = Live \ {r} /\ receivers_count' = receivers_count - 1
    BY <1>3 DEF DropReceiver
  <1>4. ASSUME NEW r \in Receivers, NEW p \in Receivers, CloneReceiver(p, r)
        PROVE  /\ p \in Live /\ r \notin Live
               /\ Live' = Live \cup {r}
               /\ receivers_count' = receivers_count + 1
    BY <1>4 DEF CloneReceiver
  <1>5. CASE UNCHANGED vars
    BY <1>5 DEF vars
  <1> QED  BY <1>1, <1>2, <1>3, <1>4, <1>5, NextCases

\* The counter send() reads counts exactly the live handles.
THEOREM CounterExact == Safe => []CountInv
  <1>1. Init => CountInv
    <2> SUFFICES ASSUME Init PROVE CountInv
      OBVIOUS
    <2>1. Live = {Root}  BY DEF Init, Live
    <2> QED  BY <2>1, FS_Singleton DEF Init, CountInv
  <1>2. IInv /\ CountInv /\ [Next]_vars => CountInv'
    <2> SUFFICES ASSUME IInv, CountInv, [Next]_vars PROVE CountInv'
      OBVIOUS
    <2>1. TypeOK  BY DEF IInv
    <2>2. CASE Live' = Live /\ receivers_count' = receivers_count
      BY <2>2 DEF CountInv
    <2>3. ASSUME NEW r \in Receivers, r \notin Live, Live' = Live \cup {r},
                 receivers_count' = receivers_count + 1
          PROVE  CountInv'
      BY <2>3, FS_AddElement DEF CountInv
    <2>4. ASSUME NEW r \in Live, Live' = Live \ {r}, receivers_count' = receivers_count - 1
          PROVE  CountInv'
      BY <2>4, FS_RemoveElement DEF CountInv
    <2> QED  BY <2>1, <2>2, <2>3, <2>4, LiveSteps
  <1> QED  BY <1>1, <1>2, InductiveInvariant, PTL DEF Safe

\* A refused send means that no handle is left, and none can come back.
THEOREM RefusalIsFinal == Safe => []RefusedMeansDead
  <1>1. Init => RefusedMeansDead
    BY DEF Init, RefusedMeansDead
  <1>2. IInv /\ CountInv /\ RefusedMeansDead /\ [Next]_vars => RefusedMeansDead'
    <2> SUFFICES ASSUME IInv, CountInv, RefusedMeansDead, [Next]_vars, refused'
                 PROVE  Live' = {}
      BY DEF RefusedMeansDead
    <2>1. refused \/ SendRefused
      BY NextCases DEF Send, ReplaceValue, IncrementId, WakeUpThreads, DropSender, CheckAlive,
           LoadId, CloneValue, Lock, EnterWait, DropReceiver, SpuriousWake, Call, CloneReceiver,
           senderVars, vars
    <2>2. CASE refused
      BY <2>2, LiveSteps DEF RefusedMeansDead, IInv
    <2>3. CASE SendRefused
      <3>1. Live' = Live  BY <2>3 DEF SendRefused, Live
      <3>2. Live = {}  BY <2>3, FS_EmptySet DEF SendRefused, CountInv
      <3> QED  BY <3>1, <3>2
    <2> QED  BY <2>1, <2>2, <2>3
  <1> QED  BY <1>1, <1>2, InductiveInvariant, CounterExact, PTL DEF Safe

\* Whatever the interleaving of a send, a drop, the calls of the receivers and their clones, every
\* receiver of the channel is served.
THEOREM ReceiversAreServed == Safe => []ReceiversServed
  <1>1. TypeOK /\ NoLostWakeup /\ ObservedIsDelivered /\ RefusedMeansDead => ReceiversServed
    BY DEF ReceiversServed
  <1> QED  BY <1>1, TypeCorrect, LostWakeupFree, DeliveredThroughId, RefusalIsFinal, PTL

-----------------------------------------------------------------------------
\* Every step of the channel is a step of the latest-value contract, or a stutter of it.
LEMMA StepRefinement ==
    ASSUME IInv, [Next]_vars
    PROVE  [Latest!AbsNext]_(Latest!absVars)
  <1> USE DEF IInv, TypeOK, RPC, Calls, Live, Latest!absVars
  <1>1. CASE Send \/ SendRefused \/ IncrementId \/ WakeUpThreads
    BY <1>1 DEF Send, SendRefused, IncrementId, WakeUpThreads
  <1>2. CASE ReplaceValue
    BY <1>2 DEF ReplaceValue, SenderInv, Latest!AbsNext, Latest!Publish
  <1>3. CASE DropSender
    BY <1>3 DEF DropSender, SenderInv, Latest!AbsNext, Latest!CloseSender
  <1>4. ASSUME NEW r \in Receivers,
               CheckAlive(r) \/ LoadId(r) \/ Lock(r) \/ EnterWait(r) \/ SpuriousWake(r)
                 \/ \E c \in Calls : Call(r, c)
        PROVE  UNCHANGED Latest!absVars
    BY <1>4 DEF CheckAlive, LoadId, AfterNone, Lock, EnterWait, SpuriousWake, Call, senderVars
  <1>5. ASSUME NEW r \in Receivers, CloneValue(r) PROVE Latest!Deliver(r)
    BY <1>5 DEF CloneValue, senderVars, Latest!Deliver
  <1>6. ASSUME NEW r \in Receivers, DropReceiver(r) PROVE Latest!Leave(r)
    BY <1>6 DEF DropReceiver, senderVars, Latest!Leave
  <1>7. ASSUME NEW r \in Receivers, NEW p \in Receivers, CloneReceiver(p, r)
        PROVE  Latest!Join(r, p)
    BY <1>7 DEF CloneReceiver, senderVars, Latest!Join
  <1>8. CASE UNCHANGED vars
    BY <1>8 DEF vars
  <1> QED
    BY <1>1, <1>2, <1>3, <1>4, <1>5, <1>6, <1>7, <1>8, NextCases DEF Latest!AbsNext

\* The channel implements the safety part of the latest-value contract.
THEOREM ImplementsContract == Safe => Latest!AbsSafe
  <1>1. Init => Latest!AbsInit
    BY DEF Init, Latest!AbsInit, Live
  <1>2. IInv /\ [Next]_vars => [Latest!AbsNext]_(Latest!absVars)
    BY StepRefinement
  <1> QED  BY <1>1, <1>2, InductiveInvariant, PTL DEF Safe, Latest!AbsSafe

\* No receiver is ever handed a value older than the one it holds.
THEOREM ValuesNeverRegress == Safe => NoRegress
  <1>1. IInv /\ [Next]_vars => [\A r \in Receivers : seen'[r] >= seen[r]]_vars
    <2> SUFFICES ASSUME IInv, Next, ~(UNCHANGED vars), NEW r \in Receivers
                 PROVE  seen'[r] >= seen[r]
      BY DEF vars
    <2> USE DEF IInv, TypeOK
    <2>1. ASSUME NEW q \in Receivers, CloneValue(q) PROVE seen'[r] >= seen[r]
      BY <2>1 DEF CloneValue, ObservedInv
    <2>2. ASSUME NEW q \in Receivers, NEW p \in Receivers, CloneReceiver(p, q)
          PROVE  seen'[r] >= seen[r]
      BY <2>2 DEF CloneReceiver, UnbornInv
    <2>3. \/ \E q \in Receivers : CloneValue(q) \/ \E p \in Receivers : CloneReceiver(p, q)
          \/ seen' = seen
      BY NextCases DEF Send, SendRefused, ReplaceValue, IncrementId, WakeUpThreads,
         DropSender, CheckAlive, LoadId, Lock, EnterWait, DropReceiver, SpuriousWake, Call, vars
    <2> QED  BY <2>1, <2>2, <2>3
  <1> QED  BY <1>1, InductiveInvariant, PTL DEF Safe, NoRegress
=============================================================================

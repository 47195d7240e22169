-------------------------- MODULE SessionLoopProofs --------------------------
(***************************************************************************)
(* Between two sessions neither a retry nor an escrow record is lost, and    *)
(* the alerts of the notifier are true and get through: for every number of *)
(* short sessions, every longest delay and every length of the queue.       *)
(***************************************************************************)
EXTENDS SessionLoop, FunctionTheorems, FiniteSetTheorems, SequenceTheorems, TLAPS

-----------------------------------------------------------------------------
(* Arithmetic of the delay *)

\* The lesser of two numbers.
LEMMA MinOfTwo ==
    ASSUME NEW a \in Int, NEW b \in Int
    PROVE  Min({a, b}) = IF a <= b THEN a ELSE b
  BY DEF Min

\* A set with one more element has twice as many subsets, so powers of two double.
LEMMA PowerDoubles ==
    ASSUME NEW k \in Nat
    PROVE  2 ^ k \in Nat \ {0} /\ 2 ^ (k + 1) = 2 * 2 ^ k
  <1>. DEFINE S == 1..k
              T == 1..(k + 1)
              Without == SUBSET S
              With == {R \cup {k + 1} : R \in SUBSET S}
              f == [R \in Without |-> R \cup {k + 1}]
  <1>1. IsFiniteSet(S) /\ Cardinality(S) = k /\ IsFiniteSet(T) /\ Cardinality(T) = k + 1
    BY FS_Interval
  <1>2. IsFiniteSet(Without) /\ Cardinality(Without) = 2 ^ k /\ Cardinality(Without) \in Nat
    BY <1>1, FS_SUBSET, FS_CardinalityType
  <1>3. Cardinality(SUBSET T) = 2 ^ (k + 1)
    BY <1>1, FS_SUBSET
  <1>4. f \in Bijection(Without, With)
    <2>1. f \in [Without -> With]
      OBVIOUS
    <2>2. ASSUME NEW P \in Without, NEW Q \in Without, f[P] = f[Q] PROVE P = Q
      <3>1. k + 1 \notin P /\ k + 1 \notin Q
        OBVIOUS
      <3>. QED
        BY <2>2, <3>1
    <2>3. \A R \in With : \E P \in Without : f[P] = R
      OBVIOUS
    <2>. HIDE DEF f, With, Without
    <2>. QED
      BY <2>1, <2>2, <2>3, Fun_IsBij
  <1>5. IsFiniteSet(With) /\ Cardinality(With) = 2 ^ k
    <2>1. ExistsBijection(Without, With)
      BY <1>4, Fun_ExistsBij
    <2>. QED
      BY <1>2, <2>1, FS_Bijection
  <1>6. SUBSET T = Without \cup With
    <2>1. ASSUME NEW R \in SUBSET T PROVE R \in Without \cup With
      <3>1. CASE k + 1 \in R
        <4>1. R \ {k + 1} \in SUBSET S /\ R = (R \ {k + 1}) \cup {k + 1}
          BY <3>1
        <4>. QED
          BY <4>1
      <3>2. CASE k + 1 \notin R
        BY <3>2
      <3>. QED
        BY <3>1, <3>2
    <2>2. ASSUME NEW R \in SUBSET S PROVE R \in SUBSET T /\ R \cup {k + 1} \in SUBSET T
      OBVIOUS
    <2>3. \A R \in Without : R \in SUBSET T
      BY <2>2
    <2>4. \A R \in With : R \in SUBSET T
      BY <2>2
    <2>. HIDE DEF Without, With, T
    <2>. QED
      BY <2>1, <2>3, <2>4
  <1>7. Without \cap With = {}
    OBVIOUS
  <1>8. Cardinality(Without \cup With) = Cardinality(Without) + Cardinality(With) - 0
    <2>. HIDE DEF With, Without
    <2>. QED
      BY <1>2, <1>5, <1>7, FS_Union, FS_EmptySet
  <1>9. 2 ^ k # 0
    <2>1. Without # {}
      OBVIOUS
    <2>. HIDE DEF Without
    <2>. QED
      BY <1>2, <2>1, FS_EmptySet
  <1>. HIDE DEF Without, With, T
  <1>10. 2 ^ (k + 1) = 2 ^ k + 2 ^ k
    <2>1. 2 ^ (k + 1) = Cardinality(Without) + Cardinality(With) - 0
      BY <1>3, <1>6, <1>8, Zenon
    <2>2. Cardinality(Without) + Cardinality(With) - 0 = Cardinality(Without) + Cardinality(With)
      BY <1>2, <1>5
    <2>. QED
      BY <1>2, <1>5, <2>1, <2>2, Zenon
  <1>. QED
    BY <1>2, <1>9, <1>10

\* The delay after k doublings.
Delay(k) == Min({MaxBackoff, 2 ^ k})

\* Doubling a capped delay and capping it again is one more doubling.
LEMMA DelayDoubles ==
    ASSUME NEW k \in Nat
    PROVE  /\ Delay(k) \in Nat
           /\ Min({2 * Delay(k), MaxBackoff}) = Delay(k + 1)
  <1>1. MaxBackoff \in Nat \ {0}
    BY SessionLoopAssumption
  <1>2. 2 ^ k \in Nat \ {0} /\ 2 ^ (k + 1) = 2 * 2 ^ k
    BY PowerDoubles
  <1>3. Delay(k) = IF MaxBackoff <= 2 ^ k THEN MaxBackoff ELSE 2 ^ k
    BY <1>1, <1>2, MinOfTwo DEF Delay
  <1>4. Delay(k + 1) = IF MaxBackoff <= 2 * 2 ^ k THEN MaxBackoff ELSE 2 * 2 ^ k
    BY <1>1, <1>2, MinOfTwo DEF Delay
  <1>5. Delay(k) \in Nat
    BY <1>1, <1>2, <1>3
  <1>6. Min({2 * Delay(k), MaxBackoff}) =
          IF 2 * Delay(k) <= MaxBackoff THEN 2 * Delay(k) ELSE MaxBackoff
    BY <1>1, <1>5, MinOfTwo
  <1>. QED
    BY <1>1, <1>2, <1>3, <1>4, <1>5, <1>6

-----------------------------------------------------------------------------
(* The inductive invariant *)

Messages == {"alert", "ai"}

LoopTypes ==
    /\ main \in [at : {"idle", "listen", "flush", "closed", "sleep", "stopping", "drain", "exited"},
                 age : {"short", "long"}]
    /\ backoff \in Nat /\ short \in Nat
    /\ escrow \in {"saved", "dirty", "failed"}

StateTypes ==
    /\ link \in [up : BOOLEAN, down : {"no", "fresh", "old"}, alerted : BOOLEAN,
                 idle : BOOLEAN, seen : BOOLEAN, stalled : BOOLEAN]
    /\ bond \in Statuses

ChannelTypes ==
    /\ hand \in [Threads -> Messages \cup {None}]
    /\ queue \in Seq(Messages) /\ sending \in Messages \cup {None}
    /\ inFlight \in Nat

StopTypes == stop \in [signal : BOOLEAN, woken : BOOLEAN, said : BOOLEAN]

TypeOK == LoopTypes /\ StateTypes /\ ChannelTypes /\ StopTypes

(* What RetriesAreCounted needs at the points where the loop is neither        *)
(* asleep nor stopping: the delay of the sleep to come is behind the count of  *)
(* short sessions by one failure, or equal to it when a healthy one reset both. *)
DelayFollowsCount ==
    /\ main.at = "sleep" =>
         short < MaxShortSessions /\ \E k \in {short - 1, short} : k \in Nat /\ backoff = Delay(k)
    /\ main.at \in {"idle", "listen", "flush", "closed"} =>
         short < MaxShortSessions /\ backoff \in {Delay(short), Delay(short + 1)}
    /\ main.at = "stopping" /\ ~stop.woken => short = MaxShortSessions
    /\ stop.woken => stop.signal

(* Only a session, or its final flush, leaves lines unwritten.                *)
DirtyInSession == escrow = "dirty" => main.at \in {"listen", "flush"}

(* A connection and an outage exclude each other, and one is announced late.  *)
OutageIsDown ==
    /\ link.down # "no" => ~link.up
    /\ link.alerted => link.down = "old"

AiIn(q) == Cardinality({i \in DOMAIN q : q[i] = "ai"})
One(b) == IF b THEN 1 ELSE 0

\* The threads that passed the check and are about to post.
Bearers(h) == {t \in Threads : h[t] = "ai"}

(* IN_FLIGHT counts what is queued and what the sender holds; the AI messages   *)
(* of the threads that passed the check together find one place each beside    *)
(* those it let in one by one.                                               *)
RoomIsKept ==
    /\ inFlight = Len(queue) + One(sending # None)
    /\ Bearers(hand) \subseteq Tellers
    /\ AiIn(queue) + One(sending = "ai") + Cardinality(Bearers(hand)) < Half + Cardinality(Tellers)

IInv == TypeOK /\ DelayFollowsCount /\ DirtyInSession /\ OutageIsDown /\ RoomIsKept

-----------------------------------------------------------------------------
(* AI messages of a queue *)

\* The AI messages of a queue are a finite set of its places.
LEMMA AiInBounds ==
    ASSUME NEW q \in Seq(Messages)
    PROVE  /\ IsFiniteSet({i \in DOMAIN q : q[i] = "ai"})
           /\ AiIn(q) \in Nat /\ AiIn(q) <= Len(q)
  <1>. DEFINE A == {i \in DOMAIN q : q[i] = "ai"}
  <1>1. IsFiniteSet(1..Len(q)) /\ Cardinality(1..Len(q)) = Len(q)
    <2>1. Len(q) \in Nat
      OBVIOUS
    <2>. QED
      BY SMTT(60), <2>1, FS_Interval
  <1>2. A \in SUBSET (1..Len(q))
    OBVIOUS
  <1>3. IsFiniteSet(A) /\ Cardinality(A) <= Len(q)
    BY <1>1, <1>2, FS_Subset
  <1>. QED
    BY <1>3, FS_CardinalityType DEF AiIn

\* Appending a message adds one if it is about an AI request.
LEMMA AiInAppend ==
    ASSUME NEW q \in Seq(Messages), NEW m \in Messages
    PROVE  AiIn(Append(q, m)) = AiIn(q) + One(m = "ai")
  <1>. DEFINE A == {i \in DOMAIN q : q[i] = "ai"}
              B == {i \in DOMAIN Append(q, m) : Append(q, m)[i] = "ai"}
  <1>1. IsFiniteSet(A) /\ Cardinality(A) \in Nat
    BY AiInBounds DEF AiIn
  <1>2. CASE m = "ai"
    <2>1. B = A \cup {Len(q) + 1} /\ Len(q) + 1 \notin A
      BY <1>2
    <2>. HIDE DEF A, B
    <2>2. Cardinality(B) = Cardinality(A) + 1
      BY <1>1, <2>1, FS_AddElement
    <2>. QED
      BY <1>2, <2>2 DEF AiIn, One, A, B
  <1>3. CASE m # "ai"
    <2>1. B = A
      BY <1>3
    <2>2. AiIn(Append(q, m)) = AiIn(q) /\ AiIn(q) \in Nat
      BY <1>1, <2>1, Zenon DEF AiIn
    <2>. QED
      BY <1>3, <2>2 DEF One
  <1>. QED
    BY <1>2, <1>3

\* Taking the head of a queue takes one if it is about an AI request.
LEMMA AiInTail ==
    ASSUME NEW q \in Seq(Messages), q # <<>>
    PROVE  AiIn(q) = AiIn(Tail(q)) + One(Head(q) = "ai")
  <1>. DEFINE A == {i \in DOMAIN q : q[i] = "ai"}
              B == {i \in DOMAIN Tail(q) : Tail(q)[i] = "ai"}
              f == [i \in B |-> i + 1]
  <1>1. IsFiniteSet(A) /\ Cardinality(A) \in Nat
    BY AiInBounds DEF AiIn
  <1>2. Tail(q) \in Seq(Messages) /\ Len(Tail(q)) = Len(q) - 1 /\ Len(q) \in Nat \ {0}
        /\ \A i \in 1..Len(Tail(q)) : Tail(q)[i] = q[i + 1]
    OBVIOUS
  <1>3. IsFiniteSet(B) /\ Cardinality(B) \in Nat
    BY <1>2, AiInBounds DEF AiIn
  <1>4. f \in Bijection(B, A \ {1})
    <2>1. f \in [B -> A \ {1}]
      BY <1>2
    <2>2. \A i, j \in B : f[i] = f[j] => i = j
      BY <1>2
    <2>3. ASSUME NEW j \in A \ {1} PROVE \E i \in B : f[i] = j
      <3>1. j - 1 \in B
        BY <1>2
      <3>. QED
        BY <3>1
    <2>. HIDE DEF f, A, B
    <2>. QED
      BY <2>1, <2>2, <2>3, Fun_IsBij
  <1>5. Cardinality(A \ {1}) = Cardinality(B)
    <2>1. ExistsBijection(B, A \ {1})
      BY <1>4, Fun_ExistsBij
    <2>. QED
      BY <1>3, <2>1, FS_Bijection
  <1>6. 1 \in A <=> Head(q) = "ai"
    BY <1>2
  <1>7. Cardinality(A \ {1}) = IF 1 \in A THEN Cardinality(A) - 1 ELSE Cardinality(A)
    <2>. HIDE DEF A
    <2>. QED
      BY <1>1, FS_RemoveElement
  <1>. HIDE DEF A, B
  <1>8. Cardinality(A) = Cardinality(B) + One(Head(q) = "ai")
    BY <1>1, <1>3, <1>5, <1>6, <1>7 DEF One
  <1>. QED
    BY <1>8 DEF AiIn, A, B

-----------------------------------------------------------------------------
(* Every step keeps the invariant *)

\* What post does to the queue: the message is appended and counted, or dropped.
LEMMA EnqueueEffect ==
    ASSUME ChannelTypes, NEW m \in Messages, Enqueue(m)
    PROVE  /\ queue' \in Seq(Messages) /\ inFlight' \in Nat
           /\ inFlight' - Len(queue') = inFlight - Len(queue)
           /\ AiIn(queue') \in Nat /\ AiIn(queue') <= AiIn(queue) + One(m = "ai")
  <1>. USE DEF ChannelTypes
  <1>1. CASE Len(queue) < QueueLen
    <2>1. queue' = Append(queue, m) /\ inFlight' = inFlight + 1
      BY <1>1 DEF Enqueue
    <2>2. queue' \in Seq(Messages) /\ Len(queue') = Len(queue) + 1
      BY <2>1
    <2>3. AiIn(queue') = AiIn(queue) + One(m = "ai") /\ AiIn(queue') \in Nat
      BY <2>1, <2>2, AiInAppend, AiInBounds
    <2>4. AiIn(queue) \in Nat
      BY AiInBounds
    <2>. QED
      BY <2>1, <2>2, <2>3, <2>4 DEF One
  <1>2. CASE ~(Len(queue) < QueueLen)
    <2>1. UNCHANGED <<queue, inFlight>>
      BY <1>2 DEF Enqueue
    <2>2. AiIn(queue) \in Nat
      BY AiInBounds
    <2>. QED
      BY <2>1, <2>2 DEF One
  <1>. QED
    BY <1>1, <1>2

\* Every step keeps the types; IN_FLIGHT never goes below zero because it counts what is held.
LEMMA TypeStep ==
    ASSUME TypeOK, RoomIsKept, [Next]_vars
    PROVE  TypeOK'
  <1>. USE SessionLoopAssumption DEF TypeOK, Messages, Threads, None, state, loop, channel
  <1>1. CASE ConnectFails
    BY <1>1 DEF ConnectFails, At, Goes, LoopTypes, StateTypes, ChannelTypes, StopTypes
  <1>2. CASE LinkUp
    <2>1. LoopTypes'
      BY <1>2 DEF LinkUp, At, Goes, Hold, LoopTypes
    <2>2. StateTypes'
      BY <1>2 DEF LinkUp, At, Goes, Hold, StateTypes
    <2>3. ChannelTypes'
      BY <1>2 DEF LinkUp, At, Goes, Hold, ChannelTypes
    <2>4. StopTypes'
      BY <1>2 DEF LinkUp, At, Goes, Hold, StopTypes
    <2>. QED
      BY <2>1, <2>2, <2>3, <2>4
  <1>3. CASE ListenEnds
    BY <1>3 DEF ListenEnds, At, Goes, LoopTypes, StateTypes, ChannelTypes, StopTypes
  <1>4. CASE Closed
    <2>1. LoopTypes'
      BY <1>4 DEF Closed, At, Goes, LoopTypes
    <2>2. StateTypes'
      BY <1>4 DEF Closed, At, Goes, StateTypes
    <2>3. ChannelTypes'
      BY <1>4 DEF Closed, At, Goes, ChannelTypes
    <2>4. StopTypes'
      BY <1>4 DEF Closed, At, Goes, StopTypes
    <2>. QED
      BY <2>1, <2>2, <2>3, <2>4
  <1>5. CASE Wake
    <2>. Min({2 * backoff, MaxBackoff}) \in Nat
      BY MinOfTwo DEF LoopTypes
    <2>1. LoopTypes'
      BY <1>5 DEF Wake, At, LoopTypes
    <2>2. StateTypes'
      BY <1>5 DEF Wake, At, StateTypes
    <2>3. ChannelTypes'
      BY <1>5 DEF Wake, At, ChannelTypes
    <2>4. StopTypes'
      BY <1>5 DEF Wake, At, StopTypes
    <2>. QED
      BY <2>1, <2>2, <2>3, <2>4
  <1>6. CASE \E ok \in BOOLEAN : Flush(ok)
    BY <1>6 DEF Flush, Flushed, At, Goes, LoopTypes, StateTypes, ChannelTypes, StopTypes
  <1>7. CASE \E ok \in BOOLEAN : SeesStop(ok)
    BY <1>7 DEF SeesStop, Flushed, At, Goes, LoopTypes, StateTypes, ChannelTypes, StopTypes
  <1>8. CASE Stopping
    <2>1. LoopTypes'
      BY <1>8 DEF Stopping, SayStop, At, Goes, Hold, LoopTypes
    <2>2. StateTypes'
      BY <1>8 DEF Stopping, SayStop, At, Goes, Hold, StateTypes
    <2>3. ChannelTypes'
      BY <1>8 DEF Stopping, SayStop, At, Goes, Hold, ChannelTypes
    <2>4. StopTypes'
      BY <1>8 DEF Stopping, SayStop, At, Goes, Hold, StopTypes
    <2>. QED
      BY <2>1, <2>2, <2>3, <2>4
  <1>9. CASE Drained \/ Timer
    <2>. Exit
      BY <1>9 DEF Drained, Timer
    <2>1. LoopTypes'
      BY DEF Exit, Fresh, Quiet, NoLink, LoopTypes
    <2>2. StateTypes'
      BY DEF Exit, Fresh, Quiet, NoLink, StateTypes
    <2>3. ChannelTypes'
      BY DEF Exit, Fresh, Quiet, NoLink, ChannelTypes
    <2>4. StopTypes'
      BY DEF Exit, Fresh, Quiet, NoLink, StopTypes
    <2>. QED
      BY <2>1, <2>2, <2>3, <2>4
  <1>10. CASE EscrowChanges
    BY <1>10 DEF EscrowChanges, At, LoopTypes, StateTypes, ChannelTypes, StopTypes
  <1>11. CASE BlockRejected
    BY <1>11 DEF BlockRejected, At, Hold, LoopTypes, StateTypes, ChannelTypes, StopTypes
  <1>12. CASE \E s \in Statuses : ServiceBond(s)
    BY <1>12 DEF ServiceBond, At, Hold, LoopTypes, StateTypes, ChannelTypes, StopTypes
  <1>13. CASE SessionAges
    BY <1>13 DEF SessionAges, LoopTypes, StateTypes, ChannelTypes, StopTypes
  <1>14. CASE OutageAges \/ HashrateAges
    BY ZenonT(60), <1>14 DEF OutageAges, HashrateAges, Alive, LoopTypes, StateTypes, ChannelTypes, StopTypes
  <1>15. CASE \E some \in BOOLEAN : Hashes(some)
    <2>1. LoopTypes'
      BY <1>15 DEF Hashes, LoopTypes
    <2>2. StateTypes'
      BY ZenonT(60), <1>15 DEF Hashes, StateTypes
    <2>3. ChannelTypes'
      BY <1>15, EnqueueEffect DEF Hashes, ChannelTypes
    <2>4. StopTypes'
      BY <1>15 DEF Hashes, StopTypes
    <2>. QED
      BY <2>1, <2>2, <2>3, <2>4
  <1>16. CASE \E t \in Tellers : AiExchange(t)
    BY <1>16 DEF AiExchange, Alive, Hold, LoopTypes, StateTypes, ChannelTypes, StopTypes
  <1>17. CASE Command
    <2>1. LoopTypes'
      BY <1>17 DEF Command, Alive, LoopTypes
    <2>2. StateTypes'
      BY <1>17 DEF Command, Alive, StateTypes
    <2>3. ChannelTypes'
      BY <1>17, EnqueueEffect DEF Command, Alive, ChannelTypes
    <2>4. StopTypes'
      BY <1>17 DEF Command, Alive, StopTypes
    <2>. QED
      BY <2>1, <2>2, <2>3, <2>4
  <1>18. CASE Signal
    <2>1. LoopTypes'
      BY <1>18 DEF Signal, Alive, Hold, LoopTypes
    <2>2. StateTypes'
      BY <1>18 DEF Signal, Alive, Hold, StateTypes
    <2>3. ChannelTypes'
      BY <1>18 DEF Signal, Alive, Hold, ChannelTypes
    <2>4. StopTypes'
      BY <1>18 DEF Signal, Alive, Hold, StopTypes
    <2>. QED
      BY <2>1, <2>2, <2>3, <2>4
  <1>19. CASE Restart
    <2>1. LoopTypes'
      BY <1>19 DEF Restart, Alive, Fresh, Quiet, NoLink, NoStop, LoopTypes
    <2>2. StateTypes'
      BY <1>19 DEF Restart, Alive, Fresh, Quiet, NoLink, NoStop, StateTypes
    <2>3. ChannelTypes'
      BY <1>19 DEF Restart, Alive, Fresh, Quiet, NoLink, NoStop, ChannelTypes
    <2>4. StopTypes'
      BY <1>19 DEF Restart, Alive, Fresh, Quiet, NoLink, NoStop, StopTypes
    <2>. QED
      BY <2>1, <2>2, <2>3, <2>4
  <1>20. CASE WatchLink \/ WatchStall
    <2>1. LoopTypes'
      BY <1>20 DEF WatchLink, WatchStall, Alive, Hold, LoopTypes
    <2>2. StateTypes'
      BY ZenonT(60), <1>20 DEF WatchLink, WatchStall, Alive, Hold, StateTypes
    <2>3. ChannelTypes'
      BY <1>20 DEF WatchLink, WatchStall, Alive, Hold, ChannelTypes
    <2>4. StopTypes'
      BY <1>20 DEF WatchLink, WatchStall, Alive, Hold, StopTypes
    <2>. QED
      BY <2>1, <2>2, <2>3, <2>4
  <1>21. CASE \E t \in Threads : Post(t)
    <2>. PICK t \in Threads : Post(t)
      BY <1>21
    <2>. hand[t] \in Messages
      BY DEF Post, ChannelTypes
    <2>1. LoopTypes'
      BY DEF Post, Hold, LoopTypes
    <2>2. StateTypes'
      BY DEF Post, Hold, StateTypes
    <2>3. ChannelTypes'
      BY EnqueueEffect DEF Post, Hold, ChannelTypes
    <2>4. StopTypes'
      BY DEF Post, Hold, StopTypes
    <2>. QED
      BY <2>1, <2>2, <2>3, <2>4
  <1>22. CASE Take
    BY <1>22 DEF Take, Alive, LoopTypes, StateTypes, ChannelTypes, StopTypes
  <1>23. CASE Deliver
    <2>1. LoopTypes'
      BY <1>23 DEF Deliver, LoopTypes
    <2>2. StateTypes'
      BY <1>23 DEF Deliver, StateTypes
    <2>3. ChannelTypes'
      BY <1>23 DEF Deliver, ChannelTypes, RoomIsKept, One
    <2>4. StopTypes'
      BY <1>23 DEF Deliver, StopTypes
    <2>. QED
      BY <2>1, <2>2, <2>3, <2>4
  <1>24. CASE UNCHANGED vars
    BY <1>24 DEF vars, loop, state, channel, LoopTypes, StateTypes, ChannelTypes, StopTypes
  <1>. QED
    BY <1>1, <1>2, <1>3, <1>4, <1>5, <1>6, <1>7, <1>8, <1>9, <1>10, <1>11, <1>12, <1>13, <1>14, <1>15, <1>16, <1>17, <1>18, <1>19, <1>20, <1>21, <1>22, <1>23, <1>24
       DEF Next, Main, Environment, Notifier

\* The count of short sessions and the delay stay together at every step of the main task.
LEMMA DelayStep ==
    ASSUME TypeOK, DelayFollowsCount, [Next]_vars
    PROVE  DelayFollowsCount'
  <1>. USE SessionLoopAssumption DEF TypeOK, LoopTypes, StopTypes, DelayFollowsCount
  <1>0. short \in Nat /\ Delay(short)' = Delay(short') /\ Delay(short + 1)' = Delay(short' + 1)
    BY DEF Delay
  <1>1. CASE ConnectFails \/ LinkUp \/ ListenEnds \/ \E ok \in BOOLEAN : Flush(ok)
    <2>1. /\ main.at \in {"idle", "listen", "flush"} /\ main'.at \in {"listen", "flush", "closed"}
          /\ UNCHANGED <<backoff, short, stop>>
      BY <1>1 DEF ConnectFails, LinkUp, ListenEnds, Flush, At, Goes
    <2>. QED
      BY <2>1, <1>0
  <1>2. CASE Closed
    <2>1. short < MaxShortSessions /\ backoff \in {Delay(short), Delay(short + 1)}
      BY <1>2 DEF Closed, At
    <2>. UNCHANGED stop
      BY <1>2 DEF Closed
    <2>2. CASE main.age = "long"
      <3>1. backoff' = 1 /\ short' = 0 /\ main'.at = "sleep"
        BY <1>2, <2>2 DEF Closed, Goes
      <3>2. Delay(0) = 1
        <4>1. 2 ^ 0 = 1
          BY SMT
        <4>. QED
          BY <4>1, MinOfTwo DEF Delay
      <3>. QED
        BY <3>1, <3>2 DEF Delay
    <2>3. CASE main.age # "long"
      <3>1. short' = short + 1 /\ backoff' = backoff
            /\ main'.at = IF short' >= MaxShortSessions THEN "stopping" ELSE "sleep"
        BY <1>2, <2>3 DEF Closed, Goes
      <3>2. backoff' \in {Delay(short' - 1), Delay(short')}
        BY <2>1, <3>1
      <3>. QED
        BY <2>1, <3>1, <3>2 DEF Delay
    <2>. QED
      BY <2>2, <2>3
  <1>3. CASE Wake
    <2>1. PICK k \in Nat : k \in {short - 1, short} /\ backoff = Delay(k)
      BY <1>3 DEF Wake, At
    <2>2. UNCHANGED stop /\ short' = short /\ main'.at = "idle" /\ short < MaxShortSessions
          /\ backoff' = Min({2 * backoff, MaxBackoff})
      BY <1>3 DEF Wake, At
    <2>3. backoff' = Delay(k + 1)
      BY <2>1, <2>2, DelayDoubles
    <2>4. k + 1 \in {short, short + 1}
      BY <2>1
    <2>. QED
      BY <1>0, <2>2, <2>3, <2>4
  <1>4. CASE \E ok \in BOOLEAN : SeesStop(ok)
    BY <1>4 DEF SeesStop, At, Goes
  <1>5. CASE Stopping
    BY <1>5 DEF Stopping, SayStop, At, Goes
  <1>6. CASE Drained \/ Timer
    <2>. main'.at = "exited" /\ UNCHANGED stop
      BY <1>6 DEF Drained, Timer, Exit, Fresh
    <2>. QED
      OBVIOUS
  <1>7. CASE Restart
    <2>1. main'.at = "idle" /\ backoff' = 1 /\ short' = 0 /\ ~stop'.woken
      BY <1>7 DEF Restart, Fresh, NoStop
    <2>2. Delay(0) = 1
      <3>1. 2 ^ 0 = 1
        BY SMT
      <3>. QED
        BY <3>1, MinOfTwo DEF Delay
    <2>. QED
      BY <2>1, <2>2 DEF Delay
  <1>8. CASE SessionAges
    BY <1>8 DEF SessionAges, Delay
  <1>9. CASE Signal
    <2>1. main' = main /\ UNCHANGED <<backoff, short>>
      BY <1>9 DEF Signal, loop
    <2>2. ~stop.woken /\ stop'.signal
      BY <1>9 DEF Signal
    <2>. QED
      BY <1>9, <2>1, <2>2 DEF Delay
  <1>10. CASE UNCHANGED <<main, backoff, short, stop>>
    BY <1>10 DEF Delay
  <1>11. ASSUME EscrowChanges \/ BlockRejected \/ (\E st \in Statuses : ServiceBond(st))
               \/ OutageAges \/ HashrateAges \/ (\E some \in BOOLEAN : Hashes(some))
               \/ (\E t \in Tellers : AiExchange(t)) \/ Command \/ Notifier \/ UNCHANGED vars
         PROVE UNCHANGED <<main, backoff, short, stop>>
    BY <1>11 DEF EscrowChanges, BlockRejected, ServiceBond, OutageAges, HashrateAges, Hashes,
       AiExchange, Command, Notifier, WatchLink, WatchStall, Post, Take, Deliver, vars, loop
  <1>. QED
    BY <1>1, <1>2, <1>3, <1>4, <1>5, <1>6, <1>7, <1>8, <1>9, <1>10, <1>11 DEF Next, Main, Environment

\* A record is left unwritten only inside a session: every way out of one writes it or fails to.
LEMMA DirtyStep ==
    ASSUME TypeOK, DirtyInSession, [Next]_vars
    PROVE  DirtyInSession'
  <1>. USE DEF TypeOK, LoopTypes, DirtyInSession
  <1>1. CASE ConnectFails \/ LinkUp \/ ListenEnds \/ Closed \/ Wake \/ Stopping \/ SessionAges
    BY <1>1 DEF ConnectFails, LinkUp, ListenEnds, Closed, Wake, Stopping, SessionAges, At, Goes
  <1>2. CASE \E ok \in BOOLEAN : Flush(ok) \/ SeesStop(ok)
    BY <1>2 DEF Flush, SeesStop, Flushed, At, Goes
  <1>3. CASE Drained \/ Timer \/ Restart
    <2>. escrow' = "saved"
      BY <1>3 DEF Drained, Timer, Restart, Exit, Fresh
    <2>. QED
      OBVIOUS
  <1>4. CASE EscrowChanges
    BY <1>4 DEF EscrowChanges, At
  <1>5. ASSUME BlockRejected \/ (\E st \in Statuses : ServiceBond(st))
              \/ OutageAges \/ HashrateAges \/ (\E some \in BOOLEAN : Hashes(some))
              \/ (\E t \in Tellers : AiExchange(t)) \/ Command \/ Signal \/ Notifier \/ UNCHANGED vars
        PROVE UNCHANGED <<main, escrow>>
    BY <1>5 DEF BlockRejected, ServiceBond, OutageAges, HashrateAges, Hashes, AiExchange, Command,
       Signal, Notifier, WatchLink, WatchStall, Post, Take, Deliver, vars, loop
  <1>. QED
    BY <1>1, <1>2, <1>3, <1>4, <1>5 DEF Next, Main, Environment

\* Only a new session raises the link, and it clears the outage with it.
LEMMA OutageStep ==
    ASSUME TypeOK, OutageIsDown, [Next]_vars
    PROVE  OutageIsDown'
  <1>. USE DEF TypeOK, StateTypes, OutageIsDown
  <1>1. CASE LinkUp
    BY <1>1 DEF LinkUp
  <1>2. CASE Closed
    BY <1>2 DEF Closed
  <1>3. CASE Drained \/ Timer \/ Restart
    <2>. link' = NoLink
      BY <1>3 DEF Drained, Timer, Restart, Exit, Fresh
    <2>. QED
      BY DEF NoLink
  <1>4. CASE OutageAges \/ HashrateAges
    BY <1>4 DEF OutageAges, HashrateAges
  <1>5. CASE \E some \in BOOLEAN : Hashes(some)
    BY <1>5 DEF Hashes
  <1>6. CASE WatchLink
    BY <1>6 DEF WatchLink
  <1>7. CASE WatchStall
    BY <1>7 DEF WatchStall
  <1>8. ASSUME ConnectFails \/ ListenEnds \/ Wake \/ (\E ok \in BOOLEAN : Flush(ok) \/ SeesStop(ok))
              \/ Stopping \/ EscrowChanges \/ BlockRejected
              \/ (\E st \in Statuses : ServiceBond(st)) \/ SessionAges
              \/ (\E t \in Tellers : AiExchange(t)) \/ Command
              \/ Signal \/ (\E t \in Threads : Post(t)) \/ Take \/ Deliver \/ UNCHANGED vars
        PROVE UNCHANGED link
    BY <1>8 DEF ConnectFails, ListenEnds, Wake, Flush, SeesStop, Stopping, EscrowChanges,
       BlockRejected, ServiceBond, SessionAges, AiExchange, Command, Signal, Post, Take, Deliver,
       vars, state
  <1>. QED
    BY <1>1, <1>2, <1>3, <1>4, <1>5, <1>6, <1>7, <1>8 DEF Next, Main, Environment, Notifier

\* The threads that are about to post an AI message are finitely many.
LEMMA BearersAreFinite ==
    ASSUME NEW h, Bearers(h) \subseteq Tellers
    PROVE  /\ IsFiniteSet(Bearers(h)) /\ Cardinality(Bearers(h)) \in Nat
           /\ Cardinality(Tellers) \in Nat /\ Cardinality(Bearers(h)) <= Cardinality(Tellers)
  BY FS_Subset, FS_CardinalityType, SessionLoopAssumption

\* However requests and alerts are decided, posted, taken and delivered, the AI messages hold
\* less than half of the queue and one place for each thread that tells of requests.
LEMMA RoomStep ==
    ASSUME TypeOK, RoomIsKept, [Next]_vars
    PROVE  RoomIsKept'
  <1>. USE SessionLoopAssumption DEF TypeOK, ChannelTypes, RoomIsKept, Threads, None, Messages, One
  <1>0. /\ AiIn(queue) \in Nat /\ AiIn(queue) <= Len(queue) /\ Len(queue) \in Nat
        /\ Half \in Nat \ {0} /\ inFlight \in Nat /\ AiIn(queue)' = AiIn(queue')
    BY AiInBounds DEF Half, AiIn
  <1>. DEFINE Bears == Cardinality(Bearers(hand))
              Room == Half + Cardinality(Tellers)
  <1>a. /\ IsFiniteSet(Bearers(hand)) /\ Bears \in Nat /\ Bears <= Cardinality(Tellers)
        /\ Cardinality(Tellers) \in Nat /\ Bearers(hand)' = Bearers(hand')
    BY BearersAreFinite DEF Bearers
  <1>b. Bearers(hand) \subseteq Tellers
    OBVIOUS
  <1>1. ASSUME NEW messages \in {<<>>, <<"alert">>}, NEW where, Fresh(where, messages)
        PROVE  RoomIsKept'
    <2>1. \A t \in Threads : hand'[t] = None
      BY <1>1 DEF Fresh, Quiet
    <2>2. queue' \in Seq(Messages) /\ queue' = messages /\ sending' = None
          /\ inFlight' = Len(messages)
      <3>1. messages \in Seq(Messages)
        <4>1. <<>> \in Seq(Messages) /\ <<"alert">> \in Seq(Messages)
          OBVIOUS
        <4>. QED
          BY <4>1, Zenon
      <3>2. queue' = messages /\ sending' = None /\ inFlight' = Len(messages)
        BY <1>1 DEF Fresh
      <3>. QED
        BY <3>1, <3>2
    <2>3. {i \in DOMAIN queue' : queue'[i] = "ai"} = {}
      BY <2>2
    <2>4. AiIn(queue)' = 0
      BY <2>3, FS_EmptySet DEF AiIn
    <2>5. Bearers(hand') = {} /\ Cardinality(Bearers(hand')) = 0
      BY <2>1, FS_EmptySet DEF Bearers
    <2>. QED
      BY <1>0, <1>a, <2>2, <2>4, <2>5
  <1>2. CASE Drained \/ Timer
    BY <1>1, <1>2 DEF Drained, Timer, Exit
  <1>3. CASE Restart
    BY <1>1, <1>3 DEF Restart
  <1>4. ASSUME UNCHANGED channel, NEW t \in Threads, Hold(t, "alert") \/ UNCHANGED hand
        PROVE  RoomIsKept'
    <2>1. queue' = queue /\ sending' = sending /\ inFlight' = inFlight
      BY <1>4 DEF channel
    <2>2. Bearers(hand') \subseteq Bearers(hand)
      BY <1>4 DEF Hold, Bearers
    <2>3. Cardinality(Bearers(hand')) <= Bears /\ Cardinality(Bearers(hand')) \in Nat
      BY <1>a, <2>2, FS_Subset, FS_CardinalityType
    <2>4. One(sending' = "ai") = One(sending = "ai") /\ One(sending = "ai") \in Nat
      BY <2>1
    <2>5. AiIn(queue') + One(sending' = "ai") + Cardinality(Bearers(hand')) < Room
      <3>. AiIn(queue) + One(sending = "ai") + Bears < Room
        OBVIOUS
      <3>. HIDE DEF One, AiIn, Bearers
      <3>. QED
        BY <1>0, <1>a, <2>1, <2>3, <2>4
    <2>. QED
      BY <1>0, <1>a, <2>1, <2>2, <2>5
  <1>5. CASE LinkUp \/ BlockRejected \/ (\E st \in Statuses : ServiceBond(st)) \/ Stopping
    <2>. UNCHANGED channel /\ (Hold("main", "alert") \/ UNCHANGED hand)
      BY <1>5 DEF LinkUp, BlockRejected, ServiceBond, Stopping, SayStop
    <2>. QED
      BY <1>4
  <1>6. CASE Signal
    <2>. UNCHANGED channel /\ (Hold("handler", "alert") \/ UNCHANGED hand)
      BY <1>6 DEF Signal
    <2>. QED
      BY <1>4
  <1>7. CASE WatchLink \/ WatchStall
    <2>. UNCHANGED channel /\ Hold("watch", "alert")
      BY <1>7 DEF WatchLink, WatchStall
    <2>. QED
      BY <1>4
  <1>8. CASE \E t \in Tellers : AiExchange(t)
    <2>. PICK t \in Tellers : AiExchange(t)
      BY <1>8
    <2>1. queue' = queue /\ sending' = sending /\ inFlight' = inFlight /\ UNCHANGED channel
      BY DEF AiExchange, channel
    <2>2. CASE inFlight >= Half
      BY <2>1, <2>2, <1>4 DEF AiExchange
    <2>3. CASE inFlight < Half
      <3>1. hand' = [hand EXCEPT ![t] = "ai"]
        BY <1>0, <2>3 DEF AiExchange, Hold
      <3>2. Bearers(hand') \subseteq Tellers
        BY <3>1 DEF Bearers
      <3>3. Cardinality(Bearers(hand')) <= Cardinality(Tellers) /\ Cardinality(Bearers(hand')) \in Nat
        BY <3>2, BearersAreFinite
      <3>4. AiIn(queue) + One(sending = "ai") <= inFlight /\ One(sending = "ai") \in Nat
        BY <1>0
      <3>5. AiIn(queue') + One(sending' = "ai") = AiIn(queue) + One(sending = "ai")
        BY <2>1, Zenon
      <3>6. AiIn(queue') + One(sending' = "ai") + Cardinality(Bearers(hand')) < Room
        <4>. HIDE DEF One, AiIn, Bearers
        <4>. QED
          BY <1>0, <1>a, <2>3, <3>3, <3>4, <3>5
      <3>7. inFlight' = Len(queue') + One(sending' # None)
        BY <2>1
      <3>. HIDE DEF One, AiIn, Bearers
      <3>. QED
        BY ONLY <1>0, <1>a, <3>2, <3>6, <3>7 DEF RoomIsKept
    <2>. QED
      BY <1>0, <2>2, <2>3
  <1>9. ASSUME NEW m \in Messages, Enqueue(m), m # "ai", UNCHANGED <<hand, sending>>
        PROVE  RoomIsKept'
    BY SMTT(60), <1>0, <1>a, <1>9, EnqueueEffect
  <1>10. CASE \E some \in BOOLEAN : Hashes(some)
    <2>1. UNCHANGED <<hand, sending>> /\ (Enqueue("alert") \/ UNCHANGED <<queue, inFlight>>)
      BY <1>10 DEF Hashes
    <2>2. CASE Enqueue("alert")
      BY <1>9, <2>1, <2>2
    <2>3. CASE UNCHANGED <<queue, inFlight>>
      BY <1>0, <1>a, <2>1, <2>3
    <2>. QED
      BY <2>1, <2>2, <2>3
  <1>11. CASE Command
    BY <1>9, <1>11 DEF Command
  <1>12. CASE \E t \in Threads : Post(t)
    <2>1. PICK t \in Threads : Post(t)
      BY <1>12
    <2>2. hand[t] \in Messages /\ Enqueue(hand[t]) /\ sending' = sending
          /\ hand' = [hand EXCEPT ![t] = None]
      BY <2>1 DEF Post, Hold
    <2>3. /\ inFlight' \in Nat /\ queue' \in Seq(Messages) /\ inFlight' - Len(queue') = inFlight - Len(queue)
          /\ AiIn(queue') \in Nat /\ AiIn(queue') <= AiIn(queue) + One(hand[t] = "ai")
      BY <2>2, EnqueueEffect
    <2>4. inFlight' = Len(queue') + One(sending' # None)
      BY <1>0, <2>2, <2>3
    <2>5. Bearers(hand') = Bearers(hand) \ {t}
      BY <2>2 DEF Bearers
    <2>6. Cardinality(Bearers(hand')) + One(hand[t] = "ai") = Bears
      <3>1. t \in Bearers(hand) <=> hand[t] = "ai"
        BY DEF Bearers
      <3>2. CASE hand[t] = "ai"
        <4>1. Cardinality(Bearers(hand')) = Bears - 1
          <5>1. t \in Bearers(hand) /\ IsFiniteSet(Bearers(hand))
            BY <1>a, <3>1, <3>2, Zenon
          <5>2. Cardinality(Bearers(hand) \ {t}) = Cardinality(Bearers(hand)) - 1
            <6>. HIDE DEF Bearers
            <6>. QED
              BY ONLY <5>1, FS_RemoveElement
          <5>. QED
            BY ONLY <2>5, <5>2
        <4>. QED
          BY <1>a, <3>2, <4>1
      <3>3. CASE hand[t] # "ai"
        <4>1. Bearers(hand') = Bearers(hand)
          BY <2>5, <3>1, <3>3
        <4>. QED
          BY <1>a, <3>3, <4>1
      <3>. QED
        BY <3>2, <3>3
    <2>7. AiIn(queue') + One(sending' = "ai") + Cardinality(Bearers(hand')) < Room
      <3>1. AiIn(queue) + One(sending = "ai") + Bears < Room
        OBVIOUS
      <3>2. One(sending = "ai") \in Nat /\ One(hand[t] = "ai") \in Nat
        OBVIOUS
      <3>3. One(sending' = "ai") = One(sending = "ai")
        BY <2>2
      <3>4. Cardinality(Bearers(hand')) \in Nat
        BY <2>5, BearersAreFinite
      <3>5. AiIn(queue') \in Nat /\ AiIn(queue') <= AiIn(queue) + One(hand[t] = "ai")
        BY <2>3
      <3>. HIDE DEF One, AiIn, Bearers
      <3>6. AiIn(queue') + Cardinality(Bearers(hand')) <= AiIn(queue) + Bears
        BY ONLY <1>0, <1>a, <2>6, <3>2, <3>4, <3>5
      <3>. QED
        BY ONLY <1>0, <1>a, <3>1, <3>2, <3>3, <3>4, <3>5, <3>6
    <2>8. Bearers(hand') \subseteq Tellers
      BY ONLY <1>b, <2>5
    <2>. HIDE DEF One, AiIn, Bearers
    <2>. QED
      BY ONLY <1>0, <1>a, <2>4, <2>7, <2>8 DEF RoomIsKept
  <1>13. CASE Take
    <2>1. queue # <<>> /\ sending = None /\ sending' = Head(queue) /\ queue' = Tail(queue)
          /\ inFlight' = inFlight /\ hand' = hand
      BY <1>13 DEF Take
    <2>2. AiIn(queue) = AiIn(queue') + One(sending' = "ai")
      BY <2>1, AiInTail
    <2>3. queue' \in Seq(Messages) /\ Len(queue') = Len(queue) - 1 /\ sending' \in Messages
      BY <2>1
    <2>4. AiIn(queue') \in Nat
      BY <2>3, AiInBounds
    <2>. QED
      BY <1>0, <1>a, <2>1, <2>2, <2>3, <2>4
  <1>14. CASE Deliver
    BY <1>0, <1>a, <1>14 DEF Deliver
  <1>15. CASE UNCHANGED <<hand, channel>>
    BY <1>0, <1>a, <1>15 DEF channel
  <1>16. ASSUME ConnectFails \/ ListenEnds \/ Closed \/ Wake
               \/ (\E ok \in BOOLEAN : Flush(ok) \/ SeesStop(ok))
               \/ EscrowChanges \/ SessionAges \/ OutageAges \/ HashrateAges \/ UNCHANGED vars
         PROVE UNCHANGED <<hand, channel>>
    BY <1>16 DEF ConnectFails, ListenEnds, Closed, Wake, Flush, SeesStop, EscrowChanges,
       SessionAges, OutageAges, HashrateAges, vars
  <1>. QED
    BY <1>2, <1>3, <1>5, <1>6, <1>7, <1>8, <1>10, <1>11, <1>12, <1>13, <1>14, <1>15, <1>16
       DEF Next, Main, Environment, Notifier

-----------------------------------------------------------------------------
(* Theorems *)

\* A process starts, and starts again, with the invariant.
LEMMA InitIInv == Init => IInv
  <1>. SUFFICES ASSUME Init PROVE IInv
    OBVIOUS
  <1>. USE SessionLoopAssumption DEF Init, NoLink, NoStop, Quiet, Threads, None, Messages
  <1>1. TypeOK
    BY DEF TypeOK, LoopTypes, StateTypes, ChannelTypes, StopTypes
  <1>2. DelayFollowsCount
    <2>1. 2 ^ 0 = 1
      BY SMT
    <2>2. Delay(0) = 1
      BY <2>1, MinOfTwo DEF Delay
    <2>. QED
      BY <2>2 DEF DelayFollowsCount
  <1>3. RoomIsKept
    <2>1. {i \in DOMAIN queue : queue[i] = "ai"} = {}
      OBVIOUS
    <2>2. AiIn(queue) = 0
      BY <2>1, FS_EmptySet DEF AiIn
    <2>3. Bearers(hand) = {} /\ Cardinality(Bearers(hand)) = 0 /\ Cardinality(Tellers) \in Nat
      BY FS_EmptySet, FS_CardinalityType DEF Bearers
    <2>4. Half \in Nat \ {0}
      BY DEF Half
    <2>5. AiIn(queue) + One(sending = "ai") + Cardinality(Bearers(hand)) < Half + Cardinality(Tellers)
      <3>1. One(sending = "ai") = 0
        BY DEF One
      <3>. HIDE DEF AiIn, Bearers, Init
      <3>. QED
        BY <2>2, <2>3, <2>4, <3>1
    <2>6. inFlight = Len(queue) + One(sending # None)
      BY DEF One
    <2>. QED
      BY <2>3, <2>5, <2>6 DEF RoomIsKept
  <1>. QED
    BY <1>1, <1>2, <1>3 DEF IInv, DirtyInSession, OutageIsDown

\* The invariant is inductive: one case for each step of the session loop and the notifier.
LEMMA IInvInductive == IInv /\ [Next]_vars => IInv'
  BY TypeStep, DelayStep, DirtyStep, OutageStep, RoomStep DEF IInv

\* Whatever happens to the sessions, the types and the invariant hold.
LEMMA InvariantHolds == Spec => []IInv
  <1>. QED
    BY InitIInv, IInvInductive, PTL DEF Spec

\* main.rs: the delay and the count of short sessions move together, the process gives up after
\* MAX_SHORT_SESSIONS and never sooner, and no way out of a session leaves an escrow record
\* unwritten.
THEOREM SessionsReconnectSafely == Spec => []ReconnectsSafely
  <1>1. IInv => ReconnectsSafely
    <2>. SUFFICES ASSUME IInv PROVE RetriesAreCounted /\ NothingUnflushed
      BY DEF ReconnectsSafely
    <2>1. RetriesAreCounted
      BY DEF IInv, DelayFollowsCount, RetriesAreCounted, Delay
    <2>2. NothingUnflushed
      BY DEF IInv, DirtyInSession, NothingUnflushed
    <2>. QED
      BY <2>1, <2>2
  <1>. QED
    BY <1>1, InvariantHolds, PTL

\* notify.rs: an outage that was announced is still open, and the messages about AI requests
\* hold less than half of the queue and one place for each thread that tells of them, however
\* many those are and whatever they do between a decision and its post.
THEOREM AlertsStayTrue == Spec => []AlertsAreTrue
  <1>1. IInv => AlertsAreTrue
    <2>. SUFFICES ASSUME IInv PROVE AnnouncedOutageIsOpen /\ AlertsHaveRoom
      BY DEF AlertsAreTrue
    <2>1. AnnouncedOutageIsOpen
      BY DEF IInv, OutageIsDown, AnnouncedOutageIsOpen
    <2>2. AiMessages = AiIn(queue) + One(sending = "ai")
      BY DEF AiMessages, AiIn, One
    <2>3. AlertsHaveRoom
      <3>1. AiIn(queue) \in Nat
        BY AiInBounds DEF IInv, TypeOK, ChannelTypes
      <3>2. Cardinality(Bearers(hand)) \in Nat /\ Cardinality(Tellers) \in Nat
        BY BearersAreFinite DEF IInv, RoomIsKept
      <3>. QED
        BY <2>2, <3>1, <3>2, SessionLoopAssumption DEF IInv, RoomIsKept, AlertsHaveRoom, One, Half
    <2>. QED
      BY <2>1, <2>3
  <1>. QED
    BY <1>1, InvariantHolds, PTL
=============================================================================

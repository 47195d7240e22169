------------------------- MODULE SoloInferenceProofs -------------------------
(***************************************************************************)
(* The requests of a solo session are worked on once and answered right, for *)
(* any requests, eras, queues and chains, however often the connection is    *)
(* lost.                                                                    *)
(***************************************************************************)
EXTENDS SoloInference, FunctionTheorems, FiniteSetTheorems, SequenceTheorems,
        NaturalsInduction, WellFoundedInduction, TLAPS

-----------------------------------------------------------------------------
(* The inductive invariant, as predicates of a client s *)

Fields == {"queue", "seen", "answered", "txids", "seeded", "cutoff", "bq", "bp", "visited", "asks",
           "job", "publish", "replay", "inflight", "daa", "asked", "flag", "stale", "blind"}

Once(q) == q \in Seq(Requests) /\ \A i, j \in DOMAIN q : q[i] = q[j] => i = j

(* Tasks carry a request; its trace is decided by the gates, unless it was    *)
(* started blind.                                                             *)
JobIsKnown(s) ==
    s.job # NoJob =>
        /\ DOMAIN s.job = {"r", "out", "traced"} /\ s.job.r \in Requests
        /\ s.job.traced \in BOOLEAN
        /\ \/ s.job.r \in s.blind
           \/ s.job.r \notin Private
           \/ s.job.traced <=> "trace" \in era /\ s.job.r \notin Unreadable

(* Uploads are of answers that do not go into the transaction.                *)
PublishIsKnown(s) ==
    s.publish # NoPublish =>
        /\ DOMAIN s.publish = {"r", "out"} /\ s.publish.r \in Requests
        /\ s.publish.r \in s.blind \/ ~(s.publish.r \in Private /\ "inline" \in era)

WorkedOnOnce(s) ==
    /\ Once(s.queue)
    /\ \A i \in DOMAIN s.queue : s.queue[i] # s.job.r /\ s.queue[i] # s.publish.r
    /\ s.job # NoJob => s.job.r # s.publish.r

UnderWay(s) == (ToSet(s.queue) \cup {s.job.r, s.publish.r}) \ {"none"}

(* What is under way is among the ids seen, and its reward is known.          *)
Seen(s) ==
    /\ s.seen \subseteq Requests
    /\ UnderWay(s) \subseteq s.seen
    /\ UnderWay(s) \cap Rewarded \subseteq s.txids \cup s.stale

(* Blocks asked for are on a chain of n blocks.                               *)
AskedFor(s, n) ==
    /\ s.bq \in Seq(1..n) /\ s.bp \subseteq 1..n
    /\ \A a \in s.asks : a[1] \in 1..n

Sound(s, n) ==
    /\ DOMAIN s = Fields
    /\ JobIsKnown(s) /\ PublishIsKnown(s) /\ WorkedOnOnce(s) /\ AskedFor(s, n)

Good(s, n) == Sound(s, n) /\ Seen(s)

ChainIsKnown == chain \in Seq(Seq(Txs))

IInv ==
    /\ era \in Eras /\ ChainIsKnown /\ up \in BOOLEAN
    /\ Sound(c, Len(chain))
    /\ up => Seen(c)
    /\ ~up => c.publish = NoPublish
    /\ AnswerFitsEra /\ RewardTracked

-----------------------------------------------------------------------------
(* Lists *)

\* A set of naturals that is not empty has a least element.
LEMMA LeastNatural ==
    ASSUME NEW S \in SUBSET Nat, S # {}
    PROVE  \E x \in S : \A y \in S : x <= y
  <1>. DEFINE R == {ss \in Nat \X Nat : ss[1] < ss[2]}
  <1>1. IsWellFoundedOn(R, Nat)
    BY NatLessThanWellFounded, Zenon DEF OpToRel
  <1>2. \E x \in S : \A y \in S : <<y, x>> \notin R
    <2>. HIDE DEF R
    <2>. QED
      BY <1>1, WFMin
  <1>3. PICK x \in S : \A y \in S : <<y, x>> \notin R
    BY <1>2
  <1>4. \A y \in S : x <= y
    <2>. SUFFICES ASSUME NEW y \in S PROVE x <= y
      OBVIOUS
    <2>1. ~(y < x)
      BY <1>3
    <2>. QED
      BY <2>1
  <1>. QED
    BY <1>4

\* A property of 0 that goes from n - 1 to n is one of every number up to the last: B holds those
\* that do not have it.
LEMMA NoLeastFailure ==
    ASSUME NEW last \in Nat, NEW B \in SUBSET (0..last), 0 \notin B,
           \A n \in 1..last : n - 1 \notin B => n \notin B
    PROVE  B = {}
  <1>. SUFFICES ASSUME B # {} PROVE FALSE
    OBVIOUS
  <1>1. PICK n \in B : \A m \in B : n <= m
    <2>1. B \in SUBSET Nat
      OBVIOUS
    <2>. QED
      BY <2>1, LeastNatural
  <1>2. n \in 1..last /\ n - 1 \notin B
    BY <1>1
  <1>. QED
    BY <1>2

Keeps(kept, q, gone) ==
    /\ kept[0] = <<>>
    /\ \A n \in 1..Len(q) : kept[n] = IF q[n] \in gone THEN kept[n - 1] ELSE Append(kept[n - 1], q[n])

\* The recursion of Retain is defined.
LEMMA RetainUnfolds ==
    ASSUME NEW q, NEW gone, Len(q) \in Nat
    PROVE  \E kept : Keeps(kept, q, gone) /\ Retain(q, gone) = kept[Len(q)]
  <1>. DEFINE More(k, i) == IF q[i] \in gone THEN k ELSE Append(k, q[i])
              Upto(n, f) == f = [i \in 0..n |-> IF i = 0 THEN <<>> ELSE More(f[i - 1], i)]
              Bad == {n \in 0..Len(q) : ~ \E f : Upto(n, f)}
              kept == CHOOSE f : Upto(Len(q), f)
  <1>0. Retain(q, gone) = kept[Len(q)]
    BY DEF Retain
  <1>. HIDE DEF More
  <1>1. 0 \notin Bad
    <2>1. Upto(0, [i \in 0..0 |-> <<>>])
      OBVIOUS
    <2>. QED
      BY <2>1
  <1>2. ASSUME NEW n \in 1..Len(q), n - 1 \notin Bad PROVE n \notin Bad
    <2>1. PICK f : Upto(n - 1, f)
      <3>1. n - 1 \in 0..Len(q)
        OBVIOUS
      <3>. HIDE DEF Upto
      <3>. QED
        BY <1>2, <3>1
    <2>. DEFINE g == [i \in 0..n |-> IF i <= n - 1 THEN f[i] ELSE More(f[n - 1], n)]
    <2>2. ASSUME NEW i \in 0..n
          PROVE  g[i] = IF i = 0 THEN <<>> ELSE More(g[i - 1], i)
      <3>1. CASE i = 0
        BY <2>1, <3>1
      <3>2. CASE i \in 1..(n - 1)
        <4>1. g[i] = f[i] /\ g[i - 1] = f[i - 1]
          BY <3>2
        <4>2. f[i] = More(f[i - 1], i)
          BY <2>1, <3>2
        <4>. QED
          BY <3>2, <4>1, <4>2
      <3>3. CASE i = n
        <4>1. g[n] = More(f[n - 1], n) /\ g[n - 1] = f[n - 1]
          OBVIOUS
        <4>. QED
          BY <3>3, <4>1
      <3>. QED
        BY <3>1, <3>2, <3>3
    <2>3. Upto(n, g)
      BY <2>2
    <2>. QED
      BY <2>3
  <1>3. Bad = {}
    <2>1. Bad \in SUBSET (0..Len(q))
      OBVIOUS
    <2>. HIDE DEF Bad
    <2>. QED
      BY <1>1, <1>2, <2>1, NoLeastFailure
  <1>4. Upto(Len(q), kept)
    <2>1. \E f : Upto(Len(q), f)
      BY <1>3
    <2>. HIDE DEF Upto
    <2>. QED
      BY <2>1
  <1>5. \A i \in 0..Len(q) : kept[i] = IF i = 0 THEN <<>> ELSE More(kept[i - 1], i)
    BY <1>4
  <1>. HIDE DEF kept
  <1>6. Keeps(kept, q, gone)
    BY <1>5 DEF Keeps, More
  <1>. QED
    BY <1>0, <1>6

\* What is retained was queued, in another place each.
LEMMA RetainKeeps ==
    ASSUME NEW q, Once(q), NEW gone
    PROVE  Once(Retain(q, gone)) /\ ToSet(Retain(q, gone)) \subseteq ToSet(q) \ gone
  <1>0. q \in Seq(Requests) /\ Len(q) \in Nat /\ DOMAIN q = 1..Len(q)
    BY DEF Once
  <1>1. PICK kept : Keeps(kept, q, gone) /\ Retain(q, gone) = kept[Len(q)]
    BY <1>0, RetainUnfolds
  <1>. DEFINE Fine(n) == /\ Once(kept[n])
                         /\ \A k \in DOMAIN kept[n] : \E i \in 1..n : kept[n][k] = q[i] /\ q[i] \notin gone
              Bad == {n \in 0..Len(q) : ~Fine(n)}
  <1>2. Fine(0)
    <2>1. kept[0] = <<>>
      BY <1>1 DEF Keeps
    <2>. QED
      BY <2>1 DEF Once
  <1>3. ASSUME NEW n \in 1..Len(q), Fine(n - 1) PROVE Fine(n)
    <2>1. CASE q[n] \in gone
      <3>1. kept[n] = kept[n - 1]
        BY <1>1, <2>1 DEF Keeps
      <3>2. \A k \in DOMAIN kept[n] : \E i \in 1..n : kept[n][k] = q[i] /\ q[i] \notin gone
        BY <1>3, <3>1
      <3>. QED
        BY <1>3, <3>1, <3>2
    <2>2. CASE q[n] \notin gone
      <3>. DEFINE a == kept[n - 1]
      <3>1. kept[n] = Append(a, q[n])
        BY <1>1, <2>2 DEF Keeps
      <3>2. a \in Seq(Requests) /\ q[n] \in Requests /\ Len(a) \in Nat /\ DOMAIN a = 1..Len(a)
        BY <1>0, <1>3 DEF Once
      <3>3. /\ kept[n] \in Seq(Requests) /\ Len(kept[n]) = Len(a) + 1 /\ DOMAIN kept[n] = 1..(Len(a) + 1)
            /\ kept[n][Len(a) + 1] = q[n] /\ \A k \in 1..Len(a) : kept[n][k] = a[k]
        BY <3>1, <3>2
      <3>4. ASSUME NEW k \in 1..Len(a) PROVE \E i \in 1..(n - 1) : a[k] = q[i] /\ q[i] \notin gone
        BY <1>3, <3>2
      <3>. HIDE DEF a
      <3>5. \A k \in 1..Len(a) : a[k] # q[n]
        <4>. SUFFICES ASSUME NEW k \in 1..Len(a) PROVE a[k] # q[n]
          OBVIOUS
        <4>1. PICK i \in 1..(n - 1) : a[k] = q[i]
          BY <3>4
        <4>2. i \in DOMAIN q /\ n \in DOMAIN q /\ i # n
          BY <1>0
        <4>. QED
          BY <4>1, <4>2 DEF Once
      <3>6. Once(kept[n])
        <4>1. ASSUME NEW i \in DOMAIN kept[n], NEW j \in DOMAIN kept[n], kept[n][i] = kept[n][j] PROVE i = j
          <5>1. Once(a)
            BY <1>3 DEF a
          <5>2. \A k \in 1..(Len(a) + 1) : k \in 1..Len(a) \/ k = Len(a) + 1
            BY <3>2
          <5>3. CASE i \in 1..Len(a) /\ j \in 1..Len(a)
            BY <3>2, <3>3, <4>1, <5>1, <5>3 DEF Once
          <5>. QED
            BY <3>3, <3>5, <4>1, <5>2, <5>3
        <4>. QED
          BY <3>3, <4>1 DEF Once
      <3>7. ASSUME NEW k \in DOMAIN kept[n] PROVE \E i \in 1..n : kept[n][k] = q[i] /\ q[i] \notin gone
        <4>1. CASE k \in 1..Len(a)
          <5>1. PICK i \in 1..(n - 1) : a[k] = q[i] /\ q[i] \notin gone
            BY <3>4, <4>1
          <5>2. i \in 1..n /\ kept[n][k] = q[i]
            BY <3>3, <4>1, <5>1
          <5>. QED
            BY <5>1, <5>2
        <4>2. CASE k = Len(a) + 1
          BY <2>2, <3>3, <4>2
        <4>. QED
          BY <3>2, <3>3, <4>1, <4>2
      <3>. QED
        BY <3>6, <3>7
    <2>. QED
      BY <2>1, <2>2
  <1>4. Fine(Len(q))
    <2>. HIDE DEF Fine
    <2>1. Bad \in SUBSET (0..Len(q)) /\ 0 \notin Bad
      BY <1>2
    <2>2. \A n \in 1..Len(q) : n - 1 \notin Bad => n \notin Bad
      <3>. SUFFICES ASSUME NEW n \in 1..Len(q), n - 1 \notin Bad PROVE n \notin Bad
        OBVIOUS
      <3>1. n - 1 \in 0..Len(q)
        BY <1>0
      <3>2. Fine(n - 1)
        BY <3>1
      <3>. QED
        BY <1>3, <3>2
    <2>3. Bad = {}
      <3>. HIDE DEF Bad
      <3>. QED
        BY <1>0, <2>1, <2>2, NoLeastFailure
    <2>. QED
      BY <1>0, <2>3
  <1>5. ASSUME NEW x \in ToSet(Retain(q, gone)) PROVE x \in ToSet(q) \ gone
    <2>1. PICK k \in DOMAIN kept[Len(q)] : x = kept[Len(q)][k]
      BY <1>1, <1>5 DEF ToSet
    <2>2. PICK i \in 1..Len(q) : x = q[i] /\ q[i] \notin gone
      BY <1>4, <2>1
    <2>. QED
      BY <1>0, <2>2 DEF ToSet
  <1>. QED
    BY <1>1, <1>4, <1>5

\* One more request at the end of a queue.
LEMMA OnceAppend ==
    ASSUME NEW q, Once(q), NEW r \in Requests, r \notin ToSet(q)
    PROVE  Once(Append(q, r)) /\ ToSet(Append(q, r)) = ToSet(q) \cup {r} /\ Len(Append(q, r)) > 0
  <1>. DEFINE a == Append(q, r)
  <1>1. /\ q \in Seq(Requests) /\ Len(q) \in Nat /\ DOMAIN q = 1..Len(q)
        /\ a \in Seq(Requests) /\ Len(a) = Len(q) + 1 /\ DOMAIN a = 1..(Len(q) + 1)
        /\ a[Len(q) + 1] = r /\ \A k \in 1..Len(q) : a[k] = q[k]
    BY DEF Once
  <1>. HIDE DEF a
  <1>2. \A k \in 1..Len(q) : q[k] # r
    BY <1>1 DEF ToSet
  <1>3. \A k \in 1..(Len(q) + 1) : k \in 1..Len(q) \/ k = Len(q) + 1
    BY <1>1
  <1>4. Once(a)
    <2>1. ASSUME NEW i \in DOMAIN a, NEW j \in DOMAIN a, a[i] = a[j] PROVE i = j
      <3>1. CASE i \in 1..Len(q) /\ j \in 1..Len(q)
        BY <1>1, <2>1, <3>1 DEF Once
      <3>. QED
        BY <1>1, <1>2, <1>3, <2>1, <3>1
    <2>. QED
      BY <1>1, <2>1 DEF Once
  <1>5. ToSet(a) = ToSet(q) \cup {r}
    <2>1. \A x : x \in ToSet(a) <=> \E k \in 1..(Len(q) + 1) : x = a[k]
      BY <1>1 DEF ToSet
    <2>2. \A x : x \in ToSet(q) <=> \E k \in 1..Len(q) : x = q[k]
      BY <1>1 DEF ToSet
    <2>3. Len(q) + 1 \in 1..(Len(q) + 1) /\ 1..Len(q) \subseteq 1..(Len(q) + 1)
      BY <1>1
    <2>4. \A x : (\E k \in 1..(Len(q) + 1) : x = a[k]) <=> (x = r \/ \E k \in 1..Len(q) : x = q[k])
      BY <1>1, <1>3, <2>3
    <2>. QED
      BY <2>1, <2>2, <2>4
  <1>. QED
    BY <1>1, <1>4, <1>5 DEF a

\* A queue loses its oldest request.
LEMMA OnceTail ==
    ASSUME NEW q, Once(q), q # <<>>
    PROVE  /\ Once(Tail(q)) /\ ToSet(Tail(q)) \subseteq ToSet(q)
           /\ Head(q) \in ToSet(q) /\ Head(q) \notin ToSet(Tail(q)) /\ Head(q) \in Requests
  <1>. DEFINE a == Tail(q)
  <1>1. /\ q \in Seq(Requests) /\ Len(q) \in Nat \ {0} /\ DOMAIN q = 1..Len(q)
        /\ a \in Seq(Requests) /\ DOMAIN a = 1..(Len(q) - 1)
        /\ \A k \in 1..(Len(q) - 1) : a[k] = q[k + 1]
        /\ Head(q) = q[1]
    BY DEF Once
  <1>. HIDE DEF a
  <1>2. \A k \in 1..(Len(q) - 1) : k + 1 \in DOMAIN q /\ k + 1 # 1
    BY <1>1
  <1>3. Once(a)
    <2>1. ASSUME NEW i \in DOMAIN a, NEW j \in DOMAIN a, a[i] = a[j] PROVE i = j
      <3>1. i + 1 = j + 1
        BY <1>1, <1>2, <2>1 DEF Once
      <3>. QED
        BY <1>1, <3>1
    <2>. QED
      BY <1>1, <2>1 DEF Once
  <1>4. ToSet(a) \subseteq ToSet(q)
    BY <1>1, <1>2 DEF ToSet
  <1>5. 1 \in DOMAIN q /\ q[1] \in ToSet(q) /\ q[1] \in Requests
    BY <1>1 DEF ToSet
  <1>6. q[1] \notin ToSet(a)
    <2>1. \A k \in DOMAIN a : a[k] # q[1]
      BY <1>1, <1>2, <1>5 DEF Once
    <2>. QED
      BY <2>1 DEF ToSet
  <1>. QED
    BY <1>1, <1>3, <1>4, <1>5, <1>6 DEF a

\* The elements of a queue are requests.
LEMMA OnceRequests ==
    ASSUME NEW q, Once(q)
    PROVE  ToSet(q) \subseteq Requests /\ "none" \notin ToSet(q)
  <1>1. q \in Seq(Requests) /\ DOMAIN q = 1..Len(q)
    BY DEF Once
  <1>2. \A i \in DOMAIN q : q[i] \in Requests
    BY <1>1
  <1>3. ToSet(q) \subseteq Requests
    BY <1>2 DEF ToSet
  <1>. QED
    BY <1>3, RequestAssumption

-----------------------------------------------------------------------------
(* Changes of a client *)

(* t is s but for the fields F.                                              *)
Differs(s, t, F) == DOMAIN t = DOMAIN s /\ \A f \in DOMAIN s \ F : t[f] = s[f]

(* Fields the invariant says nothing of.                                     *)
Other == {"answered", "seeded", "cutoff", "visited", "replay", "inflight", "daa", "asked", "flag"}

(* t is as good as s, and as far with the gates.                             *)
Follows(s, t, n) == Good(t, n) /\ t.daa = s.daa

LEMMA SoundElsewhere ==
    ASSUME NEW s, NEW t, NEW n, Sound(s, n), Differs(s, t, Other)
    PROVE  Sound(t, n) /\ (Seen(s) => Seen(t)) /\ (Good(s, n) => Good(t, n))
  <1>1. /\ DOMAIN t = Fields /\ t.queue = s.queue /\ t.seen = s.seen /\ t.txids = s.txids
        /\ t.bq = s.bq /\ t.bp = s.bp /\ t.asks = s.asks /\ t.job = s.job
        /\ t.publish = s.publish /\ t.stale = s.stale /\ t.blind = s.blind
    BY DEF Sound, Differs, Fields, Other
  <1>2. Sound(t, n)
    BY <1>1 DEF Sound, JobIsKnown, PublishIsKnown, WorkedOnOnce, AskedFor
  <1>3. Seen(s) => Seen(t)
    BY <1>1 DEF Seen, UnderWay
  <1>. QED
    BY <1>2, <1>3 DEF Good

\* A longer chain.
LEMMA SoundOnLonger ==
    ASSUME NEW s, NEW n \in Nat, Sound(s, n)
    PROVE  Sound(s, n + 1)
  <1>1. 1..n \subseteq 1..(n + 1)
    OBVIOUS
  <1>2. s.bq \in Seq(1..(n + 1))
    BY <1>1, SeqMonotonic DEF Sound, AskedFor
  <1>. QED
    BY <1>1, <1>2 DEF Sound, AskedFor

\* What is to be shown of a client with another queue.
LEMMA OtherQueue ==
    ASSUME NEW s, NEW t, NEW n, Good(s, n),
           Differs(s, t, Other \cup {"queue", "seen", "txids", "stale"}), t.daa = s.daa,
           Once(t.queue), s.job.r \notin ToSet(t.queue), s.publish.r \notin ToSet(t.queue),
           t.seen \subseteq Requests, s.seen \subseteq t.seen, ToSet(t.queue) \subseteq t.seen,
           (s.txids \cup s.stale) \cap Rewarded \subseteq t.txids \cup t.stale,
           ToSet(t.queue) \cap Rewarded \subseteq t.txids \cup t.stale
    PROVE  Follows(s, t, n)
  <1>1. /\ DOMAIN t = Fields /\ t.bq = s.bq /\ t.bp = s.bp /\ t.asks = s.asks /\ t.job = s.job
        /\ t.publish = s.publish /\ t.blind = s.blind
    BY DEF Good, Sound, Differs, Fields, Other
  <1>2. JobIsKnown(t) /\ PublishIsKnown(t) /\ AskedFor(t, n)
    BY <1>1 DEF Good, Sound, JobIsKnown, PublishIsKnown, AskedFor
  <1>3. WorkedOnOnce(t)
    BY <1>1 DEF Good, Sound, WorkedOnOnce, ToSet
  <1>4. Seen(t)
    <2>1. {s.job.r, s.publish.r} \ {"none"} \subseteq UnderWay(s)
      BY DEF UnderWay
    <2>2. UnderWay(t) \subseteq ToSet(t.queue) \cup ({s.job.r, s.publish.r} \ {"none"})
      BY <1>1 DEF UnderWay
    <2>. QED
      BY <2>1, <2>2 DEF Good, Seen
  <1>. QED
    BY <1>1, <1>2, <1>3, <1>4 DEF Follows, Good, Sound

(* The ids seen fit: no more requests reach the client than MAX_AI_SEEN_IDS.  *)
Ample == IsFiniteSet(Requests) /\ Cardinality(Requests) <= SeenCap

LEMMA IdsFit ==
    ASSUME Ample, NEW ids \in SUBSET Requests
    PROVE  ~(Cardinality(ids) > SeenCap)
  <1>1. Cardinality(ids) <= Cardinality(Requests) /\ Cardinality(ids) \in Nat /\ Cardinality(Requests) \in Nat
    BY FS_Subset, FS_CardinalityType DEF Ample
  <1>. QED
    BY <1>1, CapAssumption DEF Ample

\* A request is scanned: queued if it is new, its reward known in any case.
LEMMA ScanRequestIsGood ==
    ASSUME Ample, NEW s, NEW n, Good(s, n), NEW r \in Requests
    PROVE  Follows(s, ScanRequest(s, r), n)
  <1>. DEFINE new == r \notin s.seen
              q == IF new THEN Append(s.queue, r) ELSE s.queue
              kept == IF Len(q) > QueueCap THEN Tail(q) ELSE q
              t == ScanRequest(s, r)
  <1>0. /\ DOMAIN s = Fields /\ Once(s.queue) /\ s.seen \subseteq Requests /\ r # "none"
        /\ ToSet(s.queue) \subseteq s.seen
        /\ ToSet(s.queue) \cap Rewarded \subseteq s.txids \cup s.stale
        /\ s.job.r \notin ToSet(s.queue) /\ s.publish.r \notin ToSet(s.queue)
    <2>1. Once(s.queue) /\ DOMAIN s = Fields /\ s.seen \subseteq Requests
      BY DEF Good, Sound, WorkedOnOnce, Seen
    <2>2. "none" \notin ToSet(s.queue)
      BY <2>1, OnceRequests
    <2>3. s.job.r \notin ToSet(s.queue) /\ s.publish.r \notin ToSet(s.queue)
      BY DEF Good, Sound, WorkedOnOnce, ToSet
    <2>. QED
      BY <2>1, <2>2, <2>3, RequestAssumption DEF Good, Seen, UnderWay
  <1>1. CASE r \in s.answered
    <2>1. t = s
      BY <1>1 DEF ScanRequest
    <2>. QED
      BY <2>1 DEF Follows
  <1>2. CASE r \notin s.answered
    <2>1. ~(Cardinality(s.seen \cup {r}) > SeenCap)
      BY <1>0, IdsFit
    <2>2. t = [s EXCEPT !.queue = kept, !.seen = s.seen \cup {r},
                        !.txids = s.txids \cup ({r} \cap Rewarded), !.stale = s.stale \ {r}]
      BY <1>2, <2>1 DEF ScanRequest
    <2>. HIDE DEF t
    <2>3. /\ Differs(s, t, Other \cup {"queue", "seen", "txids", "stale"}) /\ t.daa = s.daa
          /\ t.queue = kept /\ t.seen = s.seen \cup {r}
          /\ t.txids = s.txids \cup ({r} \cap Rewarded) /\ t.stale = s.stale \ {r}
      <3>. HIDE DEF kept
      <3>. QED
        BY <1>0, <2>2 DEF Differs, Fields, Other
    <2>4. /\ Once(q) /\ ToSet(q) \subseteq ToSet(s.queue) \cup {r}
          /\ s.job.r \notin ToSet(q) /\ s.publish.r \notin ToSet(q)
      <3>1. CASE new
        <4>1. r \notin ToSet(s.queue)
          BY <1>0, <3>1
        <4>2. Once(q) /\ ToSet(q) = ToSet(s.queue) \cup {r}
          BY <1>0, <3>1, <4>1, OnceAppend
        <4>3. s.job.r # r /\ s.publish.r # r
          BY <1>0, <3>1 DEF Good, Seen, UnderWay
        <4>. QED
          BY <1>0, <4>2, <4>3
      <3>2. CASE ~new
        BY <1>0, <3>2
      <3>. QED
        BY <3>1, <3>2
    <2>5. Once(kept) /\ ToSet(kept) \subseteq ToSet(q)
      <3>. HIDE DEF q
      <3>1. CASE Len(q) > QueueCap
        <4>1. q # <<>>
          BY <3>1, CapAssumption
        <4>. QED
          BY <2>4, <3>1, <4>1, OnceTail
      <3>2. CASE ~(Len(q) > QueueCap)
        BY <2>4, <3>2
      <3>. QED
        BY <3>1, <3>2
    <2>. HIDE DEF kept, q
    <2>6. /\ Once(t.queue) /\ s.job.r \notin ToSet(t.queue) /\ s.publish.r \notin ToSet(t.queue)
          /\ ToSet(t.queue) \subseteq ToSet(s.queue) \cup {r}
      BY <2>3, <2>4, <2>5
    <2>7. /\ t.seen \subseteq Requests /\ s.seen \subseteq t.seen /\ ToSet(t.queue) \subseteq t.seen
      BY <1>0, <2>3, <2>6
    <2>8. (s.txids \cup s.stale) \cap Rewarded \subseteq t.txids \cup t.stale
      BY <2>3
    <2>9. ToSet(t.queue) \cap Rewarded \subseteq t.txids \cup t.stale
      BY <1>0, <2>3, <2>6, <2>8
    <2>. QED
      BY <2>3, <2>6, <2>7, <2>8, <2>9, OtherQueue DEF t
  <1>. QED
    BY <1>1, <1>2

Scans(scanned, noted, txs) ==
    /\ scanned[0] = noted
    /\ \A n \in 1..Len(txs) :
          scanned[n] = IF txs[n].kind = "request" THEN ScanRequest(scanned[n - 1], txs[n].r)
                       ELSE scanned[n - 1]

(* A client after its own answers are noted.                                  *)
Noted(s, own) ==
    LET all == s.answered \cup own IN
    [s EXCEPT !.answered = IF Cardinality(all) > SeenCap THEN {} ELSE all,
              !.queue = Retain(@, own)]

\* The recursion of ScanTxs is defined.
LEMMA ScanUnfolds ==
    ASSUME NEW s, NEW txs, Len(txs) \in Nat
    PROVE  \E scanned, own : Scans(scanned, Noted(s, own), txs) /\ ScanTxs(s, txs) = scanned[Len(txs)]
  <1>. DEFINE own == {t.r : t \in {x \in ToSet(txs) : x.kind = "response"}}
              base == Noted(s, own)
              More(k, i) == IF txs[i].kind = "request" THEN ScanRequest(k, txs[i].r) ELSE k
              Upto(n, f) == f = [i \in 0..n |-> IF i = 0 THEN base ELSE More(f[i - 1], i)]
              Bad == {n \in 0..Len(txs) : ~ \E f : Upto(n, f)}
              scanned == CHOOSE f : Upto(Len(txs), f)
  <1>0. ScanTxs(s, txs) = scanned[Len(txs)]
    BY DEF ScanTxs, Noted
  <1>. HIDE DEF More, base
  <1>1. 0 \notin Bad
    <2>1. Upto(0, [i \in 0..0 |-> base])
      OBVIOUS
    <2>. QED
      BY <2>1
  <1>2. ASSUME NEW n \in 1..Len(txs), n - 1 \notin Bad PROVE n \notin Bad
    <2>1. PICK f : Upto(n - 1, f)
      <3>1. n - 1 \in 0..Len(txs)
        OBVIOUS
      <3>. HIDE DEF Upto
      <3>. QED
        BY <1>2, <3>1
    <2>. DEFINE g == [i \in 0..n |-> IF i <= n - 1 THEN f[i] ELSE More(f[n - 1], n)]
    <2>2. ASSUME NEW i \in 0..n
          PROVE  g[i] = IF i = 0 THEN base ELSE More(g[i - 1], i)
      <3>1. CASE i = 0
        BY <2>1, <3>1
      <3>2. CASE i \in 1..(n - 1)
        <4>1. g[i] = f[i] /\ g[i - 1] = f[i - 1]
          BY <3>2
        <4>2. f[i] = More(f[i - 1], i)
          BY <2>1, <3>2
        <4>. QED
          BY <3>2, <4>1, <4>2
      <3>3. CASE i = n
        <4>1. g[n] = More(f[n - 1], n) /\ g[n - 1] = f[n - 1]
          OBVIOUS
        <4>. QED
          BY <3>3, <4>1
      <3>. QED
        BY <3>1, <3>2, <3>3
    <2>3. Upto(n, g)
      BY <2>2
    <2>. QED
      BY <2>3
  <1>3. Bad = {}
    <2>1. Bad \in SUBSET (0..Len(txs))
      OBVIOUS
    <2>. HIDE DEF Bad
    <2>. QED
      BY <1>1, <1>2, <2>1, NoLeastFailure
  <1>4. Upto(Len(txs), scanned)
    <2>1. \E f : Upto(Len(txs), f)
      BY <1>3
    <2>. HIDE DEF Upto
    <2>. QED
      BY <2>1
  <1>5. \A i \in 0..Len(txs) : scanned[i] = IF i = 0 THEN base ELSE More(scanned[i - 1], i)
    BY <1>4
  <1>. HIDE DEF scanned
  <1>6. Scans(scanned, base, txs)
    BY <1>5 DEF Scans, More
  <1>. QED
    BY <1>0, <1>6 DEF base

\* Own answers leave the queue.
LEMMA NotedIsGood ==
    ASSUME NEW s, NEW n, Good(s, n), NEW own
    PROVE  Follows(s, Noted(s, own), n)
  <1>. DEFINE t == Noted(s, own)
  <1>0. /\ DOMAIN s = Fields /\ Once(s.queue) /\ s.seen \subseteq Requests
        /\ ToSet(s.queue) \subseteq s.seen
        /\ ToSet(s.queue) \cap Rewarded \subseteq s.txids \cup s.stale
        /\ s.job.r \notin ToSet(s.queue) /\ s.publish.r \notin ToSet(s.queue)
    <2>1. Once(s.queue) /\ DOMAIN s = Fields /\ s.seen \subseteq Requests
      BY DEF Good, Sound, WorkedOnOnce, Seen
    <2>2. "none" \notin ToSet(s.queue)
      BY <2>1, OnceRequests
    <2>3. s.job.r \notin ToSet(s.queue) /\ s.publish.r \notin ToSet(s.queue)
      BY DEF Good, Sound, WorkedOnOnce, ToSet
    <2>. QED
      BY <2>1, <2>2, <2>3 DEF Good, Seen, UnderWay
  <1>1. /\ Differs(s, t, Other \cup {"queue", "seen", "txids", "stale"}) /\ t.daa = s.daa
        /\ t.queue = Retain(s.queue, own) /\ t.seen = s.seen /\ t.txids = s.txids /\ t.stale = s.stale
    BY <1>0 DEF Noted, Differs, Fields, Other
  <1>2. Once(t.queue) /\ ToSet(t.queue) \subseteq ToSet(s.queue)
    BY <1>0, <1>1, RetainKeeps
  <1>. HIDE DEF t
  <1>. QED
    BY <1>0, <1>1, <1>2, OtherQueue DEF t

\* The transactions of a block or a template are scanned.
LEMMA ScanTxsIsGood ==
    ASSUME Ample, NEW s, NEW n, Good(s, n), NEW txs \in Seq(Txs)
    PROVE  Follows(s, ScanTxs(s, txs), n)
  <1>0. Len(txs) \in Nat /\ \A i \in 1..Len(txs) : txs[i] \in Txs
    OBVIOUS
  <1>1. PICK scanned, own : Scans(scanned, Noted(s, own), txs) /\ ScanTxs(s, txs) = scanned[Len(txs)]
    BY <1>0, ScanUnfolds
  <1>. DEFINE Bad == {i \in 0..Len(txs) : ~Follows(s, scanned[i], n)}
  <1>2. 0 \notin Bad
    <2>1. Follows(s, scanned[0], n)
      BY <1>1, NotedIsGood DEF Scans
    <2>. QED
      BY <2>1
  <1>3. ASSUME NEW i \in 1..Len(txs), i - 1 \notin Bad PROVE i \notin Bad
    <2>1. i - 1 \in 0..Len(txs)
      OBVIOUS
    <2>2. Follows(s, scanned[i - 1], n)
      BY <1>3, <2>1
    <2>3. CASE txs[i].kind = "request"
      <3>1. txs[i].r \in Requests
        BY <1>0 DEF Txs, Req, Resp
      <3>2. Good(scanned[i - 1], n) /\ scanned[i] = ScanRequest(scanned[i - 1], txs[i].r)
        BY <1>1, <2>2, <2>3 DEF Scans, Follows
      <3>3. Follows(scanned[i - 1], scanned[i], n)
        BY <3>1, <3>2, ScanRequestIsGood
      <3>. QED
        BY <2>2, <3>3 DEF Follows
    <2>4. CASE txs[i].kind # "request"
      BY <1>1, <2>2, <2>4 DEF Scans
    <2>. QED
      BY <2>3, <2>4
  <1>4. Bad = {}
    <2>1. Bad \in SUBSET (0..Len(txs))
      OBVIOUS
    <2>. HIDE DEF Bad
    <2>. QED
      BY <1>0, <1>2, <1>3, <2>1, NoLeastFailure
  <1>. QED
    BY <1>0, <1>1, <1>4

-----------------------------------------------------------------------------
(* The backfill *)

\* What is to be shown of a client that asks for other blocks.
LEMMA OtherBlocks ==
    ASSUME NEW s, NEW t, NEW n, Good(s, n), Differs(s, t, Other \cup {"bq", "bp", "asks"}), t.daa = s.daa,
           AskedFor(t, n)
    PROVE  Follows(s, t, n)
  <1>1. /\ DOMAIN t = Fields /\ t.queue = s.queue /\ t.seen = s.seen /\ t.txids = s.txids
        /\ t.job = s.job /\ t.publish = s.publish /\ t.stale = s.stale /\ t.blind = s.blind
    BY DEF Good, Sound, Differs, Fields, Other
  <1>2. Sound(t, n)
    BY <1>1 DEF Good, Sound, JobIsKnown, PublishIsKnown, WorkedOnOnce
  <1>3. Seen(t)
    BY <1>1 DEF Good, Seen, UnderWay
  <1>. QED
    BY <1>2, <1>3 DEF Follows, Good

\* SetToSeq lists the elements of a finite set.
LEMMA SetToSeqLists ==
    ASSUME NEW S, IsFiniteSet(S)
    PROVE  SetToSeq(S) \in Seq(S)
  <1>. DEFINE m == Cardinality(S)
              q == SetToSeq(S)
  <1>1. m \in Nat /\ ExistsBijection(1..m, S)
    BY FS_CardinalityType
  <1>2. PICK g : g \in Bijection(1..m, S)
    BY <1>1 DEF ExistsBijection
  <1>3. g \in [1..m -> S] /\ IsInjective(g)
    BY <1>2 DEF Bijection, Injection
  <1>4. q \in [1..m -> S]
    BY <1>3 DEF SetToSeq
  <1>. HIDE DEF q, m
  <1>5. q \in Seq(S)
    BY <1>1, <1>4
  <1>. QED
    BY <1>5 DEF q

LEMMA EnqueueIsGood ==
    ASSUME NEW s, NEW n \in Nat, Good(s, n), NEW b \in 1..(n + 1)
    PROVE  Follows(s, Enqueue(s, Parents(b)), n)
  <1>. DEFINE t == Enqueue(s, Parents(b))
              more == Parents(b) \ s.visited
  <1>1. IsFiniteSet(more) /\ more \subseteq 1..n
    <2>1. IsFiniteSet({b - 1}) /\ more \subseteq {b - 1}
      BY FS_Singleton DEF Parents
    <2>2. more \subseteq 1..n
      BY DEF Parents
    <2>. QED
      BY <2>1, <2>2, FS_Subset
  <1>. HIDE DEF more
  <1>2. SetToSeq(more) \in Seq(1..n)
    BY <1>1, SetToSeqLists, SeqMonotonic
  <1>3. DOMAIN s = Fields /\ s.bq \in Seq(1..n)
    BY DEF Good, Sound, AskedFor
  <1>4. /\ Differs(s, t, Other \cup {"bq", "bp", "asks"}) /\ t.daa = s.daa
        /\ t.bq = s.bq \o SetToSeq(more) /\ t.bp = s.bp /\ t.asks = s.asks
    BY <1>3 DEF Enqueue, Differs, Fields, Other, more
  <1>5. t.bq \in Seq(1..n)
    BY <1>2, <1>3, <1>4, ConcatProperties
  <1>6. AskedFor(t, n)
    BY <1>4, <1>5 DEF Good, Sound, AskedFor
  <1>. HIDE DEF t
  <1>. QED
    BY <1>4, <1>6, OtherBlocks DEF t

\* The first announcement of a connection.
LEMMA SeedIsGood ==
    ASSUME NEW s, NEW n \in Nat, Good(s, n), NEW b \in 1..(n + 1)
    PROVE  Follows(s, BackfillSeed(s, b), n)
  <1>. DEFINE t == [s EXCEPT !.seeded = TRUE, !.cutoff = IF b > Window THEN b - Window ELSE 0]
  <1>1. DOMAIN s = Fields
    BY DEF Good, Sound
  <1>2. Differs(s, t, Other) /\ t.daa = s.daa
    BY <1>1 DEF Differs, Fields, Other
  <1>. HIDE DEF t
  <1>3. Good(t, n)
    BY <1>2, SoundElsewhere DEF Good
  <1>4. Follows(t, Enqueue(t, Parents(b)), n)
    BY <1>3, EnqueueIsGood
  <1>. QED
    BY <1>2, <1>4 DEF BackfillSeed, Follows, t

LEMMA PumpIsGood ==
    ASSUME NEW s, NEW n \in Nat, Good(s, n)
    PROVE  Follows(s, BackfillPump(s), n)
  <1>. DEFINE t == BackfillPump(s)
  <1>1. DOMAIN s = Fields /\ s.bq \in Seq(1..n) /\ AskedFor(s, n)
    BY DEF Good, Sound, AskedFor
  <1>2. /\ Differs(s, t, Other \cup {"bq", "bp", "asks"}) /\ t.daa = s.daa
        /\ t.bq = <<>> /\ t.bp = s.bp \cup ToSet(s.bq)
        /\ t.asks = s.asks \cup {<<b, "backfill">> : b \in ToSet(s.bq)}
    BY <1>1 DEF BackfillPump, Differs, Fields, Other
  <1>3. ToSet(s.bq) \subseteq 1..n
    BY <1>1 DEF ToSet
  <1>4. AskedFor(t, n)
    BY <1>1, <1>2, <1>3 DEF AskedFor
  <1>. HIDE DEF t
  <1>. QED
    BY <1>2, <1>4, OtherBlocks DEF t

\* A block of the walk was scanned.
LEMMA NoteBlockIsGood ==
    ASSUME NEW s, NEW n \in Nat, Good(s, n), NEW b \in 1..n
    PROVE  Follows(s, BackfillNoteBlock(s, b), n)
  <1>. DEFINE t == [s EXCEPT !.bp = @ \ {b}]
              u == IF b > s.cutoff THEN Enqueue(t, Parents(b)) ELSE t
              w == [u EXCEPT !.visited = IF u.bq = <<>> /\ u.bp = {} THEN {} ELSE @]
  <1>1. DOMAIN s = Fields /\ AskedFor(s, n)
    BY DEF Good, Sound
  <1>2. /\ Differs(s, t, Other \cup {"bq", "bp", "asks"}) /\ t.daa = s.daa
        /\ t.bq = s.bq /\ t.bp = s.bp \ {b} /\ t.asks = s.asks
    BY <1>1 DEF Differs, Fields, Other
  <1>3. AskedFor(t, n)
    BY <1>1, <1>2 DEF AskedFor
  <1>. HIDE DEF t
  <1>4. Follows(s, t, n)
    BY <1>2, <1>3, OtherBlocks
  <1>5. Follows(s, u, n)
    <2>1. Follows(t, Enqueue(t, Parents(b)), n)
      BY <1>4, EnqueueIsGood DEF Follows
    <2>. QED
      BY <1>4, <2>1 DEF Follows
  <1>. HIDE DEF u
  <1>6. Differs(u, w, Other) /\ w.daa = u.daa
    BY <1>5 DEF Follows, Good, Sound, Differs, Fields, Other
  <1>. HIDE DEF w
  <1>7. Follows(s, w, n)
    BY <1>5, <1>6, SoundElsewhere DEF Follows, Good
  <1>. QED
    BY <1>7 DEF BackfillNoteBlock, Follows, t, u, w

-----------------------------------------------------------------------------
(* Tasks and answers *)

\* The queue is apart from the tasks, and all of it is seen.
LEMMA QueueIsApart ==
    ASSUME NEW s, NEW n, Good(s, n)
    PROVE  /\ DOMAIN s = Fields /\ Once(s.queue) /\ s.seen \subseteq Requests
           /\ ToSet(s.queue) \subseteq s.seen /\ ToSet(s.queue) \subseteq Requests
           /\ ToSet(s.queue) \cap Rewarded \subseteq s.txids \cup s.stale
           /\ s.job.r \notin ToSet(s.queue) /\ s.publish.r \notin ToSet(s.queue)
  <1>1. Once(s.queue) /\ DOMAIN s = Fields /\ s.seen \subseteq Requests
    BY DEF Good, Sound, WorkedOnOnce, Seen
  <1>2. "none" \notin ToSet(s.queue) /\ ToSet(s.queue) \subseteq Requests
    BY <1>1, OnceRequests
  <1>3. s.job.r \notin ToSet(s.queue) /\ s.publish.r \notin ToSet(s.queue)
    BY DEF Good, Sound, WorkedOnOnce, ToSet
  <1>. QED
    BY <1>1, <1>2, <1>3 DEF Good, Seen, UnderWay

\* A request leaves the queue for the inference task.
LEMMA NewJob ==
    ASSUME NEW s, NEW t, NEW n, Good(s, n), Differs(s, t, {"queue", "job", "blind"}), s.job = NoJob,
           NEW r \in ToSet(s.queue), NEW out, NEW traced \in BOOLEAN, s.blind \subseteq t.blind,
           r \in t.blind \/ r \notin Private \/ (traced <=> "trace" \in era /\ r \notin Unreadable),
           t.job = [r |-> r, out |-> out, traced |-> traced],
           Once(t.queue), ToSet(t.queue) \subseteq ToSet(s.queue), r \notin ToSet(t.queue)
    PROVE  Follows(s, t, n)
  <1>0. /\ DOMAIN s = Fields /\ Once(s.queue) /\ s.seen \subseteq Requests
        /\ ToSet(s.queue) \subseteq s.seen /\ ToSet(s.queue) \subseteq Requests
        /\ ToSet(s.queue) \cap Rewarded \subseteq s.txids \cup s.stale
        /\ s.publish.r \notin ToSet(s.queue)
    BY QueueIsApart
  <1>1. /\ DOMAIN t = Fields /\ t.seen = s.seen /\ t.txids = s.txids /\ t.stale = s.stale /\ t.daa = s.daa
        /\ t.bq = s.bq /\ t.bp = s.bp /\ t.asks = s.asks /\ t.publish = s.publish
    BY <1>0 DEF Differs, Fields
  <1>2. DOMAIN t.job = {"r", "out", "traced"} /\ t.job.r = r /\ t.job.traced = traced
    OBVIOUS
  <1>3. JobIsKnown(t)
    BY <1>0, <1>2 DEF JobIsKnown
  <1>4. PublishIsKnown(t) /\ AskedFor(t, n)
    <2>1. PublishIsKnown(s) /\ AskedFor(s, n)
      BY DEF Good, Sound
    <2>. QED
      BY <1>1, <2>1 DEF PublishIsKnown, AskedFor
  <1>5. WorkedOnOnce(t)
    <2>1. \A i \in DOMAIN t.queue : t.queue[i] \in ToSet(t.queue)
      BY DEF ToSet
    <2>. QED
      BY <1>0, <1>1, <1>2, <2>1 DEF WorkedOnOnce
  <1>6. Seen(t)
    <2>1. UnderWay(t) \subseteq ToSet(s.queue) \cup ({s.publish.r} \ {"none"})
      BY <1>1, <1>2 DEF UnderWay
    <2>2. {s.publish.r} \ {"none"} \subseteq UnderWay(s)
      BY DEF UnderWay
    <2>. QED
      BY <1>0, <1>1, <2>1, <2>2 DEF Good, Seen
  <1>. QED
    BY <1>1, <1>3, <1>4, <1>5, <1>6 DEF Follows, Good, Sound

\* A message that finds work queued starts the next request or gives it up.
LEMMA StartIsGood ==
    ASSUME NEW s, NEW n, Good(s, n), NEW ok
    PROVE  Follows(s, StartIfIdle(s, ok), n)
  <1>1. CASE InferenceBusy(s) \/ s.queue = <<>>
    BY <1>1 DEF StartIfIdle, Follows
  <1>2. CASE ~(InferenceBusy(s) \/ s.queue = <<>>)
    <2>. DEFINE u == Pause(s)
                live == Retain(u.queue, u.answered)
                r == Head(live)
                traced == Passed(u, "trace")
                popped == [u EXCEPT !.queue = Tail(live)]
                started == [popped EXCEPT !.blind = Blinded(u, r)]
    <2>0. DOMAIN s = Fields
      BY DEF Good, Sound
    <2>1. Differs(s, u, Other) /\ u.daa = s.daa /\ u.job = s.job /\ u.replay = s.replay
      BY <2>0 DEF Pause, Differs, Fields, Other
    <2>. HIDE DEF u
    <2>2. Good(u, n) /\ DOMAIN u = Fields
      BY <2>1, SoundElsewhere DEF Good, Sound
    <2>3. u.job = NoJob /\ ~InferenceBusy(u)
      BY <1>2, <2>1 DEF InferenceBusy
    <2>4. /\ Once(u.queue) /\ u.seen \subseteq Requests /\ ToSet(u.queue) \subseteq u.seen
          /\ ToSet(u.queue) \cap Rewarded \subseteq u.txids \cup u.stale
          /\ u.job.r \notin ToSet(u.queue) /\ u.publish.r \notin ToSet(u.queue)
      BY <2>2, QueueIsApart
    <2>5. Once(live) /\ ToSet(live) \subseteq ToSet(u.queue)
      BY <2>4, RetainKeeps
    <2>. HIDE DEF live
    <2>6. ASSUME NEW t, NEW q, t = [u EXCEPT !.queue = q], Once(q), ToSet(q) \subseteq ToSet(u.queue)
          PROVE  Follows(u, t, n)
      <3>1. /\ Differs(u, t, Other \cup {"queue", "seen", "txids", "stale"}) /\ t.daa = u.daa
            /\ t.queue = q /\ t.seen = u.seen /\ t.txids = u.txids /\ t.stale = u.stale
        BY <2>2, <2>6 DEF Differs, Fields, Other
      <3>. QED
        BY <2>2, <2>4, <2>6, <3>1, OtherQueue
    <2>7. CASE live = <<>>
      <3>1. StartIfIdle(s, ok) = [u EXCEPT !.queue = <<>>]
        BY <1>2, <2>3, <2>7 DEF StartIfIdle, TryStartInference, u, live
      <3>2. Once(<<>>) /\ ToSet(<<>>) \subseteq ToSet(u.queue)
        BY DEF Once, ToSet
      <3>3. Follows(u, StartIfIdle(s, ok), n)
        BY <2>6, <3>1, <3>2
      <3>. QED
        BY <2>1, <3>3 DEF Follows
    <2>8. CASE live # <<>>
      <3>1. /\ Once(Tail(live)) /\ ToSet(Tail(live)) \subseteq ToSet(u.queue)
            /\ r \in ToSet(u.queue) /\ r \notin ToSet(Tail(live))
        BY <2>5, <2>8, OnceTail
      <3>2. StartIfIdle(s, ok) =
              IF r \in Unreadable
              THEN [started EXCEPT !.job = [r |-> r, out |-> "text", traced |-> FALSE]]
              ELSE IF (traced /\ Passed(u, "attention")) \/ ~ok THEN popped
              ELSE [started EXCEPT !.job = [r |-> r, out |-> "running", traced |-> traced]]
        BY <1>2, <2>3, <2>8 DEF StartIfIdle, TryStartInference, u, live
      <3>. HIDE DEF r
      <3>3. (traced \in BOOLEAN) /\ (u.daa => (traced <=> "trace" \in era))
        <4>1. CASE u.daa = TRUE
          BY <4>1 DEF Passed
        <4>2. CASE ~u.daa
          BY <4>2 DEF Passed
        <4>. QED
          BY <2>2, <4>1, <4>2 DEF Good, Sound
      <3>. HIDE DEF traced
      <3>4. ASSUME NEW t, NEW out, NEW tr \in BOOLEAN,
                   u.daa => (tr <=> "trace" \in era /\ r \notin Unreadable),
                   t = [started EXCEPT !.job = [r |-> r, out |-> out, traced |-> tr]]
            PROVE  Follows(u, t, n)
        <4>. DEFINE B == Blinded(u, r)
        <4>0. /\ u.blind \subseteq B
              /\ r \in B \/ r \notin Private \/ (tr <=> "trace" \in era /\ r \notin Unreadable)
          BY <3>4 DEF Blinded
        <4>. HIDE DEF B
        <4>1. /\ Differs(u, t, {"queue", "job", "blind"}) /\ t.queue = Tail(live)
              /\ t.job = [r |-> r, out |-> out, traced |-> tr] /\ t.blind = B
          BY <2>2, <3>4 DEF Differs, Fields, B
        <4>. HIDE DEF started, popped
        <4>. QED
          BY <2>2, <2>3, <3>1, <4>0, <4>1, NewJob
      <3>5. Follows(u, popped, n)
        BY <2>6, <3>1
      <3>. HIDE DEF started, popped
      <3>6. Follows(u, StartIfIdle(s, ok), n)
        <4>1. CASE r \in Unreadable
          BY <3>2, <3>4, <4>1
        <4>2. CASE r \notin Unreadable /\ ((traced /\ Passed(u, "attention")) \/ ~ok)
          BY <3>2, <3>5, <4>2
        <4>3. CASE r \notin Unreadable /\ ~((traced /\ Passed(u, "attention")) \/ ~ok)
          BY <3>2, <3>3, <3>4, <4>3
        <4>. QED
          BY <4>1, <4>2, <4>3
      <3>. QED
        BY <2>1, <3>6 DEF Follows
    <2>. QED
      BY <2>7, <2>8
  <1>. QED
    BY <1>1, <1>2

(* An answer that the node takes, unless it is blind, and whose reward is     *)
(* handed on.                                                                 *)
RightAnswer(s, a) == (a.blind \/ Fits(a)) /\ (a.r \in Rewarded /\ ~a.resumed => a.r \in s.txids)

\* What is to be shown of a client one of whose tasks is over; R is what is answered.
LEMMA OtherTasks ==
    ASSUME NEW s, NEW t, NEW n, Good(s, n), Differs(s, t, Other \cup {"job", "publish", "txids", "blind"}), t.daa = s.daa,
           JobIsKnown(t), PublishIsKnown(t), t.job # NoJob => t.job.r # t.publish.r,
           {t.job.r, t.publish.r} \subseteq {s.job.r, s.publish.r, "none"},
           NEW R, s.txids \ R \subseteq t.txids, R \cap (ToSet(s.queue) \cup {t.job.r, t.publish.r}) = {}
    PROVE  Follows(s, t, n)
  <1>0. Once(s.queue) /\ ToSet(s.queue) \subseteq Requests
    BY QueueIsApart
  <1>1. /\ DOMAIN t = Fields /\ t.queue = s.queue /\ t.seen = s.seen /\ t.stale = s.stale
        /\ t.bq = s.bq /\ t.bp = s.bp /\ t.asks = s.asks
    BY DEF Good, Sound, Differs, Fields, Other
  <1>2. AskedFor(t, n)
    BY <1>1 DEF Good, Sound, AskedFor
  <1>3. WorkedOnOnce(t)
    <2>1. \A i \in DOMAIN s.queue : s.queue[i] \in ToSet(s.queue)
      BY DEF ToSet
    <2>2. \A i \in DOMAIN s.queue : s.queue[i] \notin {s.job.r, s.publish.r, "none"}
      BY <1>0, <2>1, RequestAssumption DEF Good, Sound, WorkedOnOnce
    <2>. QED
      BY <1>0, <1>1, <2>2 DEF WorkedOnOnce
  <1>4. Seen(t)
    <2>1. UnderWay(t) \subseteq UnderWay(s) /\ R \cap UnderWay(t) = {}
      BY <1>1 DEF UnderWay
    <2>. QED
      BY <1>1, <2>1 DEF Good, Seen
  <1>. QED
    BY <1>1, <1>2, <1>3, <1>4 DEF Follows, Good, Sound

\* A published text is answered by its content id, a sealed one by itself, in the form of the era.
LEMMA ByCidIsRight ==
    ASSUME NEW s, NEW n, Good(s, n), s.publish # NoPublish
    PROVE  RightAnswer(s, Answer(s, s.publish.r, FALSE, FALSE))
  <1>. DEFINE r == s.publish.r
              a == Answer(s, r, FALSE, FALSE)
  <1>1. r \in Requests /\ (r \in s.blind \/ ~(r \in Private /\ "inline" \in era))
    BY DEF Good, Sound, PublishIsKnown
  <1>2. /\ a.r = r /\ a.signed = Passed(s, "v2") /\ a.inline = FALSE /\ a.resumed = (r \in s.stale)
        /\ a.traced = (FALSE /\ FALSE /\ Passed(s, "v2")) /\ a.blind = (~s.daa \/ r \in s.blind)
    BY DEF Answer
  <1>6. s.daa => Passed(s, "v2") = ("v2" \in era)
    BY DEF Passed
  <1>3. r \in UnderWay(s)
    BY <1>1, RequestAssumption DEF UnderWay
  <1>4. r \in Rewarded => r \in s.txids \cup s.stale
    BY <1>3 DEF Good, Seen
  <1>. HIDE DEF a
  <1>5. a.blind \/ Fits(a)
    BY <1>1, <1>2, <1>6 DEF Fits
  <1>. QED
    BY <1>2, <1>4, <1>5 DEF RightAnswer, a

LEMMA BodyIsRight ==
    ASSUME era \in Eras, NEW s, NEW n, Good(s, n), s.job # NoJob,
           s.job.r \in Private, Passed(s, "inline")
    PROVE  RightAnswer(s, Answer(s, s.job.r, TRUE, s.job.traced))
  <1>. DEFINE r == s.job.r
              a == Answer(s, r, TRUE, s.job.traced)
  <1>1. /\ r \in Requests /\ s.daa /\ "inline" \in era /\ ("trace" \in era => "v2" \in era)
        /\ r \in s.blind \/ (s.job.traced <=> "trace" \in era /\ r \notin Unreadable)
    BY EraAssumption DEF Good, Sound, JobIsKnown, Passed
  <1>2. /\ a.r = r /\ a.signed = Passed(s, "v2") /\ a.inline = TRUE /\ a.resumed = (r \in s.stale)
        /\ a.blind = (~s.daa \/ r \in s.blind)
    BY DEF Answer
  <1>7. Passed(s, "v2") = ("v2" \in era)
    BY <1>1 DEF Passed
  <1>3. r \in s.blind \/ a.traced = ("trace" \in era /\ r \notin Unreadable)
    <2>1. a.traced = (TRUE /\ s.job.traced /\ Passed(s, "v2"))
      BY DEF Answer
    <2>. QED
      BY <1>1, <2>1 DEF Passed
  <1>4. r \in UnderWay(s)
    BY <1>1, RequestAssumption DEF UnderWay
  <1>5. r \in Rewarded => r \in s.txids \cup s.stale
    BY <1>4 DEF Good, Seen
  <1>. HIDE DEF a
  <1>6. a.blind \/ Fits(a)
    BY <1>1, <1>2, <1>3, <1>7 DEF Fits
  <1>. QED
    BY <1>2, <1>5, <1>6 DEF RightAnswer, a

LEMMA PollIsGood ==
    ASSUME era \in Eras, NEW s, NEW n, Good(s, n)
    PROVE  LET p == PollInference(s) IN
           Follows(s, p.s, n) /\ \A a \in p.answers : RightAnswer(s, a)
  <1>. DEFINE p == PollInference(s)
              noPublish == [s EXCEPT !.publish = NoPublish, !.blind = @ \ {s.publish.r}]
              noJob == [s EXCEPT !.job = NoJob, !.blind = @ \ {s.job.r}]
              byCid == Answer(s, s.publish.r, FALSE, FALSE)
              body == Answer(s, s.job.r, TRUE, s.job.traced)
  <1>0. DOMAIN s = Fields /\ JobIsKnown(s) /\ PublishIsKnown(s) /\ WorkedOnOnce(s)
    BY DEF Good, Sound
  <1>1. s.job.r \notin ToSet(s.queue) /\ s.publish.r \notin ToSet(s.queue) /\ "none" \notin ToSet(s.queue)
    <2>1. ToSet(s.queue) \subseteq Requests
      BY QueueIsApart
    <2>. QED
      BY <2>1, QueueIsApart, RequestAssumption
  <1>2. NoJob.r = "none" /\ NoPublish.r = "none"
    BY DEF NoJob, NoPublish
  <1>3. /\ s.job # NoJob => s.job.r # "none" /\ s.job.r # s.publish.r
        /\ s.publish # NoPublish => s.publish.r # "none"
    BY <1>0, RequestAssumption DEF JobIsKnown, PublishIsKnown, WorkedOnOnce
  <1>4. Follows(s, s, n)
    BY DEF Follows
  <1>5. CASE s.publish # NoPublish
    <2>1. ASSUME NEW t, Differs(s, t, Other \cup {"publish", "txids", "blind"}), t.daa = s.daa,
                 t.publish = NoPublish, s.txids \ {s.publish.r} \subseteq t.txids,
                 s.blind \ {s.publish.r} \subseteq t.blind
          PROVE  Follows(s, t, n)
      <3>1. t.job = s.job /\ Differs(s, t, Other \cup {"job", "publish", "txids", "blind"})
        BY <1>0, <2>1 DEF Differs, Fields, Other
      <3>2. JobIsKnown(t) /\ PublishIsKnown(t)
        BY <1>0, <1>3, <2>1, <3>1 DEF JobIsKnown, PublishIsKnown
      <3>3. /\ t.job # NoJob => t.job.r # t.publish.r
            /\ {s.publish.r} \cap (ToSet(s.queue) \cup {t.job.r, t.publish.r}) = {}
            /\ {t.job.r, t.publish.r} \subseteq {s.job.r, s.publish.r, "none"}
        BY <1>1, <1>2, <1>3, <1>5, <2>1, <3>1
      <3>. QED
        BY <2>1, <3>1, <3>2, <3>3, OtherTasks
    <2>2. CASE s.publish.out = "running"
      <3>1. p = NotDone(s)
        BY <1>5, <2>2 DEF PollInference
      <3>. QED
        BY <1>4, <3>1 DEF NotDone
    <2>3. CASE s.publish.out = "cid"
      <3>1. p = Done(SubmitAiResponse(noPublish, byCid), {byCid})
        BY <1>5, <2>3 DEF PollInference
      <3>. DEFINE t == SubmitAiResponse(noPublish, byCid)
      <3>2. byCid.r = s.publish.r
        BY DEF Answer
      <3>. HIDE DEF byCid
      <3>3. /\ Differs(s, t, Other \cup {"publish", "txids", "blind"}) /\ t.daa = s.daa
            /\ t.publish = NoPublish /\ s.txids \ {s.publish.r} \subseteq t.txids
            /\ s.blind \ {s.publish.r} \subseteq t.blind
        BY <1>0, <3>2 DEF SubmitAiResponse, Differs, Fields, Other
      <3>. HIDE DEF t
      <3>4. p.s = t /\ p.answers = {byCid}
        BY <3>1 DEF Done, t
      <3>5. Follows(s, t, n)
        BY <2>1, <3>3
      <3>6. RightAnswer(s, byCid)
        BY <1>5, ByCidIsRight DEF byCid
      <3>. QED
        BY <3>4, <3>5, <3>6
    <2>4. CASE s.publish.out \notin {"running", "cid"}
      <3>1. p = Done(noPublish, {})
        BY <1>5, <2>4 DEF PollInference
      <3>2. /\ Differs(s, noPublish, Other \cup {"publish", "txids", "blind"}) /\ noPublish.daa = s.daa
            /\ noPublish.publish = NoPublish /\ s.txids \ {s.publish.r} \subseteq noPublish.txids
            /\ s.blind \ {s.publish.r} \subseteq noPublish.blind
        BY <1>0 DEF Differs, Fields, Other
      <3>3. Follows(s, noPublish, n)
        BY <2>1, <3>2
      <3>. HIDE DEF noPublish
      <3>. QED
        BY <3>1, <3>3 DEF Done
    <2>. QED
      BY <2>2, <2>3, <2>4
  <1>6. CASE s.publish = NoPublish /\ ~Harvested(s.job)
    <2>1. p = NotDone(s)
      BY <1>6 DEF PollInference
    <2>. QED
      BY <1>4, <2>1 DEF NotDone
  <1>7. CASE s.publish = NoPublish /\ Harvested(s.job)
    <2>0. s.job # NoJob
      BY <1>7 DEF Harvested, NoJob
    <2>1. ASSUME NEW t, Differs(s, t, Other \cup {"job", "publish", "txids", "blind"}), t.daa = s.daa, t.job = NoJob,
                 \/ t.publish = NoPublish /\ s.txids \ {s.job.r} \subseteq t.txids
                 \/ t.publish.r = s.job.r /\ PublishIsKnown(t) /\ s.txids \subseteq t.txids
          PROVE  Follows(s, t, n)
      <3>1. JobIsKnown(t) /\ PublishIsKnown(t) /\ (t.job # NoJob => t.job.r # t.publish.r)
        BY <2>1 DEF JobIsKnown, PublishIsKnown
      <3>2. {t.job.r, t.publish.r} \subseteq {s.job.r, s.publish.r, "none"}
        BY <1>2, <2>1
      <3>3. CASE t.publish = NoPublish /\ s.txids \ {s.job.r} \subseteq t.txids
        <4>1. {s.job.r} \cap (ToSet(s.queue) \cup {t.job.r, t.publish.r}) = {}
          BY <1>1, <1>2, <1>3, <2>0, <2>1, <3>3
        <4>. QED
          BY <2>1, <3>1, <3>2, <3>3, <4>1, OtherTasks
      <3>4. CASE t.publish.r = s.job.r /\ s.txids \subseteq t.txids
        <4>1. s.txids \ {} \subseteq t.txids /\ {} \cap (ToSet(s.queue) \cup {t.job.r, t.publish.r}) = {}
          BY <3>4
        <4>. QED
          BY <2>1, <3>1, <3>2, <4>1, OtherTasks
      <3>. QED
        BY <2>1, <3>3, <3>4
    <2>2. CASE s.job.out # "text"
      <3>1. p = Done(noJob, {})
        BY <1>7, <2>2 DEF PollInference
      <3>2. /\ Differs(s, noJob, Other \cup {"job", "publish", "txids", "blind"}) /\ noJob.daa = s.daa /\ noJob.job = NoJob
            /\ noJob.publish = NoPublish /\ s.txids \ {s.job.r} \subseteq noJob.txids
        BY <1>0, <1>7 DEF Differs, Fields, Other
      <3>3. Follows(s, noJob, n)
        BY <2>1, <3>2
      <3>. HIDE DEF noJob
      <3>. QED
        BY <3>1, <3>3 DEF Done
    <2>3. CASE s.job.out = "text" /\ s.job.r \in Private /\ Passed(s, "inline")
      <3>1. p = Done(SubmitAiResponse(noJob, body), {body})
        BY <1>7, <2>3 DEF PollInference
      <3>. DEFINE t == SubmitAiResponse(noJob, body)
      <3>2. body.r = s.job.r
        BY DEF Answer
      <3>. HIDE DEF body
      <3>3. /\ Differs(s, t, Other \cup {"job", "publish", "txids", "blind"}) /\ t.daa = s.daa /\ t.job = NoJob
            /\ t.publish = NoPublish /\ s.txids \ {s.job.r} \subseteq t.txids
        BY <1>0, <1>7, <3>2 DEF SubmitAiResponse, Differs, Fields, Other
      <3>. HIDE DEF t
      <3>4. p.s = t /\ p.answers = {body}
        BY <3>1 DEF Done, t
      <3>5. Follows(s, t, n)
        BY <2>1, <3>3
      <3>6. RightAnswer(s, body)
        BY <2>0, <2>3, BodyIsRight DEF body
      <3>. QED
        BY <3>4, <3>5, <3>6
    <2>4. CASE s.job.out = "text" /\ ~(s.job.r \in Private /\ Passed(s, "inline"))
      <3>. DEFINE B == Blinded(s, s.job.r)
                  t == [noJob EXCEPT !.publish = [r |-> s.job.r, out |-> "running"], !.blind = B]
      <3>1. p = NotDone(t)
        BY <1>7, <2>4 DEF PollInference
      <3>. HIDE DEF B
      <3>2. /\ Differs(s, t, Other \cup {"job", "publish", "txids", "blind"}) /\ t.daa = s.daa /\ t.job = NoJob
            /\ t.publish = [r |-> s.job.r, out |-> "running"] /\ s.txids \subseteq t.txids /\ t.blind = B
        BY <1>0 DEF Differs, Fields, Other
      <3>3. DOMAIN t.publish = {"r", "out"} /\ t.publish.r = s.job.r
        BY <3>2
      <3>. HIDE DEF t
      <3>4. PublishIsKnown(t)
        <4>1. s.job.r \in Requests
          BY <1>0, <2>0 DEF JobIsKnown
        <4>2. s.job.r \in B \/ ~(s.job.r \in Private /\ "inline" \in era)
          BY <2>4 DEF B, Blinded, Passed
        <4>. QED
          BY <3>2, <3>3, <4>1, <4>2 DEF PublishIsKnown
      <3>5. Follows(s, t, n)
        BY <2>1, <3>2, <3>3, <3>4
      <3>. QED
        BY <3>1, <3>5 DEF NotDone
    <2>. QED
      BY <2>2, <2>3, <2>4
  <1>. QED
    BY <1>5, <1>6, <1>7

-----------------------------------------------------------------------------
(* Steps *)

\* A client that is good while the chain, the connection and the answers stay as they are told of.
LEMMA ClientKeepsIt ==
    ASSUME IInv, ChainIsKnown', era' = era, up' = up, sent' = sent, tracked' = tracked,
           Sound(c', Len(chain')), up => Seen(c'), ~up => c'.publish = NoPublish
    PROVE  IInv'
  <1>1. (era \in Eras)' /\ (up \in BOOLEAN)'
    BY DEF IInv
  <1>2. Sound(c, Len(chain))'
    BY DEF Sound, JobIsKnown, PublishIsKnown, WorkedOnOnce, AskedFor
  <1>3. (up => Seen(c))' /\ (~up => c.publish = NoPublish)'
    BY DEF Seen, UnderWay
  <1>4. AnswerFitsEra' /\ RewardTracked'
    BY DEF IInv, AnswerFitsEra, RewardTracked, Fits
  <1>. QED
    BY <1>1, <1>2, <1>3, <1>4 DEF IInv

\* A handler that leaves a good client and sent right answers.
LEMMA HandlerKeepsIt ==
    ASSUME IInv, ChainIsKnown', era' = era, up' = up, up, NEW s, NEW answers, NEW lost,
           After(s, answers, lost), Good(s, Len(chain')), \A a \in answers : RightAnswer(c, a)
    PROVE  IInv'
  <1>0. /\ c' = s /\ sent' = sent \cup answers
        /\ tracked' = tracked \cup {r \in c.txids : \E a \in answers : a.r = r}
    BY DEF After
  <1>1. (era \in Eras)' /\ (up \in BOOLEAN)'
    BY DEF IInv
  <1>2. Sound(c, Len(chain))'
    BY <1>0 DEF Good, Sound, JobIsKnown, PublishIsKnown, WorkedOnOnce, AskedFor
  <1>3. (up => Seen(c))' /\ (~up => c.publish = NoPublish)'
    BY <1>0 DEF Good, Seen, UnderWay
  <1>4. \A a \in sent : (a.blind \/ Fits(a)) /\ (a.r \in Rewarded /\ ~a.resumed => a.r \in tracked)
    BY DEF IInv, AnswerFitsEra, RewardTracked
  <1>5. \A a \in sent \cup answers : a.blind \/ Fits(a)
    BY <1>4 DEF RightAnswer
  <1>6. AnswerFitsEra'
    BY <1>0, <1>5 DEF AnswerFitsEra, Fits
  <1>7. \A a \in answers : a.r \in Rewarded /\ ~a.resumed => a.r \in tracked'
    BY <1>0 DEF RightAnswer
  <1>8. RewardTracked'
    BY <1>0, <1>4, <1>7 DEF RewardTracked
  <1>. QED
    BY <1>1, <1>2, <1>3, <1>6, <1>8 DEF IInv

\* The handler of an added block.
LEMMA BlockAddedIsGood ==
    ASSUME Ample, NEW n \in Nat, Good(c, n), NEW b \in 1..(n + 1), NEW txs \in Seq(Txs),
           NEW full, ~full => b \in 1..n, NEW ok, OnBlockAdded(b, txs, full, ok)
    PROVE  \E s, lost : Good(s, n) /\ After(s, {}, lost)
  <1>. DEFINE s1 == BackfillSeed(c, b)
              s2 == BackfillPump(s1)
              s3 == ScanTxs(s2, txs)
              s4 == StartIfIdle(s3, ok)
              s5 == [s2 EXCEPT !.asks = @ \cup {<<b, "added">>}]
  <1>0. IF full THEN After(s4, {}, Evicted(c, s3) \cup GivenUp(s3, s4)) ELSE After(s5, {}, {})
    BY Zenon DEF OnBlockAdded
  <1>1. Follows(c, s1, n)
    BY SeedIsGood
  <1>. HIDE DEF s1
  <1>2. Follows(s1, s2, n)
    BY <1>1, PumpIsGood DEF Follows
  <1>. HIDE DEF s2
  <1>3. Follows(s2, s3, n)
    BY <1>2, ScanTxsIsGood DEF Follows
  <1>. HIDE DEF s3
  <1>4. Follows(s3, s4, n)
    BY <1>1, <1>2, <1>3, StartIsGood DEF Follows
  <1>5. ~full => Good(s5, n)
    <2>. SUFFICES ASSUME ~full PROVE Good(s5, n)
      OBVIOUS
    <2>1. Good(s2, n) /\ DOMAIN s2 = Fields /\ AskedFor(s2, n)
      BY <1>2 DEF Follows, Good, Sound
    <2>2. /\ Differs(s2, s5, Other \cup {"bq", "bp", "asks"}) /\ s5.daa = s2.daa
          /\ s5.bq = s2.bq /\ s5.bp = s2.bp /\ s5.asks = s2.asks \cup {<<b, "added">>}
      BY <2>1 DEF Differs, Fields, Other
    <2>. HIDE DEF s5
    <2>3. AskedFor(s5, n)
      BY <2>1, <2>2 DEF AskedFor
    <2>. QED
      BY <2>1, <2>2, <2>3, OtherBlocks DEF Follows
  <1>. HIDE DEF s4, s5
  <1>. QED
    BY <1>0, <1>4, <1>5 DEF Follows

LEMMA AnnounceKeepsIt ==
    ASSUME Ample, IInv, NEW ok \in BOOLEAN, Announce(ok)
    PROVE  IInv'
  <1>1. /\ up /\ OnBlockAdded(Len(chain) + 1, <<>>, TRUE, ok)
        /\ chain' = chain /\ era' = era /\ up' = up
    BY DEF Announce
  <1>2. Len(chain) \in Nat /\ Good(c, Len(chain)) /\ ChainIsKnown'
    BY <1>1 DEF IInv, ChainIsKnown, Good
  <1>3. PICK s, lost : Good(s, Len(chain)) /\ After(s, {}, lost)
    <2>1. Len(chain) + 1 \in 1..(Len(chain) + 1) /\ <<>> \in Seq(Txs)
      BY <1>2
    <2>. QED
      BY <1>1, <1>2, <2>1, BlockAddedIsGood
  <1>. QED
    BY <1>1, <1>2, <1>3, HandlerKeepsIt

LEMMA BlockComesKeepsIt ==
    ASSUME Ample, IInv, NEW t \in Txs, NEW full \in BOOLEAN, BlockComes(t, full)
    PROVE  IInv'
  <1>. DEFINE n == Len(chain) + 1
  <1>1. chain' = Append(chain, <<t>>) /\ era' = era /\ up' = up
    BY DEF BlockComes
  <1>2. Len(chain) \in Nat /\ Len(chain') = n /\ ChainIsKnown' /\ n \in Nat /\ <<t>> \in Seq(Txs)
    BY <1>1 DEF IInv, ChainIsKnown
  <1>3. Sound(c, n)
    BY <1>2, SoundOnLonger DEF IInv
  <1>4. CASE up /\ OnBlockAdded(Len(chain) + 1, <<t>>, full, TRUE)
    <2>1. up /\ Good(c, n) /\ OnBlockAdded(n, <<t>>, full, TRUE)
      BY <1>3, <1>4 DEF IInv, Good
    <2>2. n \in 1..n /\ n \in 1..(n + 1)
      BY <1>2
    <2>. HIDE DEF n
    <2>3. PICK s, lost : Good(s, n) /\ After(s, {}, lost)
      BY <1>2, <2>1, <2>2, BlockAddedIsGood
    <2>. QED
      BY <1>1, <1>2, <2>1, <2>3, HandlerKeepsIt
  <1>5. CASE ~up /\ UNCHANGED <<c, sent, tracked, dropped>>
    <2>1. Sound(c', Len(chain')) /\ (up => Seen(c')) /\ (~up => c'.publish = NoPublish)
      BY <1>2, <1>3, <1>5 DEF IInv
    <2>. QED
      BY <1>1, <1>2, <1>5, <2>1, ClientKeepsIt
  <1>. QED
    BY <1>4, <1>5 DEF BlockComes

LEMMA BlockKeepsIt ==
    ASSUME Ample, IInv, NEW ask \in c.asks, OnBlock(ask)
    PROVE  IInv'
  <1>. DEFINE n == Len(chain)
              b == ask[1]
              s1 == ScanTxs(c, chain[b])
              s2 == BackfillNoteBlock(s1, b)
              s3 == BackfillPump(s2)
              s4 == StartIfIdle(s3, TRUE)
              s5 == [s4 EXCEPT !.asks = @ \ {ask}]
  <1>0. /\ up /\ chain' = chain /\ era' = era /\ up' = up
        /\ After(s5, {}, Evicted(c, s1) \cup GivenUp(s3, s4))
    BY Zenon DEF OnBlock
  <1>1. n \in Nat /\ Good(c, n) /\ ChainIsKnown' /\ b \in 1..n /\ chain[b] \in Seq(Txs)
    <2>1. n \in Nat /\ Good(c, n) /\ ChainIsKnown' /\ chain \in Seq(Seq(Txs))
      BY <1>0 DEF IInv, ChainIsKnown, Good
    <2>2. b \in 1..n
      BY <2>1 DEF Good, Sound, AskedFor
    <2>. QED
      BY <2>1, <2>2
  <1>. HIDE DEF n, b
  <1>2. Follows(c, s1, n)
    BY <1>1, ScanTxsIsGood
  <1>. HIDE DEF s1
  <1>3. Follows(s1, s2, n)
    BY <1>1, <1>2, NoteBlockIsGood DEF Follows
  <1>. HIDE DEF s2
  <1>4. Follows(s2, s3, n)
    BY <1>1, <1>3, PumpIsGood DEF Follows
  <1>. HIDE DEF s3
  <1>5. Follows(s3, s4, n)
    BY <1>0, <1>2, <1>3, <1>4, StartIsGood DEF Follows
  <1>. HIDE DEF s4
  <1>6. Good(s4, n) /\ DOMAIN s4 = Fields /\ AskedFor(s4, n)
    BY <1>5 DEF Follows, Good, Sound
  <1>7. /\ Differs(s4, s5, Other \cup {"bq", "bp", "asks"}) /\ s5.daa = s4.daa
        /\ s5.bq = s4.bq /\ s5.bp = s4.bp /\ s5.asks = s4.asks \ {ask}
    BY <1>6 DEF Differs, Fields, Other
  <1>. HIDE DEF s5
  <1>8. AskedFor(s5, n)
    BY <1>6, <1>7 DEF AskedFor
  <1>9. Good(s5, n)
    BY <1>6, <1>7, <1>8, OtherBlocks DEF Follows
  <1>10. Good(s5, Len(chain'))
    BY <1>0, <1>9 DEF n
  <1>. QED
    BY <1>0, <1>1, <1>10, HandlerKeepsIt

LEMMA TemplateKeepsIt ==
    ASSUME Ample, IInv, NEW txs \in Templates, OnTemplate(txs)
    PROVE  IInv'
  <1>. DEFINE n == Len(chain)
              s1 == [c EXCEPT !.asked = FALSE, !.daa = TRUE]
              polled == PollInference(s1)
              s3 == ScanTxs(polled.s, txs)
              s4 == StartIfIdle(s3, TRUE)
              s5 == IF InferenceBusy(s4) THEN Pause(s4) ELSE [s4 EXCEPT !.flag = FALSE]
  <1>0. /\ up /\ chain' = chain /\ era' = era /\ up' = up
        /\ IF polled.ended THEN After(AskTemplate(polled.s), polled.answers, {})
           ELSE After(s5, polled.answers, Evicted(polled.s, s3) \cup GivenUp(s3, s4))
    BY Zenon DEF OnTemplate
  <1>1. /\ n \in Nat /\ Good(c, n) /\ ChainIsKnown' /\ era \in Eras /\ txs \in Seq(Txs)
        /\ DOMAIN c = Fields
    <2>1. txs \in Seq(Txs)
      <3>1. CASE txs = <<>>
        BY <3>1
      <3>2. ASSUME NEW r \in Requests, txs = <<Req(r)>> PROVE txs \in Seq(Txs)
        <4>1. Req(r) \in Txs
          BY DEF Txs
        <4>. QED
          BY <3>2, <4>1
      <3>. QED
        BY <3>1, <3>2 DEF Templates
    <2>. QED
      BY <1>0, <2>1 DEF IInv, ChainIsKnown, Good, Sound
  <1>2. Differs(c, s1, Other) /\ s1.daa /\ s1.txids = c.txids
    BY <1>1 DEF Differs, Fields, Other
  <1>. HIDE DEF s1, n
  <1>3. Good(s1, n)
    BY <1>1, <1>2, SoundElsewhere DEF Good
  <1>4. Follows(s1, polled.s, n) /\ \A a \in polled.answers : RightAnswer(s1, a)
    BY <1>1, <1>2, <1>3, PollIsGood
  <1>. HIDE DEF polled
  <1>5. \A a \in polled.answers : RightAnswer(c, a)
    BY <1>2, <1>4 DEF RightAnswer
  <1>6. Follows(polled.s, s3, n)
    BY <1>1, <1>4, ScanTxsIsGood DEF Follows
  <1>. HIDE DEF s3
  <1>7. Follows(s3, s4, n)
    BY <1>2, <1>4, <1>6, StartIsGood DEF Follows
  <1>. HIDE DEF s4
  <1>8. CASE polled.ended
    <2>. DEFINE t == AskTemplate(polled.s)
    <2>1. Differs(polled.s, t, Other)
      BY <1>4 DEF AskTemplate, Follows, Good, Sound, Differs, Fields, Other
    <2>. HIDE DEF t
    <2>2. Good(t, Len(chain'))
      BY <1>0, <1>4, <2>1, SoundElsewhere DEF Follows, Good, n
    <2>3. After(t, polled.answers, {})
      BY <1>0, <1>8 DEF t
    <2>. QED
      BY <1>0, <1>1, <1>5, <2>2, <2>3, HandlerKeepsIt
  <1>9. CASE ~polled.ended
    <2>1. Differs(s4, s5, Other)
      BY <1>7 DEF Pause, Follows, Good, Sound, Differs, Fields, Other
    <2>. HIDE DEF s5
    <2>2. Good(s5, Len(chain'))
      BY <1>0, <1>7, <2>1, SoundElsewhere DEF Follows, Good, n
    <2>. QED
      BY <1>0, <1>1, <1>5, <1>9, <2>2, HandlerKeepsIt
  <1>. QED
    BY <1>8, <1>9

\* What the invariant says nothing of may change.
LEMMA ElsewhereKeepsIt ==
    ASSUME IInv, Differs(c, c', Other), UNCHANGED <<chain, era, up, sent, tracked>>
    PROVE  IInv'
  <1>1. Sound(c', Len(chain)) /\ (Seen(c) => Seen(c'))
    BY SoundElsewhere DEF IInv
  <1>2. c'.publish = c.publish
    BY DEF IInv, Sound, Differs, Fields, Other
  <1>3. ChainIsKnown' /\ Len(chain') = Len(chain)
    BY DEF IInv, ChainIsKnown
  <1>4. Sound(c', Len(chain')) /\ (up => Seen(c')) /\ (~up => c'.publish = NoPublish)
    BY <1>1, <1>2, <1>3 DEF IInv
  <1>. QED
    BY <1>3, <1>4, ClientKeepsIt

LEMMA TickKeepsIt ==
    ASSUME IInv, NEW audit \in BOOLEAN, Tick(audit)
    PROVE  IInv'
  <1>. DEFINE n == Len(chain)
              polled == IF c.job # NoJob \/ c.publish # NoPublish THEN PollInference(c) ELSE NotDone(c)
              s1 == CASE polled.ended -> AskTemplate(polled.s)
                      [] ~polled.ended /\ c.replay = "text" -> AskTemplate([polled.s EXCEPT !.replay = "none"])
                      [] OTHER -> polled.s
              s2 == RetryAnswers(s1)
              s3 == IF audit THEN StartReplay(s2) ELSE s2
              lost == {i.a.r : i \in s1.inflight} \ {i.a.r : i \in s2.inflight}
  <1>0. up /\ chain' = chain /\ era' = era /\ up' = up /\ After(s3, polled.answers, lost)
    BY ZenonT(60) DEF Tick
  <1>1. n \in Nat /\ Good(c, n) /\ ChainIsKnown' /\ era \in Eras
    BY <1>0 DEF IInv, ChainIsKnown, Good
  <1>2. Good(polled.s, n) /\ \A a \in polled.answers : RightAnswer(c, a)
    <2>1. CASE c.job # NoJob \/ c.publish # NoPublish
      BY <1>0, <1>1, <2>1, PollIsGood DEF Follows
    <2>2. CASE ~(c.job # NoJob \/ c.publish # NoPublish)
      BY <1>1, <2>2 DEF NotDone
    <2>. QED
      BY <2>1, <2>2
  <1>. HIDE DEF n, polled
  <1>3. ASSUME NEW s, NEW t, Good(s, n), Differs(s, t, Other) PROVE Good(t, n)
    BY <1>3, SoundElsewhere DEF Good
  <1>4. ASSUME NEW s, Good(s, n)
        PROVE  /\ Good(AskTemplate(s), n) /\ Good([s EXCEPT !.replay = "none"], n)
               /\ Good(RetryAnswers(s), n) /\ Good(StartReplay(s), n)
    <2>0. DOMAIN s = Fields
      BY <1>4 DEF Good, Sound
    <2>1. Differs(s, AskTemplate(s), Other)
      BY <2>0 DEF AskTemplate, Differs, Fields, Other
    <2>2. Differs(s, [s EXCEPT !.replay = "none"], Other)
      BY <2>0 DEF Differs, Fields, Other
    <2>3. Differs(s, RetryAnswers(s), Other)
      BY <2>0 DEF RetryAnswers, Differs, Fields, Other
    <2>4. Differs(s, StartReplay(s), Other)
      BY <2>0 DEF StartReplay, Pause, Differs, Fields, Other
    <2>5. Good(AskTemplate(s), n)
      BY <1>3, <1>4, <2>1
    <2>6. Good([s EXCEPT !.replay = "none"], n)
      BY <1>3, <1>4, <2>2
    <2>7. Good(RetryAnswers(s), n)
      BY <1>3, <1>4, <2>3
    <2>8. Good(StartReplay(s), n)
      BY <1>3, <1>4, <2>4
    <2>. QED
      BY <2>5, <2>6, <2>7, <2>8
  <1>5. Good(s1, n)
    <2>1. CASE polled.ended
      <3>1. s1 = AskTemplate(polled.s)
        BY <2>1
      <3>. QED
        BY <1>2, <1>4, <3>1
    <2>2. CASE ~polled.ended /\ c.replay = "text"
      <3>1. s1 = AskTemplate([polled.s EXCEPT !.replay = "none"])
        BY <2>2
      <3>2. Good([polled.s EXCEPT !.replay = "none"], n)
        BY <1>2, <1>4
      <3>. QED
        BY <1>4, <3>1, <3>2
    <2>3. CASE ~polled.ended /\ c.replay # "text"
      <3>1. s1 = polled.s
        BY <2>3
      <3>. QED
        BY <1>2, <3>1
    <2>. QED
      BY <2>1, <2>2, <2>3
  <1>. HIDE DEF s1
  <1>6. Good(s2, n)
    BY <1>4, <1>5
  <1>. HIDE DEF s2
  <1>7. Good(s3, n)
    BY <1>4, <1>6
  <1>. HIDE DEF s3, lost
  <1>8. Good(s3, Len(chain'))
    BY <1>0, <1>7 DEF n
  <1>. QED
    BY <1>0, <1>1, <1>2, <1>8, HandlerKeepsIt

\* Drop parks the queue and the running inference.
LEMMA DisconnectKeepsIt ==
    ASSUME IInv, Disconnect
    PROVE  IInv'
  <1>. DEFINE s == [Fresh EXCEPT !.queue = c.queue, !.job = c.job, !.blind = c.blind \cap {c.job.r}]
  <1>0. /\ c' = s /\ up' = FALSE /\ chain' = chain /\ era' = era /\ sent' = sent /\ tracked' = tracked
        /\ Sound(c, Len(chain)) /\ Len(chain) \in Nat
    BY DEF Disconnect, IInv, ChainIsKnown
  <1>1. /\ DOMAIN s = Fields /\ s.queue = c.queue /\ s.job = c.job /\ s.publish = NoPublish
        /\ s.bq = <<>> /\ s.bp = {} /\ s.asks = {} /\ s.blind = c.blind \cap {c.job.r}
    BY DEF Fresh, Fields
  <1>. HIDE DEF s
  <1>2. JobIsKnown(s) /\ PublishIsKnown(s)
    BY <1>0, <1>1 DEF Sound, JobIsKnown, PublishIsKnown
  <1>3. WorkedOnOnce(s)
    <2>1. Once(c.queue) /\ \A i \in DOMAIN c.queue : c.queue[i] # c.job.r /\ c.queue[i] \in ToSet(c.queue)
      BY <1>0 DEF Sound, WorkedOnOnce, ToSet
    <2>2. "none" \notin ToSet(c.queue)
      BY <2>1, OnceRequests
    <2>3. c.job # NoJob => c.job.r # "none"
      BY <1>0, RequestAssumption DEF Sound, JobIsKnown
    <2>. QED
      BY <1>1, <2>1, <2>2, <2>3 DEF WorkedOnOnce, NoPublish
  <1>4. AskedFor(s, Len(chain))
    BY <1>1 DEF AskedFor
  <1>5. Sound(s, Len(chain))
    BY <1>1, <1>2, <1>3, <1>4 DEF Sound
  <1>6. Sound(c, Len(chain))'
    BY <1>0, <1>5 DEF Sound, JobIsKnown, PublishIsKnown, WorkedOnOnce, AskedFor
  <1>7. (AnswerFitsEra /\ RewardTracked /\ ChainIsKnown /\ era \in Eras)'
    BY <1>0 DEF IInv, AnswerFitsEra, RewardTracked, Fits, ChainIsKnown
  <1>8. (up \in BOOLEAN /\ (up => Seen(c)) /\ (~up => c.publish = NoPublish))'
    BY <1>0, <1>1
  <1>. QED
    BY <1>6, <1>7, <1>8 DEF IInv

\* A new connection takes up what was parked, as seen.
LEMMA ConnectKeepsIt ==
    ASSUME IInv, Connect
    PROVE  IInv'
  <1>. DEFINE held == ToSet(c.queue) \cup ({c.job.r} \cap Requests)
              s == RestoreParked(c)
  <1>0. /\ c' = s /\ up' = TRUE /\ chain' = chain /\ era' = era /\ sent' = sent /\ tracked' = tracked
        /\ Sound(c, Len(chain)) /\ c.publish = NoPublish
    BY DEF Connect, IInv
  <1>1. /\ DOMAIN s = Fields /\ s.queue = c.queue /\ s.job = c.job /\ s.publish = NoPublish
        /\ s.bq = c.bq /\ s.bp = c.bp /\ s.asks = c.asks
        /\ s.seen = held /\ s.stale = held \cap Rewarded /\ s.blind = c.blind
    BY <1>0 DEF RestoreParked, Sound, Fields
  <1>. HIDE DEF s
  <1>2. Sound(s, Len(chain))
    BY <1>0, <1>1 DEF Sound, JobIsKnown, PublishIsKnown, WorkedOnOnce, AskedFor
  <1>3. Seen(s)
    <2>1. ToSet(c.queue) \subseteq Requests
      BY <1>0, OnceRequests DEF Sound, WorkedOnOnce
    <2>2. c.job.r \in Requests \cup {"none"}
      BY <1>0 DEF Sound, JobIsKnown, NoJob
    <2>3. UnderWay(s) \subseteq held
      BY <1>1, <2>2 DEF UnderWay, NoPublish
    <2>. QED
      BY <1>1, <2>1, <2>3 DEF Seen
  <1>4. Sound(c, Len(chain))'
    BY <1>0, <1>2 DEF Sound, JobIsKnown, PublishIsKnown, WorkedOnOnce, AskedFor
  <1>5. (AnswerFitsEra /\ RewardTracked /\ ChainIsKnown /\ era \in Eras)'
    BY <1>0 DEF IInv, AnswerFitsEra, RewardTracked, Fits, ChainIsKnown
  <1>6. (up \in BOOLEAN /\ (up => Seen(c)) /\ (~up => c.publish = NoPublish))'
    BY <1>0, <1>3 DEF Seen, UnderWay
  <1>. QED
    BY <1>4, <1>5, <1>6 DEF IInv

\* A task of the same request.
LEMMA TaskKeepsIt ==
    ASSUME IInv, Differs(c, c', {"job", "publish"}), UNCHANGED <<chain, era, up, sent, tracked>>,
           c'.job.r = c.job.r, c'.publish.r = c.publish.r, c.job = NoJob => c'.job = NoJob,
           JobIsKnown(c'), PublishIsKnown(c'), ~up => c'.publish = NoPublish
    PROVE  IInv'
  <1>0. Sound(c, Len(chain)) /\ (up => Seen(c)) /\ ChainIsKnown' /\ Len(chain') = Len(chain)
    BY DEF IInv, ChainIsKnown
  <1>1. /\ DOMAIN c' = Fields /\ c'.queue = c.queue /\ c'.seen = c.seen /\ c'.txids = c.txids
        /\ c'.bq = c.bq /\ c'.bp = c.bp /\ c'.asks = c.asks /\ c'.stale = c.stale /\ c'.blind = c.blind
    BY <1>0 DEF Sound, Differs, Fields
  <1>2. Sound(c', Len(chain'))
    BY <1>0, <1>1 DEF Sound, WorkedOnOnce, AskedFor
  <1>3. up => Seen(c')
    BY <1>0, <1>1 DEF Seen, UnderWay
  <1>. QED
    BY <1>0, <1>2, <1>3, ClientKeepsIt

LEMMA TasksKeepIt ==
    ASSUME IInv, InferenceEnds \/ PublishEnds
    PROVE  IInv'
  <1>0. DOMAIN c = Fields /\ JobIsKnown(c) /\ PublishIsKnown(c) /\ (~up => c.publish = NoPublish)
    BY DEF IInv, Sound
  <1>1. CASE InferenceEnds
    <2>1. PICK out : c' = [c EXCEPT !.job.out = out]
      BY <1>1 DEF InferenceEnds
    <2>2. c.job # NoJob /\ UNCHANGED <<chain, era, up, sent, tracked>>
      BY <1>1 DEF InferenceEnds, NoJob
    <2>3. /\ Differs(c, c', {"job", "publish"}) /\ c'.publish = c.publish /\ c'.blind = c.blind
          /\ c'.job = [c.job EXCEPT !.out = out]
      BY <1>0, <2>1 DEF Differs, Fields
    <2>4. DOMAIN c.job = {"r", "out", "traced"}
      BY <1>0, <2>2 DEF JobIsKnown
    <2>5. DOMAIN c'.job = {"r", "out", "traced"} /\ c'.job.r = c.job.r /\ c'.job.traced = c.job.traced
      BY <2>3, <2>4
    <2>6. JobIsKnown(c') /\ PublishIsKnown(c')
      BY <1>0, <2>2, <2>3, <2>5 DEF JobIsKnown, PublishIsKnown
    <2>. QED
      BY <1>0, <2>2, <2>3, <2>5, <2>6, TaskKeepsIt
  <1>2. CASE PublishEnds
    <2>1. PICK out : c' = [c EXCEPT !.publish.out = out]
      BY <1>2 DEF PublishEnds
    <2>2. c.publish # NoPublish /\ UNCHANGED <<chain, era, up, sent, tracked>>
      BY <1>2 DEF PublishEnds, NoPublish
    <2>3. /\ Differs(c, c', {"job", "publish"}) /\ c'.job = c.job /\ c'.blind = c.blind
          /\ c'.publish = [c.publish EXCEPT !.out = out]
      BY <1>0, <2>1 DEF Differs, Fields
    <2>4. DOMAIN c.publish = {"r", "out"}
      BY <1>0, <2>2 DEF PublishIsKnown
    <2>5. DOMAIN c'.publish = {"r", "out"} /\ c'.publish.r = c.publish.r
      BY <2>3, <2>4
    <2>6. JobIsKnown(c') /\ PublishIsKnown(c')
      BY <1>0, <2>2, <2>3, <2>5 DEF JobIsKnown, PublishIsKnown
    <2>. QED
      BY <1>0, <2>2, <2>3, <2>5, <2>6, TaskKeepsIt
  <1>. QED
    BY <1>1, <1>2

\* A step of the session keeps the invariant.
LEMMA NextKeepsIt ==
    ASSUME Ample, IInv, [Next]_vars
    PROVE  IInv'
  <1>0. DOMAIN c = Fields
    BY DEF IInv, Sound
  <1>1. ASSUME NEW ok \in BOOLEAN, Announce(ok) PROVE IInv'
    BY <1>1, AnnounceKeepsIt
  <1>2. ASSUME NEW t \in Txs, NEW full \in BOOLEAN, BlockComes(t, full) PROVE IInv'
    BY <1>2, BlockComesKeepsIt
  <1>3. ASSUME NEW ask \in c.asks, OnBlock(ask) PROVE IInv'
    BY <1>3, BlockKeepsIt
  <1>4. ASSUME NEW txs \in Templates, OnTemplate(txs) PROVE IInv'
    BY <1>4, TemplateKeepsIt
  <1>5. CASE NewBlockTemplate
    <2>1. Differs(c, c', Other) /\ UNCHANGED <<chain, era, up, sent, tracked>>
      BY <1>0, <1>5 DEF NewBlockTemplate, AskTemplate, Differs, Fields, Other
    <2>. QED
      BY <2>1, ElsewhereKeepsIt
  <1>6. ASSUME NEW audit \in BOOLEAN, Tick(audit) PROVE IInv'
    BY <1>6, TickKeepsIt
  <1>7. ASSUME NEW i \in c.inflight, OnSubmitResponse(i) \/ NodeJudges(i) PROVE IInv'
    <2>1. PICK f : c' = [c EXCEPT !.inflight = f]
      BY <1>7 DEF OnSubmitResponse, NodeJudges
    <2>2. Differs(c, c', Other)
      BY <1>0, <2>1 DEF Differs, Fields, Other
    <2>3. UNCHANGED <<chain, era, up, sent, tracked>>
      BY <1>7 DEF OnSubmitResponse, NodeJudges
    <2>. QED
      BY <2>2, <2>3, ElsewhereKeepsIt
  <1>8. CASE ReplayEnds
    <2>1. Differs(c, c', Other) /\ UNCHANGED <<chain, era, up, sent, tracked>>
      BY <1>0, <1>8 DEF ReplayEnds, Differs, Fields, Other
    <2>. QED
      BY <2>1, ElsewhereKeepsIt
  <1>9. CASE UNCHANGED vars
    <2>1. Differs(c, c', Other) /\ UNCHANGED <<chain, era, up, sent, tracked>>
      BY <1>9 DEF vars, Differs
    <2>. QED
      BY <2>1, ElsewhereKeepsIt
  <1>. QED
    BY <1>1, <1>2, <1>3, <1>4, <1>5, <1>6, <1>7, <1>8, <1>9,
       DisconnectKeepsIt, ConnectKeepsIt, TasksKeepIt DEF Next

\* A session starts with nothing under way.
LEMMA InitIsGood ==
    ASSUME Init
    PROVE  IInv
  <1>1. /\ chain = <<>> /\ era \in Eras /\ up = TRUE /\ c = Fresh /\ sent = {} /\ Len(chain) = 0
    BY DEF Init
  <1>2. /\ DOMAIN c = Fields /\ c.queue = <<>> /\ c.seen = {} /\ c.job = NoJob /\ c.publish = NoPublish
        /\ c.bq = <<>> /\ c.bp = {} /\ c.asks = {}
    BY <1>1 DEF Fresh, Fields
  <1>3. JobIsKnown(c) /\ PublishIsKnown(c) /\ WorkedOnOnce(c) /\ AskedFor(c, Len(chain))
    BY <1>2 DEF JobIsKnown, PublishIsKnown, WorkedOnOnce, AskedFor, Once
  <1>4. UnderWay(c) = {}
    BY <1>2 DEF UnderWay, NoJob, NoPublish, ToSet
  <1>5. Seen(c)
    BY <1>2, <1>4 DEF Seen
  <1>6. ChainIsKnown
    BY <1>1 DEF ChainIsKnown
  <1>. QED
    BY <1>1, <1>2, <1>3, <1>5, <1>6 DEF IInv, Sound, AnswerFitsEra, RewardTracked

LEMMA InvIsRight ==
    ASSUME IInv
    PROVE  AnswersAreRight
  <1>1. Once(c.queue) /\ WorkedOnOnce(c) /\ JobIsKnown(c)
    BY DEF IInv, Sound, WorkedOnOnce
  <1>2. IsInjective(c.queue)
    BY <1>1 DEF Once, IsInjective
  <1>3. c.job.r \notin ToSet(c.queue) /\ c.publish.r \notin ToSet(c.queue)
    BY <1>1 DEF WorkedOnOnce, ToSet
  <1>4. c.job.r = c.publish.r => c.job = NoJob
    BY <1>1 DEF WorkedOnOnce
  <1>. QED
    BY <1>2, <1>3, <1>4 DEF IInv, AnswersAreRight, NoDoubleWork

\* A request of a solo session is under way at most once (queued, running or being published), and
\* every answer has its reward handed to the escrow watcher and the form its era asks for (unless the
\* connection that started, harvested or submitted it knew no score yet), whatever blocks, templates,
\* the backfill and reconnections offer again and in whatever order, for any chain and any losses.
\* The hypothesis: there are no more requests than MAX_AI_SEEN_IDS, since a full set of ids is rebuilt
\* from the queue and forgets the request that runs.
THEOREM SessionAnswersRight ==
    ASSUME Ample
    PROVE  Spec => []AnswersAreRight
  <1>1. Init => IInv
    BY InitIsGood
  <1>2. IInv /\ [Next]_vars => IInv'
    BY NextKeepsIt
  <1>3. IInv => AnswersAreRight
    BY InvIsRight
  <1>. QED
    BY <1>1, <1>2, <1>3, PTL DEF Spec
=============================================================================

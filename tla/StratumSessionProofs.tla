------------------------ MODULE StratumSessionProofs ------------------------
(***************************************************************************)
(* What a pool session keeps agrees with what is under way, for every       *)
(* number of requests, sessions, lines and queued openings: the pause with  *)
(* the work on the card, the response waited for with the pool's answer,    *)
(* the encoding of proofs with what the pool refused.                      *)
(***************************************************************************)
EXTENDS StratumSession, FiniteSetTheorems, TLAPS

-----------------------------------------------------------------------------
(* The inductive invariant, as predicates of a handler s *)

Fields == {"no", "id", "template", "wire", "aux", "telemetry", "b64", "b64ids", "busy", "flag",
           "aiPending", "openings", "tasks", "results", "inProgress", "owed", "swallowed"}

TaskFields == {"kind", "r", "id", "phase"}
Answering == {"ai", "traced"}
Replying == {"chat", "challenge", "opening"}

(* Tasks have a kind of their own; only those that answer go on to send.     *)
TasksAreKnown(s) ==
    \A t \in s.tasks :
        /\ DOMAIN t = TaskFields
        /\ t.kind \in Answering \cup Replying \cup {"self", "task"}
        /\ t.phase \in {"gpu", "send"}
        /\ t.phase = "send" => t.kind \in Answering \cup Replying

(* One task at most is on the card, and the pause says so.                   *)
CardIsTold(s) ==
    /\ \A t, u \in s.tasks : t.phase = "gpu" /\ u.phase = "gpu" => t = u
    /\ s.busy \in BOOLEAN /\ s.flag \in BOOLEAN
    /\ s.busy <=> \E t \in s.tasks : t.phase = "gpu"
    /\ s.flag <=> \E t \in s.tasks : t.phase = "gpu"

(* Ids are given once: that of the response waited for is not an auxiliary   *)
(* request's, and it was given before the next one.                         *)
IdsAreGivenOnce(s) ==
    /\ s.no \in Nat /\ s.id \in Nat /\ s.aiPending \in Nat
    /\ s.aiPending # None => s.aiPending < s.id /\ s.aiPending \notin s.aux
    /\ \A i \in s.aux : i \in Nat /\ i < s.id

(* PendingIsAwaited, with the kind of the task that is to send the response.  *)
AnswerIsUnderWay(s) ==
    s.aiPending # None =>
        \/ s.aiPending \in DOMAIN s.wire
        \/ \E t \in s.tasks : t.phase = "send" /\ t.id = s.aiPending /\ t.kind \in Answering
        \/ s.aiPending \in s.swallowed

(* The subscription is the line of id 0.                                     *)
SubscribesFirst(s) == \A i \in DOMAIN s.wire : s.wire[i] = "subscribe" => i = 0

Sound(s) ==
    /\ DOMAIN s = Fields
    /\ TasksAreKnown(s)
    /\ CardIsTold(s)
    /\ IdsAreGivenOnce(s)
    /\ AnswerIsUnderWay(s)
    /\ SubscribesFirst(s)

(* The shares p of the process come from this session or from earlier ones;   *)
(* those of the session, while it is open, have ids of their own.            *)
SharesAreOurs(s, p, open) ==
    \A i \in DOMAIN p :
        /\ p[i] \in Nat /\ p[i] <= s.no
        /\ open /\ p[i] = s.no =>
             i \in Nat /\ i < s.id /\ (s.aiPending # None => i # s.aiPending)

(* A pool that refused base64 proofs is sent none.                           *)
EncodingIsSettled(s, no64) == no64 \in BOOLEAN /\ s.b64 \in BOOLEAN /\ (no64 => ~s.b64)

(* Every base64 proof the pool has not answered is known to be one, and no    *)
(* more of them were sent than lines.                                       *)
ProofsAreKnown(s, n) ==
    /\ n \in Nat /\ n <= MaxLines
    /\ IsFiniteSet(s.b64ids) /\ Cardinality(s.b64ids) + n <= MaxLines
    /\ \A i \in DOMAIN s.wire : s.wire[i] = "b64" => i \in s.b64ids

IInv ==
    /\ Sound(c)
    /\ SharesAreOurs(c, pending, up)
    /\ EncodingIsSettled(c, refused)

(* What is needed besides for base64 proofs.                                 *)
BInv == ProofsAreKnown(c, left) /\ costly = FALSE

-----------------------------------------------------------------------------
(* Lemmas about the operations on a handler *)

(* t is s but for the fields F.                                              *)
Differs(s, t, F) == DOMAIN t = DOMAIN s /\ \A f \in DOMAIN s \ F : t[f] = s[f]

(* A handler that differs in other fields only is as sound.                  *)
LEMMA SoundElsewhere ==
    ASSUME NEW s, NEW t, Sound(s),
           Differs(s, t, {"template", "openings", "telemetry", "results", "inProgress", "owed",
                          "b64", "b64ids"})
    PROVE  Sound(t)
  <1>1. /\ DOMAIN t = Fields
        /\ t.tasks = s.tasks /\ t.busy = s.busy /\ t.flag = s.flag
        /\ t.no = s.no /\ t.id = s.id /\ t.aux = s.aux /\ t.aiPending = s.aiPending
        /\ t.wire = s.wire /\ t.swallowed = s.swallowed
    BY DEF Differs, Sound, Fields
  <1>2. TasksAreKnown(t)
    BY <1>1 DEF Sound, TasksAreKnown
  <1>3. CardIsTold(t)
    BY <1>1, Zenon DEF Sound, CardIsTold
  <1>4. IdsAreGivenOnce(t)
    BY <1>1 DEF Sound, IdsAreGivenOnce
  <1>5. AnswerIsUnderWay(t) /\ SubscribesFirst(t)
    BY <1>1 DEF Sound, AnswerIsUnderWay, SubscribesFirst
  <1>. QED
    BY <1>1, <1>2, <1>3, <1>4, <1>5 DEF Sound

(* t is as sound as s, and neither ids nor base64 proofs were added.          *)
Benign(s, t) ==
    /\ Sound(t)
    /\ t.no = s.no /\ t.id = s.id /\ t.aiPending = s.aiPending
    /\ t.b64 = s.b64 /\ t.b64ids = s.b64ids
    /\ \A i \in DOMAIN t.wire : t.wire[i] = "b64" => i \in DOMAIN s.wire /\ s.wire[i] = "b64"

(* Benign changes follow one another.                                        *)
LEMMA BenignIsTransitive ==
    ASSUME NEW s, NEW t, NEW u, Benign(s, t), Benign(t, u)
    PROVE  Benign(s, u)
  BY DEF Benign

(* No change is benign.                                                      *)
LEMMA BenignIsReflexive ==
    ASSUME NEW s, Sound(s)
    PROVE  Benign(s, s)
  BY DEF Benign

(* Changes of what the invariant does not mention.                           *)
LEMMA ElsewhereIsBenign ==
    ASSUME NEW s, NEW t, Sound(s),
           Differs(s, t, {"template", "openings", "telemetry", "results", "inProgress", "owed"})
    PROVE  Benign(s, t)
  <1>1. /\ t.no = s.no /\ t.id = s.id /\ t.aiPending = s.aiPending
        /\ t.b64 = s.b64 /\ t.b64ids = s.b64ids /\ t.wire = s.wire
    BY DEF Differs, Sound, Fields
  <1>2. Differs(s, t, {"template", "openings", "telemetry", "results", "inProgress", "owed",
                       "b64", "b64ids"})
    BY DEF Differs
  <1>. QED
    BY <1>1, <1>2, SoundElsewhere DEF Benign

(* A line goes out that is no subscription.                                  *)
LEMMA WireGrows ==
    ASSUME NEW s, NEW t, NEW ids, NEW v, Sound(s), v # "subscribe",
           Differs(s, t, {"wire", "owed"}), t.wire = With(s.wire, ids, v)
    PROVE  /\ Sound(t)
           /\ v # "b64" => Benign(s, t)
  <1>1. /\ DOMAIN t = Fields
        /\ t.tasks = s.tasks /\ t.busy = s.busy /\ t.flag = s.flag
        /\ t.no = s.no /\ t.id = s.id /\ t.aux = s.aux /\ t.aiPending = s.aiPending
        /\ t.swallowed = s.swallowed /\ t.b64ids = s.b64ids /\ t.b64 = s.b64
    BY DEF Differs, Sound, Fields
  <1>2. /\ DOMAIN t.wire = DOMAIN s.wire \cup ids
        /\ \A i \in ids : t.wire[i] = v
        /\ \A i \in DOMAIN s.wire \ ids : t.wire[i] = s.wire[i]
    BY DEF With
  <1>3. TasksAreKnown(t)
    BY <1>1 DEF Sound, TasksAreKnown
  <1>4. CardIsTold(t)
    BY <1>1, Zenon DEF Sound, CardIsTold
  <1>5. IdsAreGivenOnce(t)
    BY <1>1 DEF Sound, IdsAreGivenOnce
  <1>6. AnswerIsUnderWay(t)
    BY <1>1, <1>2 DEF Sound, AnswerIsUnderWay
  <1>7. SubscribesFirst(t)
    BY <1>2 DEF Sound, SubscribesFirst
  <1>8. Sound(t)
    BY <1>1, <1>3, <1>4, <1>5, <1>6, <1>7 DEF Sound
  <1>9. ASSUME v # "b64"
        PROVE  Benign(s, t)
    BY <1>1, <1>2, <1>8, <1>9 DEF Benign
  <1>. QED
    BY <1>8, <1>9

(* Openings are answered, with their body or an error.                        *)
LEMMA AnswersAreBenign ==
    ASSUME NEW s, NEW ids, Sound(s)
    PROVE  Benign(s, AnswerOpenings(s, ids))
  <1>. DEFINE t == AnswerOpenings(s, ids)
  <1>1. DOMAIN s = Fields
    BY DEF Sound
  <1>2. Differs(s, t, {"wire", "owed"}) /\ t.wire = With(s.wire, ids, "aux")
    BY <1>1 DEF AnswerOpenings, Differs, Fields
  <1>. QED
    BY <1>2, WireGrows

(* A task takes the card when it is free.                                    *)
LEMMA SpawnIsBenign ==
    ASSUME NEW s, Sound(s), ~s.busy, NEW r, NEW i,
           NEW k \in Answering \cup Replying \cup {"self", "task"}
    PROVE  Benign(s, Spawn(s, Task(k, r, i)))
  <1>. DEFINE x == Task(k, r, i)
              t == Spawn(s, x)
  <1>1. DOMAIN s = Fields
    BY DEF Sound
  <1>2. /\ DOMAIN t = Fields
        /\ t.tasks = s.tasks \cup {x} /\ t.busy = TRUE /\ t.flag = TRUE
        /\ t.no = s.no /\ t.id = s.id /\ t.aux = s.aux /\ t.aiPending = s.aiPending
        /\ t.wire = s.wire /\ t.swallowed = s.swallowed
        /\ t.b64 = s.b64 /\ t.b64ids = s.b64ids
    BY <1>1 DEF Spawn, Pause, Fields
  <1>3. DOMAIN x = TaskFields /\ x.kind = k /\ x.phase = "gpu"
    BY DEF Task, TaskFields
  <1>. HIDE DEF x, t
  <1>4. TasksAreKnown(t)
    BY <1>2, <1>3 DEF Sound, TasksAreKnown
  <1>5. CardIsTold(t)
    <2>1. \A u \in s.tasks : u.phase # "gpu"
      BY DEF Sound, CardIsTold
    <2>2. \A u \in t.tasks : u.phase = "gpu" <=> u = x
      BY <1>2, <1>3, <2>1
    <2>3. x \in t.tasks
      BY <1>2
    <2>. QED
      BY <1>2, <2>2, <2>3, Zenon DEF CardIsTold
  <1>6. IdsAreGivenOnce(t)
    BY <1>2 DEF Sound, IdsAreGivenOnce
  <1>7. AnswerIsUnderWay(t) /\ SubscribesFirst(t)
    BY <1>2 DEF Sound, AnswerIsUnderWay, SubscribesFirst
  <1>. QED
    BY <1>2, <1>4, <1>5, <1>6, <1>7 DEF Sound, Benign, t, x

(* drive_openings answers what waited too long, and starts one on a free card.  *)
LEMMA DriveIsBenign ==
    ASSUME NEW s, Sound(s)
    PROVE  Benign(s, DriveOpenings(s))
  <1>. DEFINE t == AnswerOpenings(s, Late(s.openings))
              rest == SelectSeq(s.openings, LAMBDA o : ~o.late)
              o == Head(rest)
              u == [t EXCEPT !.openings = Tail(rest)]
  <1>1. Benign(s, t)
    BY AnswersAreBenign
  <1>2. t.busy = s.busy
    BY DEF AnswerOpenings, Sound, Fields
  <1>3. DriveOpenings(s) =
          IF rest = <<>> \/ s.busy THEN [t EXCEPT !.openings = rest]
          ELSE IF o.r \in kept THEN Spawn(u, Task("opening", o.r, o.id))
          ELSE AnswerOpening(u, o.id)
    BY Zenon DEF DriveOpenings
  <1>4. ASSUME NEW q
        PROVE  Benign(t, [t EXCEPT !.openings = q]) /\ [t EXCEPT !.openings = q].busy = t.busy
    <2>. HIDE DEF t
    <2>1. Sound(t) /\ DOMAIN t = Fields
      BY <1>1 DEF Benign, Sound
    <2>2. Differs(t, [t EXCEPT !.openings = q],
                  {"template", "openings", "telemetry", "results", "inProgress", "owed"})
      BY <2>1 DEF Differs, Fields
    <2>3. [t EXCEPT !.openings = q].busy = t.busy
      BY <2>1 DEF Fields
    <2>. QED
      BY <2>1, <2>2, <2>3, ElsewhereIsBenign
  <1>5. Benign(s, u) /\ Sound(u) /\ u.busy = s.busy
    <2>1. Benign(t, u) /\ u.busy = t.busy
      BY <1>4
    <2>. HIDE DEF t, u
    <2>. QED
      BY <1>1, <1>2, <2>1, BenignIsTransitive DEF Benign
  <1>6. CASE rest = <<>> \/ s.busy
    <2>1. Benign(t, [t EXCEPT !.openings = rest])
      BY <1>4
    <2>2. DriveOpenings(s) = [t EXCEPT !.openings = rest]
      BY <1>3, <1>6, Zenon
    <2>. HIDE DEF t, u, rest, o
    <2>. QED
      BY <1>1, <2>1, <2>2, BenignIsTransitive
  <1>7. CASE ~(rest = <<>> \/ s.busy)
    <2>1. DriveOpenings(s) = IF o.r \in kept THEN Spawn(u, Task("opening", o.r, o.id))
                             ELSE AnswerOpening(u, o.id)
      BY <1>3, <1>7, Zenon
    <2>. HIDE DEF t, u, rest, o
    <2>2. ~u.busy
      BY <1>5, <1>7
    <2>3. Benign(u, Spawn(u, Task("opening", o.r, o.id)))
      BY <1>5, <2>2, SpawnIsBenign DEF Replying
    <2>4. Benign(u, AnswerOpening(u, o.id))
      BY <1>5, AnswersAreBenign DEF AnswerOpening
    <2>5. Benign(u, DriveOpenings(s))
      BY <2>1, <2>3, <2>4
    <2>. QED
      BY <1>5, <2>5, BenignIsTransitive
  <1>. QED
    BY <1>6, <1>7

(* What a benign change keeps besides.                                       *)
LEMMA BenignCarries ==
    ASSUME NEW s, NEW t, Benign(s, t), NEW p, NEW o, NEW r, NEW n, NEW m
    PROVE  /\ SharesAreOurs(s, p, o) => SharesAreOurs(t, p, o)
           /\ EncodingIsSettled(s, r) => EncodingIsSettled(t, r)
           /\ ProofsAreKnown(s, n) /\ m \in Nat /\ m <= n => ProofsAreKnown(t, m)
  <1>1. SharesAreOurs(s, p, o) => SharesAreOurs(t, p, o)
    BY DEF Benign, SharesAreOurs
  <1>2. EncodingIsSettled(s, r) => EncodingIsSettled(t, r)
    BY Zenon DEF Benign, EncodingIsSettled
  <1>3. ASSUME ProofsAreKnown(s, n), m \in Nat, m <= n
        PROVE  ProofsAreKnown(t, m)
    <2>1. Cardinality(s.b64ids) \in Nat
      BY <1>3, FS_CardinalityType DEF ProofsAreKnown
    <2>2. /\ t.b64ids = s.b64ids
          /\ \A i \in DOMAIN t.wire : t.wire[i] = "b64" => i \in DOMAIN s.wire /\ s.wire[i] = "b64"
      BY DEF Benign
    <2>3. \A i \in DOMAIN t.wire : t.wire[i] = "b64" => i \in t.b64ids
      BY <1>3, <2>2 DEF ProofsAreKnown
    <2>4. /\ n \in Nat /\ n <= MaxLines /\ IsFiniteSet(t.b64ids)
          /\ Cardinality(s.b64ids) + n <= MaxLines
      BY <1>3, <2>2 DEF ProofsAreKnown
    <2>5. m <= MaxLines /\ Cardinality(t.b64ids) + m <= MaxLines
      BY <1>3, <2>1, <2>2, <2>4, StratumAssumption
    <2>. QED
      BY <1>3, <2>3, <2>4, <2>5 DEF ProofsAreKnown
  <1>. QED
    BY <1>1, <1>2, <1>3

-----------------------------------------------------------------------------
(* Steps *)

(* A step whose effect on the handler is benign.                             *)
LEMMA BenignStep ==
    ASSUME IInv, Benign(c, c'), pending' = pending, up' = up, refused' = refused,
           costly' = costly, left' = left \/ (left > 0 /\ left' = left - 1)
    PROVE  IInv' /\ (BInv => BInv')
  <1>1. Sound(c') /\ SharesAreOurs(c', pending, up) /\ EncodingIsSettled(c', refused)
    BY BenignCarries DEF IInv, Benign
  <1>2. ASSUME BInv
        PROVE  BInv'
    <2>1. left \in Nat /\ ProofsAreKnown(c, left)
      BY <1>2 DEF BInv, ProofsAreKnown
    <2>2. left' \in Nat /\ left' <= left
      BY <2>1
    <2>3. ProofsAreKnown(c', left')
      BY <2>1, <2>2, BenignCarries
    <2>. QED
      BY <1>2, <2>3 DEF BInv
  <1>. QED
    BY <1>1, <1>2 DEF IInv

(* mining.notify drives the openings, starts the self-check or a task on a     *)
(* free card, or feeds the workers.                                          *)
LEMMA JobSteps ==
    ASSUME IInv, Job
    PROVE  IInv' /\ (BInv => BInv')
  <1>0. Sound(c) /\ DOMAIN c = Fields
    BY DEF IInv, Sound
  <1>1. ASSUME NEW s, Sound(s)
        PROVE  Benign(s, Feed(s))
    <2>1. Differs(s, Feed(s), {"template", "openings", "telemetry", "results", "inProgress", "owed"})
      BY <1>1 DEF Sound, Feed, Differs, Fields
    <2>. QED
      BY <1>1, <2>1, ElsewhereIsBenign
  <1>2. ASSUME NEW form \in Jobs, NoModel(form)
        PROVE  IInv' /\ (BInv => BInv')
    <2>1. Differs(c, c', {"template", "openings", "telemetry", "results", "inProgress", "owed"})
      BY <1>0, <1>2 DEF NoModel, Differs, Fields
    <2>2. Benign(c, c')
      BY <1>0, <2>1, ElsewhereIsBenign
    <2>. QED
      BY <1>2, <2>2, BenignStep DEF NoModel, process
  <1>3. CASE NotifyV4
    <2>. DEFINE s == DriveOpenings(c)
                test == SelfTestDue(s, chain')
    <2>1. c' = Feed(IF test THEN StartSelfTest(s) ELSE s)
      BY <1>3 DEF NotifyV4
    <2>2. Benign(c, s)
      BY <1>0, DriveIsBenign
    <2>. HIDE DEF s
    <2>3. ASSUME test
          PROVE  Benign(s, StartSelfTest(s))
      <3>1. ~s.busy
        BY <2>3 DEF SelfTestDue, InferenceBusy
      <3>2. Sound(s)
        BY <2>2 DEF Benign
      <3>. QED
        BY <3>1, <3>2, SpawnIsBenign DEF StartSelfTest
    <2>4. Benign(c, IF test THEN StartSelfTest(s) ELSE s)
      BY <2>2, <2>3, BenignIsTransitive
    <2>5. Benign(c, c')
      <3>. DEFINE u == IF test THEN StartSelfTest(s) ELSE s
      <3>1. Benign(c, u) /\ c' = Feed(u)
        BY <2>1, <2>4
      <3>. HIDE DEF u
      <3>2. Sound(u)
        BY <3>1 DEF Benign
      <3>. QED
        BY <1>1, <3>1, <3>2, BenignIsTransitive
    <2>. QED
      BY <1>3, <2>5, BenignStep DEF NotifyV4
  <1>4. ASSUME NEW form \in {"v3", "short"}, NotifyPlain(form)
        PROVE  IInv' /\ (BInv => BInv')
    <2>1. Benign(c, c')
      BY <1>0, <1>1, <1>4 DEF NotifyPlain
    <2>. QED
      BY <1>4, <2>1, BenignStep DEF NotifyPlain, process
  <1>5. ASSUME NEW r \in Requests, NotifyTask(r)
        PROVE  IInv' /\ (BInv => BInv')
    <2>. DEFINE s == Spawn(c, Task("task", r, None))
    <2>1. ASSUME ~c.busy
          PROVE  Benign(c, [s EXCEPT !.inProgress = @ \cup {r}])
      <3>1. Benign(c, s)
        BY <1>0, <2>1, SpawnIsBenign
      <3>. HIDE DEF s
      <3>2. Sound(s)
        BY <3>1 DEF Benign
      <3>3. Differs(s, [s EXCEPT !.inProgress = @ \cup {r}],
                    {"template", "openings", "telemetry", "results", "inProgress", "owed"})
        BY <3>2 DEF Sound, Differs, Fields
      <3>. QED
        BY <3>1, <3>2, <3>3, ElsewhereIsBenign, BenignIsTransitive
    <2>2. (~c.busy /\ c' = [s EXCEPT !.inProgress = @ \cup {r}]) \/ c' = Feed(c)
      BY <1>5 DEF NotifyTask
    <2>. HIDE DEF s
    <2>3. Benign(c, c')
      BY <1>0, <1>1, <2>1, <2>2
    <2>. QED
      BY <1>5, <2>3, BenignStep DEF NotifyTask, process
  <1>. QED
    BY <1>2, <1>3, <1>4, <1>5 DEF Job

(* A request, a chat or a challenge takes a free card, or changes nothing.     *)
LEMMA CommandSteps ==
    ASSUME IInv,
           \/ \E r \in Requests : AiRequest(r)
           \/ InferenceRequest
           \/ Challenge
    PROVE  IInv' /\ (BInv => BInv')
  <1>0. Sound(c) /\ DOMAIN c = Fields /\ Benign(c, c)
    BY BenignIsReflexive DEF IInv, Sound
  <1>1. ASSUME NEW r \in Requests, AiRequest(r)
        PROVE  IInv' /\ (BInv => BInv')
    <2>1. ASSUME ~c.busy, NEW k \in Answering
          PROVE  Benign(c, Spawn(c, Task(k, r, None)))
      BY <1>0, <2>1, SpawnIsBenign
    <2>2. \/ c' = c
          \/ ~c.busy /\ \E k \in Answering : c' = Spawn(c, Task(k, r, None))
      BY <1>1 DEF AiRequest, InferenceBusy, Answering
    <2>3. Benign(c, c')
      BY <1>0, <2>1, <2>2
    <2>. QED
      BY <1>1, <2>3, BenignStep DEF AiRequest, Command, process
  <1>2. CASE InferenceRequest
    <2>. DEFINE s == Spawn(c, Task("chat", None, left))
    <2>1. ASSUME ~c.busy
          PROVE  Benign(c, [s EXCEPT !.owed = @ \cup {Chat(left)}])
      <3>1. Benign(c, s)
        BY <1>0, <2>1, SpawnIsBenign DEF Replying
      <3>. HIDE DEF s
      <3>2. Sound(s)
        BY <3>1 DEF Benign
      <3>3. Differs(s, [s EXCEPT !.owed = @ \cup {Chat(left)}],
                    {"template", "openings", "telemetry", "results", "inProgress", "owed"})
        BY <3>2 DEF Sound, Differs, Fields
      <3>. QED
        BY <3>1, <3>2, <3>3, ElsewhereIsBenign, BenignIsTransitive
    <2>2. (~c.busy /\ c' = [s EXCEPT !.owed = @ \cup {Chat(left)}]) \/ c' = c
      BY <1>2 DEF InferenceRequest, InferenceBusy
    <2>. HIDE DEF s
    <2>3. Benign(c, c')
      BY <1>0, <2>1, <2>2
    <2>. QED
      BY <1>2, <2>3, BenignStep DEF InferenceRequest, Command, process
  <1>3. CASE Challenge
    <2>1. ASSUME ~c.busy
          PROVE  Benign(c, Spawn(c, Task("challenge", None, None)))
      BY <1>0, <2>1, SpawnIsBenign DEF Replying
    <2>2. Benign(c, c')
      BY <1>0, <1>3, <2>1 DEF Challenge
    <2>. QED
      BY <1>3, <2>2, BenignStep DEF Challenge, Command, process
  <1>. QED
    BY <1>1, <1>2, <1>3

(* An id is taken, perhaps for an auxiliary request; the cap on those may       *)
(* clear the others.                                                         *)
LEMMA IdTaken ==
    ASSUME NEW s, NEW t, Sound(s),
           Differs(s, t, {"id", "aux", "owed", "b64ids", "telemetry"}),
           t.id = s.id + 1, t.aux \subseteq s.aux \cup {s.id}
    PROVE  /\ Sound(t)
           /\ \A p, o : SharesAreOurs(s, p, o) => SharesAreOurs(t, p, o)
           /\ \A r : EncodingIsSettled(s, r) => EncodingIsSettled(t, r)
  <1>1. /\ DOMAIN t = Fields
        /\ t.tasks = s.tasks /\ t.busy = s.busy /\ t.flag = s.flag
        /\ t.no = s.no /\ t.aiPending = s.aiPending
        /\ t.wire = s.wire /\ t.swallowed = s.swallowed /\ t.b64 = s.b64
    BY DEF Differs, Sound, Fields
  <1>2. TasksAreKnown(t)
    BY <1>1 DEF Sound, TasksAreKnown
  <1>3. CardIsTold(t)
    BY <1>1, Zenon DEF Sound, CardIsTold
  <1>4. IdsAreGivenOnce(t)
    <2>1. s.id \in Nat /\ t.id = s.id + 1
      BY DEF Sound, IdsAreGivenOnce
    <2>2. \A i \in t.aux : i \in s.aux \/ i = s.id
      OBVIOUS
    <2>. QED
      BY <1>1, <2>1, <2>2 DEF Sound, IdsAreGivenOnce
  <1>5. AnswerIsUnderWay(t) /\ SubscribesFirst(t)
    BY <1>1 DEF Sound, AnswerIsUnderWay, SubscribesFirst
  <1>6. ASSUME NEW p, NEW o, SharesAreOurs(s, p, o)
        PROVE  SharesAreOurs(t, p, o)
    <2>1. s.id \in Nat /\ t.id = s.id + 1
      BY DEF Sound, IdsAreGivenOnce
    <2>. QED
      BY <1>1, <1>6, <2>1 DEF SharesAreOurs
  <1>7. ASSUME NEW r, EncodingIsSettled(s, r)
        PROVE  EncodingIsSettled(t, r)
    BY <1>1, <1>7, Zenon DEF EncodingIsSettled
  <1>. QED
    BY <1>1, <1>2, <1>3, <1>4, <1>5, <1>6, <1>7 DEF Sound

(* An opening is answered at once, or queued and the queue driven.            *)
LEMMA AiOpeningStep ==
    ASSUME IInv, NEW r \in Requests, AiOpening(r)
    PROVE  IInv' /\ (BInv => BInv')
  <1>. DEFINE s == [c EXCEPT !.id = @ + 1, !.aux = @ \cup {c.id},
                             !.owed = @ \cup {Opening(c.id)}]
              q == Append(s.openings, [r |-> r, id |-> c.id, late |-> FALSE])
  <1>0. Sound(c) /\ DOMAIN c = Fields
    BY DEF IInv, Sound
  <1>1. \/ c' = AnswerOpening(s, c.id)
        \/ c' = DriveOpenings([s EXCEPT !.openings = q])
    BY DEF AiOpening
  <1>2. /\ Differs(c, s, {"id", "aux", "owed", "b64ids", "telemetry"})
        /\ s.id = c.id + 1 /\ s.aux = c.aux \cup {c.id}
        /\ s.wire = c.wire /\ s.b64ids = c.b64ids
    BY <1>0 DEF Differs, Fields
  <1>. HIDE DEF s, q
  <1>3. Sound(s) /\ SharesAreOurs(s, pending, up) /\ EncodingIsSettled(s, refused)
    BY <1>0, <1>2, IdTaken DEF IInv
  <1>4. Benign(s, AnswerOpening(s, c.id))
    BY <1>3, AnswersAreBenign DEF AnswerOpening
  <1>5. Benign(s, DriveOpenings([s EXCEPT !.openings = q]))
    <2>1. Differs(s, [s EXCEPT !.openings = q],
                  {"template", "openings", "telemetry", "results", "inProgress", "owed"})
      BY <1>3 DEF Sound, Differs, Fields
    <2>2. Benign(s, [s EXCEPT !.openings = q])
      BY <1>3, <2>1, ElsewhereIsBenign
    <2>3. Sound([s EXCEPT !.openings = q])
      BY <2>2 DEF Benign
    <2>. QED
      BY <2>2, <2>3, DriveIsBenign, BenignIsTransitive
  <1>6. Benign(s, c')
    BY <1>1, <1>4, <1>5
  <1>7. /\ up' = up /\ pending' = pending /\ refused' = refused /\ costly' = costly
        /\ left > 0 /\ left' = left - 1
    BY DEF AiOpening, Command, process
  <1>8. Sound(c') /\ SharesAreOurs(c', pending, up) /\ EncodingIsSettled(c', refused)
    BY <1>3, <1>6, BenignCarries DEF Benign
  <1>9. ASSUME BInv
        PROVE  BInv'
    <2>1. ProofsAreKnown(c, left) /\ left \in Nat
      BY <1>9 DEF BInv, ProofsAreKnown
    <2>2. ProofsAreKnown(s, left)
      BY <1>2, <2>1 DEF ProofsAreKnown
    <2>3. left' \in Nat /\ left' <= left
      BY <1>7, <2>1
    <2>4. ProofsAreKnown(c', left')
      BY <1>6, <2>2, <2>3, BenignCarries
    <2>. QED
      BY <1>7, <1>9, <2>4 DEF BInv
  <1>. QED
    BY <1>7, <1>8, <1>9 DEF IInv

(* A report of the miner takes an auxiliary id.                               *)
LEMMA TelemetryStep ==
    ASSUME IInv, Telemetry
    PROVE  IInv' /\ (BInv => BInv')
  <1>. DEFINE ids == IF Cardinality(c.aux) > AuxCap THEN {} ELSE c.aux
              s == [c EXCEPT !.id = @ + 1, !.aux = ids \cup {c.id}]
  <1>0. Sound(c) /\ DOMAIN c = Fields
    BY DEF IInv, Sound
  <1>1. c' = Sent(s, c.id, "aux")
    BY DEF Telemetry, SendAux
  <1>2. /\ Differs(c, s, {"id", "aux", "owed", "b64ids", "telemetry"})
        /\ s.id = c.id + 1 /\ s.aux \subseteq c.aux \cup {c.id}
        /\ s.wire = c.wire /\ s.b64ids = c.b64ids
    BY <1>0 DEF Differs, Fields
  <1>. HIDE DEF s, ids
  <1>3. Sound(s) /\ SharesAreOurs(s, pending, up) /\ EncodingIsSettled(s, refused)
    BY <1>0, <1>2, IdTaken DEF IInv
  <1>4. Benign(s, c')
    <2>1. Differs(s, c', {"wire", "owed"}) /\ c'.wire = With(s.wire, {c.id}, "aux")
      BY <1>1, <1>3 DEF Sound, Sent, Differs, Fields
    <2>. QED
      BY <1>3, <2>1, WireGrows
  <1>5. /\ up' = up /\ pending' = pending /\ refused' = refused /\ costly' = costly
        /\ left > 0 /\ left' = left - 1
    BY DEF Telemetry, process
  <1>6. Sound(c') /\ SharesAreOurs(c', pending, up) /\ EncodingIsSettled(c', refused)
    BY <1>3, <1>4, BenignCarries DEF Benign
  <1>7. ASSUME BInv
        PROVE  BInv'
    <2>1. ProofsAreKnown(c, left) /\ left \in Nat
      BY <1>7 DEF BInv, ProofsAreKnown
    <2>2. ProofsAreKnown(s, left)
      BY <1>2, <2>1 DEF ProofsAreKnown
    <2>3. left' \in Nat /\ left' <= left
      BY <1>5, <2>1
    <2>4. ProofsAreKnown(c', left')
      BY <1>4, <2>2, <2>3, BenignCarries
    <2>. QED
      BY <1>5, <1>7, <2>4 DEF BInv
  <1>. QED
    BY <1>5, <1>6, <1>7 DEF IInv

(* The ids of base64 proofs are never cleared: no more lines are sent than the  *)
(* set may hold.                                                             *)
RoomForProofs == MaxLines <= B64Cap + 1

(* A share takes an id of its own, and a base64 proof is entered as one.       *)
LEMMA SubmitStep ==
    ASSUME IInv, Submit
    PROVE  IInv' /\ (RoomForProofs /\ BInv => BInv')
  <1>. DEFINE k == IF c.b64 THEN "b64" ELSE "share"
              s == Encode([c EXCEPT !.id = @ + 1], c.id)
  <1>0. Sound(c) /\ DOMAIN c = Fields
    BY DEF IInv, Sound
  <1>1. /\ c' = Sent(s, c.id, k) /\ pending' = With(pending, {c.id}, c.no)
        /\ up' = up /\ up /\ refused' = refused /\ costly' = costly
        /\ left > 0 /\ left' = left - 1
    BY DEF Submit
  <1>2. /\ Differs(c, s, {"id", "aux", "owed", "b64ids", "telemetry"})
        /\ s.id = c.id + 1 /\ s.aux = c.aux /\ s.wire = c.wire /\ s.no = c.no
        /\ s.aiPending = c.aiPending /\ s.b64 = c.b64
        /\ s.b64ids = IF ~c.b64 THEN c.b64ids
                      ELSE (IF Cardinality(c.b64ids) > B64Cap THEN {} ELSE c.b64ids) \cup {c.id}
    BY <1>0 DEF Encode, Differs, Fields
  <1>. HIDE DEF s
  <1>3. Sound(s) /\ SharesAreOurs(s, pending, up) /\ EncodingIsSettled(s, refused)
    BY <1>0, <1>2, IdTaken DEF IInv
  <1>4. Differs(s, c', {"wire", "owed"}) /\ c'.wire = With(s.wire, {c.id}, k)
    BY <1>1, <1>3 DEF Sound, Sent, Differs, Fields
  <1>5. k # "subscribe"
    OBVIOUS
  <1>6. Sound(c')
    <2>. HIDE DEF k
    <2>. QED
      BY <1>3, <1>4, <1>5, WireGrows
  <1>7. /\ c'.no = c.no /\ c'.id = c.id + 1 /\ c'.aiPending = c.aiPending
        /\ c'.b64 = c.b64 /\ c'.b64ids = s.b64ids
    BY <1>2, <1>3, <1>4 DEF Sound, Differs, Fields
  <1>8. SharesAreOurs(c', pending', up')
    <2>1. /\ c.no \in Nat /\ c.id \in Nat /\ c.aiPending \in Nat
          /\ c.aiPending # None => c.aiPending < c.id
      BY <1>0 DEF Sound, IdsAreGivenOnce
    <2>. SUFFICES ASSUME NEW i \in DOMAIN pending'
                  PROVE  /\ pending'[i] \in Nat /\ pending'[i] <= c'.no
                         /\ up' /\ pending'[i] = c'.no =>
                              i \in Nat /\ i < c'.id /\ (c'.aiPending # None => i # c'.aiPending)
      BY DEF SharesAreOurs
    <2>2. CASE i = c.id
      <3>1. pending'[i] = c.no
        BY <1>1, <2>2 DEF With
      <3>. QED
        BY <1>7, <2>1, <2>2, <3>1
    <2>3. CASE i # c.id
      <3>1. i \in DOMAIN pending /\ pending'[i] = pending[i]
        BY <1>1, <2>3 DEF With
      <3>. QED
        BY <1>1, <1>7, <2>1, <3>1 DEF IInv, SharesAreOurs
    <2>. QED
      BY <2>2, <2>3
  <1>9. EncodingIsSettled(c', refused')
    BY <1>1, <1>7, Zenon DEF IInv, EncodingIsSettled
  <1>10. ASSUME RoomForProofs, BInv
         PROVE  BInv'
    <2>1. /\ left \in Nat /\ left <= MaxLines /\ IsFiniteSet(c.b64ids)
          /\ Cardinality(c.b64ids) + left <= MaxLines
          /\ \A i \in DOMAIN c.wire : c.wire[i] = "b64" => i \in c.b64ids
      BY <1>10 DEF BInv, ProofsAreKnown
    <2>2. Cardinality(c.b64ids) \in Nat /\ MaxLines \in Nat /\ B64Cap \in Nat
      BY <2>1, FS_CardinalityType, StratumAssumption
    <2>3. ~(Cardinality(c.b64ids) > B64Cap)
      BY <1>1, <1>10, <2>1, <2>2 DEF RoomForProofs
    <2>4. c'.b64ids = IF ~c.b64 THEN c.b64ids ELSE c.b64ids \cup {c.id}
      BY <1>2, <1>7, <2>3
    <2>5. /\ IsFiniteSet(c.b64ids \cup {c.id})
          /\ Cardinality(c.b64ids \cup {c.id}) \in Nat
          /\ Cardinality(c.b64ids \cup {c.id}) <= Cardinality(c.b64ids) + 1
      <3>1. IsFiniteSet(c.b64ids \cup {c.id})
        BY <2>1, FS_AddElement
      <3>2. Cardinality(c.b64ids \cup {c.id}) =
              IF c.id \in c.b64ids THEN Cardinality(c.b64ids) ELSE Cardinality(c.b64ids) + 1
        BY <2>1, FS_AddElement
      <3>. QED
        BY <2>2, <3>1, <3>2
    <2>6. IsFiniteSet(c'.b64ids) /\ Cardinality(c'.b64ids) + left' <= MaxLines
      BY <1>1, <2>1, <2>2, <2>4, <2>5
    <2>7. left' \in Nat /\ left' <= MaxLines
      BY <1>1, <2>1, <2>2
    <2>8. \A i \in DOMAIN c'.wire : c'.wire[i] = "b64" => i \in c'.b64ids
      BY <1>2, <1>4, <2>1, <2>4 DEF With
    <2>. QED
      BY <1>1, <1>10, <2>6, <2>7, <2>8 DEF BInv, ProofsAreKnown
  <1>. QED
    BY <1>6, <1>8, <1>9, <1>10 DEF IInv

(* A new handler is sound.                                                   *)
LEMMA FreshIsSound ==
    ASSUME NEW n \in Nat
    PROVE  /\ Sound(Fresh(n)) /\ Fresh(n).no = n /\ Fresh(n).b64 = FALSE
           /\ \A m \in Nat : m <= MaxLines => ProofsAreKnown(Fresh(n), m)
  <1>. DEFINE s == Fresh(n)
  <1>1. /\ DOMAIN s = Fields
        /\ s.tasks = {} /\ s.busy = FALSE /\ s.flag = FALSE
        /\ s.no = n /\ s.id = 0 /\ s.aux = {} /\ s.aiPending = None
        /\ s.wire = <<>> /\ s.b64 = FALSE /\ s.b64ids = {}
    BY DEF Fresh, Fields
  <1>. HIDE DEF s
  <1>2. DOMAIN s.wire = {}
    BY <1>1
  <1>3. TasksAreKnown(s)
    BY <1>1 DEF TasksAreKnown
  <1>4. CardIsTold(s)
    BY <1>1 DEF CardIsTold
  <1>5. IdsAreGivenOnce(s) /\ AnswerIsUnderWay(s) /\ SubscribesFirst(s)
    BY <1>1, <1>2 DEF IdsAreGivenOnce, AnswerIsUnderWay, SubscribesFirst, None
  <1>6. ASSUME NEW m \in Nat, m <= MaxLines
        PROVE  ProofsAreKnown(s, m)
    <2>1. IsFiniteSet({}) /\ Cardinality({}) = 0
      BY FS_EmptySet
    <2>. QED
      BY <1>1, <1>2, <1>6, <2>1 DEF ProofsAreKnown
  <1>. QED
    BY <1>1, <1>3, <1>4, <1>5, <1>6 DEF Sound, s

(* A session begins: the shares left are of earlier ones.                    *)
LEMMA ConnectStep ==
    ASSUME IInv, Connect
    PROVE  IInv' /\ (BInv => BInv')
  <1>. DEFINE f == Fresh(c.no + 1)
              s == [f EXCEPT !.id = 2]
              t == Sent(s, 0, "subscribe")
              ids == IF Cardinality(t.aux) > AuxCap THEN {} ELSE t.aux
              u == [t EXCEPT !.id = @ + 1, !.aux = ids \cup {t.id}]
  <1>1. c.no \in Nat
    BY DEF IInv, Sound, IdsAreGivenOnce
  <1>2. /\ DOMAIN c' = Fields
        /\ c'.tasks = {} /\ c'.busy = FALSE /\ c'.flag = FALSE
        /\ c'.no = c.no + 1 /\ c'.id = 3 /\ c'.aux = {2} /\ c'.aiPending = None
        /\ c'.b64 = FALSE /\ c'.b64ids = {}
        /\ c'.wire = With(With(<<>>, {0}, "subscribe"), {2}, "aux")
    <2>1. c' = Sent(u, t.id, "aux")
      BY DEF Connect, SendAux
    <2>2. /\ DOMAIN t = Fields
          /\ t.tasks = {} /\ t.busy = FALSE /\ t.flag = FALSE
          /\ t.no = c.no + 1 /\ t.id = 2 /\ t.aux = {} /\ t.aiPending = None
          /\ t.b64 = FALSE /\ t.b64ids = {} /\ t.wire = With(<<>>, {0}, "subscribe")
      BY DEF Fresh, Sent, Fields
    <2>. HIDE DEF t
    <2>3. ids = {}
      BY <2>2
    <2>. HIDE DEF ids
    <2>4. /\ DOMAIN u = Fields
          /\ u.tasks = {} /\ u.busy = FALSE /\ u.flag = FALSE
          /\ u.no = c.no + 1 /\ u.id = 3 /\ u.aux = {2} /\ u.aiPending = None
          /\ u.b64 = FALSE /\ u.b64ids = {} /\ u.wire = With(<<>>, {0}, "subscribe")
      BY <2>2, <2>3 DEF Fields
    <2>. HIDE DEF u
    <2>. QED
      BY <2>1, <2>2, <2>4 DEF Sent, Fields
  <1>3. TasksAreKnown(c') /\ CardIsTold(c')
    BY <1>2 DEF TasksAreKnown, CardIsTold
  <1>4. IdsAreGivenOnce(c') /\ AnswerIsUnderWay(c')
    BY <1>1, <1>2 DEF IdsAreGivenOnce, AnswerIsUnderWay, None
  <1>5. \A i \in DOMAIN c'.wire : (i = 0 \/ c'.wire[i] = "aux") /\ c'.wire[i] # "b64"
    BY <1>2 DEF With
  <1>6. SubscribesFirst(c')
    BY <1>5 DEF SubscribesFirst
  <1>7. /\ pending' = pending /\ refused' = refused /\ costly' = costly /\ left' = left
    BY DEF Connect, process, outside
  <1>8. SharesAreOurs(c', pending', up')
    <2>1. \A i \in DOMAIN pending : pending[i] \in Nat /\ pending[i] <= c.no
      BY DEF IInv, SharesAreOurs
    <2>2. \A i \in DOMAIN pending : pending[i] <= c.no + 1 /\ pending[i] # c.no + 1
      BY <1>1, <2>1
    <2>. QED
      BY <1>2, <1>7, <2>1, <2>2 DEF SharesAreOurs
  <1>9. EncodingIsSettled(c', refused')
    BY <1>2, <1>7, Zenon DEF IInv, EncodingIsSettled
  <1>10. ASSUME BInv
         PROVE  BInv'
    <2>1. left \in Nat /\ left <= MaxLines
      BY <1>10 DEF BInv, ProofsAreKnown
    <2>2. IsFiniteSet(c'.b64ids) /\ Cardinality(c'.b64ids) = 0
      BY <1>2, FS_EmptySet
    <2>. QED
      BY <1>5, <1>7, <1>10, <2>1, <2>2 DEF BInv, ProofsAreKnown
  <1>. QED
    BY <1>2, <1>3, <1>4, <1>6, <1>8, <1>9, <1>10 DEF IInv, Sound

(* A session ends, or the process with it.                                   *)
LEMMA SessionEndsStep ==
    ASSUME IInv, NEW shares, SharesAreOurs(c, shares, FALSE), SessionEnds(shares)
    PROVE  IInv' /\ (BInv /\ costly' = costly => BInv')
  <1>1. c.no \in Nat
    BY DEF IInv, Sound, IdsAreGivenOnce
  <1>2. c' = Fresh(c.no) /\ up' = FALSE /\ left' = left
    BY DEF SessionEnds, outside
  <1>3. /\ Sound(c') /\ c'.no = c.no /\ c'.b64 = FALSE
        /\ \A m \in Nat : m <= MaxLines => ProofsAreKnown(c', m)
    BY <1>1, <1>2, FreshIsSound
  <1>4. refused' = refused \/ refused' = FALSE
    BY DEF SessionEnds
  <1>5. EncodingIsSettled(c', refused')
    BY <1>3, <1>4, Zenon DEF IInv, EncodingIsSettled
  <1>6. SharesAreOurs(c', pending', up')
    <2>1. pending' = shares \/ pending' = <<>>
      BY DEF SessionEnds
    <2>2. CASE pending' = shares
      BY <1>2, <1>3, <2>2 DEF SharesAreOurs
    <2>3. CASE pending' = <<>>
      <3>1. DOMAIN pending' = {}
        BY <2>3
      <3>. QED
        BY <3>1 DEF SharesAreOurs
    <2>. QED
      BY <2>1, <2>2, <2>3
  <1>7. ASSUME BInv, costly' = costly
        PROVE  BInv'
    BY <1>2, <1>3, <1>7 DEF BInv, ProofsAreKnown
  <1>. QED
    BY <1>3, <1>5, <1>6, <1>7 DEF IInv

(* A share that is answered leaves the map.                                  *)
LEMMA FewerShares ==
    ASSUME NEW s, NEW p, NEW o, NEW i, SharesAreOurs(s, p, o)
    PROVE  SharesAreOurs(s, Restrict(p, DOMAIN p \ {i}), o)
  <1>. DEFINE q == Restrict(p, DOMAIN p \ {i})
  <1>1. DOMAIN q \subseteq DOMAIN p /\ \A j \in DOMAIN q : q[j] = p[j]
    BY DEF Restrict
  <1>. HIDE DEF q
  <1>2. SharesAreOurs(s, q, o)
    BY <1>1 DEF SharesAreOurs
  <1>. QED
    BY <1>2 DEF q

(* The answer i of the pool is taken: the response is no longer waited for     *)
(* unless the answer was taken for another's.                               *)
LEMMA AnswerTaken ==
    ASSUME NEW s, NEW t, NEW i, Sound(s),
           Differs(s, t, {"wire", "aux", "b64", "b64ids", "aiPending", "swallowed", "telemetry"}),
           t.wire = Restrict(s.wire, DOMAIN s.wire \ {i}),
           t.aux \subseteq s.aux, s.swallowed \subseteq t.swallowed,
           t.aiPending = s.aiPending \/ t.aiPending = None,
           t.aiPending # None /\ t.aiPending = i => i \in t.swallowed,
           t.b64ids = s.b64ids \/ t.b64ids = s.b64ids \ {i}
    PROVE  /\ Sound(t)
           /\ \A p, o : SharesAreOurs(s, p, o) => SharesAreOurs(t, p, o)
           /\ \A n : ProofsAreKnown(s, n) => ProofsAreKnown(t, n)
  <1>1. /\ DOMAIN t = Fields
        /\ t.tasks = s.tasks /\ t.busy = s.busy /\ t.flag = s.flag
        /\ t.no = s.no /\ t.id = s.id
    BY DEF Differs, Sound, Fields
  <1>2. /\ DOMAIN t.wire = DOMAIN s.wire \ {i}
        /\ \A j \in DOMAIN t.wire : t.wire[j] = s.wire[j]
    BY DEF Restrict
  <1>3. TasksAreKnown(t)
    BY <1>1 DEF Sound, TasksAreKnown
  <1>4. CardIsTold(t)
    BY <1>1, Zenon DEF Sound, CardIsTold
  <1>5. IdsAreGivenOnce(t)
    BY <1>1 DEF Sound, IdsAreGivenOnce, None
  <1>6. AnswerIsUnderWay(t)
    <2>. SUFFICES ASSUME t.aiPending # None, t.aiPending # i
                  PROVE  AnswerIsUnderWay(t)
      BY DEF AnswerIsUnderWay
    <2>1. t.aiPending = s.aiPending
      OBVIOUS
    <2>. QED
      BY <1>1, <1>2, <2>1 DEF Sound, AnswerIsUnderWay
  <1>7. SubscribesFirst(t)
    BY <1>2 DEF Sound, SubscribesFirst
  <1>8. ASSUME NEW p, NEW o, SharesAreOurs(s, p, o)
        PROVE  SharesAreOurs(t, p, o)
    BY <1>1, <1>8 DEF SharesAreOurs
  <1>9. ASSUME NEW n, ProofsAreKnown(s, n)
        PROVE  ProofsAreKnown(t, n)
    <2>1. IsFiniteSet(s.b64ids) /\ t.b64ids \subseteq s.b64ids
      BY <1>9 DEF ProofsAreKnown
    <2>2. /\ IsFiniteSet(t.b64ids) /\ Cardinality(t.b64ids) <= Cardinality(s.b64ids)
          /\ Cardinality(t.b64ids) \in Nat /\ Cardinality(s.b64ids) \in Nat
      BY <2>1, FS_Subset, FS_CardinalityType
    <2>3. \A j \in DOMAIN t.wire : t.wire[j] = "b64" => j \in t.b64ids
      BY <1>2, <1>9 DEF ProofsAreKnown
    <2>4. n \in Nat /\ n <= MaxLines /\ Cardinality(s.b64ids) + n <= MaxLines /\ MaxLines \in Nat
      BY <1>9, StratumAssumption DEF ProofsAreKnown
    <2>5. Cardinality(t.b64ids) + n <= MaxLines
      BY <2>2, <2>4
    <2>. QED
      BY <2>2, <2>3, <2>4, <2>5 DEF ProofsAreKnown
  <1>. QED
    BY <1>1, <1>3, <1>4, <1>5, <1>6, <1>7, <1>8, <1>9 DEF Sound

(* The fields a handled answer may change.                                   *)
AnswerFields == {"wire", "aux", "b64", "b64ids", "aiPending", "swallowed", "telemetry"}

(* What AnswerTaken asks of a step that takes the answer i.                   *)
TakesAnswer(i) ==
    /\ Differs(c, c', AnswerFields)
    /\ c'.wire = Restrict(c.wire, DOMAIN c.wire \ {i})
    /\ c'.aux \subseteq c.aux /\ c.swallowed \subseteq c'.swallowed
    /\ c'.aiPending = c.aiPending \/ c'.aiPending = None
    /\ c'.aiPending # None /\ c'.aiPending = i => i \in c'.swallowed
    /\ c'.b64ids = c.b64ids \/ c'.b64ids = c.b64ids \ {i}

(* Such a step keeps the invariant when the encoding agrees.                  *)
LEMMA AnswerStep ==
    ASSUME IInv, NEW i, TakesAnswer(i), up' = up, costly' = costly, left' = left,
           pending' = pending \/ pending' = Restrict(pending, DOMAIN pending \ {i}),
           EncodingIsSettled(c', refused')
    PROVE  IInv' /\ (BInv => BInv')
  <1>1. /\ Sound(c')
        /\ SharesAreOurs(c, pending, up) => SharesAreOurs(c', pending, up)
        /\ \A n : ProofsAreKnown(c, n) => ProofsAreKnown(c', n)
    BY AnswerTaken DEF TakesAnswer, IInv, AnswerFields
  <1>2. SharesAreOurs(c', pending', up')
    <2>1. SharesAreOurs(c', pending, up)
      BY <1>1 DEF IInv
    <2>2. SharesAreOurs(c', Restrict(pending, DOMAIN pending \ {i}), up)
      BY <2>1, FewerShares
    <2>. QED
      BY <2>1, <2>2, Zenon
  <1>. QED
    BY <1>1, <1>2 DEF IInv, BInv

(* The answer to the subscription: base64 is taken up unless it was refused.   *)
LEMMA SubscribedStep ==
    ASSUME IInv, NEW i, OnSubscribed(i)
    PROVE  IInv' /\ (BInv => BInv')
  <1>0. DOMAIN c = Fields /\ i \in DOMAIN c.wire /\ c.wire[i] = "subscribe"
    BY DEF IInv, Sound, OnSubscribed
  <1>1. PICK offered \in Offers : c' = AbsorbSubscribe(Answered(c, i), offered)
    BY DEF OnSubscribed
  <1>2. /\ Differs(c, c', AnswerFields)
        /\ c'.wire = Restrict(c.wire, DOMAIN c.wire \ {i})
        /\ c'.aux = c.aux /\ c'.swallowed = c.swallowed /\ c'.aiPending = c.aiPending
        /\ c'.b64ids = c.b64ids /\ c'.b64 = (c.b64 \/ (offered /\ ~refused))
    BY <1>0, <1>1 DEF AbsorbSubscribe, Answered, Differs, Fields, AnswerFields
  <1>3. i = None
    BY <1>0 DEF IInv, Sound, SubscribesFirst, None
  <1>4. TakesAnswer(i)
    BY <1>2, <1>3 DEF TakesAnswer
  <1>5. up' = up /\ pending' = pending /\ refused' = refused /\ costly' = costly /\ left' = left
    BY DEF OnSubscribed, process, outside
  <1>6. EncodingIsSettled(c', refused')
    <2>1. offered \in BOOLEAN
      BY StratumAssumption
    <2>. QED
      BY <1>2, <1>5, <2>1, Zenon DEF IInv, EncodingIsSettled
  <1>. QED
    BY <1>4, <1>5, <1>6, AnswerStep

(* result: true.                                                            *)
LEMMA TrueStep ==
    ASSUME IInv, NEW i, OnTrue(i)
    PROVE  IInv' /\ (BInv => BInv')
  <1>0. DOMAIN c = Fields /\ up
    BY DEF IInv, Sound, OnTrue
  <1>1. up' = up /\ refused' = refused /\ costly' = costly /\ left' = left
    BY DEF OnTrue, outside
  <1>2. /\ TakesAnswer(i) /\ c'.b64 = c.b64
        /\ pending' = pending \/ pending' = Restrict(pending, DOMAIN pending \ {i})
    <2>1. CASE i \in c.aux
      <3>1. c' = [Answered(c, i) EXCEPT !.aux = @ \ {i}] /\ pending' = pending
        BY <2>1 DEF OnTrue
      <3>2. /\ Differs(c, c', AnswerFields)
            /\ c'.wire = Restrict(c.wire, DOMAIN c.wire \ {i})
            /\ c'.aux = c.aux \ {i} /\ c'.swallowed = c.swallowed /\ c'.aiPending = c.aiPending
            /\ c'.b64ids = c.b64ids /\ c'.b64 = c.b64
        BY <1>0, <3>1 DEF Answered, Differs, Fields, AnswerFields
      <3>3. c.aiPending # None => c.aiPending # i
        BY <2>1 DEF IInv, Sound, IdsAreGivenOnce
      <3>. QED
        BY <3>1, <3>2, <3>3 DEF TakesAnswer
    <2>2. CASE i \notin c.aux /\ i \in DOMAIN pending
      <3>. DEFINE t == [Answered(c, i) EXCEPT !.b64ids = @ \ {i}]
      <3>1. /\ c' = IF pending[i] = c.no THEN t ELSE [t EXCEPT !.swallowed = @ \cup {i}]
            /\ pending' = Restrict(pending, DOMAIN pending \ {i})
        BY <2>2 DEF OnTrue
      <3>2. /\ Differs(c, c', AnswerFields)
            /\ c'.wire = Restrict(c.wire, DOMAIN c.wire \ {i})
            /\ c'.aux = c.aux /\ c'.aiPending = c.aiPending
            /\ c'.swallowed = IF pending[i] = c.no THEN c.swallowed ELSE c.swallowed \cup {i}
            /\ c'.b64ids = c.b64ids \ {i} /\ c'.b64 = c.b64
        BY <1>0, <3>1 DEF Answered, Differs, Fields, AnswerFields
      <3>3. pending[i] = c.no /\ c.aiPending # None => c.aiPending # i
        BY <1>0, <2>2 DEF IInv, SharesAreOurs
      <3>. QED
        BY <3>1, <3>2, <3>3 DEF TakesAnswer
    <2>3. CASE i \notin c.aux /\ i \notin DOMAIN pending
      <3>. DEFINE t == [Answered(c, i) EXCEPT !.b64ids = @ \ {i}]
      <3>1. c' = TakeAiResponseAck(t, i) /\ pending' = pending
        BY <2>3 DEF OnTrue
      <3>2. /\ Differs(c, c', AnswerFields)
            /\ c'.wire = Restrict(c.wire, DOMAIN c.wire \ {i})
            /\ c'.aux = c.aux /\ c'.swallowed = c.swallowed
            /\ c'.aiPending = IF c.aiPending = i THEN None ELSE c.aiPending
            /\ c'.b64ids = c.b64ids \ {i} /\ c'.b64 = c.b64
        BY <1>0, <3>1 DEF TakeAiResponseAck, Answered, Differs, Fields, AnswerFields
      <3>. QED
        BY <3>1, <3>2 DEF TakesAnswer
    <2>. QED
      BY <2>1, <2>2, <2>3
  <1>3. EncodingIsSettled(c', refused')
    BY <1>1, <1>2, Zenon DEF IInv, EncodingIsSettled
  <1>. QED
    BY <1>1, <1>2, <1>3, AnswerStep

(* result: false or null.                                                   *)
LEMMA FalseStep ==
    ASSUME IInv, NEW i, OnFalse(i)
    PROVE  IInv' /\ (BInv => BInv')
  <1>0. DOMAIN c = Fields /\ up
    BY DEF IInv, Sound, OnFalse
  <1>1. up' = up /\ costly' = costly /\ left' = left
    BY DEF OnFalse, outside
  <1>. DEFINE X == i \in c.b64ids /\ i \in DOMAIN pending
  <1>2. /\ TakesAnswer(i)
        /\ pending' = pending \/ pending' = Restrict(pending, DOMAIN pending \ {i})
        /\ \/ c'.b64 = c.b64 /\ refused' = refused
           \/ c'.b64 = (c.b64 /\ ~X) /\ refused' = (refused \/ X)
    <2>1. CASE i \in c.aux
      <3>1. c' = [Answered(c, i) EXCEPT !.aux = @ \ {i}] /\ pending' = pending /\ refused' = refused
        BY <2>1 DEF OnFalse
      <3>2. /\ Differs(c, c', AnswerFields)
            /\ c'.wire = Restrict(c.wire, DOMAIN c.wire \ {i})
            /\ c'.aux = c.aux \ {i} /\ c'.swallowed = c.swallowed /\ c'.aiPending = c.aiPending
            /\ c'.b64ids = c.b64ids /\ c'.b64 = c.b64
        BY <1>0, <3>1 DEF Answered, Differs, Fields, AnswerFields
      <3>3. c.aiPending # None => c.aiPending # i
        BY <2>1 DEF IInv, Sound, IdsAreGivenOnce
      <3>. QED
        BY <3>1, <3>2, <3>3 DEF TakesAnswer
    <2>2. CASE i \notin c.aux /\ i = c.aiPending
      <3>1. c' = TakeAiResponseAck(Answered(c, i), i) /\ pending' = pending /\ refused' = refused
        BY <2>2 DEF OnFalse
      <3>2. /\ Differs(c, c', AnswerFields)
            /\ c'.wire = Restrict(c.wire, DOMAIN c.wire \ {i})
            /\ c'.aux = c.aux /\ c'.swallowed = c.swallowed
            /\ c'.aiPending = None
            /\ c'.b64ids = c.b64ids /\ c'.b64 = c.b64
        BY <1>0, <2>2, <3>1 DEF TakeAiResponseAck, Answered, Differs, Fields, AnswerFields
      <3>. QED
        BY <3>1, <3>2 DEF TakesAnswer
    <2>3. CASE i \notin c.aux /\ i # c.aiPending
      <3>1. /\ c' = [Answered(c, i) EXCEPT !.b64ids = @ \ {i}, !.b64 = @ /\ ~X]
            /\ refused' = (refused \/ X)
            /\ pending' = Restrict(pending, DOMAIN pending \ {i})
        BY <2>3, Zenon DEF OnFalse
      <3>. HIDE DEF X
      <3>2. /\ Differs(c, c', AnswerFields)
            /\ c'.wire = Restrict(c.wire, DOMAIN c.wire \ {i})
            /\ c'.aux = c.aux /\ c'.swallowed = c.swallowed /\ c'.aiPending = c.aiPending
            /\ c'.b64ids = c.b64ids \ {i} /\ c'.b64 = (c.b64 /\ ~X)
        BY <1>0, <3>1 DEF Answered, Differs, Fields, AnswerFields
      <3>3. TakesAnswer(i)
        BY <2>3, <3>2 DEF TakesAnswer
      <3>. QED
        BY <3>1, <3>2, <3>3
    <2>. QED
      BY <2>1, <2>2, <2>3
  <1>3. EncodingIsSettled(c', refused')
    <2>1. CASE c'.b64 = c.b64 /\ refused' = refused
      BY <2>1, Zenon DEF IInv, EncodingIsSettled
    <2>2. CASE c'.b64 = (c.b64 /\ ~X) /\ refused' = (refused \/ X)
      <3>1. X \in BOOLEAN
        BY Zenon
      <3>. HIDE DEF X
      <3>. QED
        BY <2>2, <3>1, Zenon DEF IInv, EncodingIsSettled
    <2>. QED
      BY <1>2, <2>1, <2>2
  <1>. QED
    BY <1>1, <1>2, <1>3, AnswerStep

(* An error: a fatal one ends the session, unless it refuses a base64 proof.    *)
LEMMA ErrorStep ==
    ASSUME IInv, NEW i, NEW code, OnError(i, code)
    PROVE  IInv' /\ (BInv => BInv')
  <1>0. DOMAIN c = Fields /\ up /\ i \in DOMAIN c.wire
    BY DEF IInv, Sound, OnError
  <1>1. CASE i \in c.aux
    <2>1. /\ c' = [Answered(c, i) EXCEPT !.aux = @ \ {i}, !.telemetry = @ /\ code # "unknown"]
          /\ up' = up /\ pending' = pending /\ refused' = refused /\ costly' = costly /\ left' = left
      BY <1>1 DEF OnError, process, outside
    <2>2. /\ Differs(c, c', AnswerFields)
          /\ c'.wire = Restrict(c.wire, DOMAIN c.wire \ {i})
          /\ c'.aux = c.aux \ {i} /\ c'.swallowed = c.swallowed /\ c'.aiPending = c.aiPending
          /\ c'.b64ids = c.b64ids /\ c'.b64 = c.b64
      BY <1>0, <2>1 DEF Answered, Differs, Fields, AnswerFields
    <2>3. c.aiPending # None => c.aiPending # i
      BY <1>1 DEF IInv, Sound, IdsAreGivenOnce
    <2>4. TakesAnswer(i)
      BY <2>2, <2>3 DEF TakesAnswer
    <2>5. EncodingIsSettled(c', refused')
      BY <2>1, <2>2, Zenon DEF IInv, EncodingIsSettled
    <2>. QED
      BY <2>1, <2>4, <2>5, AnswerStep
  <1>2. CASE i \notin c.aux /\ i = c.aiPending
    <2>1. /\ c' = TakeAiResponseAck(Answered(c, i), i)
          /\ up' = up /\ pending' = pending /\ refused' = refused /\ costly' = costly /\ left' = left
      BY <1>2 DEF OnError, process, outside
    <2>2. /\ Differs(c, c', AnswerFields)
          /\ c'.wire = Restrict(c.wire, DOMAIN c.wire \ {i})
          /\ c'.aux = c.aux /\ c'.swallowed = c.swallowed /\ c'.aiPending = None
          /\ c'.b64ids = c.b64ids /\ c'.b64 = c.b64
      BY <1>0, <1>2, <2>1 DEF TakeAiResponseAck, Answered, Differs, Fields, AnswerFields
    <2>3. TakesAnswer(i)
      BY <2>2 DEF TakesAnswer
    <2>4. EncodingIsSettled(c', refused')
      BY <2>1, <2>2, Zenon DEF IInv, EncodingIsSettled
    <2>. QED
      BY <2>1, <2>3, <2>4, AnswerStep
  <1>3. CASE i \notin c.aux /\ i # c.aiPending /\ i \in c.b64ids
    <2>1. /\ c' = [Answered(c, i) EXCEPT !.b64ids = @ \ {i}, !.b64 = FALSE]
          /\ pending' = Restrict(pending, DOMAIN pending \ {i})
          /\ up' = up /\ refused' = TRUE /\ costly' = costly /\ left' = left
      BY <1>3 DEF OnError, RefuseB64, outside
    <2>2. /\ Differs(c, c', AnswerFields)
          /\ c'.wire = Restrict(c.wire, DOMAIN c.wire \ {i})
          /\ c'.aux = c.aux /\ c'.swallowed = c.swallowed /\ c'.aiPending = c.aiPending
          /\ c'.b64ids = c.b64ids \ {i} /\ c'.b64 = FALSE
      BY <1>0, <2>1 DEF Answered, Differs, Fields, AnswerFields
    <2>3. TakesAnswer(i)
      BY <1>3, <2>2 DEF TakesAnswer
    <2>4. EncodingIsSettled(c', refused')
      BY <2>1, <2>2, Zenon DEF EncodingIsSettled
    <2>. QED
      BY <2>1, <2>3, <2>4, AnswerStep
  <1>4. CASE i \notin c.aux /\ i # c.aiPending /\ i \notin c.b64ids /\ code = "fatal"
    <2>. DEFINE shares == Restrict(pending, DOMAIN pending \ {i})
    <2>1. SessionEnds(shares) /\ costly' = (costly \/ c.wire[i] = "b64")
      BY <1>4 DEF OnError
    <2>2. SharesAreOurs(c, pending, FALSE)
      BY DEF IInv, SharesAreOurs
    <2>3. SharesAreOurs(c, shares, FALSE)
      BY <2>2, FewerShares
    <2>. HIDE DEF shares
    <2>4. IInv' /\ (BInv /\ costly' = costly => BInv')
      BY <2>1, <2>3, SessionEndsStep
    <2>5. BInv => costly' = costly
      <3>1. BInv => c.wire[i] # "b64" /\ costly = FALSE
        BY <1>0, <1>4 DEF BInv, ProofsAreKnown
      <3>. QED
        BY <2>1, <3>1
    <2>. QED
      BY <2>4, <2>5
  <1>5. CASE i \notin c.aux /\ i # c.aiPending /\ i \notin c.b64ids /\ code # "fatal"
    <2>1. /\ c' = Answered(c, i)
          /\ pending' = Restrict(pending, DOMAIN pending \ {i})
          /\ up' = up /\ refused' = refused /\ costly' = costly /\ left' = left
      BY <1>5 DEF OnError, outside
    <2>2. /\ Differs(c, c', AnswerFields)
          /\ c'.wire = Restrict(c.wire, DOMAIN c.wire \ {i})
          /\ c'.aux = c.aux /\ c'.swallowed = c.swallowed /\ c'.aiPending = c.aiPending
          /\ c'.b64ids = c.b64ids /\ c'.b64 = c.b64
      BY <1>0, <2>1 DEF Answered, Differs, Fields, AnswerFields
    <2>3. TakesAnswer(i)
      BY <1>5, <2>2 DEF TakesAnswer
    <2>4. EncodingIsSettled(c', refused')
      BY <2>1, <2>2, Zenon DEF IInv, EncodingIsSettled
    <2>. QED
      BY <2>1, <2>3, <2>4, AnswerStep
  <1>. QED
    BY <1>1, <1>2, <1>3, <1>4, <1>5

-----------------------------------------------------------------------------
(* The tasks *)

(* The task t leaves the card for good, or to send with the others X.          *)
LEMMA CardFreed ==
    ASSUME NEW s, NEW u, NEW t \in s.tasks, NEW X, Sound(s), t.phase = "gpu",
           u.tasks = (s.tasks \ {t}) \cup X, u.busy = FALSE, u.flag = FALSE,
           \A x \in X : /\ DOMAIN x = TaskFields /\ x.phase = "send"
                        /\ x.kind \in Answering \cup Replying
    PROVE  TasksAreKnown(u) /\ CardIsTold(u)
  <1>1. TasksAreKnown(u)
    BY DEF Sound, TasksAreKnown
  <1>2. \A x \in u.tasks : x.phase # "gpu"
    <2>1. \A x \in s.tasks : x.phase = "gpu" => x = t
      BY DEF Sound, CardIsTold
    <2>. QED
      BY <2>1
  <1>3. CardIsTold(u)
    BY <1>2, Zenon DEF CardIsTold
  <1>. QED
    BY <1>1, <1>3

(* A task that ends without an answer to wait for.                            *)
LEMMA EndsQuietly ==
    ASSUME IInv, NEW t \in c.tasks, NEW X, t.phase = "gpu",
           Differs(c, c', {"busy", "flag", "tasks", "id", "inProgress", "results"}),
           c'.tasks = (c.tasks \ {t}) \cup X, c'.busy = FALSE, c'.flag = FALSE,
           c'.id = c.id \/ c'.id = c.id + 1,
           \A x \in X : /\ DOMAIN x = TaskFields /\ x.phase = "send"
                        /\ x.kind \in Answering \cup Replying,
           pending' = pending, up' = up, refused' = refused, costly' = costly,
           left' = left \/ (left > 0 /\ left' = left - 1)
    PROVE  IInv' /\ (BInv => BInv')
  <1>1. /\ DOMAIN c' = Fields /\ c'.no = c.no /\ c'.aux = c.aux /\ c'.aiPending = c.aiPending
        /\ c'.wire = c.wire /\ c'.swallowed = c.swallowed
        /\ c'.b64 = c.b64 /\ c'.b64ids = c.b64ids
    BY DEF IInv, Sound, Differs, Fields
  <1>2. TasksAreKnown(c') /\ CardIsTold(c')
    BY CardFreed DEF IInv
  <1>3. IdsAreGivenOnce(c')
    BY <1>1 DEF IInv, Sound, IdsAreGivenOnce
  <1>4. AnswerIsUnderWay(c')
    <2>1. \A u \in c.tasks : u.phase = "send" => u \in c'.tasks
      OBVIOUS
    <2>. QED
      BY <1>1, <2>1 DEF IInv, Sound, AnswerIsUnderWay
  <1>5. SubscribesFirst(c')
    BY <1>1 DEF IInv, Sound, SubscribesFirst
  <1>6. SharesAreOurs(c', pending', up')
    <2>1. c.id \in Nat
      BY DEF IInv, Sound, IdsAreGivenOnce
    <2>2. \A i \in DOMAIN pending :
            up /\ pending[i] = c.no =>
              i \in Nat /\ i < c.id /\ (c.aiPending # None => i # c.aiPending)
      BY DEF IInv, SharesAreOurs
    <2>3. \A i \in DOMAIN pending :
            up /\ pending[i] = c.no =>
              i \in Nat /\ i < c'.id /\ (c.aiPending # None => i # c.aiPending)
      BY <2>1, <2>2
    <2>. QED
      BY <1>1, <2>3 DEF IInv, SharesAreOurs
  <1>7. EncodingIsSettled(c', refused')
    BY <1>1, Zenon DEF IInv, EncodingIsSettled
  <1>8. ASSUME BInv
        PROVE  BInv'
    <2>1. /\ left \in Nat /\ left <= MaxLines /\ IsFiniteSet(c.b64ids)
          /\ Cardinality(c.b64ids) + left <= MaxLines
          /\ \A i \in DOMAIN c.wire : c.wire[i] = "b64" => i \in c.b64ids
      BY <1>8 DEF BInv, ProofsAreKnown
    <2>2. Cardinality(c.b64ids) \in Nat /\ MaxLines \in Nat
      BY <2>1, FS_CardinalityType, StratumAssumption
    <2>3. left' \in Nat /\ left' <= MaxLines /\ Cardinality(c.b64ids) + left' <= MaxLines
      BY <2>1, <2>2
    <2>. QED
      BY <1>1, <1>8, <2>1, <2>3 DEF BInv, ProofsAreKnown
  <1>. QED
    BY <1>1, <1>2, <1>3, <1>4, <1>5, <1>6, <1>7, <1>8 DEF IInv, Sound

(* The inference is over.                                                    *)
LEMMA GpuDoneStep ==
    ASSUME IInv, NEW t \in c.tasks, NEW ok \in BOOLEAN, GpuDone(t, ok)
    PROVE  IInv' /\ (BInv => BInv')
  <1>0. /\ DOMAIN c = Fields /\ Sound(c) /\ DOMAIN t = TaskFields
        /\ t.kind \in Answering \cup Replying \cup {"self", "task"}
    BY DEF IInv, Sound, TasksAreKnown
  <1>1. /\ t.phase = "gpu" /\ up' = up /\ pending' = pending /\ refused' = refused
        /\ costly' = costly
        /\ left' = left \/ (left > 0 /\ left' = left - 1)
    BY DEF GpuDone
  <1>. DEFINE s == Resume(c)
              Ends(u) == Differs(c, u, {"busy", "flag", "tasks", "id", "inProgress", "results"})
              sent(i) == [t EXCEPT !.phase = "send", !.id = i]
  <1>2. ASSUME NEW i
        PROVE  /\ DOMAIN sent(i) = TaskFields /\ sent(i).phase = "send" /\ sent(i).id = i
               /\ sent(i).kind = t.kind
    BY <1>0 DEF TaskFields
  <1>3. CASE t.kind \in Answering /\ ok
    <2>1. c' = [Sending(s, t, c.id) EXCEPT !.id = @ + 1, !.aiPending = c.id]
      BY <1>3 DEF GpuDone, Answering
    <2>2. /\ DOMAIN c' = Fields /\ c'.no = c.no /\ c'.aux = c.aux
          /\ c'.id = c.id + 1 /\ c'.aiPending = c.id
          /\ c'.wire = c.wire /\ c'.swallowed = c.swallowed
          /\ c'.b64 = c.b64 /\ c'.b64ids = c.b64ids
          /\ c'.tasks = (c.tasks \ {t}) \cup {sent(c.id)} /\ c'.busy = FALSE /\ c'.flag = FALSE
      BY <1>0, <2>1 DEF Resume, Sending, Fields
    <2>. HIDE DEF sent
    <2>3. TasksAreKnown(c') /\ CardIsTold(c')
      <3>1. \A x \in {sent(c.id)} : /\ DOMAIN x = TaskFields /\ x.phase = "send"
                                    /\ x.kind \in Answering \cup Replying
        BY <1>2, <1>3
      <3>. QED
        BY ZenonT(60), <1>0, <1>1, <2>2, <3>1, CardFreed
    <2>4. IdsAreGivenOnce(c')
      BY <1>0, <2>2 DEF Sound, IdsAreGivenOnce
    <2>5. AnswerIsUnderWay(c')
      BY <1>2, <1>3, <2>2 DEF AnswerIsUnderWay
    <2>6. SubscribesFirst(c')
      BY <1>0, <2>2 DEF Sound, SubscribesFirst
    <2>7. SharesAreOurs(c', pending', up')
      <3>1. c.id \in Nat
        BY <1>0 DEF Sound, IdsAreGivenOnce
      <3>2. \A i \in DOMAIN pending : up /\ pending[i] = c.no => i \in Nat /\ i < c.id
        BY DEF IInv, SharesAreOurs
      <3>3. \A i \in DOMAIN pending :
              up /\ pending[i] = c.no => i \in Nat /\ i < c.id + 1 /\ i # c.id
        BY <3>1, <3>2
      <3>. QED
        BY <1>1, <2>2, <3>3 DEF IInv, SharesAreOurs
    <2>8. EncodingIsSettled(c', refused')
      BY <1>1, <2>2, Zenon DEF IInv, EncodingIsSettled
    <2>9. ASSUME BInv
          PROVE  BInv'
      <3>1. left' = left
        BY <1>3 DEF GpuDone, Answering
      <3>. QED
        BY <1>1, <2>2, <2>9, <3>1 DEF BInv, ProofsAreKnown
    <2>. QED
      BY <2>2, <2>3, <2>4, <2>5, <2>6, <2>7, <2>8, <2>9 DEF IInv, Sound
  <1>4. CASE (t.kind \in Answering /\ ~ok) \/ t.kind \in {"self", "task"}
    <2>1. /\ Ends(c') /\ c'.tasks = c.tasks \ {t} /\ c'.busy = FALSE /\ c'.flag = FALSE
          /\ c'.id = c.id \/ c'.id = c.id + 1
      <3>1. \/ c' = [s EXCEPT !.tasks = @ \ {t}, !.id = @ + 1]
            \/ c' = [s EXCEPT !.tasks = @ \ {t}]
            \/ c' = [s EXCEPT !.tasks = @ \ {t}, !.inProgress = @ \ {t.r},
                              !.results = IF ok THEN @ \cup {t.r} ELSE @]
        BY <1>4 DEF GpuDone, Answering
      <3>. DEFINE d == s.inProgress \ {t.r}
                  e == IF ok THEN s.results \cup {t.r} ELSE s.results
      <3>2. \/ c' = [s EXCEPT !.tasks = @ \ {t}, !.id = @ + 1]
            \/ c' = [s EXCEPT !.tasks = @ \ {t}]
            \/ c' = [s EXCEPT !.tasks = @ \ {t}, !.inProgress = d, !.results = e]
        BY <3>1
      <3>. HIDE DEF d, e
      <3>3. CASE c' = [s EXCEPT !.tasks = @ \ {t}, !.id = @ + 1]
        BY <1>0, <3>3 DEF Resume, Differs, Fields
      <3>4. CASE c' = [s EXCEPT !.tasks = @ \ {t}]
        BY <1>0, <3>4 DEF Resume, Differs, Fields
      <3>5. CASE c' = [s EXCEPT !.tasks = @ \ {t}, !.inProgress = d, !.results = e]
        BY <1>0, <3>5 DEF Resume, Differs, Fields
      <3>. QED
        BY <3>2, <3>3, <3>4, <3>5
    <2>. DEFINE X == {}
    <2>2. /\ c'.tasks = (c.tasks \ {t}) \cup X
          /\ \A x \in X : /\ DOMAIN x = TaskFields /\ x.phase = "send"
                          /\ x.kind \in Answering \cup Replying
      BY <2>1
    <2>. HIDE DEF X
    <2>. QED
      BY <1>1, <2>1, <2>2, EndsQuietly
  <1>5. CASE t.kind \in Replying
    <2>1. c' = Sending(s, t, t.id)
      BY <1>5 DEF GpuDone, Replying
    <2>2. /\ Ends(c') /\ c'.tasks = (c.tasks \ {t}) \cup {sent(t.id)}
          /\ c'.busy = FALSE /\ c'.flag = FALSE /\ c'.id = c.id
      BY <1>0, <2>1 DEF Resume, Sending, Differs, Fields
    <2>. HIDE DEF sent
    <2>3. \A x \in {sent(t.id)} : /\ DOMAIN x = TaskFields /\ x.phase = "send"
                                  /\ x.kind \in Answering \cup Replying
      BY <1>2, <1>5
    <2>. QED
      BY ZenonT(60), <1>1, <2>2, <2>3, EndsQuietly
  <1>. QED
    BY <1>0, <1>3, <1>4, <1>5

(* The line of a task goes out.                                              *)
LEMMA LineSentStep ==
    ASSUME IInv, NEW t \in c.tasks, LineSent(t)
    PROVE  IInv' /\ (BInv => BInv')
  <1>0. /\ DOMAIN c = Fields /\ Sound(c) /\ t.phase = "send"
        /\ t.kind \in Answering \cup Replying
    BY DEF IInv, Sound, TasksAreKnown, LineSent
  <1>1. up' = up /\ pending' = pending /\ refused' = refused /\ costly' = costly /\ left' = left
    BY DEF LineSent, process, outside
  <1>. DEFINE s == [c EXCEPT !.tasks = @ \ {t}]
  <1>2. /\ DOMAIN s = Fields /\ s.tasks = c.tasks \ {t} /\ s.busy = c.busy /\ s.flag = c.flag
        /\ s.no = c.no /\ s.id = c.id /\ s.aux = c.aux /\ s.aiPending = c.aiPending
        /\ s.wire = c.wire /\ s.swallowed = c.swallowed
        /\ s.b64 = c.b64 /\ s.b64ids = c.b64ids
    BY <1>0 DEF Fields
  <1>3. CASE t.kind \in Answering
    <2>1. c' = Sent(s, t.id, "ai")
      BY <1>3 DEF LineSent, Answering
    <2>2. /\ DOMAIN c' = Fields /\ c'.tasks = c.tasks \ {t} /\ c'.busy = c.busy /\ c'.flag = c.flag
          /\ c'.no = c.no /\ c'.id = c.id /\ c'.aux = c.aux /\ c'.aiPending = c.aiPending
          /\ c'.wire = With(c.wire, {t.id}, "ai") /\ c'.swallowed = c.swallowed
          /\ c'.b64 = c.b64 /\ c'.b64ids = c.b64ids
      <3>. HIDE DEF s
      <3>. QED
        BY <1>2, <2>1 DEF Sent, Fields
    <2>3. /\ DOMAIN c'.wire = DOMAIN c.wire \cup {t.id} /\ c'.wire[t.id] = "ai"
          /\ \A i \in DOMAIN c.wire \ {t.id} : c'.wire[i] = c.wire[i]
      BY <2>2 DEF With
    <2>4. TasksAreKnown(c')
      BY <1>0, <2>2 DEF Sound, TasksAreKnown
    <2>5. CardIsTold(c')
      <3>1. \A u \in c.tasks : u.phase = "gpu" <=> u \in c'.tasks /\ u.phase = "gpu"
        BY <1>0, <2>2
      <3>. QED
        BY <1>0, <2>2, <3>1, Zenon DEF Sound, CardIsTold
    <2>6. IdsAreGivenOnce(c')
      BY <1>0, <2>2 DEF Sound, IdsAreGivenOnce
    <2>7. AnswerIsUnderWay(c')
      <3>1. \A u \in c.tasks : u \in c'.tasks \/ u = t
        BY <2>2
      <3>. QED
        BY <1>0, <2>2, <2>3, <3>1 DEF Sound, AnswerIsUnderWay
    <2>8. SubscribesFirst(c')
      BY <1>0, <2>3 DEF Sound, SubscribesFirst
    <2>9. Benign(c, c')
      BY <2>2, <2>3, <2>4, <2>5, <2>6, <2>7, <2>8 DEF Benign, Sound
    <2>. QED
      BY <1>1, <2>9, BenignStep
  <1>4. CASE t.kind \in Replying
    <2>. HIDE DEF s
    <2>1. Benign(c, s)
      <3>1. TasksAreKnown(s)
        BY <1>0, <1>2 DEF Sound, TasksAreKnown
      <3>2. CardIsTold(s)
        <4>1. \A u \in c.tasks : u.phase = "gpu" <=> u \in s.tasks /\ u.phase = "gpu"
          BY <1>0, <1>2
        <4>. QED
          BY <1>0, <1>2, <4>1, Zenon DEF Sound, CardIsTold
      <3>3. IdsAreGivenOnce(s) /\ SubscribesFirst(s)
        BY <1>0, <1>2 DEF Sound, IdsAreGivenOnce, SubscribesFirst
      <3>4. AnswerIsUnderWay(s)
        <4>1. \A u \in c.tasks : u.kind \in Answering => u \in s.tasks
          BY <1>2, <1>4 DEF Answering, Replying
        <4>. QED
          BY <1>0, <1>2, <4>1 DEF Sound, AnswerIsUnderWay
      <3>. QED
        BY <1>2, <3>1, <3>2, <3>3, <3>4 DEF Benign, Sound
    <2>2. Sound(s)
      BY <2>1 DEF Benign
    <2>3. c' = AnswerOpening(s, t.id) \/ c' = Settle(s, Chat(t.id)) \/ c' = s
      BY <1>4 DEF LineSent, Replying, s
    <2>4. Benign(s, AnswerOpening(s, t.id))
      BY <2>2, AnswersAreBenign DEF AnswerOpening
    <2>5. Benign(s, Settle(s, Chat(t.id)))
      <3>1. Differs(s, Settle(s, Chat(t.id)),
                    {"template", "openings", "telemetry", "results", "inProgress", "owed"})
        BY <1>2 DEF Settle, Differs, Fields
      <3>. QED
        BY <2>2, <3>1, ElsewhereIsBenign
    <2>6. Benign(c, c')
      BY <2>1, <2>3, <2>4, <2>5, BenignIsTransitive
    <2>. QED
      BY <1>1, <2>6, BenignStep
  <1>. QED
    BY <1>0, <1>3, <1>4

(* An opening that waits grows old.                                          *)
LEMMA QueueAgesStep ==
    ASSUME IInv, NEW k, QueueAges(k)
    PROVE  IInv' /\ (BInv => BInv')
  <1>0. DOMAIN c = Fields /\ Sound(c)
    BY DEF IInv, Sound
  <1>. DEFINE q == [c.openings EXCEPT ![k].late = TRUE]
  <1>1. c' = [c EXCEPT !.openings = q]
    BY DEF QueueAges
  <1>. HIDE DEF q
  <1>2. Differs(c, c', {"template", "openings", "telemetry", "results", "inProgress", "owed"})
    BY <1>0, <1>1 DEF Differs, Fields
  <1>3. up' = up /\ pending' = pending /\ refused' = refused /\ costly' = costly /\ left' = left
    BY DEF QueueAges, process, outside
  <1>. QED
    BY <1>0, <1>2, <1>3, ElsewhereIsBenign, BenignStep

(* Steps that leave the session alone.                                       *)
LEMMA OtherSteps ==
    ASSUME IInv, c' = c, up' = up, pending' = pending, refused' = refused, costly' = costly,
           left' = left
    PROVE  IInv' /\ (BInv => BInv')
  BY BenignIsReflexive, BenignStep DEF IInv

-----------------------------------------------------------------------------
(* The theorems *)

(* The first handler waits for nothing.                                      *)
LEMMA InitIInv == Init => IInv /\ BInv
  <1>. SUFFICES ASSUME Init PROVE IInv /\ BInv
    OBVIOUS
  <1>1. /\ c = Fresh(0) /\ up = FALSE /\ pending = <<>> /\ refused = FALSE
        /\ costly = FALSE /\ left = MaxLines
    BY DEF Init
  <1>2. /\ Sound(c) /\ c.no = 0 /\ c.b64 = FALSE
        /\ \A m \in Nat : m <= MaxLines => ProofsAreKnown(c, m)
    BY <1>1, FreshIsSound
  <1>3. SharesAreOurs(c, pending, up)
    <2>1. DOMAIN pending = {}
      BY <1>1
    <2>. QED
      BY <2>1 DEF SharesAreOurs
  <1>4. EncodingIsSettled(c, refused)
    BY <1>1, <1>2, Zenon DEF EncodingIsSettled
  <1>5. BInv
    BY <1>1, <1>2, StratumAssumption DEF BInv
  <1>. QED
    BY <1>2, <1>3, <1>4, <1>5 DEF IInv

(* Every step keeps the invariant, one action at a time.                      *)
LEMMA NextIInv ==
    ASSUME IInv, [Next]_vars
    PROVE  IInv' /\ (RoomForProofs /\ BInv => BInv')
  <1>1. CASE Lost
    <2>1. SharesAreOurs(c, pending, FALSE)
      BY DEF IInv, SharesAreOurs
    <2>2. SessionEnds(pending) /\ costly' = costly
      BY <1>1 DEF Lost
    <2>. QED
      BY <2>1, <2>2, SessionEndsStep
  <1>2. CASE Reply
    BY <1>2, SubscribedStep, TrueStep, FalseStep, ErrorStep DEF Reply
  <1>3. CASE PoolCommand
    BY <1>3, CommandSteps, AiOpeningStep DEF PoolCommand
  <1>4. CASE Inference
    BY <1>4, GpuDoneStep DEF Inference
  <1>5. CASE Delivery
    BY <1>5, LineSentStep DEF Delivery
  <1>6. CASE Orphan
    <2>1. /\ c' = c /\ up' = up /\ pending' = pending /\ refused' = refused
          /\ costly' = costly /\ left' = left
      BY <1>6 DEF Orphan, OrphanDone, outside
    <2>. QED
      BY <2>1, OtherSteps
  <1>7. CASE ModelReady
    <2>1. /\ c' = c /\ up' = up /\ pending' = pending /\ refused' = refused
          /\ costly' = costly /\ left' = left
      BY <1>7 DEF ModelReady, outside
    <2>. QED
      BY <2>1, OtherSteps
  <1>8. CASE \E r \in Requests : Forget(r)
    <2>1. /\ c' = c /\ up' = up /\ pending' = pending /\ refused' = refused
          /\ costly' = costly /\ left' = left
      BY <1>8 DEF Forget, outside
    <2>. QED
      BY <2>1, OtherSteps
  <1>9. CASE UNCHANGED vars
    <2>1. /\ c' = c /\ up' = up /\ pending' = pending /\ refused' = refused
          /\ costly' = costly /\ left' = left
      BY <1>9 DEF vars, process, outside
    <2>. QED
      BY <2>1, OtherSteps
  <1>10. CASE \E k \in DOMAIN c.openings : QueueAges(k)
    BY <1>10, QueueAgesStep
  <1>11. CASE Connect
    BY <1>11, ConnectStep
  <1>12. CASE Job
    BY <1>12, JobSteps
  <1>13. CASE Submit
    BY <1>13, SubmitStep
  <1>14. CASE Telemetry
    BY <1>14, TelemetryStep
  <1>. QED
    BY <1>1, <1>2, <1>3, <1>4, <1>5, <1>6, <1>7, <1>8, <1>9, <1>10, <1>11, <1>12, <1>13, <1>14
    DEF Next

(* What the invariant says of the pause and of the response.                  *)
LEMMA InvariantMeans ==
    ASSUME IInv
    PROVE  PauseIsExact /\ PendingIsAwaited /\ (refused => ~c.b64)
  <1>1. /\ \A t, u \in c.tasks : t.phase = "gpu" /\ u.phase = "gpu" => t = u
        /\ c.busy \in BOOLEAN /\ c.flag \in BOOLEAN
        /\ c.busy <=> \E t \in c.tasks : t.phase = "gpu"
        /\ c.flag <=> \E t \in c.tasks : t.phase = "gpu"
    BY Zenon DEF IInv, Sound, CardIsTold
  <1>2. Cardinality(OnCard) <= 1
    <2>1. CASE OnCard = {}
      BY <2>1, FS_EmptySet
    <2>2. CASE OnCard # {}
      <3>1. PICK t \in OnCard : TRUE
        BY <2>2
      <3>2. OnCard = {t}
        BY <1>1, <3>1 DEF OnCard
      <3>. QED
        BY <3>2, FS_Singleton
    <2>. QED
      BY <2>1, <2>2
  <1>3. (OnCard # {}) <=> \E t \in c.tasks : t.phase = "gpu"
    BY DEF OnCard
  <1>4. c.busy = (OnCard # {}) /\ c.flag = (OnCard # {})
    BY <1>1, <1>3
  <1>5. PendingIsAwaited
    BY DEF IInv, Sound, AnswerIsUnderWay, PendingIsAwaited
  <1>6. refused => ~c.b64
    BY Zenon DEF IInv, EncodingIsSettled
  <1>. QED
    BY <1>2, <1>4, <1>5, <1>6 DEF PauseIsExact

(* One inference at a time holds the card and the workers are told so, a       *)
(* response waited for is one the pool may still answer, and a pool that       *)
(* refused base64 is sent hex: InferenceGuard, take_ai_response_ack and        *)
(* ProofEncoding, whatever the caps on ids, queues and sessions.              *)
THEOREM SessionsAgree == Spec => [](PauseIsExact /\ PendingIsAwaited /\ (refused => ~c.b64))
  <1>1. Init => IInv
    BY InitIInv
  <1>2. IInv /\ [Next]_vars => IInv'
    BY NextIInv
  <1>3. IInv => PauseIsExact /\ PendingIsAwaited /\ (refused => ~c.b64)
    BY InvariantMeans
  <1>. QED
    BY <1>1, <1>2, <1>3, PTL DEF Spec

(* And when the lines sent leave room in the set of base64 ids, the refusal of  *)
(* such a proof never costs the session.                                     *)
THEOREM SessionsAreExact ==
    ASSUME RoomForProofs
    PROVE  Spec => []SessionIsExact
  <1>1. Init => IInv /\ BInv
    BY InitIInv
  <1>2. IInv /\ BInv /\ [Next]_vars => (IInv /\ BInv)'
    BY NextIInv
  <1>3. IInv /\ BInv => SessionIsExact
    BY InvariantMeans DEF BInv, RefusalCostsAShare, SessionIsExact
  <1>. QED
    BY <1>1, <1>2, <1>3, PTL DEF Spec
=============================================================================

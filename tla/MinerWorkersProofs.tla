------------------------- MODULE MinerWorkersProofs -------------------------
(***************************************************************************)
(* The workers obey the manager and drain into a pause, and a manager that   *)
(* is gone leaves nobody running: for every set of workers and of sessions,  *)
(* every capacity and every number of failed runs.  The runs of a GPU worker *)
(* stay in the nonce range of its pool and tile it, for every nonce space,   *)
(* every sub-range size that divides it and every batch.                    *)
(***************************************************************************)
EXTENDS MinerWorkers, NonceRange, FunctionTheorems, FiniteSetTheorems, SequenceTheorems,
        NaturalsInduction, WellFoundedInduction, TLAPS

-----------------------------------------------------------------------------
(* The inductive invariant *)

MoreTypes ==
    /\ session \in Sessions
    /\ is_synced \in BOOLEAN /\ opoi \in BOOLEAN
    /\ next_id \in Nat /\ ext \in 0..MaxExt
    /\ handles \in Seq(Workers)
    /\ kill_switch \in [Workers -> BOOLEAN]
    /\ stuck \in [Workers -> PC \cup {"no"}]
    /\ late \in [Workers -> Nat] /\ overlap \in [Workers -> 0..2]
    /\ faults \in 0..MaxFaults

(* While the client runs the commands it published are numbered within the    *)
(* bound, and the id of the next template is below the number of the next      *)
(* command; Close is one command more.                                        *)
PostsInBound ==
    /\ mgr = "run" => next_id < posted
    /\ mgr \in {"run", "close"} => posted <= session.posts

(* What CommandsArePrompt needs: the one batch more than the failed runs is a  *)
(* winner's, after which the worker has no template until it takes the        *)
(* command; a CPU worker runs no batches.                                     *)
PromptAt(p, j, l, f) ==
    session.full =>
      /\ l <= 1 + f
      /\ l > f => p \in {"submit"} \cup Ended \/ (p = "top" /\ j = NoJob)

OnlyWinnersAreLate ==
    /\ \A w \in Workers : PromptAt(pc[w], state[w], late[w], faults)
    /\ \A w \in Cpu : late[w] = 0

(* A worker of the inference GPU that ended a batch in a pause is on no way    *)
(* to another one.                                                           *)
OutAt(w, p, j, o) ==
    opoi /\ w \in InferGpu =>
      /\ o <= 1
      /\ o = 1 /\ j # NoJob /\ j.era # "legacy" => p \notin {"load", "ready", "trace", "mine"}

DrainedStayOut == \A w \in Workers : OutAt(w, pc[w], state[w], overlap[w])

(* A thread that runs has its handle, and a handle leaves the list after its   *)
(* thread ended.                                                             *)
RunningIsHandled ==
    /\ \A w \in Workers : pc[w] \notin Ended => \E i \in 1..Len(handles) : handles[i] = w
    /\ mgr = "joined" => handles # <<>> /\ pc[Joining] \in Ended
    /\ mgr = "gone" => handles = <<>>

IInv == TypeOK /\ MoreTypes /\ PostsInBound /\ OnlyWinnersAreLate /\ DrainedStayOut /\ RunningIsHandled

-----------------------------------------------------------------------------
(* Lemmas *)

\* A set of naturals that is not empty has a least element.
LEMMA LeastNatural ==
    ASSUME NEW S \in SUBSET Nat, S # {}
    PROVE  \E x \in S : \A y \in S : x <= y
  <1>. DEFINE R == {ss \in Nat \X Nat : ss[1] < ss[2]}
  <1>1. IsWellFoundedOn(R, Nat)
    BY NatLessThanWellFounded, Zenon DEF OpToRel
  <1>2. \E x \in S : \A y \in S : <<y, x>> \notin R
    <2>. HIDE DEF R
    <2>. QED
      BY <1>1, WFMin
  <1>3. PICK x \in S : \A y \in S : <<y, x>> \notin R
    BY <1>2
  <1>4. \A y \in S : x <= y
    <2>. SUFFICES ASSUME NEW y \in S PROVE x <= y
      OBVIOUS
    <2>1. ~(y < x)
      BY <1>3
    <2>. QED
      BY <2>1
  <1>. QED
    BY <1>4

\* A finite set of naturals that is not empty has a greatest element, which Max returns: among the
\* sets that had none one would be smallest, and without any element it would have one.
LEMMA MaxOfNaturals ==
    ASSUME NEW S \in SUBSET Nat, IsFiniteSet(S), S # {}
    PROVE  Max(S) \in S /\ \A n \in S : n <= Max(S)
  <1>. DEFINE HasMax(T) == \E m \in T : \A n \in T : n <= m
              Counter(T) == T \in SUBSET Nat /\ T # {} /\ IsFiniteSet(T) /\ ~HasMax(T)
              Counts == {c \in Nat : \E T \in SUBSET Nat : Counter(T) /\ Cardinality(T) = c}
  <1>1. Counts = {}
    <2>1. SUFFICES ASSUME Counts # {} PROVE FALSE
      OBVIOUS
    <2>2. PICK c \in Counts : \A d \in Counts : c <= d
      <3>1. Counts \in SUBSET Nat
        OBVIOUS
      <3>. HIDE DEF Counts
      <3>. QED
        BY <2>1, <3>1, LeastNatural
    <2>3. PICK T \in SUBSET Nat : Counter(T) /\ Cardinality(T) = c
      OBVIOUS
    <2>4. PICK x \in T : TRUE
      BY <2>3
    <2>5. IsFiniteSet(T \ {x}) /\ Cardinality(T \ {x}) = c - 1 /\ Cardinality(T \ {x}) \in Nat
      BY <2>3, <2>4, FS_RemoveElement, FS_CardinalityType
    <2>6. c - 1 \notin Counts
      BY <2>2
    <2>7. HasMax(T \ {x}) \/ T \ {x} = {}
      BY <2>5, <2>6
    <2>8. HasMax(T)
      <3>1. CASE T \ {x} = {}
        BY <2>4, <3>1
      <3>2. CASE HasMax(T \ {x})
        <4>1. PICK m \in T \ {x} : \A n \in T \ {x} : n <= m
          BY <3>2
        <4>2. CASE m <= x
          BY <2>4, <4>1, <4>2
        <4>3. CASE ~(m <= x)
          BY <2>4, <4>1, <4>3
        <4>. QED
          BY <4>2, <4>3
      <3>. QED
        BY <2>7, <3>1, <3>2
    <2>. QED
      BY <2>3, <2>8
  <1>2. Cardinality(S) \in Nat
    BY FS_CardinalityType
  <1>3. HasMax(S)
    BY <1>1, <1>2
  <1>. QED
    BY <1>3 DEF Max

\* The bound of every session is within the bound of all of them.
LEMMA PostsBound ==
    ASSUME NEW ses \in Sessions
    PROVE  /\ MaxPosts \in Nat /\ ses.posts \in Nat \ {0} /\ ses.posts <= MaxPosts
           /\ ses.full \in BOOLEAN /\ ses.crew \in SUBSET Workers
  <1>. DEFINE P == {x.posts : x \in Sessions}
              f == [x \in Sessions |-> x.posts]
  <1>1. \A x \in Sessions : x.posts \in Nat \ {0} /\ x.full \in BOOLEAN /\ x.crew \in SUBSET Workers
    BY BoundsAssumption
  <1>2. P \in SUBSET Nat /\ ses.posts \in P
    BY <1>1
  <1>3. f \in Surjection(Sessions, P)
    BY Fun_IsSurj
  <1>4. IsFiniteSet(P)
    <2>. HIDE DEF f, P
    <2>. QED
      BY <1>3, BoundsAssumption, FS_Surjection
  <1>5. Max(P) \in P /\ \A n \in P : n <= Max(P)
    <2>. HIDE DEF P
    <2>. QED
      BY <1>2, <1>4, MaxOfNaturals
  <1>. QED
    BY <1>1, <1>2, <1>5 DEF MaxPosts

\* Joining a thread takes the last handle off the list.
LEMMA FrontAndLast ==
    ASSUME NEW q \in Seq(Workers), q # <<>>
    PROVE  /\ Len(q) \in Nat \ {0} /\ Last(q) \in Workers /\ Last(q) = q[Len(q)]
           /\ Front(q) \in Seq(Workers) /\ Len(Front(q)) = Len(q) - 1
           /\ \A i \in 1..(Len(q) - 1) : Front(q)[i] = q[i]
  <1>1. Len(q) \in Nat \ {0} /\ Last(q) = q[Len(q)] /\ Last(q) \in Workers
    BY DEF Last
  <1>2. ASSUME NEW n \in Nat, n <= Len(q)
        PROVE  /\ SubSeq(q, 1, n) \in Seq(Workers) /\ Len(SubSeq(q, 1, n)) = n
               /\ \A i \in 1..n : SubSeq(q, 1, n)[i] = q[i]
    BY <1>2
  <1>3. Len(q) - 1 \in Nat /\ Len(q) - 1 <= Len(q)
    BY <1>1
  <1>. QED
    BY <1>1, <1>2, <1>3 DEF Front

\* What is posted is a template of the session's era and range.
LEMMA JobTypes ==
    ASSUME NEW j \in Jobs
    PROVE  /\ j.kind = "job" /\ j # NoJob /\ j # Close
           /\ j.era \in Eras
  BY DEF Jobs, Job, NoJob, Close

\* What taking a command does: it is a new one, and the worker is on top again or returns.
LEMMA TakeEffect ==
    ASSUME TypeOK, MoreTypes, NEW w \in Workers, NEW kept \in Jobs \cup {NoJob}, Take(w, kept)
    PROVE  /\ seen' \in [Workers -> 0..posted]
           /\ \E j \in Jobs \cup {NoJob} : state' = [state EXCEPT ![w] = j]
           /\ \E p \in {"top", "exit"} : pc' = [pc EXCEPT ![w] = p]
           /\ late' = [late EXCEPT ![w] = 0]
  <1>1. \A n \in (seen[w] + 1)..posted : n \in 0..posted
    BY DEF TypeOK
  <1>2. IF cmd.kind = "job" THEN cmd \in Jobs ELSE kept \in Jobs \cup {NoJob}
    BY DEF TypeOK, NoJob, Close
  <1>. QED
    BY <1>1, <1>2 DEF Take, TypeOK

\* What a poll does: it takes a command, or goes on.
LEMMA PollEffect ==
    ASSUME TypeOK, MoreTypes, NEW w \in Workers, NEW kept \in Jobs \cup {NoJob}, NEW next \in PC,
           Poll(w, kept, next)
    PROVE  /\ seen' \in [Workers -> 0..posted]
           /\ \/ /\ \E j \in Jobs \cup {NoJob} : state' = [state EXCEPT ![w] = j]
                 /\ \E p \in {"top", "exit"} : pc' = [pc EXCEPT ![w] = p]
                 /\ late' = [late EXCEPT ![w] = 0]
              \/ UNCHANGED <<state, late>> /\ pc' = [pc EXCEPT ![w] = next]
  <1>1. CASE Take(w, kept)
    BY <1>1, TakeEffect
  <1>2. CASE ~Take(w, kept)
    BY <1>2 DEF Poll, TypeOK
  <1>. QED
    BY <1>1, <1>2

-----------------------------------------------------------------------------
(* The steps of a worker *)

Moves(w, p, j, l, o) ==
    /\ pc' = [pc EXCEPT ![w] = p] /\ state' = [state EXCEPT ![w] = j]
    /\ late' = [late EXCEPT ![w] = l] /\ overlap' = [overlap EXCEPT ![w] = o]
    /\ seen' \in [Workers -> 0..posted]
    /\ UNCHANGED <<commands, client, drop, open, session>>

\* A worker that runs moves on, alone: what the invariant says of the others and of the manager
\* stays true, and what it says of this worker is asked for.
LEMMA MovesKeep ==
    ASSUME IInv, NEW w \in Workers, pc[w] \notin Ended,
           NEW p \in PC, NEW j \in Jobs \cup {NoJob}, NEW l \in Nat, NEW o \in 0..2, Moves(w, p, j, l, o),
           queue' \in 0..QueueCap, faults' \in faults..MaxFaults,
           PromptAt(p, j, l, faults'), w \in Cpu => l = 0, OutAt(w, p, j, o)
    PROVE  IInv'
  <1>0. /\ pc \in [Workers -> PC] /\ state \in [Workers -> Jobs \cup {NoJob}]
        /\ late \in [Workers -> Nat] /\ overlap \in [Workers -> 0..2] /\ faults \in 0..MaxFaults
        /\ MaxFaults \in Nat
    BY BoundsAssumption DEF IInv, TypeOK, MoreTypes
  <1>1. /\ pc' = [pc EXCEPT ![w] = p] /\ state' = [state EXCEPT ![w] = j]
        /\ late' = [late EXCEPT ![w] = l] /\ overlap' = [overlap EXCEPT ![w] = o]
        /\ seen' \in [Workers -> 0..posted]
    BY DEF Moves
  <1>2. UNCHANGED <<session, cmd, posted, is_synced, next_id, opoi, ext, mgr, handles, dog, kill_switch, stuck,
                    misfired, open>>
    BY DEF Moves, commands, client, drop
  <1>3. TypeOK'
    BY <1>0, <1>1, <1>2 DEF IInv, TypeOK
  <1>4. MoreTypes'
    BY <1>0, <1>1, <1>2 DEF IInv, MoreTypes
  <1>5. PostsInBound'
    BY <1>2 DEF IInv, PostsInBound
  <1>6. OnlyWinnersAreLate'
    <2>1. ASSUME NEW v \in Workers PROVE PromptAt(pc[v], state[v], late[v], faults)'
      <3>1. CASE v = w
        BY <1>0, <1>1, <1>2, <3>1 DEF PromptAt, NoJob, Ended
      <3>2. CASE v # w
        <4>1. pc'[v] = pc[v] /\ state'[v] = state[v] /\ late'[v] = late[v] /\ session' = session
              /\ late[v] \in Nat /\ faults' \in Nat /\ faults <= faults'
          BY <1>0, <1>1, <1>2, <3>2
        <4>2. PromptAt(pc[v], state[v], late[v], faults)
          BY DEF IInv, OnlyWinnersAreLate
        <4>. QED
          BY <1>0, <4>1, <4>2 DEF PromptAt, NoJob, Ended
      <3>. QED
        BY <3>1, <3>2
    <2>2. \A v \in Cpu : late'[v] = 0
      BY <1>0, <1>1 DEF IInv, OnlyWinnersAreLate, Workers
    <2>. QED
      BY <2>1, <2>2 DEF OnlyWinnersAreLate
  <1>7. DrainedStayOut'
    BY <1>0, <1>1, <1>2 DEF IInv, DrainedStayOut, OutAt, NoJob
  <1>8. RunningIsHandled'
    <2>1. \A v \in Workers : pc'[v] \notin Ended => pc[v] \notin Ended
      BY <1>0, <1>1
    <2>2. mgr = "joined" => pc'[Joining] \in Ended
      <3>1. CASE mgr = "joined"
        <4>1. Joining \in Workers /\ pc[Joining] \in Ended
          BY <3>1, FrontAndLast DEF IInv, MoreTypes, RunningIsHandled, Joining
        <4>. QED
          BY <1>0, <1>1, <4>1
      <3>. QED
        BY <3>1
    <2>. QED
      BY <1>2, <2>1, <2>2 DEF IInv, RunningIsHandled, Joining
  <1>. QED
    BY <1>3, <1>4, <1>5, <1>6, <1>7, <1>8 DEF IInv

\* A worker with a template at hand has ended no batch late, but for failed runs.
LEMMA BusyIsPrompt ==
    ASSUME IInv, NEW w \in Workers, pc[w] \notin {"submit"} \cup Ended, pc[w] # "top" \/ HasJob(w),
           NEW p, NEW j
    PROVE  PromptAt(p, j, late[w], faults) /\ (session.full => late[w] <= faults)
  <1>1. PromptAt(pc[w], state[w], late[w], faults) /\ late[w] \in Nat /\ faults \in Nat
    BY BoundsAssumption DEF IInv, OnlyWinnersAreLate, MoreTypes
  <1>. QED
    BY <1>1 DEF PromptAt, HasJob

\* A step that changes nothing but the control point, the template and the counters of a worker.
Quietly(w, p, j, o) ==
    /\ pc' = [pc EXCEPT ![w] = p] /\ state' = [state EXCEPT ![w] = j]
    /\ overlap' = [overlap EXCEPT ![w] = o]
    /\ UNCHANGED <<seen, late, commands, client, drop, queue, open, faults, session>>

\* A worker that takes no command and ends no batch keeps the invariant if its own new place does.
LEMMA QuietlyKeeps ==
    ASSUME IInv, NEW w \in Workers, pc[w] \notin Ended,
           NEW p \in PC, NEW j \in Jobs \cup {NoJob}, NEW o \in 0..2, Quietly(w, p, j, o),
           PromptAt(p, j, late[w], faults), OutAt(w, p, j, o)
    PROVE  IInv'
  <1>1. late[w] \in Nat /\ (w \in Cpu => late[w] = 0) /\ queue \in 0..QueueCap /\ faults \in 0..MaxFaults
        /\ MaxFaults \in Nat /\ late = [late EXCEPT ![w] = late[w]] /\ seen \in [Workers -> 0..posted]
    BY BoundsAssumption DEF IInv, TypeOK, MoreTypes, OnlyWinnersAreLate
  <1>2. Moves(w, p, j, late[w], o)
    BY <1>1 DEF Quietly, Moves
  <1>3. queue' \in 0..QueueCap /\ faults' = faults /\ faults' \in faults..MaxFaults
    BY <1>1 DEF Quietly
  <1>. QED
    BY <1>1, <1>2, <1>3, MovesKeep

\* A poll: what it takes makes the worker prompt again; what it goes on to is asked for.
LEMMA PollKeeps ==
    ASSUME IInv, NEW w \in Workers, pc[w] \notin Ended,
           NEW kept \in Jobs \cup {NoJob}, NEW next \in PC, NEW o \in 0..2,
           Poll(w, kept, next), overlap' = [overlap EXCEPT ![w] = o],
           UNCHANGED <<commands, client, drop, queue, open, faults, session>>,
           ~Take(w, kept) => PromptAt(next, state[w], late[w], faults) /\ OutAt(w, next, state[w], o),
           opoi /\ w \in InferGpu => o <= 1
    PROVE  IInv'
  <1>1. late[w] \in Nat /\ (w \in Cpu => late[w] = 0) /\ queue \in 0..QueueCap /\ faults \in 0..MaxFaults
        /\ MaxFaults \in Nat /\ late = [late EXCEPT ![w] = late[w]] /\ state = [state EXCEPT ![w] = state[w]]
        /\ state[w] \in Jobs \cup {NoJob} /\ TypeOK /\ MoreTypes /\ faults \in Nat
    BY BoundsAssumption DEF IInv, TypeOK, MoreTypes, OnlyWinnersAreLate
  <1>2. queue' \in 0..QueueCap /\ faults' = faults /\ faults' \in faults..MaxFaults
    BY <1>1
  <1>3. CASE Take(w, kept)
    <2>1. PICK j \in Jobs \cup {NoJob}, p \in {"top", "exit"} :
             /\ seen' \in [Workers -> 0..posted]
             /\ state' = [state EXCEPT ![w] = j] /\ pc' = [pc EXCEPT ![w] = p]
             /\ late' = [late EXCEPT ![w] = 0]
      BY <1>1, <1>3, TakeEffect
    <2>2. p \in PC /\ PromptAt(p, j, 0, faults') /\ OutAt(w, p, j, o)
      BY <1>1, <1>2 DEF PC, PromptAt, OutAt
    <2>3. Moves(w, p, j, 0, o)
      BY <2>1 DEF Moves
    <2>. QED
      BY <1>2, <2>2, <2>3, MovesKeep
  <1>4. CASE ~Take(w, kept)
    <2>1. UNCHANGED <<seen, state, late>> /\ pc' = [pc EXCEPT ![w] = next]
      BY <1>4 DEF Poll
    <2>2. Quietly(w, next, state[w], o)
      BY <1>1, <2>1 DEF Quietly
    <2>. QED
      BY <1>1, <1>4, <2>2, QuietlyKeeps
  <1>. QED
    BY <1>3, <1>4

\* A batch that ends in a pause is the first that ends in it.
LEMMA OverlapCounts ==
    ASSUME IInv, NEW w \in Gpu, pc[w] = "mine", CountOverlap(w)
    PROVE  \E o \in 0..2 : /\ overlap' = [overlap EXCEPT ![w] = o]
                           /\ opoi /\ w \in InferGpu => o <= 1
  <1>1. w \in Workers /\ overlap[w] \in 0..2 /\ OutAt(w, pc[w], state[w], overlap[w])
    BY DEF IInv, MoreTypes, DrainedStayOut, Workers
  <1>. DEFINE o == IF Pausing(w) /\ InPom(w) /\ overlap[w] < 2 THEN overlap[w] + 1 ELSE overlap[w]
  <1>2. overlap' = [overlap EXCEPT ![w] = o] /\ o \in 0..2
    BY <1>1 DEF CountOverlap
  <1>3. opoi /\ w \in InferGpu => o <= 1
    BY <1>1 DEF OutAt, Pausing, InPom, HasJob
  <1>. QED
    BY <1>2, <1>3

\* Every step of a worker keeps the invariant.
LEMMA WorkerKeeps ==
    ASSUME IInv, UNCHANGED session, NEW w \in Workers,
           WorkerStep(w) \/ (w \in Gpu /\ (LoadReturns(w) \/ TraceReturns(w)))
    PROVE  IInv'
  <1>0. /\ TypeOK /\ MoreTypes
        /\ state[w] \in Jobs \cup {NoJob} /\ NoJob \in Jobs \cup {NoJob}
        /\ overlap[w] \in 0..2 /\ overlap = [overlap EXCEPT ![w] = overlap[w]]
        /\ state = [state EXCEPT ![w] = state[w]]
        /\ late[w] \in Nat /\ late = [late EXCEPT ![w] = late[w]]
        /\ OutAt(w, pc[w], state[w], overlap[w]) /\ (opoi /\ w \in InferGpu => overlap[w] <= 1)
        /\ (w \in Cpu => late[w] = 0) /\ (w \in Cpu <=> w \notin Gpu)
    BY WorkersAssumption DEF IInv, TypeOK, MoreTypes, DrainedStayOut, OnlyWinnersAreLate, OutAt, Workers
  <1>1. CASE WaitForChange(w)
    <2>1. Poll(w, NoJob, "top") /\ Take(w, NoJob) /\ pc[w] \notin Ended
          /\ UNCHANGED <<commands, client, drop, queue, open, faults, overlap>>
      BY <1>1 DEF WaitForChange, Poll, Ended, others, blocks
    <2>. QED
      BY <1>0, <2>1, PollKeeps DEF PC
  <1>2. CASE PausedPoll(w)
    <2>1. Poll(w, state[w], "top") /\ UNCHANGED <<commands, client, drop, queue, open, faults, overlap>>
      BY <1>2 DEF PausedPoll, others, blocks
    <2>2. pc[w] \notin Ended /\ PromptAt("top", state[w], late[w], faults)
      BY <1>2, BusyIsPrompt DEF PausedPoll, Ended, InPom
    <2>3. OutAt(w, "top", state[w], overlap[w])
      BY <1>0, <1>2 DEF PausedPoll, OutAt
    <2>. QED
      BY <1>0, <2>1, <2>2, <2>3, PollKeeps DEF PC
  <1>3. CASE PollBeforeLoad(w)
    <2>1. Poll(w, NoJob, "load") /\ UNCHANGED <<commands, client, drop, queue, open, faults, overlap>>
      BY <1>3 DEF PollBeforeLoad, others, blocks
    <2>2. pc[w] \notin Ended /\ PromptAt("load", state[w], late[w], faults)
      BY <1>3, BusyIsPrompt DEF PollBeforeLoad, Ended, InPom
    <2>3. OutAt(w, "load", state[w], overlap[w])
      BY <1>0, <1>3 DEF PollBeforeLoad, OutAt, Pausing
    <2>. QED
      BY <1>0, <2>1, <2>2, <2>3, PollKeeps DEF PC
  <1>4. CASE LoadReturns(w)
    <2>1. PICK p \in {"ready", "top"} : Quietly(w, p, state[w], overlap[w])
      BY <1>0, <1>4 DEF LoadReturns, Quietly, others, blocks
    <2>2. pc[w] \notin Ended /\ p \in PC /\ PromptAt(p, state[w], late[w], faults)
      BY <1>4, BusyIsPrompt DEF LoadReturns, PC, Ended
    <2>3. OutAt(w, p, state[w], overlap[w])
      BY <1>0, <1>4, <2>1 DEF LoadReturns, OutAt
    <2>. QED
      BY <1>0, <2>1, <2>2, <2>3, QuietlyKeeps
  <1>5. CASE Admit(w)
    <2>1. PICK p \in {"ready"} : Quietly(w, p, state[w], overlap[w])
      BY <1>0, <1>5 DEF Admit, Quietly, others, blocks
    <2>2. pc[w] \notin Ended /\ p \in PC /\ PromptAt(p, state[w], late[w], faults)
      BY <1>5, BusyIsPrompt DEF Admit, PC, Ended, InPom
    <2>3. OutAt(w, p, state[w], overlap[w])
      BY <1>0, <1>5, <2>1 DEF Admit, OutAt, Pausing
    <2>. QED
      BY <1>0, <2>1, <2>2, <2>3, QuietlyKeeps
  <1>6. CASE SkipOldEra(w)
    <2>1. PICK p \in {"top"} : Quietly(w, p, NoJob, overlap[w])
      BY <1>0, <1>6 DEF SkipOldEra, Quietly, others, blocks
    <2>2. pc[w] \notin Ended /\ p \in PC /\ PromptAt(p, NoJob, late[w], faults)
      BY <1>6, BusyIsPrompt DEF SkipOldEra, PC, Ended
    <2>3. OutAt(w, p, NoJob, overlap[w])
      BY <1>0, <1>6, <2>1 DEF SkipOldEra, OutAt
    <2>. QED
      BY <1>0, <2>1, <2>2, <2>3, QuietlyKeeps
  <1>7. CASE TaskMissing(w)
    <2>1. Poll(w, NoJob, "top") /\ UNCHANGED <<commands, client, drop, queue, open, faults, overlap>>
      BY <1>7 DEF TaskMissing, others, blocks
    <2>2. pc[w] \notin Ended /\ PromptAt("top", state[w], late[w], faults)
      BY <1>7, BusyIsPrompt DEF TaskMissing, Ended
    <2>3. OutAt(w, "top", state[w], overlap[w])
      BY <1>0, <1>7 DEF TaskMissing, OutAt
    <2>. QED
      BY <1>0, <2>1, <2>2, <2>3, PollKeeps DEF PC
  <1>8. CASE TraceTask(w)
    <2>1. PICK p \in {"trace"} : Quietly(w, p, state[w], overlap[w])
      BY <1>0, <1>8 DEF TraceTask, Quietly, others, blocks
    <2>2. pc[w] \notin Ended /\ p \in PC /\ PromptAt(p, state[w], late[w], faults)
      BY <1>8, BusyIsPrompt DEF TraceTask, PC, Ended
    <2>3. OutAt(w, p, state[w], overlap[w])
      BY <1>0, <1>8, <2>1 DEF TraceTask, OutAt
    <2>. QED
      BY <1>0, <2>1, <2>2, <2>3, QuietlyKeeps
  <1>9. CASE TraceReturns(w)
    <2>1. pc[w] = "trace" /\ UNCHANGED <<commands, client, drop, queue, open, faults, overlap>>
      BY <1>9 DEF TraceReturns, others, blocks
    <2>2. \A next \in PC : PromptAt(next, state[w], late[w], faults)
      BY <2>1, BusyIsPrompt DEF Ended
    <2>3. OutAt(w, "mine", state[w], overlap[w]) /\ OutAt(w, "top", state[w], overlap[w])
      BY <1>0, <2>1 DEF OutAt
    <2>4. CASE Poll(w, NoJob, "top")
      BY <1>0, <2>1, <2>2, <2>3, <2>4, PollKeeps DEF PC, Ended
    <2>5. CASE pc' = [pc EXCEPT ![w] = "mine"] /\ UNCHANGED <<state, seen, late>>
      <3>1. Quietly(w, "mine", state[w], overlap[w])
        BY <1>0, <2>1, <2>5 DEF Quietly
      <3>. QED
        BY <1>0, <2>1, <2>2, <2>3, <3>1, QuietlyKeeps DEF PC, Ended
    <2>. QED
      BY <1>9, <2>4, <2>5 DEF TraceReturns
  <1>10. CASE StartBatch(w)
    <2>1. PICK p \in {"mine"} : Quietly(w, p, state[w], overlap[w])
      BY <1>0, <1>10 DEF StartBatch, Quietly, others, blocks
    <2>2. pc[w] \notin Ended /\ p \in PC /\ PromptAt(p, state[w], late[w], faults)
      BY <1>10, BusyIsPrompt DEF StartBatch, PC, Ended
    <2>3. OutAt(w, p, state[w], overlap[w])
      BY <1>0, <1>10, <2>1 DEF StartBatch, OutAt
    <2>. QED
      BY <1>0, <2>1, <2>2, <2>3, QuietlyKeeps
  <1>11. CASE w \in Gpu /\ BatchEnds(w)
    <2>1. PICK o \in 0..2 : overlap' = [overlap EXCEPT ![w] = o] /\ (opoi /\ w \in InferGpu => o <= 1)
      BY <1>11, OverlapCounts DEF BatchEnds
    <2>. DEFINE kept == IF InPom(w) THEN state[w] ELSE NoJob
    <2>2. Poll(w, kept, "top") /\ kept \in Jobs \cup {NoJob} /\ pc[w] = "mine"
          /\ UNCHANGED <<commands, client, drop, queue, open, faults>>
      BY <1>0, <1>11 DEF BatchEnds, others, blocks
    <2>3. PromptAt("top", state[w], late[w], faults) /\ OutAt(w, "top", state[w], o)
      BY <2>1, <2>2, BusyIsPrompt DEF OutAt, Ended
    <2>. HIDE DEF kept
    <2>. QED
      BY <2>1, <2>2, <2>3, PollKeeps DEF PC, Ended
  <1>12. CASE w \in Gpu /\ (BatchWins(w) \/ BatchFails(w))
    <2>. DEFINE l == IF seen[w] < posted /\ late[w] < GraceBatches THEN late[w] + 1 ELSE late[w]
    <2>1. pc[w] = "mine" /\ BatchDone(w) /\ UNCHANGED <<commands, client, drop, queue, open>>
          /\ UNCHANGED <<state, seen>>
      BY <1>12 DEF BatchWins, BatchFails, others, blocks
    <2>2. PICK o \in 0..2 : overlap' = [overlap EXCEPT ![w] = o] /\ (opoi /\ w \in InferGpu => o <= 1)
      BY <1>12, <2>1, OverlapCounts DEF BatchDone
    <2>3. l \in Nat /\ late' = [late EXCEPT ![w] = l] /\ l <= late[w] + 1
      BY <1>0, <2>1 DEF BatchDone
    <2>4. session.full => late[w] <= faults
      BY <2>1, BusyIsPrompt DEF Ended
    <2>5. faults \in 0..MaxFaults /\ MaxFaults \in Nat /\ queue' \in 0..QueueCap
      BY <2>1, BoundsAssumption DEF IInv, TypeOK, MoreTypes
    <2>. HIDE DEF l
    <2>6. CASE BatchWins(w)
      <3>1. Moves(w, "submit", state[w], l, o) /\ faults' = faults
        BY <1>0, <2>1, <2>2, <2>3, <2>6 DEF BatchWins, Moves, others, IInv, TypeOK
      <3>2. session.full => l <= 1 + faults'
        BY <1>0, <2>3, <2>4, <2>5, <3>1
      <3>3. PromptAt("submit", state[w], l, faults')
        BY <3>2 DEF PromptAt
      <3>4. OutAt(w, "submit", state[w], o)
        BY <2>2 DEF OutAt
      <3>. QED
        BY <1>0, <1>12, <2>1, <2>3, <2>5, <3>1, <3>3, <3>4, MovesKeep DEF PC, Ended
    <2>7. CASE BatchFails(w)
      <3>1. PICK next \in {"top", "exit"} : pc' = [pc EXCEPT ![w] = next]
        BY <2>7 DEF BatchFails
      <3>2. Moves(w, next, state[w], l, o) /\ faults' = faults + 1 /\ faults < MaxFaults
        BY <1>0, <2>1, <2>2, <2>3, <2>7, <3>1 DEF BatchFails, Moves, IInv, TypeOK
      <3>3. PromptAt(next, state[w], l, faults') /\ OutAt(w, next, state[w], o)
        BY <1>0, <2>2, <2>3, <2>4, <2>5, <3>2 DEF PromptAt, OutAt
      <3>. QED
        BY <1>0, <1>12, <2>1, <2>3, <2>5, <3>2, <3>3, MovesKeep DEF PC, Ended
    <2>. QED
      BY <1>12, <2>6, <2>7
  <1>13. CASE Submit(w)
    <2>. DEFINE j == AfterBlock(w)
                p == IF w \in Cpu THEN "count" ELSE "top"
    <2>1. pc[w] = "submit" /\ Moves(w, p, j, late[w], overlap[w]) /\ faults' = faults
      <3>1. pc[w] = "submit" /\ faults' = faults /\ UNCHANGED <<seen, late, overlap>>
            /\ pc' = [pc EXCEPT ![w] = p] /\ state' = [state EXCEPT ![w] = j]
        BY <1>13 DEF Submit
      <3>2. UNCHANGED <<commands, client, drop, open, session>>
        BY <1>13 DEF Submit
      <3>3. seen' \in [Workers -> 0..posted]
        BY <1>0, <3>1 DEF TypeOK
      <3>. HIDE DEF p, j
      <3>. QED
        BY <1>0, <3>1, <3>2, <3>3 DEF Moves
    <2>2. queue' \in 0..QueueCap
      BY <1>0, <1>13, BoundsAssumption DEF Submit, HasRoom, TypeOK
    <2>3. j \in Jobs \cup {NoJob} /\ p \in PC /\ (session.full => j = NoJob)
      BY <1>0 DEF AfterBlock, PC
    <2>4. PromptAt(pc[w], state[w], late[w], faults) /\ faults \in 0..MaxFaults /\ MaxFaults \in Nat
      BY BoundsAssumption DEF IInv, OnlyWinnersAreLate, MoreTypes
    <2>5. PromptAt(p, j, late[w], faults') /\ OutAt(w, p, j, overlap[w])
      BY <1>0, <2>1, <2>3, <2>4 DEF PromptAt, OutAt
    <2>. HIDE DEF j, p
    <2>. QED
      BY <1>0, <2>1, <2>2, <2>3, <2>4, <2>5, MovesKeep DEF Ended
  <1>14. CASE w \in Cpu /\ CpuHash(w)
    <2>1. PICK p \in {"submit", "count"} : Quietly(w, p, state[w], overlap[w])
      BY <1>0, <1>14 DEF CpuHash, Quietly, others, blocks
    <2>2. pc[w] \notin Ended /\ p \in PC /\ PromptAt(p, state[w], late[w], faults)
      BY <1>14, BusyIsPrompt DEF CpuHash, PC, Ended
    <2>3. OutAt(w, p, state[w], overlap[w])
      BY <1>0, <2>1 DEF OutAt
    <2>. QED
      BY <1>0, <2>1, <2>2, <2>3, QuietlyKeeps
  <1>15. CASE w \in Cpu /\ CpuCount(w)
    <2>1. pc[w] = "count" /\ UNCHANGED <<commands, client, drop, queue, open, faults, overlap>>
      BY <1>15 DEF CpuCount, others, blocks
    <2>2. PromptAt("top", state[w], late[w], faults)
      BY <2>1, BusyIsPrompt DEF Ended
    <2>3. OutAt(w, "top", state[w], overlap[w])
      BY <1>0 DEF OutAt
    <2>4. CASE Poll(w, NoJob, "top")
      BY <1>0, <2>1, <2>2, <2>3, <2>4, PollKeeps DEF PC, Ended
    <2>5. CASE pc' = [pc EXCEPT ![w] = "top"] /\ UNCHANGED <<state, seen, late>>
      <3>1. Quietly(w, "top", state[w], overlap[w])
        BY <1>0, <2>1, <2>5 DEF Quietly
      <3>. QED
        BY <1>0, <2>1, <2>2, <2>3, <3>1, QuietlyKeeps DEF PC, Ended
    <2>. QED
      BY <1>15, <2>4, <2>5 DEF CpuCount
  <1>. QED
    BY <1>1, <1>2, <1>3, <1>4, <1>5, <1>6, <1>7, <1>8, <1>9, <1>10, <1>11, <1>12, <1>13, <1>14, <1>15
       DEF WorkerStep, GpuNext, CpuNext

-----------------------------------------------------------------------------
(* The steps of the client and of the manager that move no worker *)

\* A command is published, or none is; a pause begins, lasts or ends.
Announces ==
    /\ cmd' \in Jobs \cup {NoJob, Close} /\ posted' \in posted..(MaxPosts + 1)
    /\ is_synced' \in BOOLEAN /\ next_id' \in Nat /\ ext' \in 0..MaxExt
    /\ late' = late \/ late' = [w \in Workers |-> 0]
    /\ mgr' = mgr \/ mgr' \in {"close", "join"}
    /\ \/ opoi' \in {opoi, FALSE} /\ overlap' = overlap
       \/ Pause
    /\ UNCHANGED <<pc, state, seen, handles, dog, kill_switch, stuck, queue, open, faults, session>>

\* A publication keeps the invariant: it resets the counts of late batches, and a pause that begins those
\* of overlapping ones.
LEMMA AnnouncesKeeps ==
    ASSUME IInv, Announces, PostsInBound'
    PROVE  IInv'
  <1>0. /\ TypeOK /\ MoreTypes /\ session \in Sessions /\ MaxPosts \in Nat /\ posted \in 1..(MaxPosts + 1)
    BY PostsBound DEF IInv, TypeOK, MoreTypes
  <1>1. UNCHANGED <<pc, state, seen, handles, dog, kill_switch, stuck, queue, open, faults, session>>
    BY DEF Announces
  <1>2. late' \in [Workers -> Nat] /\ \A w \in Workers : late'[w] \in {late[w], 0}
    BY <1>0 DEF Announces, MoreTypes
  <1>3. /\ opoi' \in BOOLEAN /\ overlap' \in [Workers -> 0..2]
        /\ opoi' => \A w \in Workers : overlap'[w] = 0 \/ (opoi /\ overlap'[w] = overlap[w])
    <2>1. CASE opoi' \in {opoi, FALSE} /\ overlap' = overlap
      <3>1. opoi \in BOOLEAN /\ overlap \in [Workers -> 0..2]
        BY <1>0 DEF MoreTypes
      <3>2. opoi' => opoi
        BY <2>1
      <3>. QED
        BY <2>1, <3>1, <3>2
    <2>2. CASE Pause
      <3>1. CASE opoi
        BY <1>0, <2>2, <3>1 DEF Pause, MoreTypes
      <3>2. CASE ~opoi
        BY <2>2, <3>2 DEF Pause
      <3>. QED
        BY <3>1, <3>2
    <2>. QED
      BY <2>1, <2>2 DEF Announces
  <1>4. posted' \in 1..(MaxPosts + 1) /\ seen' \in [Workers -> 0..posted']
    <2>1. posted' \in posted..(MaxPosts + 1) /\ seen \in [Workers -> 0..posted]
      BY <1>0 DEF Announces, TypeOK
    <2>2. posted' \in 1..(MaxPosts + 1) /\ 0..posted \subseteq 0..posted'
      BY <1>0, <2>1
    <2>. QED
      BY <1>1, <2>1, <2>2
  <1>5. TypeOK'
    BY <1>0, <1>1, <1>4 DEF TypeOK, Announces
  <1>6. MoreTypes'
    BY <1>0, <1>1, <1>2, <1>3 DEF MoreTypes, Announces
  <1>7. OnlyWinnersAreLate'
    <2>1. ASSUME NEW w \in Workers PROVE PromptAt(pc[w], state[w], late[w], faults)'
      <3>1. PromptAt(pc[w], state[w], late[w], faults) /\ faults \in Nat /\ late[w] \in Nat
        BY <1>0, BoundsAssumption DEF IInv, OnlyWinnersAreLate, MoreTypes
      <3>. QED
        BY <1>1, <1>2, <3>1 DEF PromptAt, NoJob, Ended
    <2>2. \A w \in Cpu : late'[w] = 0
      BY <1>2 DEF IInv, OnlyWinnersAreLate, Workers
    <2>. QED
      BY <2>1, <2>2 DEF OnlyWinnersAreLate
  <1>8. DrainedStayOut'
    <2>. SUFFICES ASSUME NEW w \in Workers PROVE OutAt(w, pc[w], state[w], overlap[w])'
      BY DEF DrainedStayOut
    <2>1. OutAt(w, pc[w], state[w], overlap[w])
      BY DEF IInv, DrainedStayOut
    <2>. QED
      BY <1>1, <1>3, <2>1 DEF OutAt, NoJob
  <1>9. RunningIsHandled'
    BY <1>1 DEF IInv, RunningIsHandled, Announces, Joining
  <1>. QED
    BY <1>5, <1>6, <1>7, <1>8, <1>9 DEF IInv

\* What a publication does, within the bound on commands.
LEMMA SendEffect ==
    ASSUME IInv, mgr = "run", NEW c, c \in {NoJob} \cup Jobs \/ Alive = {}, Send(c), is_synced' \in BOOLEAN,
           next_id' \in Nat, next_id' <= posted, UNCHANGED session
    PROVE  /\ cmd' \in Jobs \cup {NoJob, Close} /\ posted' \in posted..(MaxPosts + 1)
           /\ late' = late \/ late' = [w \in Workers |-> 0]
           /\ mgr' \in {"run", "close"} /\ PostsInBound'
  <1>0. /\ MaxPosts \in Nat /\ posted \in 1..(MaxPosts + 1) /\ session.posts \in Nat
        /\ session.posts <= MaxPosts /\ cmd \in Jobs \cup {NoJob, Close} /\ posted <= session.posts
    BY PostsBound DEF IInv, TypeOK, MoreTypes, PostsInBound
  <1>1. CASE Alive = {}
    BY <1>0, <1>1 DEF Send, PostsInBound
  <1>2. CASE Alive # {}
    <2>1. posted < session.posts /\ cmd' = c /\ posted' = posted + 1
          /\ late' = [w \in Workers |-> 0] /\ mgr' = mgr
      BY <1>2 DEF Send
    <2>. QED
      BY <1>0, <1>2, <2>1 DEF PostsInBound
  <1>. QED
    BY <1>1, <1>2

\* What process_block(None) does: one command, or none when mining was suspended already.
LEMMA SuspendEffect ==
    ASSUME IInv, mgr = "run", Suspend, UNCHANGED session
    PROVE  /\ cmd' \in Jobs \cup {NoJob, Close} /\ posted' \in posted..(MaxPosts + 1)
           /\ is_synced' \in BOOLEAN /\ next_id' \in Nat
           /\ late' = late \/ late' = [w \in Workers |-> 0]
           /\ mgr' \in {"run", "close"} /\ PostsInBound'
  <1>0. /\ posted \in 1..(MaxPosts + 1) /\ MaxPosts \in Nat /\ cmd \in Jobs \cup {NoJob, Close}
        /\ is_synced \in BOOLEAN /\ next_id \in Nat /\ next_id < posted /\ session.posts \in Nat
    BY PostsBound DEF IInv, TypeOK, MoreTypes, PostsInBound
  <1>1. CASE is_synced
    <2>1. is_synced' = FALSE /\ next_id' = next_id /\ Send(NoJob)
      BY <1>1 DEF Suspend
    <2>2. is_synced' \in BOOLEAN /\ next_id' \in Nat /\ next_id' <= posted
      <3>1. next_id' = next_id /\ posted \in Nat
        BY <1>0, <2>1
      <3>2. next_id' \in Nat /\ next_id' <= posted
        BY <1>0, <3>1
      <3>. QED
        BY <2>1, <3>2
    <2>3. NoJob \in {NoJob} \cup Jobs
      OBVIOUS
    <2>. QED
      BY <2>1, <2>2, <2>3, SendEffect
  <1>2. CASE ~is_synced
    <2>1. UNCHANGED <<cmd, posted, is_synced, next_id, mgr, late>>
      BY <1>2 DEF Suspend, commands
    <2>2. PostsInBound'
      BY <2>1 DEF IInv, PostsInBound
    <2>. QED
      BY <1>0, <2>1, <2>2
  <1>. QED
    BY <1>1, <1>2

\* Every message the client handles keeps the invariant, and so does the end of its listen loop.
LEMMA ClientKeeps ==
    ASSUME IInv, UNCHANGED session, ClientNext
    PROVE  IInv'
  <1>0. /\ posted \in 1..(MaxPosts + 1) /\ MaxPosts \in Nat /\ cmd \in Jobs \cup {NoJob, Close}
        /\ is_synced \in BOOLEAN /\ next_id \in Nat /\ ext \in 0..MaxExt /\ MaxExt \in Nat
        /\ mgr = "run" => next_id < posted /\ posted <= session.posts
        /\ session.posts \in Nat /\ session.posts <= MaxPosts
    BY PostsBound, BoundsAssumption DEF IInv, TypeOK, MoreTypes, PostsInBound
  <1>1. ASSUME NEW era \in Eras, OnTemplate(era) PROVE IInv'
    <2>1. /\ mgr = "run" /\ opoi' = FALSE /\ is_synced' = TRUE /\ next_id' = next_id + 1
          /\ Send(Job(next_id, era, ext)) /\ UNCHANGED <<ext, overlap>>
          /\ UNCHANGED <<pc, state, seen, handles, dog, kill_switch, stuck, queue, open, faults>>
      BY <1>1 DEF OnTemplate, dropRest, workersRest, blocks
    <2>2. Job(next_id, era, ext) \in {NoJob} \cup Jobs \/ Alive = {}
      <3>1. CASE Alive # {}
        <4>1. posted < session.posts
          BY <2>1, <3>1 DEF Send
        <4>2. next_id \in 0..MaxPosts
          BY <1>0, <2>1, <4>1
        <4>. QED
          BY <1>0, <4>2 DEF Jobs
      <3>. QED
        BY <3>1
    <2>3. next_id' \in Nat /\ next_id' <= posted /\ is_synced' \in BOOLEAN
      BY <1>0, <2>1
    <2>4. /\ cmd' \in Jobs \cup {NoJob, Close} /\ posted' \in posted..(MaxPosts + 1)
          /\ late' = late \/ late' = [w \in Workers |-> 0]
          /\ mgr' \in {"run", "close"} /\ PostsInBound'
      BY <2>1, <2>2, <2>3, SendEffect
    <2>5. Announces
      BY <1>0, <2>1, <2>3, <2>4 DEF Announces
    <2>. QED
      BY <2>4, <2>5, AnnouncesKeeps
  <1>2. ASSUME mgr = "run", Suspend, (opoi' = FALSE /\ overlap' = overlap) \/ Pause, ext' = ext,
               UNCHANGED <<pc, state, seen, handles, dog, kill_switch, stuck, queue, open, faults>>
        PROVE  IInv'
    <2>1. /\ cmd' \in Jobs \cup {NoJob, Close} /\ posted' \in posted..(MaxPosts + 1)
          /\ is_synced' \in BOOLEAN /\ next_id' \in Nat
          /\ late' = late \/ late' = [w \in Workers |-> 0]
          /\ mgr' \in {"run", "close"} /\ PostsInBound'
      BY <1>2, SuspendEffect
    <2>2. Announces
      BY <1>0, <1>2, <2>1 DEF Announces
    <2>. QED
      BY <2>1, <2>2, AnnouncesKeeps
  <1>3. CASE OnUnsynced
    BY <1>2, <1>3 DEF OnUnsynced, dropRest, workersRest, blocks
  <1>4. CASE OnNoModel
    BY <1>2, <1>4 DEF OnNoModel, dropRest, workersRest, blocks
  <1>5. CASE OnInference
    BY <1>2, <1>5 DEF OnInference, dropRest, workersRest, blocks
  <1>6. ASSUME mgr' = mgr \/ (mgr = "run" /\ mgr' = "close"), ext' \in 0..MaxExt,
               UNCHANGED <<cmd, posted, is_synced, next_id, opoi, late, overlap>>,
               UNCHANGED <<pc, state, seen, handles, dog, kill_switch, stuck, queue, open, faults>>
        PROVE  IInv'
    <2>1. PostsInBound'
      BY <1>6 DEF IInv, PostsInBound
    <2>2. Announces
      BY <1>0, <1>6 DEF Announces
    <2>. QED
      BY <2>1, <2>2, AnnouncesKeeps
  <1>7. CASE InferenceEnds
    BY <1>0, <1>6, <1>7 DEF InferenceEnds, commands, drop, workers, blocks
  <1>8. CASE OnSetExtranonce
    <2>1. ext' \in 0..MaxExt
      BY <1>0, <1>8 DEF OnSetExtranonce
    <2>. QED
      BY <1>6, <1>8, <2>1 DEF OnSetExtranonce, commands, drop, workers, blocks
  <1>9. CASE ListenEnds
    BY <1>0, <1>6, <1>9 DEF ListenEnds, commands, client, dropRest, workers
  <1>. QED
    BY <1>1, <1>3, <1>4, <1>5, <1>7, <1>8, <1>9 DEF ClientNext

-----------------------------------------------------------------------------
(* The steps of Drop, of the watchdogs and of the forwarder *)

\* A step that publishes nothing and at most kills a thread: only the types and the handles are asked for.
LEMMA BystanderKeeps ==
    ASSUME IInv,
           UNCHANGED <<session, cmd, posted, is_synced, next_id, opoi, ext, state, seen, late, overlap, faults>>,
           \A w \in Workers : pc'[w] = pc[w] \/ pc'[w] = "dead",
           mgr' = mgr \/ mgr' \notin {"run", "close"},
           TypeOK', MoreTypes', RunningIsHandled'
    PROVE  IInv'
  <1>1. PostsInBound'
    BY DEF IInv, PostsInBound
  <1>2. OnlyWinnersAreLate'
    <2>1. ASSUME NEW w \in Workers PROVE PromptAt(pc[w], state[w], late[w], faults)'
      <3>1. PromptAt(pc[w], state[w], late[w], faults)
        BY DEF IInv, OnlyWinnersAreLate
      <3>. QED
        BY <3>1 DEF PromptAt, NoJob, Ended
    <2>2. \A w \in Cpu : late'[w] = 0
      BY DEF IInv, OnlyWinnersAreLate
    <2>. QED
      BY <2>1, <2>2 DEF OnlyWinnersAreLate
  <1>3. DrainedStayOut'
    <2>. SUFFICES ASSUME NEW w \in Workers PROVE OutAt(w, pc[w], state[w], overlap[w])'
      BY DEF DrainedStayOut
    <2>1. OutAt(w, pc[w], state[w], overlap[w])
      BY DEF IInv, DrainedStayOut
    <2>. QED
      BY <2>1 DEF OutAt, NoJob
  <1>. QED
    BY <1>1, <1>2, <1>3 DEF IInv

\* Every step of Drop for MinerManager keeps the invariant: the handle it pops is of a thread that ended.
LEMMA DropKeeps ==
    ASSUME IInv, UNCHANGED session, DropNext
    PROVE  IInv'
  <1>0. /\ TypeOK /\ MoreTypes /\ RunningIsHandled
    BY DEF IInv
  <1>1. CASE DropSendsClose
    <2>1. /\ MaxPosts \in Nat /\ posted \in 1..(MaxPosts + 1) /\ posted <= session.posts
          /\ session.posts \in Nat /\ session.posts <= MaxPosts
      BY <1>1, PostsBound DEF DropSendsClose, IInv, TypeOK, MoreTypes, PostsInBound
    <2>2. /\ cmd' \in {cmd, Close} /\ posted' \in {posted, posted + 1} /\ mgr' = "join"
          /\ late' = late \/ late' = [w \in Workers |-> 0]
          /\ UNCHANGED <<is_synced, next_id, opoi, ext, pc, state, seen, handles, dog, kill_switch, stuck, queue,
                         open, overlap, faults>>
      BY <1>1 DEF DropSendsClose, client, dropRest, workersRest, blocks
    <2>3. posted' \in posted..(MaxPosts + 1)
      BY <2>1, <2>2
    <2>4. Announces
      BY <1>0, <2>2, <2>3 DEF Announces, TypeOK, MoreTypes
    <2>5. PostsInBound'
      BY <2>2 DEF PostsInBound
    <2>. QED
      BY <2>4, <2>5, AnnouncesKeeps
  <1>2. CASE StartJoin
    <2>1. Joining \in Workers
      BY <1>0, <1>2, FrontAndLast DEF StartJoin, Joining, MoreTypes
    <2>2. /\ UNCHANGED <<cmd, posted, is_synced, next_id, opoi, ext, state, seen, late, overlap, faults>>
          /\ UNCHANGED <<pc, mgr, handles, stuck, queue, open>>
      BY <1>2 DEF StartJoin, commands, client, workers, blocks
    <2>3. TypeOK'
      BY <1>0, <1>2, <2>1, <2>2 DEF StartJoin, TypeOK
    <2>4. MoreTypes'
      BY <1>0, <1>2, <2>1, <2>2 DEF StartJoin, MoreTypes
    <2>5. RunningIsHandled'
      BY <1>0, <2>2 DEF RunningIsHandled, Joining
    <2>. QED
      BY <2>2, <2>3, <2>4, <2>5, BystanderKeeps
  <1>3. CASE JoinReturns
    <2>1. /\ UNCHANGED <<cmd, posted, is_synced, next_id, opoi, ext, state, seen, late, overlap, faults>>
          /\ UNCHANGED <<pc, handles, dog, kill_switch, stuck, queue, open>> /\ mgr' = "joined"
          /\ handles # <<>> /\ pc[Joining] \in Ended
      BY <1>3 DEF JoinReturns, commands, client, dropRest, workers, blocks
    <2>2. TypeOK'
      BY <1>0, <2>1 DEF TypeOK
    <2>3. MoreTypes'
      BY <1>0, <2>1 DEF MoreTypes
    <2>4. RunningIsHandled'
      BY <1>0, <2>1 DEF RunningIsHandled, Joining
    <2>. QED
      BY <2>1, <2>2, <2>3, <2>4, BystanderKeeps
  <1>4. CASE ClearKillSwitch
    <2>1. /\ UNCHANGED <<cmd, posted, is_synced, next_id, opoi, ext, state, seen, late, overlap, faults>>
          /\ UNCHANGED <<pc, dog, stuck, queue, open>> /\ mgr' = "join" /\ mgr = "joined"
          /\ handles' = Front(handles) /\ kill_switch' = [kill_switch EXCEPT ![Joining] = FALSE]
      BY <1>4 DEF ClearKillSwitch, commands, client, workers, blocks
    <2>2. handles \in Seq(Workers) /\ handles # <<>> /\ pc[Joining] \in Ended
      BY <1>0, <2>1 DEF MoreTypes, RunningIsHandled
    <2>3. /\ Len(handles) \in Nat \ {0} /\ Joining \in Workers /\ Joining = handles[Len(handles)]
          /\ handles' \in Seq(Workers) /\ Len(handles') = Len(handles) - 1
          /\ \A i \in 1..(Len(handles) - 1) : handles'[i] = handles[i]
      BY <2>1, <2>2, FrontAndLast DEF Joining
    <2>4. TypeOK'
      BY <1>0, <2>1 DEF TypeOK
    <2>5. MoreTypes'
      BY <1>0, <2>1, <2>3 DEF MoreTypes
    <2>6. RunningIsHandled'
      <3>1. ASSUME NEW w \in Workers, pc[w] \notin Ended
            PROVE  \E i \in 1..Len(handles') : handles'[i] = w
        <4>1. PICK i \in 1..Len(handles) : handles[i] = w
          BY <1>0, <3>1 DEF RunningIsHandled
        <4>2. i # Len(handles)
          BY <2>2, <2>3, <3>1, <4>1
        <4>3. i \in 1..(Len(handles) - 1)
          BY <2>3, <4>1, <4>2
        <4>. QED
          BY <2>3, <4>1, <4>3
      <3>. QED
        BY <2>1, <3>1 DEF RunningIsHandled
    <2>. QED
      BY <2>1, <2>4, <2>5, <2>6, BystanderKeeps
  <1>5. CASE AllJoined
    <2>1. /\ UNCHANGED <<cmd, posted, is_synced, next_id, opoi, ext, state, seen, late, overlap, faults>>
          /\ UNCHANGED <<pc, handles, dog, kill_switch, stuck, queue, open>> /\ mgr' = "gone"
          /\ handles = <<>>
      BY <1>5 DEF AllJoined, commands, client, dropRest, workers, blocks
    <2>2. TypeOK'
      BY <1>0, <2>1 DEF TypeOK
    <2>3. MoreTypes'
      BY <1>0, <2>1 DEF MoreTypes
    <2>4. RunningIsHandled'
      BY <1>0, <2>1 DEF RunningIsHandled
    <2>. QED
      BY <2>1, <2>2, <2>3, <2>4, BystanderKeeps
  <1>. QED
    BY <1>1, <1>2, <1>3, <1>4, <1>5 DEF DropNext

\* A watchdog that wakes or fires keeps the invariant: it can only end a thread.
LEMMA WatchdogKeeps ==
    ASSUME IInv, UNCHANGED session, NEW w \in Workers, WatchdogNext(w)
    PROVE  IInv'
  <1>0. /\ TypeOK /\ MoreTypes /\ RunningIsHandled
    BY DEF IInv
  <1>1. CASE WatchdogChecks(w)
    <2>1. /\ UNCHANGED <<cmd, posted, is_synced, next_id, opoi, ext, state, seen, late, overlap, faults>>
          /\ UNCHANGED <<pc, mgr, handles, kill_switch, queue, open>>
      BY <1>1 DEF WatchdogChecks, commands, client, workers, blocks
    <2>2. dog' \in [Workers -> {"none", "asleep", "fire", "off"}]
      BY <1>0, <1>1 DEF WatchdogChecks, TypeOK
    <2>3. stuck' \in [Workers -> PC \cup {"no"}]
      BY <1>0, <1>1 DEF WatchdogChecks, TypeOK, MoreTypes
    <2>4. TypeOK' /\ MoreTypes'
      BY <1>0, <2>1, <2>2, <2>3 DEF TypeOK, MoreTypes
    <2>5. RunningIsHandled'
      BY <1>0, <2>1 DEF RunningIsHandled, Joining
    <2>. QED
      BY <2>1, <2>4, <2>5, BystanderKeeps
  <1>2. CASE WatchdogFires(w)
    <2>1. /\ UNCHANGED <<cmd, posted, is_synced, next_id, opoi, ext, state, seen, late, overlap, faults>>
          /\ UNCHANGED <<mgr, handles, kill_switch, stuck, queue, open>>
      BY <1>2 DEF WatchdogFires, commands, client, blocks
    <2>2. dog' \in [Workers -> {"none", "asleep", "fire", "off"}]
      BY <1>0, <1>2 DEF WatchdogFires, TypeOK
    <2>3. /\ pc' \in [Workers -> PC]
          /\ \A v \in Workers : pc'[v] = pc[v] \/ pc'[v] = "dead"
      BY <1>0, <1>2 DEF WatchdogFires, TypeOK, PC
    <2>4. TypeOK' /\ MoreTypes'
      BY <1>0, <2>1, <2>2, <2>3 DEF TypeOK, MoreTypes
    <2>5. RunningIsHandled'
      <3>1. \A v \in Workers : pc[v] \in Ended => pc'[v] \in Ended
        BY <2>3 DEF Ended
      <3>2. mgr = "joined" => Joining \in Workers
        BY <1>0, FrontAndLast DEF MoreTypes, RunningIsHandled, Joining
      <3>3. Joining' = Joining
        BY <2>1 DEF Joining
      <3>. QED
        BY <1>0, <2>1, <3>1, <3>2, <3>3 DEF RunningIsHandled
    <2>. QED
      BY <2>1, <2>3, <2>4, <2>5, BystanderKeeps
  <1>. QED
    BY <1>1, <1>2 DEF WatchdogNext

\* Forwarding a block keeps the invariant.
LEMMA ForwardKeeps ==
    ASSUME IInv, UNCHANGED session, Forward
    PROVE  IInv'
  <1>0. /\ TypeOK /\ MoreTypes /\ RunningIsHandled
    BY DEF IInv
  <1>1. /\ UNCHANGED <<cmd, posted, is_synced, next_id, opoi, ext, state, seen, late, overlap, faults>>
        /\ UNCHANGED <<pc, mgr, handles, dog, kill_switch, stuck>>
    BY DEF Forward, commands, client, drop, workers
  <1>2. queue' \in 0..QueueCap
    BY <1>0, BoundsAssumption DEF Forward, TypeOK
  <1>3. TypeOK' /\ MoreTypes'
    BY <1>0, <1>1, <1>2 DEF TypeOK, MoreTypes
  <1>4. RunningIsHandled'
    BY <1>0, <1>1 DEF RunningIsHandled, Joining
  <1>. QED
    BY <1>1, <1>3, <1>4, BystanderKeeps

-----------------------------------------------------------------------------
(* The initial states *)

\* SetToSeq lists every element of a finite set.
LEMMA SetToSeqLists ==
    ASSUME NEW S \in SUBSET Workers, IsFiniteSet(S)
    PROVE  /\ SetToSeq(S) \in Seq(Workers)
           /\ \A x \in S : \E i \in 1..Len(SetToSeq(S)) : SetToSeq(S)[i] = x
  <1>. DEFINE n == Cardinality(S)
  <1>1. n \in Nat /\ ExistsBijection(1..n, S)
    BY FS_CardinalityType
  <1>2. PICK g : g \in Bijection(1..n, S)
    BY <1>1 DEF ExistsBijection
  <1>3. g \in [1..n -> S] /\ IsInjective(g)
    BY <1>2 DEF Bijection, Injection
  <1>. DEFINE s == SetToSeq(S)
  <1>4. s \in [1..n -> S] /\ IsInjective(s)
    BY <1>3 DEF SetToSeq
  <1>5. s \in Injection(1..n, S)
    BY <1>4 DEF Injection
  <1>6. Cardinality(1..n) = n
    BY <1>1, FS_Interval
  <1>7. s \in Surjection(1..n, S)
    <2>. HIDE DEF s, n
    <2>. QED
      BY <1>5, <1>6, FS_Injection DEF n
  <1>8. s \in Seq(Workers) /\ Len(s) = n
    <2>. HIDE DEF s, n
    <2>. QED
      BY <1>1, <1>4
  <1>9. \A x \in S : \E i \in 1..n : s[i] = x
    BY <1>7 DEF Surjection
  <1>. QED
    BY <1>8, <1>9

\* The threads are launched with one handle each and nothing to do.
LEMMA InitIInv ==
    ASSUME Init
    PROVE  IInv
  <1>0. /\ MaxPosts \in Nat /\ session \in Sessions /\ session.posts \in Nat \ {0}
        /\ session.posts <= MaxPosts /\ session.crew \in SUBSET Workers /\ session.full \in BOOLEAN
    BY PostsBound DEF Init
  <1>. DEFINE C == Cpu \cap session.crew
              G == Gpu \cap session.crew
  <1>1. IsFiniteSet(C) /\ IsFiniteSet(G) /\ C \in SUBSET Workers /\ G \in SUBSET Workers
    BY WorkersAssumption, FS_Subset DEF Workers
  <1>2. /\ SetToSeq(C) \in Seq(Workers) /\ SetToSeq(G) \in Seq(Workers)
        /\ \A x \in C : \E i \in 1..Len(SetToSeq(C)) : SetToSeq(C)[i] = x
        /\ \A x \in G : \E i \in 1..Len(SetToSeq(G)) : SetToSeq(G)[i] = x
    <2>. HIDE DEF C, G
    <2>. QED
      BY <1>1, SetToSeqLists
  <1>3. handles = SetToSeq(C) \o SetToSeq(G)
    BY DEF Init
  <1>. HIDE DEF C, G
  <1>4. /\ handles \in Seq(Workers) /\ Len(handles) = Len(SetToSeq(C)) + Len(SetToSeq(G))
        /\ \A i \in 1..Len(SetToSeq(C)) : handles[i] = SetToSeq(C)[i]
        /\ \A i \in 1..Len(SetToSeq(G)) : handles[i + Len(SetToSeq(C))] = SetToSeq(G)[i]
    <2>. DEFINE s == SetToSeq(C)
                u == SetToSeq(G)
    <2>1. s \in Seq(Workers) /\ u \in Seq(Workers) /\ handles = s \o u
      BY <1>2, <1>3
    <2>. HIDE DEF s, u
    <2>2. handles \in Seq(Workers) /\ Len(handles) = Len(s) + Len(u)
      BY <2>1
    <2>3. \A i \in 1..Len(s) : handles[i] = s[i]
      BY <2>1
    <2>4. \A i \in 1..Len(u) : handles[i + Len(s)] = u[i]
      BY <2>1
    <2>. QED
      BY <2>2, <2>3, <2>4 DEF s, u
  <1>5. ASSUME NEW w \in session.crew
        PROVE  \E i \in 1..Len(handles) : handles[i] = w
    <2>1. w \in C \/ w \in G
      BY <1>0 DEF C, G, Workers
    <2>2. Len(SetToSeq(C)) \in Nat /\ Len(SetToSeq(G)) \in Nat
      BY <1>2
    <2>3. CASE w \in C
      <3>1. PICK i \in 1..Len(SetToSeq(C)) : SetToSeq(C)[i] = w
        BY <1>2, <2>3
      <3>2. i \in 1..Len(handles)
        BY <1>4, <2>2
      <3>. QED
        BY <1>4, <3>1, <3>2
    <2>4. CASE w \in G
      <3>1. PICK i \in 1..Len(SetToSeq(G)) : SetToSeq(G)[i] = w
        BY <1>2, <2>4
      <3>2. i + Len(SetToSeq(C)) \in 1..Len(handles)
        BY <1>4, <2>2
      <3>. QED
        BY <1>4, <3>1, <3>2
    <2>. QED
      BY <2>1, <2>3, <2>4
  <1>6. TypeOK
    BY <1>0, BoundsAssumption DEF Init, TypeOK, PC
  <1>7. MoreTypes
    <2>1. is_synced \in BOOLEAN /\ opoi \in BOOLEAN /\ kill_switch \in [Workers -> BOOLEAN]
      BY Zenon DEF Init
    <2>2. next_id \in Nat /\ ext \in 0..MaxExt /\ faults \in 0..MaxFaults
      BY BoundsAssumption DEF Init
    <2>3. stuck \in [Workers -> PC \cup {"no"}] /\ late \in [Workers -> Nat] /\ overlap \in [Workers -> 0..2]
      BY DEF Init
    <2>. QED
      BY <1>0, <1>4, <2>1, <2>2, <2>3 DEF MoreTypes
  <1>8. PostsInBound
    BY <1>0 DEF Init, PostsInBound
  <1>9. OnlyWinnersAreLate
    BY DEF Init, OnlyWinnersAreLate, PromptAt, Workers
  <1>10. DrainedStayOut
    BY DEF Init, DrainedStayOut, OutAt
  <1>11. RunningIsHandled
    BY <1>5 DEF Init, RunningIsHandled, Ended
  <1>. QED
    BY <1>6, <1>7, <1>8, <1>9, <1>10, <1>11 DEF IInv

-----------------------------------------------------------------------------
(* The theorems *)

\* The invariant is inductive.
LEMMA StepKeeps ==
    ASSUME IInv, [Next /\ UNCHANGED session]_<<vars, session>>
    PROVE  IInv'
  <1>1. CASE Next /\ UNCHANGED session
    <2>1. CASE ClientNext
      BY <1>1, <2>1, ClientKeeps
    <2>2. CASE DropNext
      BY <1>1, <2>2, DropKeeps
    <2>3. CASE Forward
      BY <1>1, <2>3, ForwardKeeps
    <2>4. ASSUME NEW w \in Workers, WatchdogNext(w) PROVE IInv'
      BY <1>1, <2>4, WatchdogKeeps
    <2>5. ASSUME NEW w \in Workers, WorkerStep(w) PROVE IInv'
      BY <1>1, <2>5, WorkerKeeps
    <2>6. ASSUME NEW w \in Gpu, LoadReturns(w) \/ TraceReturns(w) PROVE IInv'
      BY <1>1, <2>6, WorkerKeeps DEF Workers
    <2>. QED
      BY <1>1, <2>1, <2>2, <2>3, <2>4, <2>5, <2>6 DEF Next
  <1>2. CASE UNCHANGED <<vars, session>>
    <2>1. /\ UNCHANGED <<session, cmd, posted, is_synced, next_id, opoi, ext, state, seen, late, overlap, faults>>
          /\ UNCHANGED <<pc, mgr, handles, dog, kill_switch, stuck, queue, open>>
      BY <1>2 DEF vars, commands, client, drop, workers, blocks
    <2>2. TypeOK' /\ MoreTypes' /\ RunningIsHandled'
      BY <2>1 DEF IInv, TypeOK, MoreTypes, RunningIsHandled, Joining
    <2>. QED
      BY <2>1, <2>2, BystanderKeeps
  <1>. QED
    BY <1>1, <1>2

\* The inductive invariant holds of every behaviour of the manager and its workers (src/miner.rs).
THEOREM Invariance == Spec => []IInv
  <1>1. Init => IInv
    BY InitIInv
  <1>2. IInv /\ [Next /\ UNCHANGED session]_<<vars, session>> => IInv'
    BY StepKeeps
  <1>. QED
    BY <1>1, <1>2, PTL DEF Spec, Safe

\* The inference GPU drains into a pause: from the moment set_opoi_pause is called at most one batch
\* ends there, however the reloads, the traces and the commands fall.
THEOREM PausesDrain == Spec => []PauseDrains
  <1>1. IInv => PauseDrains
    BY WorkersAssumption DEF IInv, DrainedStayOut, OutAt, PauseDrains, Workers
  <1>. QED
    BY <1>1, Invariance, PTL

\* When Drop for MinerManager has returned no thread runs: a handle is popped only after its join
\* returned, and every thread that was launched has one.
THEOREM NobodyIsForgotten == Spec => []GoneMeansQuiet
  <1>1. IInv => GoneMeansQuiet
    BY DEF IInv, RunningIsHandled, GoneMeansQuiet, Alive
  <1>. QED
    BY <1>1, Invariance, PTL

\* A command is picked up after at most one batch, and one more for each failed run.
THEOREM CommandsAreTaken == Spec => []CommandsArePrompt
  <1>1. IInv => CommandsArePrompt
    BY DEF IInv, OnlyWinnersAreLate, PromptAt, CommandsArePrompt
  <1>. QED
    BY <1>1, Invariance, PTL

\* The grace period of FREEZE_GRACE runs out for a worker that mines only if it spans no more batches
\* than can fail: otherwise the watchdog shoots a thread inside a load or a trace only.
THEOREM OnlyLoadsAreShot ==
    ASSUME 1 + MaxFaults < GraceBatches
    PROVE  Spec => []OnlyLoadsOutliveGrace
  <1>1. Init => OnlyLoadsOutliveGrace
    BY DEF Init, OnlyLoadsOutliveGrace
  <1>2. ASSUME IInv, OnlyLoadsOutliveGrace, [Next /\ UNCHANGED session]_<<vars, session>>
        PROVE  OnlyLoadsOutliveGrace'
    <2>1. ASSUME UNCHANGED <<stuck, session>> PROVE OnlyLoadsOutliveGrace'
      BY <1>2, <2>1 DEF OnlyLoadsOutliveGrace
    <2>2. ASSUME NEW w \in Workers, WatchdogChecks(w), UNCHANGED session PROVE OnlyLoadsOutliveGrace'
      <3>. SUFFICES ASSUME session.full, NEW v \in Workers
                    PROVE  stuck'[v] \in {"no", "load", "trace"}
        BY <2>2 DEF OnlyLoadsOutliveGrace
      <3>1. /\ stuck[v] \in {"no", "load", "trace"} /\ stuck \in [Workers -> PC \cup {"no"}]
            /\ kill_switch \in [Workers -> BOOLEAN]
        BY <1>2 DEF OnlyLoadsOutliveGrace, IInv, MoreTypes
      <3>2. late[w] \in Nat /\ late[w] <= 1 + faults /\ faults \in 0..MaxFaults /\ MaxFaults \in Nat
            /\ GraceBatches \in Nat
        BY <1>2, BoundsAssumption DEF IInv, MoreTypes, OnlyWinnersAreLate, PromptAt
      <3>3. kill_switch[w] => pc[w] \in {"load", "trace"}
        <4>1. ~(late[w] >= GraceBatches)
          BY <3>2
        <4>. QED
          BY <2>2, <4>1 DEF WatchdogChecks, GraceOver
      <3>. QED
        BY <2>2, <3>1, <3>3 DEF WatchdogChecks
    <2>3. CASE Next /\ UNCHANGED session
      <3>1. CASE ClientNext
        <4>1. UNCHANGED stuck
          BY <3>1 DEF ClientNext, OnTemplate, OnUnsynced, OnNoModel, OnInference, InferenceEnds, OnSetExtranonce,
                      ListenEnds, drop, dropRest
        <4>. QED
          BY <2>1, <2>3, <4>1
      <3>2. CASE DropNext
        <4>1. UNCHANGED stuck
          BY <3>2 DEF DropNext, DropSendsClose, StartJoin, JoinReturns, ClearKillSwitch, AllJoined, dropRest
        <4>. QED
          BY <2>1, <2>3, <4>1
      <3>3. CASE Forward
        BY <2>1, <2>3, <3>3 DEF Forward, drop
      <3>4. ASSUME NEW w \in Workers, WatchdogNext(w) PROVE OnlyLoadsOutliveGrace'
        <4>1. CASE WatchdogChecks(w)
          BY <2>2, <2>3, <4>1
        <4>2. CASE WatchdogFires(w)
          BY <2>1, <2>3, <4>2 DEF WatchdogFires
        <4>. QED
          BY <3>4, <4>1, <4>2 DEF WatchdogNext
      <3>5. ASSUME NEW w \in Workers, WorkerStep(w) PROVE OnlyLoadsOutliveGrace'
        <4>1. UNCHANGED stuck
          BY <3>5 DEF WorkerStep, GpuNext, CpuNext, WaitForChange, PausedPoll, PollBeforeLoad, Admit, SkipOldEra,
                      TaskMissing, TraceTask, StartBatch, BatchEnds, BatchWins, BatchFails, Submit, CpuHash, CpuCount,
                      others, drop
        <4>. QED
          BY <2>1, <2>3, <4>1
      <3>6. ASSUME NEW w \in Gpu, LoadReturns(w) \/ TraceReturns(w) PROVE OnlyLoadsOutliveGrace'
        <4>1. UNCHANGED stuck
          BY <3>6 DEF LoadReturns, TraceReturns, others, drop
        <4>. QED
          BY <2>1, <2>3, <4>1
      <3>. QED
        BY <2>3, <3>1, <3>2, <3>3, <3>4, <3>5, <3>6 DEF Next
    <2>4. CASE UNCHANGED <<vars, session>>
      BY <2>1, <2>4 DEF vars, drop
    <2>. QED
      BY <1>2, <2>3, <2>4
  <1>. QED
    BY <1>1, <1>2, Invariance, PTL DEF Spec, Safe

\* The workers obey, whatever the client sends and whenever it ends.
THEOREM WorkersDoObey ==
    ASSUME 1 + MaxFaults < GraceBatches
    PROVE  Spec => []WorkersObey
  <1>1. IInv => TypeOK
    BY DEF IInv
  <1>2. Spec => []OnlyLoadsOutliveGrace
    BY OnlyLoadsAreShot
  <1>3. TypeOK /\ CommandsArePrompt /\ OnlyLoadsOutliveGrace /\ GoneMeansQuiet => WorkersObey
    BY DEF WorkersObey
  <1>. QED
    BY <1>1, <1>2, <1>3, Invariance, CommandsAreTaken, NobodyIsForgotten, PTL

-----------------------------------------------------------------------------
(* The nonces of a GPU worker *)


\* A remainder is below its modulus.
LEMMA ModRange ==
    ASSUME NEW a \in Nat, NEW m \in Nat \ {0}
    PROVE  a % m \in 0..(m - 1)
  BY SMT

\* pom_batch_start in a sub-range that holds a batch: the run starts and ends in the sub-range.
LEMMA StartInRange ==
    ASSUME NEW c \in Nat, NEW b \in Nat \ {0}, NEW sz \in Nat \ {0}, NEW fx \in Nat,
           sz # Space, b <= sz
    PROVE  /\ PomBatchStart(c, b, sz, fx) \in Nat
           /\ fx <= PomBatchStart(c, b, sz, fx)
           /\ PomBatchStart(c, b, sz, fx) + b <= fx + sz
  <1>1. c % sz \in 0..(sz - 1)
    BY ModRange
  <1>. QED
    BY <1>1 DEF PomBatchStart

\* pom_batch_start returns a nonce whatever the range.
LEMMA StartIsNonce ==
    ASSUME NEW c \in 0..(Space - 1), NEW b \in Nat \ {0}, NEW sz \in 1..Space, NEW fx \in Nat,
           fx + sz <= Space
    PROVE  PomBatchStart(c, b, sz, fx) \in 0..(Space - 1)
  <1>1. c % sz \in 0..(sz - 1)
    BY ModRange, SpaceAssumption
  <1>. QED
    BY <1>1, SpaceAssumption DEF PomBatchStart

\* A number below the modulus is its own remainder.
LEMMA ModSmall ==
    ASSUME NEW m \in Nat \ {0}, NEW a \in 0..(m - 1)
    PROVE  a % m = a
  BY SMT

\* A number is a multiple of the modulus, plus the remainder.
LEMMA Division ==
    ASSUME NEW a \in Nat, NEW m \in Nat \ {0}
    PROVE  \E q \in Nat : a = (m * q) + (a % m)
  <1>1. a \div m \in Nat /\ a = (m * (a \div m)) + (a % m)
    BY SMT
  <1>. QED
    BY <1>1

\* A multiple of the modulus, plus a number below it: that number is the remainder.
LEMMA Remainder ==
    ASSUME NEW m \in Nat \ {0}, NEW q \in Nat, NEW k \in 0..(m - 1)
    PROVE  ((m * q) + k) % m = k
  BY SMT

\* A smaller multiple has a smaller factor.
LEMMA SmallerFactor ==
    ASSUME NEW s \in Nat \ {0}, NEW k \in Int, NEW m \in Int, s * k < s * m
    PROVE  k < m
  <1>1. CASE k >= m
    <2>1. s * (k - m) >= 0
      BY <1>1, SMT
    <2>2. s * (k - m) = (s * k) - (s * m)
      BY SMT
    <2>. QED
      BY <2>1, <2>2
  <1>. QED
    BY <1>1

\* A remainder may be taken before one is added.
LEMMA ModOfSum ==
    ASSUME NEW n \in Nat, NEW m \in Nat \ {0}
    PROVE  (n + 1) % m = ((n % m) + 1) % m
  <1>1. PICK q \in Nat : n = (m * q) + (n % m)
    BY Division
  <1>. DEFINE r == n % m
  <1>2. r \in 0..(m - 1)
    BY ModRange
  <1>3. n = (m * q) + r
    BY <1>1
  <1>. HIDE DEF r
  <1>4. CASE r + 1 < m
    <2>1. r + 1 \in 0..(m - 1) /\ n + 1 = (m * q) + (r + 1)
      BY <1>2, <1>3, <1>4
    <2>2. (n + 1) % m = r + 1
      <3>1. ((m * q) + (r + 1)) % m = r + 1
        BY <2>1, Remainder, Zenon
      <3>. QED
        BY <2>1, <3>1, Zenon
    <2>3. (r + 1) % m = r + 1
      BY <2>1, ModSmall
    <2>. QED
      BY <2>2, <2>3 DEF r
  <1>5. CASE r + 1 = m
    <2>1. n + 1 = (m * (q + 1)) + 0
      BY <1>2, <1>3, <1>5, SMT
    <2>2. (n + 1) % m = 0
      <3>1. q + 1 \in Nat /\ 0 \in 0..(m - 1)
        OBVIOUS
      <3>2. ((m * (q + 1)) + 0) % m = 0
        BY <3>1, Remainder, Zenon
      <3>. QED
        BY <2>1, <3>2, Zenon
    <2>3. (r + 1) % m = 0
      BY <1>5, SMT
    <2>. QED
      BY <2>2, <2>3 DEF r
  <1>. QED
    BY <1>2, <1>4, <1>5

\* What set_extranonce assigns is a whole sub-range of the space, aligned to its size.
LEMMA AssignedRange ==
    ASSUME NEW sz \in Sizes, NEW e \in Extranonces
    PROVE  /\ sz \in 1..Space
           /\ (e * sz) % Space \in 0..(Space - 1)
           /\ ((e * sz) % Space) + sz <= Space
           /\ \E k \in Nat : (e * sz) % Space = sz * k
  <1>1. sz \in 1..Space /\ e \in Nat /\ sz \in Nat \ {0} /\ Space \in Nat \ {0}
    BY SizesAssumption, ExtranoncesAssumption, SpaceAssumption
  <1>2. e * sz \in Nat
    BY <1>1
  <1>. DEFINE f == (e * sz) % Space
  <1>3. f \in 0..(Space - 1)
    BY <1>1, <1>2, ModRange
  <1>4. PICK m \in Nat : Space = sz * m
    <2>1. Space % sz = 0
      BY DivisionAssumption
    <2>2. PICK m \in Nat : Space = (sz * m) + (Space % sz)
      BY <1>1, Division
    <2>3. Space = sz * m
      <3>1. sz * m \in Nat
        BY <1>1
      <3>. QED
        BY <2>1, <2>2, <3>1
    <2>. QED
      BY <2>3
  <1>5. PICK q \in Nat : e * sz = (Space * q) + f
    BY <1>1, <1>2, Division
  <1>. HIDE DEF f
  <1>. DEFINE k == e - (m * q)
  <1>6. k \in Int /\ f = sz * k
    <2>1. (sz * m) * q = sz * (m * q) /\ m * q \in Int
      BY <1>1, SMT
    <2>2. f = (e * sz) - (sz * (m * q))
      BY <1>1, <1>2, <1>3, <1>4, <1>5, <2>1
    <2>3. sz * k = (sz * e) - (sz * (m * q))
      BY <1>1, <2>1, SMT
    <2>4. sz * e = e * sz
      BY <1>1, SMT
    <2>. QED
      BY <1>1, <2>1, <2>2, <2>3, <2>4
  <1>. HIDE DEF k
  <1>7. k < m
    BY <1>1, <1>3, <1>4, <1>6, SmallerFactor
  <1>8. -1 < k
    <2>1. sz * (-1) < sz * k
      BY <1>1, <1>3, <1>6
    <2>. QED
      BY <1>1, <1>6, <2>1, SmallerFactor
  <1>9. f + sz <= Space
    <2>1. sz * (m - k - 1) >= 0
      BY <1>1, <1>6, <1>7, SMT
    <2>2. sz * (m - k - 1) = (sz * m) - (sz * k) - sz
      BY <1>1, <1>6, SMT
    <2>. QED
      BY <1>1, <1>3, <1>4, <1>6, <2>1, <2>2
  <1>10. k \in Nat
    BY <1>6, <1>8
  <1>. QED
    BY <1>1, <1>3, <1>6, <1>9, <1>10 DEF f

(* The sub-range begins at a multiple of its size, and the cursor stands    *)
(* behind the last run.                                                     *)
Aligned == \E k \in Nat : nonce_fixed = size * k
CursorFollows == mined => pom_nonce = (last + 1) % Space

NonceInv == NonceTypeOK /\ RunInRange /\ Aligned /\ CursorFollows

\* The first cursor stands anywhere in the whole space, where no run was mined yet.
LEMMA NonceInitInv == NonceInit => NonceInv
  <1>. SUFFICES ASSUME NonceInit PROVE NonceInv
    OBVIOUS
  <1>1. NonceTypeOK
    <2>1. mined \in BOOLEAN
      BY Zenon DEF NonceInit
    <2>2. /\ pom_nonce \in 0..(Space - 1) /\ size = Space /\ nonce_fixed = 0
          /\ first = 0 /\ last = 0
      BY DEF NonceInit
    <2>. QED
      BY <2>1, <2>2, SpaceAssumption DEF NonceTypeOK
  <1>2. RunInRange /\ CursorFollows
    BY Zenon DEF NonceInit, RunInRange, CursorFollows
  <1>3. Aligned
    <2>1. nonce_fixed = size * 0 /\ 0 \in Nat
      BY SpaceAssumption DEF NonceInit
    <2>. QED
      BY <2>1 DEF Aligned
  <1>. QED
    BY <1>1, <1>2, <1>3 DEF NonceInv

\* A batch keeps the invariant: its run is in the sub-range and the cursor is behind it.
LEMMA MineBatchKeeps ==
    ASSUME NonceInv, MineBatch
    PROVE  NonceInv'
  <1>. DEFINE start == PomBatchStart(pom_nonce, Batch, size, nonce_fixed)
  <1>1. start \in 0..(Space - 1)
    <2>1. nonce_fixed \in Nat /\ Batch \in Nat \ {0} /\ size \in 1..Space
      BY SpaceAssumption, BatchAssumption DEF NonceInv, NonceTypeOK
    <2>. QED
      BY <2>1, StartIsNonce DEF NonceInv, NonceTypeOK
  <1>2. /\ first' = start /\ mined' = TRUE
        /\ last' = (start + Batch - 1) % Space
        /\ pom_nonce' = (start + Batch) % Space
        /\ size' = size /\ nonce_fixed' = nonce_fixed
    BY DEF MineBatch
  <1>3. /\ pom_nonce' \in 0..(Space - 1) /\ last' \in 0..(Space - 1)
        /\ start + Batch - 1 \in Nat
    <2>. HIDE DEF start
    <2>1. start + Batch \in Nat /\ start + Batch - 1 \in Nat
      BY <1>1, BatchAssumption, SpaceAssumption
    <2>. QED
      BY <1>2, <2>1, ModRange, SpaceAssumption
  <1>4. NonceTypeOK'
    <2>. HIDE DEF start
    <2>. QED
      BY <1>1, <1>2, <1>3, SpaceAssumption DEF NonceInv, NonceTypeOK
  <1>5. RunInRange'
    <2>. SUFFICES ASSUME size # Space, Batch <= size
                  PROVE  nonce_fixed <= first' /\ first' <= last' /\ last' < nonce_fixed + size
      BY <1>2 DEF RunInRange
    <2>1. start \in Nat /\ nonce_fixed <= start /\ start + Batch <= nonce_fixed + size
      <3>1. /\ nonce_fixed \in Nat /\ Batch \in Nat \ {0} /\ size \in Nat \ {0}
            /\ pom_nonce \in Nat
        BY SpaceAssumption, BatchAssumption DEF NonceInv, NonceTypeOK
      <3>. QED
        BY <3>1, StartInRange
    <2>. HIDE DEF start
    <2>2. start + Batch - 1 \in 0..(Space - 1)
      BY <2>1, BatchAssumption, SpaceAssumption DEF NonceInv, NonceTypeOK
    <2>3. last' = start + Batch - 1
      BY <1>2, <2>2, ModSmall, SpaceAssumption
    <2>. QED
      BY <1>2, <2>1, <2>3, BatchAssumption, SpaceAssumption DEF NonceInv, NonceTypeOK
  <1>6. Aligned'
    BY <1>2 DEF NonceInv, Aligned
  <1>7. CursorFollows'
    <2>. HIDE DEF start
    <2>. DEFINE n == start + Batch - 1
    <2>1. n \in Nat /\ start + Batch = n + 1
      BY <1>1, <1>3, BatchAssumption, SpaceAssumption
    <2>. HIDE DEF n
    <2>2. (n + 1) % Space = ((n % Space) + 1) % Space
      BY <2>1, ModOfSum, SpaceAssumption
    <2>3. last' = n % Space /\ pom_nonce' = (n + 1) % Space
      BY <1>2, <2>1 DEF n
    <2>. QED
      BY <2>2, <2>3 DEF CursorFollows
  <1>. QED
    BY <1>4, <1>5, <1>6, <1>7 DEF NonceInv

\* A sub-range assigned in mid-run is aligned; what was mined before it no longer counts.
LEMMA SetExtranonceKeeps ==
    ASSUME NonceInv, NEW sz \in Sizes, NEW e \in Extranonces, SetExtranonce(sz, e)
    PROVE  NonceInv'
  <1>1. /\ size' = sz /\ nonce_fixed' = (e * sz) % Space /\ mined' = FALSE
        /\ pom_nonce' = pom_nonce /\ first' = first /\ last' = last
    BY DEF SetExtranonce
  <1>. DEFINE range == (e * sz) % Space
  <1>2. /\ sz \in 1..Space /\ range \in 0..(Space - 1) /\ range + sz <= Space
        /\ \E k \in Nat : range = sz * k
    BY AssignedRange
  <1>. HIDE DEF range
  <1>3. nonce_fixed' = range
    BY <1>1 DEF range
  <1>4. NonceTypeOK'
    BY <1>1, <1>2, <1>3, SpaceAssumption DEF NonceInv, NonceTypeOK
  <1>5. RunInRange' /\ CursorFollows'
    BY <1>1 DEF RunInRange, CursorFollows
  <1>6. Aligned'
    BY <1>1, <1>2, <1>3 DEF Aligned
  <1>. QED
    BY <1>4, <1>5, <1>6 DEF NonceInv

\* Every step keeps the invariant.
LEMMA NonceNextInv == NonceInv /\ [NonceNext]_nonceVars => NonceInv'
  <1>. SUFFICES ASSUME NonceInv, [NonceNext]_nonceVars PROVE NonceInv'
    OBVIOUS
  <1>1. CASE UNCHANGED nonceVars
    BY <1>1 DEF NonceInv, NonceTypeOK, RunInRange, Aligned, CursorFollows, nonceVars
  <1>. QED
    BY <1>1, MineBatchKeeps, SetExtranonceKeeps DEF NonceNext

\* The run of every batch lies in the sub-range assigned, and so do all runs of a session
\* (pom_batch_start, set_extranonce and the batch loop of launch_gpu_miner).
THEOREM RunsStayInRange == NonceSpec => [](NonceTypeOK /\ RunInRange)
  <1>1. NonceInv => NonceTypeOK /\ RunInRange
    BY DEF NonceInv
  <1>. QED
    BY <1>1, NonceInitInv, NonceNextInv, PTL DEF NonceSpec

\* Where the next run starts: right behind the last one, or over again when what is left of the
\* sub-range is less than a batch.
LEMMA NextRunTiles ==
    ASSUME NonceInv, mined, size # Space, Batch <= size
    PROVE  LET start == PomBatchStart(pom_nonce, Batch, size, nonce_fixed)
           IN  \/ start = last + 1
               \/ start = nonce_fixed /\ last + Batch >= nonce_fixed + size
  <1>1. /\ Space \in Nat \ {0} /\ Batch \in Nat \ {0} /\ size \in Nat \ {0}
        /\ nonce_fixed \in Nat /\ nonce_fixed + size <= Space
        /\ pom_nonce \in Nat /\ last \in Int
        /\ nonce_fixed <= last /\ last < nonce_fixed + size
    BY SpaceAssumption, BatchAssumption DEF NonceInv, NonceTypeOK, RunInRange
  <1>2. PICK k \in Nat : nonce_fixed = size * k
    BY DEF NonceInv, Aligned
  <1>3. pom_nonce = (last + 1) % Space
    BY DEF NonceInv, CursorFollows
  <1>. DEFINE d == last + 1 - nonce_fixed
  <1>4. d \in 1..size /\ last + 1 = nonce_fixed + d
    BY <1>1
  <1>. HIDE DEF d
  <1>5. CASE d = size
    <2>1. pom_nonce % size = 0
      <3>1. CASE nonce_fixed + size = Space
        <4>1. pom_nonce = 0
          <5>1. Space % Space = 0
            BY <1>1, SMT
          <5>. QED
            BY <1>3, <1>4, <1>5, <3>1, <5>1
        <4>. QED
          BY <1>1, <4>1, ModSmall
      <3>2. CASE nonce_fixed + size < Space
        <4>1. nonce_fixed + size \in 0..(Space - 1)
          BY <1>1, <3>2
        <4>2. pom_nonce = nonce_fixed + size
          BY <1>1, <1>3, <1>4, <1>5, <4>1, ModSmall
        <4>3. nonce_fixed + size = (size * (k + 1)) + 0
          BY <1>1, <1>2, SMT
        <4>4. ((size * (k + 1)) + 0) % size = 0
          BY <1>1, Remainder
        <4>. QED
          BY <4>2, <4>3, <4>4
      <3>. QED
        BY <1>1, <3>1, <3>2
    <2>2. PomBatchStart(pom_nonce, Batch, size, nonce_fixed) = nonce_fixed
      BY <1>1, <2>1 DEF PomBatchStart
    <2>. QED
      BY <1>1, <1>4, <1>5, <2>2
  <1>6. CASE d # size
    <2>1. d \in 0..(size - 1) /\ last + 1 \in 0..(Space - 1)
      BY <1>1, <1>4, <1>6
    <2>2. pom_nonce = (size * k) + d
      BY <1>1, <1>2, <1>3, <1>4, <2>1, ModSmall
    <2>3. pom_nonce % size = d
      BY <1>1, <2>1, <2>2, Remainder
    <2>. QED
      BY <1>1, <1>4, <2>1, <2>3 DEF PomBatchStart
  <1>. QED
    BY <1>5, <1>6

\* The runs of a session tile its sub-range: none overlaps the one before, and the range is begun
\* again only when fewer nonces than a batch are left.
THEOREM RangesAreTiled == NonceSpec => RunsTile
  <1>. DEFINE Tiles == mined /\ mined' /\ size # Space /\ Batch <= size =>
                 first' = last + 1 \/ (first' = nonce_fixed /\ last + Batch >= nonce_fixed + size)
  <1>1. NonceInv /\ [NonceNext]_nonceVars => [Tiles]_nonceVars
    <2>. SUFFICES ASSUME NonceInv, NonceNext, mined, mined', size # Space, Batch <= size
                  PROVE  Tiles
      BY Zenon
    <2>1. CASE MineBatch
      <3>1. first' = PomBatchStart(pom_nonce, Batch, size, nonce_fixed)
        BY <2>1 DEF MineBatch
      <3>. QED
        BY <3>1, NextRunTiles
    <2>2. ASSUME NEW sz \in Sizes, NEW e \in Extranonces, SetExtranonce(sz, e)
          PROVE  FALSE
      BY <2>2 DEF SetExtranonce
    <2>. QED
      BY <2>1, <2>2 DEF NonceNext
  <1>. QED
    BY <1>1, NonceInitInv, NonceNextInv, PTL DEF NonceSpec, RunsTile
=============================================================================

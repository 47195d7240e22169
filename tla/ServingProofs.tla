---------------------------- MODULE ServingProofs ----------------------------
(***************************************************************************)
(* The weights under a batch and under an answer: for every number of tasks, *)
(* of eras and of faults, an engine that somebody holds stays on the card    *)
(* with its model, a batch walks the model its block needs, and only the     *)
(* GPU bars a model from traced answers.                                    *)
(***************************************************************************)
EXTENDS Serving, FunctionTheorems, FiniteSetTheorems, NaturalsInduction, WellFoundedInduction, TLAPS

-----------------------------------------------------------------------------
(* The inductive invariant *)

ModelsOf == 0..Eras
EngineOrNone == Engines \cup {0}

CardTypes ==
    /\ server \in [m : ModelsOf, e : EngineOrNone] /\ walk \in [m : ModelsOf, e : EngineOrNone]
    /\ ld \in [Procs -> [pc : {"out", "check", "uninstall", "clear", "launch", "publish", "up", "down"},
                         m : ModelsOf, e : EngineOrNone]]
    /\ held \in [Procs -> EngineOrNone]
    /\ eng \in [Engines -> ModelsOf]

ActorTypes ==
    /\ era \in 1..Eras /\ job \in 1..Eras
    /\ wpc \in {"top", "stale", "share", "build", "blob", "mine", "grind"}
    /\ grinding \in ModelsOf
    /\ task \in [Tasks -> [pc : {"idle", "load", "generate", "arm", "try", "trying", "begin", "tracing"},
                           m : ModelsOf, kind : {"none"} \cup Kinds]]
    /\ mixed \in BOOLEAN

TypeOK == CardTypes /\ ActorTypes

(* An actor refers to an engine through ensure_loaded only between its launch  *)
(* and its publication, and through a clone only while it computes with it.   *)
OneHandEach ==
    /\ \A p \in Procs : /\ ld[p].pc # "publish" => ld[p].e = 0
                        /\ ld[p].pc # "out" => ld[p].m # 0
    /\ \A t \in Tasks : /\ ld[t].pc # "out" => task[t].pc = "load"
                        /\ held[t] # 0 => task[t].pc \notin {"idle", "load"}
                        /\ task[t].pc = "load" => task[t].m # 0
    /\ ld[Worker].pc # "out" => wpc = "share"
    /\ held[Worker] # 0 => wpc \in {"build", "grind"}
    /\ wpc = "build" => held[Worker] # 0

(* The engines on the card are those somebody refers to.                      *)
ResidentIffReferenced == \A e \in Engines : eng[e] # 0 <=> Referenced(e)

(* Whoever refers to an engine finds the model it expects there.              *)
EnginesMatch ==
    /\ server.e # 0 => eng[server.e] = server.m
    /\ walk.e # 0 => eng[walk.e] = walk.m
    /\ walk.m = 0 => walk.e = 0
    /\ \A p \in Procs : ld[p].e # 0 => eng[ld[p].e] = ld[p].m
    /\ \A t \in Tasks : held[t] # 0 => mixed \/ eng[held[t]] = task[t].m
    /\ wpc = "mine" => walk.m \in {0, job}
    /\ wpc = "grind" => grinding = job
    /\ wpc = "grind" /\ held[Worker] # 0 => eng[held[Worker]] = grinding

IInv == TypeOK /\ OneHandEach /\ ResidentIffReferenced /\ EnginesMatch

-----------------------------------------------------------------------------
(* An engine for every launch *)

\* A set of naturals that is not empty has a least element, which Min returns.
LEMMA MinOfNaturals ==
    ASSUME NEW S \in SUBSET Nat, S # {}
    PROVE  Min(S) \in S /\ \A n \in S : Min(S) <= n
  <1>. DEFINE R == {ss \in Nat \X Nat : ss[1] < ss[2]}
  <1>1. IsWellFoundedOn(R, Nat)
    BY NatLessThanWellFounded, Zenon DEF OpToRel
  <1>2. \E x \in S : \A y \in S : <<y, x>> \notin R
    <2>. HIDE DEF R
    <2>. QED
      BY <1>1, WFMin
  <1>3. PICK x \in S : \A y \in S : <<y, x>> \notin R
    BY <1>2
  <1>4. \A y \in S : x <= y
    <2>. SUFFICES ASSUME NEW y \in S PROVE x <= y
      OBVIOUS
    <2>1. ~(y < x)
      BY <1>3
    <2>. QED
      BY <2>1
  <1>. QED
    BY <1>4 DEF Min

\* One element more makes a finite set larger by one at most.
LEMMA OneMore ==
    ASSUME NEW S, NEW x, IsFiniteSet(S)
    PROVE  /\ IsFiniteSet(S \cup {x})
           /\ Cardinality(S) \in Nat /\ Cardinality(S \cup {x}) \in Nat
           /\ Cardinality(S \cup {x}) <= Cardinality(S) + 1
  <1>1. IsFiniteSet(S \cup {x})
        /\ Cardinality(S \cup {x}) = IF x \in S THEN Cardinality(S) ELSE Cardinality(S) + 1
    BY FS_AddElement
  <1>2. Cardinality(S) \in Nat
    BY FS_CardinalityType
  <1>. QED
    BY <1>1, <1>2

\* The actors are finitely many, and there are two engines more than actors.
LEMMA MoreEngines ==
    /\ IsFiniteSet(Procs) /\ Cardinality(Procs) \in Nat
    /\ Engines \in SUBSET (Nat \ {0})
    /\ IsFiniteSet(Engines) /\ Cardinality(Engines) = Cardinality(Procs) + 2
  <1>1. IsFiniteSet(Procs) /\ Cardinality(Procs) \in Nat
    BY ServingAssumption, FS_AddElement, FS_CardinalityType DEF Procs
  <1>2. Cardinality(1..(Cardinality(Procs) + 2)) = Cardinality(Procs) + 2
        /\ IsFiniteSet(1..(Cardinality(Procs) + 2))
    BY SMTT(60), <1>1, FS_Interval
  <1>. QED
    BY <1>1, <1>2 DEF Engines

\* Whoever launches an engine refers to none yet, so the card has an engine free for it.
LEMMA EngineIsFree ==
    ASSUME IInv, NEW p \in Procs, ld[p].pc = "launch"
    PROVE  LET free == {i \in Engines : eng[i] = 0} IN Min(free) \in free
  <1>. DEFINE others == Procs \ {p}
              ref == [q \in others |-> IF ld[q].e # 0 THEN ld[q].e ELSE held[q]]
              refs == {ref[q] : q \in others}
              all == (refs \cup {server.e}) \cup {walk.e}
              free == {i \in Engines : eng[i] = 0}
  <1>1. \A q \in Procs : ld[q].e = 0 \/ held[q] = 0
    BY DEF IInv, OneHandEach, Procs, Worker
  <1>2. ld[p].e = 0 /\ held[p] = 0
    BY DEF IInv, OneHandEach, Procs, Worker
  <1>3. IsFiniteSet(others) /\ Cardinality(others) = Cardinality(Procs) - 1
    BY MoreEngines, FS_RemoveElement
  <1>4. IsFiniteSet(refs) /\ Cardinality(refs) <= Cardinality(others)
    <2>1. ref \in Surjection(others, refs)
      BY Fun_IsSurj
    <2>. HIDE DEF ref, refs, others
    <2>. QED
      BY <1>3, <2>1, FS_Surjection
  <1>5. IsFiniteSet(all) /\ Cardinality(all) <= Cardinality(others) + 2
    <2>. HIDE DEF refs, others
    <2>1. IsFiniteSet(refs \cup {server.e}) /\ Cardinality(refs) \in Nat
          /\ Cardinality(refs \cup {server.e}) \in Nat
          /\ Cardinality(refs \cup {server.e}) <= Cardinality(refs) + 1
      BY <1>4, OneMore
    <2>2. IsFiniteSet((refs \cup {server.e}) \cup {walk.e})
          /\ Cardinality((refs \cup {server.e}) \cup {walk.e}) \in Nat
          /\ Cardinality((refs \cup {server.e}) \cup {walk.e}) <= Cardinality(refs \cup {server.e}) + 1
      BY <2>1, OneMore
    <2>4. Cardinality(others) \in Nat
      BY <1>3, FS_CardinalityType
    <2>. QED
      BY <1>4, <2>1, <2>2, <2>4
  <1>6. free # {}
    <2>1. SUFFICES ASSUME \A i \in Engines : eng[i] # 0 PROVE FALSE
      OBVIOUS
    <2>2. Engines \in SUBSET all
      <3>1. SUFFICES ASSUME NEW i \in Engines PROVE i \in all
        OBVIOUS
      <3>2. Referenced(i) /\ i # 0
        BY <2>1, MoreEngines DEF IInv, ResidentIffReferenced
      <3>3. CASE server.e = i \/ walk.e = i
        BY <3>3
      <3>4. ASSUME NEW q \in Procs, ld[q].e = i \/ held[q] = i PROVE i \in all
        <4>1. q \in others /\ ref[q] = i
          BY <1>1, <1>2, <3>2, <3>4
        <4>. QED
          BY <4>1
      <3>. QED
        BY <3>2, <3>3, <3>4 DEF Referenced
    <2>3. Cardinality(Engines) <= Cardinality(all) /\ Cardinality(all) \in Nat
      <3>. HIDE DEF all
      <3>. QED
        BY <1>5, <2>2, FS_Subset, FS_CardinalityType
    <2>. HIDE DEF all, others
    <2>. QED
      BY <1>3, <1>5, <2>3, MoreEngines
  <1>7. free \in SUBSET Nat
    BY MoreEngines
  <1>. QED
    BY <1>6, <1>7, MinOfNaturals

-----------------------------------------------------------------------------
(* Every step keeps the invariant *)

\* A step that refers to no new engine drops those nobody refers to any more, and no other.
LEMMA DropKeeps ==
    ASSUME TypeOK, ResidentIffReferenced, NEW configured, NEW device, Settle(eng, configured, device),
           \A e \in Engines : Referenced(e)' => Referenced(e)
    PROVE  /\ eng' \in [Engines -> ModelsOf] /\ ResidentIffReferenced'
           /\ \A e \in Engines : Referenced(e)' => eng'[e] = eng[e]
  <1>1. \A e \in Engines : eng'[e] = IF Referenced(e)' THEN eng[e] ELSE 0
    BY DEF Settle, TypeOK, CardTypes
  <1>2. eng' \in [Engines -> ModelsOf]
    BY ServingAssumption DEF Settle, TypeOK, CardTypes, ModelsOf
  <1>. QED
    BY <1>1, <1>2 DEF ResidentIffReferenced

\* The worker, outside ensure_loaded.
LEMMA WorkerKeeps ==
    ASSUME IInv, Top \/ Wait \/ DropStale \/ Share \/ Build \/ Blob \/ Mine \/ Ground
    PROVE  IInv'
  <1>. USE ServingAssumption DEF IInv, TypeOK, CardTypes, ActorTypes, OneHandEach, EnginesMatch,
         ModelsOf, EngineOrNone, Procs, Worker, Kinds, chain, trace, card
  <1>1. ASSUME Top
        PROVE  IInv'
    <2>1. UNCHANGED eng /\ \A e \in Engines : Referenced(e)' <=> Referenced(e)
      BY <1>1 DEF Top, IsInstalled, MiningModel, Referenced
    <2>2. TypeOK'
      BY <1>1 DEF Top, IsInstalled, MiningModel
    <2>3. OneHandEach'
      BY <1>1 DEF Top, IsInstalled, MiningModel
    <2>4. EnginesMatch'
      BY <1>1, <2>1, <2>2 DEF Top, IsInstalled, MiningModel
    <2>. QED
      BY <2>1, <2>2, <2>3, <2>4 DEF ResidentIffReferenced
  <1>2. ASSUME Wait
        PROVE  IInv'
    <2>1. UNCHANGED eng /\ \A e \in Engines : Referenced(e)' <=> Referenced(e)
      BY <1>2 DEF Wait, Referenced
    <2>2. TypeOK'
      BY <1>2 DEF Wait
    <2>3. OneHandEach'
      BY <1>2 DEF Wait
    <2>4. EnginesMatch'
      BY <1>2, <2>1, <2>2 DEF Wait
    <2>. QED
      BY <2>1, <2>2, <2>3, <2>4 DEF ResidentIffReferenced
  <1>3. ASSUME Share
        PROVE  IInv'
    <2>1. UNCHANGED eng /\ \A e \in Engines : Referenced(e)' <=> Referenced(e)
      BY <1>3 DEF Share, InLoad, ActiveEngine, MiningModel, Out, Referenced
    <2>2. TypeOK'
      BY <1>3 DEF Share, InLoad, ActiveEngine, MiningModel, Out
    <2>3. OneHandEach'
      BY <1>3 DEF Share, InLoad, ActiveEngine, MiningModel, Out
    <2>4. EnginesMatch'
      BY <1>3, <2>1, <2>2 DEF Share, InLoad, ActiveEngine, MiningModel, Out
    <2>. QED
      BY <2>1, <2>2, <2>3, <2>4 DEF ResidentIffReferenced
  <1>4. ASSUME Mine
        PROVE  IInv'
    <2>1. UNCHANGED eng /\ \A e \in Engines : Referenced(e)' <=> Referenced(e)
      BY <1>4 DEF Mine, Referenced
    <2>2. TypeOK'
      BY <1>4 DEF Mine
    <2>3. OneHandEach'
      BY <1>4 DEF Mine
    <2>4. EnginesMatch'
      BY <1>4, <2>1, <2>2 DEF Mine
    <2>. QED
      BY <2>1, <2>2, <2>3, <2>4 DEF ResidentIffReferenced
  <1>5. ASSUME DropStale
        PROVE  IInv'
    <2>0. ld' = ld \/ ld' = [ld EXCEPT ![Worker] = [pc |-> "check", m |-> job, e |-> 0]]
      BY <1>5 DEF DropStale, MiningModel, Enter
    <2>1. \A e \in Engines : Referenced(e)' => Referenced(e)
      BY <1>5, <2>0 DEF DropStale, MiningModel, NoWalk, Referenced
    <2>2. /\ eng' \in [Engines -> ModelsOf] /\ ResidentIffReferenced'
          /\ \A e \in Engines : Referenced(e)' => eng'[e] = eng[e]
      BY <1>5, <2>0, <2>1, DropKeeps DEF DropStale, Drops
    <2>3. TypeOK'
      BY <1>5, <2>0, <2>2 DEF DropStale, MiningModel, NoWalk
    <2>4. OneHandEach'
      BY <1>5, <2>0 DEF DropStale, MiningModel, NoWalk
    <2>5. EnginesMatch'
      BY <1>5, <2>0, <2>2, <2>3 DEF DropStale, MiningModel, NoWalk, Referenced
    <2>. QED
      BY <2>2, <2>3, <2>4, <2>5
  <1>6. ASSUME Build
        PROVE  IInv'
    <2>1. \A e \in Engines : Referenced(e)' => Referenced(e)
      BY <1>6 DEF Build, MiningModel, Referenced
    <2>2. /\ eng' \in [Engines -> ModelsOf] /\ ResidentIffReferenced'
          /\ \A e \in Engines : Referenced(e)' => eng'[e] = eng[e]
      BY <1>6, <2>1, DropKeeps DEF Build, Drops
    <2>3. TypeOK'
      BY <1>6, <2>2 DEF Build, MiningModel
    <2>4. OneHandEach'
      BY <1>6 DEF Build, MiningModel
    <2>5. EnginesMatch'
      BY <1>6, <2>2, <2>3 DEF Build, MiningModel, Referenced
    <2>. QED
      BY <2>2, <2>3, <2>4, <2>5
  <1>7. ASSUME Blob
        PROVE  IInv'
    <2>1. \A e \in Engines : Referenced(e)' => Referenced(e)
      BY <1>7 DEF Blob, MiningModel, Referenced
    <2>2. /\ eng' \in [Engines -> ModelsOf] /\ ResidentIffReferenced'
          /\ \A e \in Engines : Referenced(e)' => eng'[e] = eng[e]
      BY <1>7, <2>1, DropKeeps DEF Blob, Drops
    <2>3. TypeOK'
      BY <1>7, <2>2 DEF Blob, MiningModel
    <2>4. OneHandEach'
      BY <1>7 DEF Blob, MiningModel
    <2>5. EnginesMatch'
      BY <1>7, <2>2, <2>3 DEF Blob, MiningModel, Referenced
    <2>. QED
      BY <2>2, <2>3, <2>4, <2>5
  <1>8. ASSUME Ground
        PROVE  IInv'
    <2>1. \A e \in Engines : Referenced(e)' => Referenced(e)
      BY <1>8 DEF Ground, Referenced
    <2>2. /\ eng' \in [Engines -> ModelsOf] /\ ResidentIffReferenced'
          /\ \A e \in Engines : Referenced(e)' => eng'[e] = eng[e]
      BY <1>8, <2>1, DropKeeps DEF Ground, Drops
    <2>3. TypeOK'
      BY <1>8, <2>2 DEF Ground
    <2>4. OneHandEach'
      BY <1>8 DEF Ground
    <2>5. EnginesMatch'
      BY <1>8, <2>2, <2>3 DEF Ground, Referenced
    <2>. QED
      BY <2>2, <2>3, <2>4, <2>5
  <1>. QED
    BY <1>1, <1>2, <1>3, <1>4, <1>5, <1>6, <1>7, <1>8

\* ensure_loaded, whoever calls it.
LEMMA LoadingKeeps ==
    ASSUME IInv, NEW p \in Procs, EnsureLoaded(p)
    PROVE  IInv'
  <1>. USE ServingAssumption DEF IInv, TypeOK, CardTypes, ActorTypes, OneHandEach, EnginesMatch,
         ModelsOf, EngineOrNone, Procs, Worker, Kinds, chain, trace, card
  <1>1. ASSUME Check(p)
        PROVE  IInv'
    <2>1. UNCHANGED eng /\ \A e \in Engines : Referenced(e)' <=> Referenced(e)
      BY <1>1 DEF Check, InLoad, Referenced
    <2>2. TypeOK'
      BY <1>1 DEF Check, InLoad
    <2>3. OneHandEach'
      BY <1>1 DEF Check, InLoad
    <2>4. EnginesMatch'
      BY <1>1, <2>1, <2>2 DEF Check, InLoad
    <2>. QED
      BY <2>1, <2>2, <2>3, <2>4 DEF ResidentIffReferenced
  <1>2. ASSUME Uninstall(p)
        PROVE  IInv'
    <2>1. \A e \in Engines : Referenced(e)' => Referenced(e)
      BY <1>2 DEF Uninstall, InLoad, NoWalk, Referenced
    <2>2. /\ eng' \in [Engines -> ModelsOf] /\ ResidentIffReferenced'
          /\ \A e \in Engines : Referenced(e)' => eng'[e] = eng[e]
      BY <1>2, <2>1, DropKeeps DEF Uninstall, Drops
    <2>3. TypeOK'
      BY <1>2, <2>2 DEF Uninstall, InLoad, NoWalk
    <2>4. OneHandEach'
      BY <1>2 DEF Uninstall, InLoad, NoWalk
    <2>5. EnginesMatch'
      BY <1>2, <2>2, <2>3 DEF Uninstall, InLoad, NoWalk, Referenced
    <2>. QED
      BY <2>2, <2>3, <2>4, <2>5
  <1>3. ASSUME Clear(p)
        PROVE  IInv'
    <2>1. \A e \in Engines : Referenced(e)' => Referenced(e)
      BY <1>3 DEF Clear, InLoad, NoServer, Referenced
    <2>2. /\ eng' \in [Engines -> ModelsOf] /\ ResidentIffReferenced'
          /\ \A e \in Engines : Referenced(e)' => eng'[e] = eng[e]
      BY <1>3, <2>1, DropKeeps DEF Clear, Drops
    <2>3. TypeOK'
      BY <1>3, <2>2 DEF Clear, InLoad, NoServer
    <2>4. OneHandEach'
      BY <1>3 DEF Clear, InLoad, NoServer
    <2>5. EnginesMatch'
      BY <1>3, <2>2, <2>3 DEF Clear, InLoad, NoServer, Referenced
    <2>. QED
      BY <2>2, <2>3, <2>4, <2>5
  <1>4. ASSUME Publish(p)
        PROVE  IInv'
    <2>1. \A e \in Engines : Referenced(e)' => Referenced(e)
      BY <1>4 DEF Publish, InLoad, Referenced
    <2>2. /\ eng' \in [Engines -> ModelsOf] /\ ResidentIffReferenced'
          /\ \A e \in Engines : Referenced(e)' => eng'[e] = eng[e]
      BY <1>4, <2>1, DropKeeps DEF Publish, Drops
    <2>3. TypeOK'
      BY <1>4, <2>2 DEF Publish, InLoad
    <2>4. OneHandEach'
      BY <1>4 DEF Publish, InLoad
    <2>5. EnginesMatch'
      BY SMTT(60), <1>4, <2>2, <2>3 DEF Publish, InLoad, Referenced
    <2>. QED
      BY <2>2, <2>3, <2>4, <2>5
  <1>5. ASSUME Launch(p)
        PROVE  IInv'
    <2>. DEFINE e == Min({i \in Engines : eng[i] = 0})
    <2>1. e \in Engines /\ eng[e] = 0
      BY <1>5, EngineIsFree DEF Launch, InLoad
    <2>. HIDE DEF e
    <2>2. e # 0 /\ ~Referenced(e) /\ ld[p].pc = "launch" /\ ld[p].m # 0
      BY <1>5, <2>1, MoreEngines DEF ResidentIffReferenced, Launch, InLoad
    <2>3. UNCHANGED <<era, job, server, walk, held, wpc, grinding, task, mixed>>
      BY <1>5 DEF Launch
    <2>4. CASE /\ ld' = [ld EXCEPT ![p].pc = "publish", ![p].e = e]
               /\ eng' = [eng EXCEPT ![e] = ld[p].m]
      <3>1. TypeOK'
        BY <2>1, <2>2, <2>3, <2>4
      <3>2. OneHandEach'
        BY <2>2, <2>3, <2>4
      <3>3. \A i \in Engines : Referenced(i)' <=> Referenced(i) \/ i = e
        BY <2>1, <2>2, <2>3, <2>4 DEF Referenced
      <3>4. ResidentIffReferenced'
        BY <2>1, <2>2, <2>4, <3>3 DEF ResidentIffReferenced
      <3>5. EnginesMatch'
        BY <2>1, <2>2, <2>3, <2>4, <3>1 DEF Referenced
      <3>. QED
        BY <3>1, <3>2, <3>4, <3>5
    <2>5. CASE ld' = [ld EXCEPT ![p].pc = "down"] /\ UNCHANGED eng
      <3>1. TypeOK' /\ OneHandEach' /\ EnginesMatch'
        BY <2>2, <2>3, <2>5
      <3>2. \A i \in Engines : Referenced(i)' <=> Referenced(i)
        BY <2>2, <2>3, <2>5 DEF Referenced
      <3>. QED
        BY <2>5, <3>1, <3>2 DEF ResidentIffReferenced
    <2>. QED
      BY <1>5, <2>4, <2>5 DEF Launch, e
  <1>. QED
    BY <1>1, <1>2, <1>3, <1>4, <1>5 DEF EnsureLoaded

\* What the end of a task leaves: its hand is empty, the engines of the others stay.
LEMMA LeavingKeeps ==
    ASSUME IInv, NEW t \in Tasks, task[t].pc \notin {"idle", "load"}, Leaves(t),
           NEW configured, NEW device, Settle(eng, configured, device),
           UNCHANGED <<era, job, ld, wpc, grinding, mixed>>
    PROVE  IInv'
  <1>. USE ServingAssumption DEF IInv, TypeOK, CardTypes, ActorTypes, OneHandEach, EnginesMatch,
         ModelsOf, EngineOrNone, Procs, Worker, Kinds, chain, trace, card
  <1>0. ld[t].pc = "out" /\ t # Worker
    OBVIOUS
  <1>1. /\ UNCHANGED <<server, walk>> /\ held' = [held EXCEPT ![t] = 0]
        /\ task' = [task EXCEPT ![t] = [pc |-> "idle", m |-> 0, kind |-> "none"]]
    BY DEF Leaves, Idle
  <1>2. \A e \in Engines : Referenced(e)' => Referenced(e)
    BY <1>1 DEF Referenced
  <1>3. /\ eng' \in [Engines -> ModelsOf] /\ ResidentIffReferenced'
        /\ \A e \in Engines : Referenced(e)' => eng'[e] = eng[e]
    BY <1>2, DropKeeps
  <1>4. TypeOK'
    BY <1>1, <1>3
  <1>5. OneHandEach'
    BY <1>0, <1>1
  <1>6. EnginesMatch'
    BY <1>0, <1>1, <1>3, <1>4 DEF Referenced
  <1>. QED
    BY <1>3, <1>4, <1>5, <1>6

\* A task that moves on keeps the engine it holds.
LEMMA MovingOnKeeps ==
    ASSUME IInv, NEW t \in Tasks, task[t].pc \notin {"idle", "load"},
           NEW pc \in {"generate", "arm", "try", "trying", "begin", "tracing"},
           task' = [task EXCEPT ![t].pc = pc],
           UNCHANGED <<era, job, server, walk, ld, held, wpc, grinding, eng, mixed>>
    PROVE  IInv'
  <1>. USE ServingAssumption DEF IInv, TypeOK, CardTypes, ActorTypes, OneHandEach, EnginesMatch,
         ModelsOf, EngineOrNone, Procs, Worker, Kinds, chain, trace, card
  <1>1. TypeOK'
    OBVIOUS
  <1>2. OneHandEach'
    OBVIOUS
  <1>3. EnginesMatch'
    OBVIOUS
  <1>4. \A e \in Engines : Referenced(e)' <=> Referenced(e)
    BY SMTT(60) DEF Referenced
  <1>. QED
    BY <1>1, <1>2, <1>3, <1>4 DEF ResidentIffReferenced

\* The inference tasks, outside ensure_loaded.
LEMMA TaskKeeps ==
    ASSUME IInv, NEW t \in Tasks,
           Start(t) \/ Grab(t) \/ Generate(t) \/ Arm(t) \/ Begin(t) \/ SelfCheck(t) \/ Traced(t)
    PROVE  IInv'
  <1>. USE ServingAssumption DEF IInv, TypeOK, CardTypes, ActorTypes, OneHandEach, EnginesMatch,
         ModelsOf, EngineOrNone, Procs, Worker, Kinds, chain, trace, card
  <1>1. ASSUME Start(t)
        PROVE  IInv'
    <2>1. UNCHANGED eng /\ \A e \in Engines : Referenced(e)' <=> Referenced(e)
      BY <1>1 DEF Start, Enter, MiningModel, Loading, Referenced
    <2>2. TypeOK'
      BY <1>1 DEF Start, Enter, MiningModel, Loading
    <2>3. OneHandEach'
      BY <1>1 DEF Start, Enter, MiningModel, Loading
    <2>4. EnginesMatch'
      BY <1>1, <2>1, <2>2 DEF Start, Enter, MiningModel, Loading
    <2>. QED
      BY <2>1, <2>2, <2>3, <2>4 DEF ResidentIffReferenced
  <1>2. CASE Grab(t)
    <2>0. t # Worker /\ task[t].pc = "load" /\ held[t] = 0
      BY <1>2 DEF Grab
    <2>1. ld' = [ld EXCEPT ![t] = [pc |-> "out", m |-> 0, e |-> 0]]
          /\ UNCHANGED <<era, job, wpc, grinding>> /\ Drops
      BY <1>2 DEF Grab, Out, chain
    <2>2. \/ /\ server.e # 0
             /\ held' = [held EXCEPT ![t] = server.e]
             /\ \E pc \in {"arm", "generate"} : task' = [task EXCEPT ![t].pc = pc]
             /\ mixed' = (mixed \/ eng[server.e] # task[t].m)
             /\ UNCHANGED <<server, walk>>
          \/ /\ held' = [held EXCEPT ![t] = 0]
             /\ task' = [task EXCEPT ![t] = [pc |-> "idle", m |-> 0, kind |-> "none"]]
             /\ UNCHANGED <<server, walk, mixed>>
      BY <1>2 DEF Grab, InLoad, ServedEngine, Leaves, Idle
    <2>3. \A e \in Engines : Referenced(e)' => Referenced(e)
      BY <2>0, <2>1, <2>2 DEF Referenced
    <2>4. /\ eng' \in [Engines -> ModelsOf] /\ ResidentIffReferenced'
          /\ \A e \in Engines : Referenced(e)' => eng'[e] = eng[e]
      BY <2>1, <2>3, DropKeeps DEF Drops
    <2>5. CASE server.e # 0 /\ held' = [held EXCEPT ![t] = server.e]
               /\ (mixed' = (mixed \/ eng[server.e] # task[t].m)) /\ UNCHANGED <<server, walk>>
               /\ \E pc \in {"arm", "generate"} : task' = [task EXCEPT ![t].pc = pc]
      <3>1. PICK pc \in {"arm", "generate"} : task' = [task EXCEPT ![t].pc = pc]
        BY <2>5
      <3>2. TypeOK'
        BY SMTT(60), <2>1, <2>4, <2>5, <3>1
      <3>3. OneHandEach'
        BY <2>0, <2>1, <2>5, <3>1
      <3>4. EnginesMatch'
        <4>1. (mixed' \/ eng[server.e] = task[t].m) /\ (mixed => mixed')
          BY <2>5
        <4>2. server'.e # 0 => eng'[server'.e] = server'.m
          BY <2>4, <2>5, <3>2 DEF Referenced
        <4>3. walk' = walk /\ (walk.e # 0 => eng'[walk.e] = walk.m)
          BY <2>4, <2>5, <3>2 DEF Referenced
        <4>4. \A p \in Procs : ld'[p].e # 0 => eng'[ld'[p].e] = ld'[p].m
          BY <2>1, <2>4, <3>2 DEF Referenced
        <4>5. \A u \in Tasks : held'[u] # 0 => mixed' \/ eng'[held'[u]] = task'[u].m
          <5>1. SUFFICES ASSUME NEW u \in Tasks, held'[u] # 0, ~mixed' PROVE eng'[held'[u]] = task'[u].m
            OBVIOUS
          <5>2. held'[u] \in Engines /\ eng'[held'[u]] = eng[held'[u]]
            BY <2>4, <3>2, <5>1 DEF Referenced
          <5>3. task'[u].m = task[u].m
            BY <3>1
          <5>. QED
            BY <2>5, <4>1, <5>1, <5>2, <5>3
        <4>6. wpc' = "grind" /\ held'[Worker] # 0 => eng'[held'[Worker]] = grinding'
          BY <2>0, <2>1, <2>4, <2>5, <3>2 DEF Referenced
        <4>. QED
          BY <2>1, <4>2, <4>3, <4>4, <4>5, <4>6
      <3>. QED
        BY <2>4, <3>2, <3>3, <3>4
    <2>6. CASE held' = [held EXCEPT ![t] = 0] /\ UNCHANGED <<server, walk, mixed>>
               /\ task' = [task EXCEPT ![t] = [pc |-> "idle", m |-> 0, kind |-> "none"]]
      <3>1. TypeOK'
        BY <2>1, <2>4, <2>6
      <3>2. OneHandEach'
        BY <2>0, <2>1, <2>6
      <3>3. EnginesMatch'
        BY <2>0, <2>1, <2>4, <2>6, <3>1 DEF Referenced
      <3>. QED
        BY <2>4, <3>1, <3>2, <3>3
    <2>. QED
      BY <2>2, <2>5, <2>6
  <1>3. CASE Generate(t) \/ Traced(t)
    BY <1>3, LeavingKeeps DEF Generate, Traced, Drops
  <1>4. CASE Arm(t)
    <2>1. task[t].pc = "arm" /\ UNCHANGED <<era, job, wpc, grinding, mixed, ld>>
      BY <1>4 DEF Arm
    <2>2. ASSUME Leaves(t), NEW configured, NEW device, Settle(eng, configured, device)
          PROVE  IInv'
      BY SMTT(60), <2>1, <2>2, LeavingKeeps
    <2>3. CASE ~(Leaves(t) /\ \E configured, device : Settle(eng, configured, device))
      <3>1. UNCHANGED <<server, walk, held, eng>>
            /\ \E pc \in {"begin", "try"} : task' = [task EXCEPT ![t].pc = pc]
        BY <1>4, <2>3 DEF Arm, Drops
      <3>2. PICK pc \in {"begin", "try"} : task' = [task EXCEPT ![t].pc = pc]
        BY <3>1
      <3>. QED
        BY <2>1, <3>1, <3>2, MovingOnKeeps
    <2>. QED
      BY <2>2, <2>3
  <1>5. CASE Begin(t)
    <2>1. task[t].pc \in {"try", "begin"} /\ UNCHANGED <<era, job, wpc, grinding, mixed, ld>>
      BY <1>5 DEF Begin
    <2>2. CASE Leaves(t) /\ Drops
      BY SMTT(60), <2>1, <2>2, LeavingKeeps DEF Drops
    <2>3. CASE ~(Leaves(t) /\ Drops)
      <3>1. UNCHANGED <<server, walk, held, eng>>
            /\ \E pc \in {"trying", "tracing"} : task' = [task EXCEPT ![t].pc = pc]
        BY <1>5, <2>3 DEF Begin
      <3>2. PICK pc \in {"trying", "tracing"} : task' = [task EXCEPT ![t].pc = pc]
        BY <3>1
      <3>. QED
        BY <2>1, <3>1, <3>2, MovingOnKeeps
    <2>. QED
      BY <2>2, <2>3
  <1>6. CASE SelfCheck(t)
    <2>1. task[t].pc = "trying" /\ UNCHANGED <<era, job, wpc, grinding, mixed, ld>>
      BY <1>6 DEF SelfCheck
    <2>2. CASE Leaves(t) /\ Drops
      BY SMTT(60), <2>1, <2>2, LeavingKeeps DEF Drops
    <2>3. CASE ~(Leaves(t) /\ Drops)
      <3>1. task' = [task EXCEPT ![t].pc = "begin"] /\ UNCHANGED <<server, walk, held, eng>>
        BY <1>6, <2>3 DEF SelfCheck
      <3>. QED
        BY <2>1, <3>1, MovingOnKeeps
    <2>. QED
      BY <2>2, <2>3
  <1>. QED
    BY <1>1, <1>2, <1>3, <1>4, <1>5, <1>6

-----------------------------------------------------------------------------
(* Theorems *)

\* A session starts with an empty card.
LEMMA InitIInv == Init => IInv
  <1>. SUFFICES ASSUME Init PROVE IInv
    OBVIOUS
  <1>. USE ServingAssumption DEF IInv, TypeOK, CardTypes, ActorTypes, OneHandEach, EnginesMatch,
         ModelsOf, EngineOrNone, Procs, Worker, Kinds, chain, trace, card
  <1>1. PICK left \in SUBSET Tasks :
          /\ task = [t \in Tasks |-> IF t \in left THEN Loading(era, "attention") ELSE Idle]
          /\ ld = [p \in Procs |-> IF p \in left THEN [pc |-> "check", m |-> era, e |-> 0] ELSE Out]
    BY DEF Init
  <1>2. \A p \in Procs : ld[p] \in {[pc |-> "check", m |-> era, e |-> 0], [pc |-> "out", m |-> 0, e |-> 0]}
        /\ (p \notin left => ld[p] = [pc |-> "out", m |-> 0, e |-> 0])
    BY <1>1 DEF Out
  <1>3. \A t \in Tasks : task[t] \in {[pc |-> "load", m |-> era, kind |-> "attention"],
                                      [pc |-> "idle", m |-> 0, kind |-> "none"]}
        /\ (t \in left => task[t].pc = "load" /\ task[t].m = era)
    BY <1>1 DEF Loading, Idle
  <1>4. /\ era \in 1..Eras /\ job = era /\ mixed = FALSE /\ wpc = "top" /\ grinding = 0
        /\ server = [m |-> 0, e |-> 0] /\ walk = [m |-> 0, e |-> 0]
        /\ held = [p \in Procs |-> 0] /\ eng = [e \in Engines |-> 0]
    BY DEF Init, NoServer, NoWalk
  <1>5. CardTypes
    <2>1. \A p \in Procs : ld[p] \in [pc : {"out", "check", "uninstall", "clear", "launch", "publish", "up", "down"},
                         m : ModelsOf, e : EngineOrNone]
      BY <1>2, <1>4
    <2>2. ld = [p \in Procs |-> ld[p]]
      BY <1>1
    <2>. QED
      BY <1>4, <2>1, <2>2
  <1>6. ActorTypes
    <2>1. \A t \in Tasks : task[t] \in [pc : {"idle", "load", "generate", "arm", "try", "trying", "begin", "tracing"},
                           m : ModelsOf, kind : {"none"} \cup Kinds]
      <3>1. era \in ModelsOf /\ 0 \in ModelsOf
        BY <1>4
      <3>. QED
        BY <1>3, <3>1
    <2>2. task \in [Tasks -> [pc : {"idle", "load", "generate", "arm", "try", "trying", "begin", "tracing"},
                              m : ModelsOf, kind : {"none"} \cup Kinds]]
      <3>1. task = [t \in Tasks |-> task[t]]
        BY <1>1
      <3>. QED
        BY <2>1, <3>1
    <2>3. mixed \in BOOLEAN
      BY <1>4, Zenon
    <2>. QED
      BY <1>4, <2>2, <2>3
  <1>7. OneHandEach
    BY <1>2, <1>3, <1>4
  <1>8. \A e \in Engines : ~Referenced(e) /\ eng[e] = 0
    BY <1>2, <1>4, MoreEngines DEF Referenced
  <1>9. EnginesMatch
    BY <1>2, <1>4
  <1>. QED
    BY <1>5, <1>6, <1>7, <1>8, <1>9 DEF ResidentIffReferenced

\* The invariant is inductive: one case for each step of the server, the tasks and the worker.
LEMMA IInvInductive == IInv /\ [Next]_vars => IInv'
  <1>. SUFFICES ASSUME IInv, [Next]_vars PROVE IInv'
    OBVIOUS
  <1>1. CASE WorkerStep
    BY <1>1, WorkerKeeps, LoadingKeeps DEF WorkerStep, Procs
  <1>2. CASE \E t \in Tasks : TaskStep(t)
    BY <1>2, TaskKeeps, LoadingKeeps DEF TaskStep, Procs
  <1>3. CASE \E t \in Own : Start(t)
    BY <1>3, TaskKeeps DEF Own
  <1>4. CASE NewEra \/ UNCHANGED vars
    <2>1. /\ UNCHANGED <<job, server, walk, ld, held, wpc, grinding, task, eng, mixed>>
          /\ era' \in 1..Eras
      BY <1>4, ServingAssumption DEF NewEra, vars, card, IInv, TypeOK, ActorTypes
    <2>. QED
      BY <2>1 DEF IInv, TypeOK, CardTypes, ActorTypes, OneHandEach, EnginesMatch,
         ResidentIffReferenced, Referenced
  <1>. QED
    BY <1>1, <1>2, <1>3, <1>4 DEF Next

\* The inductive invariant holds of every behaviour.
LEMMA InvariantHolds == Spec => []IInv
  BY InitIInv, IInvInductive, PTL DEF Spec

\* slm.rs, pom_gpu.rs: the types, for every number of tasks and eras.
THEOREM TypeCorrect == Spec => []TypeOK
  <1>1. IInv => TypeOK
    BY DEF IInv
  <1>. QED
    BY <1>1, InvariantHolds, PTL

\* mine_v4 does not look at the model of the entry it clones, yet the batch of a block walks the
\* weights of the model the block needs.
THEOREM BatchesGrindTheirModel == Spec => []GrindsItsModel
  <1>1. IInv => GrindsItsModel
    BY DEF IInv, EnginesMatch, GrindsItsModel, MiningModel
  <1>. QED
    BY <1>1, InvariantHolds, PTL

(* The weights under a computation do not move: the engine under a batch keeps *)
(* the model the batch began with, and the engine under an answer stays on the *)
(* card, with the model the task asked for unless it was handed another one.  *)
WeightsStay ==
    /\ wpc = "grind" /\ held[Worker] # 0 => eng[held[Worker]] = grinding
    /\ \A t \in Tasks : held[t] # 0 =>
         /\ held[t] \in Engines /\ eng[held[t]] # 0
         /\ mixed \/ eng[held[t]] = task[t].m

\* An eviction or a reload by one actor never takes the weights from under another: the clones of
\* the Arc keep them (slm.rs, llm_engine.rs).
THEOREM EnginesInUseStay == Spec => []WeightsStay
  <1>1. IInv => WeightsStay
    <2>. SUFFICES ASSUME IInv PROVE WeightsStay
      OBVIOUS
    <2>1. ASSUME NEW t \in Tasks, held[t] # 0 PROVE held[t] \in Engines /\ eng[held[t]] # 0
      <3>1. held[t] \in Engines /\ t \in Procs
        BY <2>1 DEF IInv, TypeOK, CardTypes, EngineOrNone, Procs
      <3>2. Referenced(held[t])
        BY <3>1 DEF Referenced
      <3>. QED
        BY <3>1, <3>2 DEF IInv, ResidentIffReferenced
    <2>. QED
      BY <2>1 DEF IInv, EnginesMatch, WeightsStay
  <1>. QED
    BY <1>1, InvariantHolds, PTL

(* A launch finds an engine slot.                                             *)
LaunchesHaveRoom ==
    \A p \in Procs : ld[p].pc = "launch" => \E e \in Engines : eng[e] = 0

\* No reference leaks: however loads, answers and batches interleave, the engines on the card are
\* those somebody refers to, so a launch always finds one free.
THEOREM NoEngineLeaks == Spec => [](ResidentIffReferenced /\ LaunchesHaveRoom)
  <1>1. IInv => ResidentIffReferenced /\ LaunchesHaveRoom
    <2>. SUFFICES ASSUME IInv PROVE ResidentIffReferenced /\ LaunchesHaveRoom
      OBVIOUS
    <2>1. ASSUME NEW p \in Procs, ld[p].pc = "launch" PROVE \E e \in Engines : eng[e] = 0
      BY <2>1, EngineIsFree
    <2>. QED
      BY <2>1 DEF LaunchesHaveRoom, IInv
  <1>. QED
    BY <1>1, InvariantHolds, PTL
-----------------------------------------------------------------------------
(* Traces *)

\* The steps of a task that has asked for a trace, and those at which the device traces for it.
Tracing == {"try", "trying", "begin", "tracing"}
Traces == Tracing \cup {"arm"}

(* Nobody but the task at work computes with an engine that no longer serves.  *)
OutOfService(x) == x # server.e => walk.e # x /\ held[Worker] # x

(* The worker loads with no walk of its own installed.                         *)
WorkerLoads ==
    /\ wpc = "stale" => walk.m # job
    /\ wpc = "share" => walk = NoWalk

\* The engines that believe the device traces for them.
Configured == {x \in Engines : conf[x] # NoTrace}

(* One engine at most is configured, and the device traces for it.             *)
DeviceTraces ==
    /\ conf = [x \in Engines |-> conf[x]]
    /\ \A x, y \in Configured : x = y
    /\ Configured # {} => era = Eras
    /\ \A x \in Configured : /\ conf[x] = dev /\ eng[x] = Eras /\ OutOfService(x)
                              /\ \A p \in Procs : ld[p].e # x

(* A task that loads an engine for good loads it when none is configured, and  *)
(* a task that traces holds the one that is, configured for its manifest.      *)
TaskTraces(t) ==
    /\ task[t].kind # "none" => task[t].m = Eras /\ era = Eras
    /\ Configured # {} => task[t].m = Eras
    /\ ld[t].pc # "out" => ld[t].m = task[t].m
    /\ ld[t].pc \in {"uninstall", "clear", "launch", "publish"} => Configured = {}
    /\ task[t].pc \in Traces => task[t].kind # "none" /\ held[t] # 0 /\ OutOfService(held[t])
    /\ task[t].pc = "arm" => Configured \subseteq {held[t]}
    /\ task[t].pc \in Tracing => held[t] \in Configured /\ conf[held[t]] = Manifest(t)

(* An engine under way to SERVER is known to nobody else.                      *)
FreshAlone ==
    \A p \in Procs : ld[p].e # 0 =>
        /\ ld[p].e # server.e
        /\ \A q \in Procs : q # p => ld[q].e # ld[p].e
        /\ \A t \in Tasks : held[t] # ld[p].e

Calm ==
    /\ WorkerLoads /\ DeviceTraces /\ FreshAlone
    /\ \A t \in Orphans : task[t].pc = "idle"
    /\ \A t \in Own : task[t].pc # "idle" => TaskTraces(t)
    /\ failed \subseteq broken

BInv == strayed \/ mixed \/ Calm

(* What a step does to the configured engines: those dropped are configured no *)
(* more, and the device is released with them.                                *)
TraceKept ==
    /\ conf' = [x \in Engines |-> conf'[x]]
    /\ Configured' = {x \in Configured : Referenced(x)'}
    /\ Configured' # {} => dev' = dev
    /\ \A x \in Configured' : eng'[x] = eng[x] /\ conf'[x] = conf[x]

LEMMA SettlingTraces ==
    ASSUME IInv, DeviceTraces, Drops
    PROVE  TraceKept
  <1>. DEFINE gone == {e \in Engines : eng[e] # 0 /\ ~Referenced(e)'}
  <1>1. /\ eng' = [e \in Engines |-> IF e \in gone THEN 0 ELSE eng[e]]
        /\ conf' = [e \in Engines |-> IF e \in gone THEN NoTrace ELSE conf[e]]
        /\ dev' = IF \E e \in gone : conf[e] # NoTrace THEN NoTrace ELSE dev
    BY DEF Drops, Settle
  <1>2. \A x \in Configured : x \in Engines /\ eng[x] # 0
    BY ServingAssumption DEF DeviceTraces, Configured
  <1>3. /\ \A x \in Configured : x \in gone <=> ~Referenced(x)'
        /\ gone \subseteq Engines
    BY <1>2
  <1>. HIDE DEF gone
  <1>4. Configured' = {x \in Configured : Referenced(x)'}
    BY <1>1, <1>3 DEF Configured
  <1>5. ASSUME Configured' # {} PROVE dev' = dev
    <2>1. \A e \in gone : conf[e] = NoTrace
      BY <1>3, <1>4, <1>5 DEF DeviceTraces, Configured
    <2>. QED
      BY <1>1, <2>1
  <1>6. \A x \in Configured' : eng'[x] = eng[x] /\ conf'[x] = conf[x]
    BY <1>1, <1>2, <1>3, <1>4
  <1>. QED
    BY <1>1, <1>4, <1>5, <1>6 DEF TraceKept

\* A step that leaves the card alone.
LEMMA CardKeepsTraces ==
    ASSUME IInv, DeviceTraces, UNCHANGED card, \A x \in Engines : Referenced(x) => Referenced(x)'
    PROVE  TraceKept
  <1>1. \A x \in Configured : x \in Engines /\ eng[x] # 0
    BY ServingAssumption DEF DeviceTraces, Configured
  <1>2. \A x \in Configured : Referenced(x)'
    BY <1>1 DEF IInv, ResidentIffReferenced
  <1>. QED
    BY <1>2 DEF TraceKept, DeviceTraces, Configured, card

\* A configured engine that stays out of every other hand stays the one the device traces for.
LEMMA KeptIsTraced ==
    ASSUME DeviceTraces, TraceKept, era' = era,
           \A x \in Configured' : OutOfService(x)' /\ \A p \in Procs : ld'[p].e # x
    PROVE  DeviceTraces'
  <1>1. Configured' \subseteq Configured
    BY DEF TraceKept
  <1>2. \A x \in Configured' : conf'[x] = dev' /\ eng'[x] = Eras
    BY <1>1 DEF TraceKept, DeviceTraces
  <1>3. (\A x, y \in Configured' : x = y) /\ (Configured' # {} => era' = Eras)
    BY <1>1 DEF DeviceTraces
  <1>4. conf' = [x \in Engines |-> conf'[x]]
    BY DEF TraceKept
  <1>. QED
    BY <1>2, <1>3, <1>4 DEF DeviceTraces, Engines, Procs

(* What a step of the worker may do to the others.                             *)
WorkerMoves ==
    /\ TraceKept /\ UNCHANGED <<era, task, failed, broken>>
    /\ \A t \in Tasks : ld'[t] = ld[t] /\ held'[t] = held[t]
    /\ \A x \in Engines : OutOfService(x) => OutOfService(x)'
    /\ \A x \in Configured' : ld'[Worker].e # x
    /\ WorkerLoads' /\ FreshAlone'

LEMMA WorkerKeepsCalm ==
    ASSUME IInv, Calm, WorkerMoves
    PROVE  Calm'
  <1>1. Configured' \subseteq Configured /\ Own \subseteq Tasks /\ Tasks \subseteq Procs
    BY DEF WorkerMoves, TraceKept, Own, Procs
  <1>2. DeviceTraces'
    <2>1. \A x \in Configured' : OutOfService(x)'
      BY <1>1 DEF Calm, DeviceTraces, WorkerMoves, Configured
    <2>2. ASSUME NEW x \in Configured', NEW p \in Procs PROVE ld'[p].e # x
      BY <1>1, <2>2 DEF Calm, DeviceTraces, WorkerMoves, Procs
    <2>. QED
      BY <2>1, <2>2, KeptIsTraced DEF Calm, WorkerMoves
  <1>3. ASSUME NEW t \in Own, task'[t].pc # "idle" PROVE TaskTraces(t)'
    <2>1. /\ TaskTraces(t) /\ task' = task /\ era' = era /\ ld'[t] = ld[t] /\ held'[t] = held[t]
          /\ t \in Tasks /\ t \in Procs
      BY <1>1, <1>3 DEF Calm, WorkerMoves
    <2>2. held[t] # 0 => held[t] \in Engines
      BY <2>1 DEF IInv, TypeOK, CardTypes, EngineOrNone
    <2>3. held[t] \in Configured => held[t] \in Configured' /\ conf'[held[t]] = conf[held[t]]
      BY <2>1 DEF WorkerMoves, TraceKept, Referenced
    <2>4. task[t].pc \in Traces => OutOfService(held[t])'
      BY <2>1, <2>2 DEF WorkerMoves, TaskTraces
    <2>. QED
      BY <1>1, <2>1, <2>3, <2>4 DEF TaskTraces, Traces, Tracing, Manifest
  <1>4. \A t \in Orphans : task'[t].pc = "idle"
    BY DEF Calm, WorkerMoves
  <1>5. failed' \subseteq broken'
    BY DEF Calm, WorkerMoves
  <1>. QED
    BY <1>2, <1>3, <1>4, <1>5 DEF Calm, WorkerMoves, Own

\* ensure_loaded, whoever calls it: the engine it launches is a new one.
LEMMA LoadingTraces ==
    ASSUME IInv, Calm, NEW p \in Procs, EnsureLoaded(p)
    PROVE  TraceKept /\ FreshAlone' /\ \A x \in Configured' : ld'[p].e # x
  <1>0. /\ DeviceTraces /\ FreshAlone /\ Tasks \subseteq Procs
        /\ \A x \in Configured : x \in Engines /\ eng[x] # 0 /\ \A q \in Procs : ld[q].e # x
        /\ \A x \in Engines : x # 0
        /\ ld \in [Procs -> [pc : {"out", "check", "uninstall", "clear", "launch", "publish", "up", "down"},
                             m : ModelsOf, e : EngineOrNone]]
    BY ServingAssumption, MoreEngines DEF Calm, DeviceTraces, IInv, TypeOK, CardTypes, Procs, Configured
  <1>1. CASE Check(p)
    <2>1. /\ UNCHANGED <<server, walk, held, card>>
          /\ \A q \in Procs : ld'[q].e = ld[q].e
      BY <1>0, <1>1 DEF Check
    <2>2. \A x \in Engines : Referenced(x) => Referenced(x)'
      BY <2>1 DEF Referenced
    <2>3. TraceKept
      BY <1>0, <2>1, <2>2, CardKeepsTraces
    <2>4. FreshAlone'
      BY <1>0, <2>1 DEF FreshAlone
    <2>. QED
      BY <1>0, <2>1, <2>3, <2>4 DEF TraceKept
  <1>2. CASE Uninstall(p) \/ Clear(p)
    <2>1. /\ UNCHANGED held /\ Drops /\ server' \in {server, NoServer}
          /\ \A q \in Procs : ld'[q].e = ld[q].e
      BY <1>0, <1>2 DEF Uninstall, Clear
    <2>2. TraceKept
      BY <1>0, <2>1, SettlingTraces
    <2>3. FreshAlone'
      BY <1>0, <2>1 DEF FreshAlone, NoServer
    <2>. QED
      BY <1>0, <2>1, <2>2, <2>3 DEF TraceKept
  <1>3. CASE Launch(p)
    <2>. DEFINE e == Min({i \in Engines : eng[i] = 0})
    <2>1. e \in Engines /\ eng[e] = 0 /\ ld[p].e = 0
      BY <1>3, EngineIsFree DEF Launch, InLoad, IInv, OneHandEach
    <2>2. /\ UNCHANGED <<server, walk, held, conf, dev>>
          /\ \/ ld' = [ld EXCEPT ![p].pc = "publish", ![p].e = e] /\ eng' = [eng EXCEPT ![e] = ld[p].m]
             \/ ld' = [ld EXCEPT ![p].pc = "down"] /\ UNCHANGED eng
      BY <1>3 DEF Launch
    <2>. HIDE DEF e
    <2>3. ~Referenced(e)
      BY <2>1 DEF IInv, ResidentIffReferenced
    <2>4. /\ ld'[p].e \in {0, e} /\ \A q \in Procs : q # p => ld'[q].e = ld[q].e
      BY <1>0, <2>1, <2>2
    <2>5. FreshAlone'
      BY <1>0, <2>2, <2>3, <2>4 DEF FreshAlone, Referenced
    <2>6. TraceKept
      <3>1. \A x \in Configured : Referenced(x)' /\ eng'[x] = eng[x] /\ x # e
        <4>1. ASSUME NEW x \in Configured PROVE Referenced(x) /\ x # e /\ eng'[x] = eng[x]
          BY <1>0, <2>1, <2>2 DEF IInv, ResidentIffReferenced, TypeOK, CardTypes
        <4>2. ASSUME NEW x \in Configured PROVE Referenced(x)'
          BY <1>0, <2>1, <2>2, <2>4, <4>1 DEF Referenced
        <4>. QED
          BY <4>1, <4>2
      <3>. QED
        BY <1>0, <2>2, <3>1 DEF TraceKept, DeviceTraces, Configured
    <2>. QED
      BY <1>0, <2>1, <2>2, <2>4, <2>5, <2>6 DEF TraceKept
  <1>4. CASE Publish(p)
    <2>1. /\ UNCHANGED held /\ Drops /\ server'.e = ld[p].e
          /\ ld'[p].e = 0 /\ \A q \in Procs : q # p => ld'[q] = ld[q]
      BY <1>0, <1>4 DEF Publish
    <2>2. TraceKept
      BY <1>0, <2>1, SettlingTraces
    <2>3. FreshAlone'
      BY <1>0, <2>1 DEF FreshAlone
    <2>. QED
      BY <1>0, <2>1, <2>2, <2>3 DEF TraceKept
  <1>. QED
    BY <1>1, <1>2, <1>3, <1>4 DEF EnsureLoaded

\* The worker, outside ensure_loaded and inside it.
LEMMA WorkerIsCalm ==
    ASSUME IInv, Calm, WorkerStep
    PROVE  WorkerMoves
  <1>. USE ServingAssumption DEF chain, trace
  <1>0. /\ Worker \in Procs /\ Worker \notin Tasks /\ Tasks \subseteq Procs /\ DeviceTraces /\ FreshAlone /\ WorkerLoads
        /\ \A x \in Configured, p \in Procs : ld[p].e # x
        /\ \A x \in Engines : x # 0
        /\ era \in 1..Eras /\ job \in 1..Eras /\ ld \in [Procs -> [pc : {"out", "check", "uninstall", "clear", "launch", "publish", "up", "down"},
                         m : ModelsOf, e : EngineOrNone]]
        /\ held \in [Procs -> EngineOrNone]
    BY MoreEngines DEF Procs, Worker, Calm, DeviceTraces, IInv, TypeOK, ActorTypes, CardTypes
  <1>1. CASE Top \/ Wait
    <2>1. /\ UNCHANGED <<era, task, failed, broken, server, walk, ld, held, card>> /\ job' = era
          /\ wpc' = wpc \/ wpc' = "mine" \/ (wpc' = "stale" /\ ~IsInstalled(MiningModel(era)))
          /\ wpc = "top"
      BY <1>1 DEF Top, Wait
    <2>2. TraceKept
      BY <1>0, <2>1, CardKeepsTraces DEF Referenced
    <2>3. WorkerLoads'
      BY <1>0, <2>1 DEF WorkerLoads, IsInstalled, MiningModel
    <2>4. FreshAlone' /\ \A x \in Engines : OutOfService(x) => OutOfService(x)'
      BY <1>0, <2>1 DEF FreshAlone, OutOfService
    <2>. QED
      BY <1>0, <2>1, <2>2, <2>3, <2>4 DEF WorkerMoves, TraceKept
  <1>2. CASE DropStale
    <2>1. /\ UNCHANGED <<era, job, task, failed, broken, server, held>> /\ Drops
          /\ walk' = NoWalk /\ wpc = "stale"
          /\ wpc' \in {"share", "top"}
          /\ ld' = ld \/ ld' = [ld EXCEPT ![Worker] = [pc |-> "check", m |-> job, e |-> 0]]
      BY <1>0, <1>2 DEF DropStale, Enter, MiningModel, WorkerLoads
    <2>2. TraceKept
      BY <1>0, <2>1, SettlingTraces
    <2>3. WorkerLoads'
      BY <2>1 DEF WorkerLoads
    <2>4. ld' = ld \/ (ld'[Worker].e = 0 /\ \A p \in Procs : p # Worker => ld'[p] = ld[p])
      BY <1>0, <2>1
    <2>5. FreshAlone' /\ \A x \in Engines : OutOfService(x) => OutOfService(x)'
      BY <1>0, <2>1, <2>4 DEF FreshAlone, OutOfService, NoWalk
    <2>6. \A x \in Configured' : ld'[Worker].e # x
      BY <1>0, <2>2, <2>4 DEF TraceKept, DeviceTraces, Configured
    <2>7. \A t \in Tasks : ld'[t] = ld[t] /\ held'[t] = held[t]
      BY <1>0, <2>1, <2>4
    <2>. QED
      BY <2>1, <2>2, <2>3, <2>5, <2>6, <2>7 DEF WorkerMoves
  <1>3. CASE Share
    <2>1. /\ UNCHANGED <<era, job, task, failed, broken, server, walk, card>> /\ wpc' \in {"blob", "build"}
          /\ ld' = [ld EXCEPT ![Worker] = Out]
          /\ held' = [held EXCEPT ![Worker] = 0] \/ held' = [held EXCEPT ![Worker] = server.e]
          /\ ld[Worker].pc \in {"up", "down"} /\ wpc = "share"
      BY <1>3 DEF Share, ActiveEngine
    <2>2. ld[Worker].e = 0 /\ held[Worker] = 0
      BY <1>0, <2>1 DEF IInv, OneHandEach
    <2>3. /\ \A p \in Procs : ld'[p].e = ld[p].e /\ (p # Worker => ld'[p] = ld[p] /\ held'[p] = held[p])
          /\ held'[Worker] \in {0, server.e}
      BY <1>0, <2>1, <2>2 DEF Out
    <2>4. TraceKept
      <3>1. \A x \in Engines : Referenced(x) => Referenced(x)'
        BY <1>0, <2>1, <2>2, <2>3 DEF Referenced
      <3>. QED
        BY <1>0, <2>1, <3>1, CardKeepsTraces
    <2>5. WorkerLoads'
      BY <2>1 DEF WorkerLoads
    <2>6. FreshAlone' /\ \A x \in Engines : OutOfService(x) => OutOfService(x)'
      BY <1>0, <2>1, <2>3 DEF FreshAlone, OutOfService
    <2>7. \A x \in Configured' : ld'[Worker].e # x
      BY <1>0, <2>3, <2>4 DEF TraceKept
    <2>8. \A t \in Tasks : ld'[t] = ld[t] /\ held'[t] = held[t]
      BY <1>0, <2>3
    <2>. QED
      BY <2>1, <2>4, <2>5, <2>6, <2>7, <2>8 DEF WorkerMoves
  <1>4. CASE Build \/ Blob \/ Ground
    <2>1. /\ UNCHANGED <<era, job, task, failed, broken, server, ld>> /\ Drops
          /\ wpc' \in {"blob", "mine", "top"}
          /\ walk' = walk \/ walk'.e = held[Worker] \/ walk'.e = 0
          /\ held' = held \/ held' = [held EXCEPT ![Worker] = 0]
      BY <1>4 DEF Build, Blob, Ground
    <2>2. TraceKept
      BY <1>0, <2>1, SettlingTraces
    <2>3. held' \in [Procs -> EngineOrNone] /\ held'[Worker] \in {0, held[Worker]} /\ \A t \in Tasks : held'[t] = held[t]
      BY <1>0, <2>1 DEF EngineOrNone
    <2>4. WorkerLoads'
      BY <2>1 DEF WorkerLoads
    <2>5. FreshAlone' /\ \A x \in Engines : OutOfService(x) => OutOfService(x)'
      BY <1>0, <2>1, <2>3 DEF FreshAlone, OutOfService
    <2>6. \A x \in Configured' : ld'[Worker].e # x
      BY <1>0, <2>1, <2>2 DEF TraceKept
    <2>. QED
      BY <2>1, <2>2, <2>3, <2>4, <2>5, <2>6 DEF WorkerMoves
  <1>5. CASE Mine
    <2>1. /\ UNCHANGED <<era, job, task, failed, broken, server, walk, ld, card>> /\ wpc' \in {"top", "grind"}
          /\ wpc = "mine" /\ held' = [held EXCEPT ![Worker] = walk.e]
      BY <1>5 DEF Mine
    <2>2. held[Worker] = 0
      BY <1>0, <2>1 DEF IInv, OneHandEach
    <2>3. held'[Worker] = walk.e /\ \A p \in Procs : p # Worker => held'[p] = held[p]
      BY <1>0, <2>1
    <2>4. TraceKept
      <3>1. \A x \in Engines : Referenced(x) => Referenced(x)'
        BY <1>0, <2>1, <2>2, <2>3 DEF Referenced
      <3>. QED
        BY <1>0, <2>1, <3>1, CardKeepsTraces
    <2>5. WorkerLoads'
      BY <2>1 DEF WorkerLoads
    <2>6. FreshAlone' /\ \A x \in Engines : OutOfService(x) => OutOfService(x)'
      BY <1>0, <2>1, <2>3 DEF FreshAlone, OutOfService
    <2>7. \A x \in Configured' : ld'[Worker].e # x
      BY <1>0, <2>1, <2>4 DEF TraceKept
    <2>8. \A t \in Tasks : ld'[t] = ld[t] /\ held'[t] = held[t]
      BY <1>0, <2>1, <2>3
    <2>. QED
      BY <2>1, <2>4, <2>5, <2>6, <2>7, <2>8 DEF WorkerMoves
  <1>6. CASE EnsureLoaded(Worker)
    <2>1. /\ ld[Worker].pc # "out" /\ UNCHANGED <<era, job, task, failed, broken, held, wpc>>
          /\ wpc = "share" /\ walk = NoWalk /\ held[Worker] = 0
      <3>1. ld[Worker].pc # "out" /\ UNCHANGED <<era, job, task, failed, broken, held, wpc>>
        BY <1>6 DEF EnsureLoaded, Check, Uninstall, Clear, Launch, Publish, InLoad
      <3>2. wpc = "share"
        BY <3>1 DEF IInv, OneHandEach
      <3>3. held[Worker] = 0
        BY <3>2 DEF IInv, OneHandEach
      <3>. QED
        BY <1>0, <3>1, <3>2, <3>3 DEF WorkerLoads
    <2>2. walk' = NoWalk
      BY <1>6, <2>1 DEF EnsureLoaded, Check, Uninstall, Clear, Launch, Publish
    <2>3. \A x \in Engines : OutOfService(x)'
      BY <1>0, <2>1, <2>2 DEF OutOfService, NoWalk
    <2>4. WorkerLoads'
      BY <2>1, <2>2 DEF WorkerLoads
    <2>5. \A t \in Tasks : ld'[t] = ld[t]
      BY <1>0, <1>6 DEF EnsureLoaded, Check, Uninstall, Clear, Launch, Publish
    <2>6. TraceKept /\ FreshAlone' /\ \A x \in Configured' : ld'[Worker].e # x
      BY <1>0, <1>6, LoadingTraces
    <2>. QED
      BY <2>1, <2>3, <2>4, <2>5, <2>6 DEF WorkerMoves
  <1>. QED
    BY <1>1, <1>2, <1>3, <1>4, <1>5, <1>6 DEF WorkerStep

\* A session has one inference at a time: the handler starts no other while its pause is raised.
OneAtATime == \A s, t \in Own : s = t

\* What is left to show of a step of the task.
LEMMA TaskKeepsCalm ==
    ASSUME Calm, OneAtATime, NEW t \in Own, WorkerLoads', DeviceTraces', FreshAlone',
           \A s \in Tasks : s # t => task'[s] = task[s],
           task'[t].pc # "idle" => TaskTraces(t)',
           failed' \subseteq broken'
    PROVE  Calm'
  <1>1. \A s \in Orphans : task'[s].pc = "idle"
    BY ServingAssumption DEF Calm, Own
  <1>2. \A s \in Own : s = t
    BY DEF OneAtATime
  <1>3. \A s \in Own : task'[s].pc # "idle" => TaskTraces(s)'
    BY <1>2
  <1>. QED
    BY <1>1, <1>3 DEF Calm, Own

\* While the task loads, a configured engine is the one that serves.
LEMMA ServedOnly ==
    ASSUME IInv, Calm, OneAtATime, NEW t \in Own, task[t].pc = "load", NEW x \in Configured
    PROVE  x = server.e
  <1>. SUFFICES ASSUME x # server.e PROVE FALSE
    OBVIOUS
  <1>1. /\ x \in Engines /\ eng[x] # 0 /\ walk.e # x /\ held[Worker] # x /\ x # 0
        /\ \A p \in Procs : ld[p].e # x
    BY ServingAssumption, MoreEngines DEF Calm, DeviceTraces, OutOfService, Configured
  <1>2. PICK p \in Procs : held[p] = x
    BY <1>1 DEF IInv, ResidentIffReferenced, Referenced
  <1>3. p \in Tasks /\ task[p].pc \notin {"idle", "load"}
    BY <1>1, <1>2 DEF IInv, OneHandEach, Procs
  <1>4. p \in Own
    BY <1>3 DEF Calm, Own
  <1>. QED
    BY <1>3, <1>4 DEF OneAtATime

\* Configured engines where nothing but the task and its hand change.
LEMMA DeviceKeeps ==
    ASSUME IInv, Calm, TraceKept, UNCHANGED <<era, server, walk>>, held'[Worker] = held[Worker],
           \A p \in Procs : ld'[p].e \in {0, ld[p].e}
    PROVE  DeviceTraces'
  <1>1. \A x \in Configured' : x \in Configured /\ x # 0
    BY MoreEngines DEF TraceKept, Configured
  <1>2. \A x \in Configured' : OutOfService(x)'
    BY <1>1 DEF Calm, DeviceTraces, OutOfService
  <1>3. ASSUME NEW x \in Configured', NEW p \in Procs PROVE ld'[p].e # x
    BY <1>1, <1>3 DEF Calm, DeviceTraces
  <1>. QED
    BY <1>2, <1>3, KeptIsTraced DEF Calm

\* The task ends: with its hand, an engine that no longer serves leaves the card.
LEMMA LeavingIsCalm ==
    ASSUME IInv, Calm, OneAtATime, NEW t \in Own, Leaves(t), Drops \/ DeviceTraces', UNCHANGED <<era, job, wpc>>,
           ld' = ld \/ ld' = [ld EXCEPT ![t] = Out], failed' \subseteq broken'
    PROVE  Calm'
  <1>0. /\ t \in Tasks /\ t \in Procs /\ t # Worker /\ Worker \in Procs
        /\ task' = [task EXCEPT ![t] = Idle] /\ held' = [held EXCEPT ![t] = 0] /\ UNCHANGED <<server, walk>>
    BY ServingAssumption DEF Own, Procs, Worker, Leaves
  <1>1. /\ \A s \in Tasks : s # t => task'[s] = task[s]
        /\ task'[t].pc = "idle"
        /\ held'[Worker] = held[Worker] /\ \A s \in Tasks : held'[s] \in {0, held[s]}
        /\ \A p \in Procs : ld'[p].e \in {0, ld[p].e}
    BY <1>0 DEF IInv, TypeOK, CardTypes, ActorTypes, Idle, Out, Procs
  <1>2. Drops => TraceKept
    BY SettlingTraces DEF Calm
  <1>3. DeviceTraces'
    BY <1>0, <1>1, <1>2, DeviceKeeps
  <1>4. FreshAlone'
    BY <1>0, <1>1 DEF Calm, FreshAlone
  <1>5. WorkerLoads'
    BY <1>0 DEF Calm, WorkerLoads
  <1>. QED
    BY <1>1, <1>3, <1>4, <1>5, TaskKeepsCalm

\* A task takes the engine that serves.
LEMMA GrabIsCalm ==
    ASSUME IInv, Calm, OneAtATime, NEW t \in Own, Grab(t), ~mixed'
    PROVE  Calm'
  <1>0. /\ t \in Tasks /\ t \in Procs /\ t # Worker /\ Worker \in Procs
        /\ task[t].pc = "load" /\ ld' = [ld EXCEPT ![t] = Out] /\ Drops
        /\ UNCHANGED <<era, job, wpc, failed, broken>>
        /\ failed \subseteq broken
    BY ServingAssumption DEF Own, Procs, Worker, Grab, chain, trace, Calm
  <1>1. CASE Leaves(t)
    BY <1>0, <1>1, LeavingIsCalm
  <1>2. CASE ~Leaves(t)
    <2>1. /\ server.e # 0 /\ held' = [held EXCEPT ![t] = server.e] /\ UNCHANGED <<server, walk>>
          /\ task' = [task EXCEPT ![t].pc = IF task[t].kind \in Kinds THEN "arm" ELSE "generate"]
      BY <1>0, <1>2 DEF Grab, ServedEngine
    <2>2. /\ \A s \in Tasks : s # t => task'[s] = task[s] /\ held'[s] = held[s]
          /\ task'[t].m = task[t].m /\ task'[t].kind = task[t].kind
          /\ task'[t].pc = IF task[t].kind \in Kinds THEN "arm" ELSE "generate"
          /\ held'[t] = server.e /\ held'[Worker] = held[Worker]
          /\ ld'[t].pc = "out" /\ \A p \in Procs : ld'[p].e \in {0, ld[p].e}
      BY <1>0, <2>1 DEF IInv, TypeOK, CardTypes, ActorTypes, Out, Procs
    <2>3. TraceKept
      BY <1>0, SettlingTraces DEF Calm
    <2>4. DeviceTraces'
      BY <1>0, <2>1, <2>2, <2>3, DeviceKeeps
    <2>5. FreshAlone'
      BY <2>1, <2>2 DEF Calm, FreshAlone
    <2>6. WorkerLoads'
      BY <1>0, <2>1 DEF Calm, WorkerLoads
    <2>7. TaskTraces(t)'
      <3>1. TaskTraces(t)
        BY <1>0 DEF Calm
      <3>2. Configured' \subseteq {server.e}
        BY <1>0, <2>3, ServedOnly DEF TraceKept
      <3>3. OutOfService(held[t])'
        BY <2>1, <2>2 DEF OutOfService
      <3>4. Configured' # {} => Configured # {}
        BY <2>3 DEF TraceKept
      <3>. QED
        BY <1>0, <2>1, <2>2, <3>1, <3>2, <3>3, <3>4 DEF TaskTraces, Traces, Tracing, Kinds
    <2>. QED
      BY <1>0, <2>2, <2>4, <2>5, <2>6, <2>7, TaskKeepsCalm
  <1>. QED
    BY <1>1, <1>2

\* A task loads: for good only when no engine is configured.
LEMMA LoadIsCalm ==
    ASSUME IInv, Calm, OneAtATime, NEW t \in Own, EnsureLoaded(t)
    PROVE  Calm'
  <1>0. /\ t \in Tasks /\ t \in Procs /\ t # Worker /\ Worker \in Procs
        /\ ld[t].pc # "out" /\ UNCHANGED <<era, job, wpc, task, held, failed, broken>>
    BY ServingAssumption DEF Own, Procs, Worker, EnsureLoaded, Check, Uninstall, Clear, Launch, Publish, InLoad, chain, trace
  <1>1. task[t].pc = "load" /\ held[t] = 0
    BY <1>0 DEF IInv, OneHandEach
  <1>2. TaskTraces(t)
    BY <1>0, <1>1 DEF Calm
  <1>3. TraceKept /\ FreshAlone' /\ \A x \in Configured' : ld'[t].e # x
    BY <1>0, LoadingTraces
  <1>4. ld'[t].m = ld[t].m /\ ld'[t].pc # "out" /\ \A p \in Procs : p # t => ld'[p] = ld[p]
    BY <1>0 DEF EnsureLoaded, Check, Uninstall, Clear, Launch, Publish, InLoad, IInv, TypeOK, CardTypes
  <1>5. walk' \in {walk, NoWalk}
    BY DEF EnsureLoaded, Check, Uninstall, Clear, Launch, Publish
  <1>6. WorkerLoads'
    BY <1>0, <1>5 DEF Calm, WorkerLoads, NoWalk, IInv, TypeOK, ActorTypes
  <1>7. Configured' = {} \/ (UNCHANGED <<server, walk>> /\ ld'[t].pc = "up")
    <2>1. CASE ld[t].pc \in {"uninstall", "clear", "launch", "publish"}
      BY <1>2, <1>3, <2>1 DEF TaskTraces, TraceKept
    <2>2. CASE Check(t)
      <3>1. /\ UNCHANGED <<server, walk, conf>>
            /\ server.m = ld[t].m => ld'[t].pc = "up"
        BY <1>0, <2>2 DEF Check, card, IInv, TypeOK, CardTypes
      <3>2. ASSUME NEW x \in Configured PROVE server.m = ld[t].m
        <4>1. x = server.e /\ eng[x] = Eras /\ x # 0
          BY <1>1, <3>2, ServedOnly, MoreEngines DEF Calm, DeviceTraces, Configured
        <4>2. eng[server.e] = server.m
          BY <4>1 DEF IInv, EnginesMatch
        <4>3. ld[t].m = Eras
          BY <1>0, <1>2, <3>2 DEF TaskTraces
        <4>. QED
          BY <4>1, <4>2, <4>3
      <3>. QED
        BY <1>3, <3>1, <3>2 DEF TraceKept
    <2>. QED
      BY <2>1, <2>2 DEF EnsureLoaded, Uninstall, Clear, Launch, Publish, InLoad
  <1>8. DeviceTraces'
    <2>1. CASE Configured' = {}
      BY <1>0, <1>3, <2>1, KeptIsTraced DEF Calm
    <2>2. CASE UNCHANGED <<server, walk>> /\ Configured' # {}
      <3>1. Configured' \subseteq Configured
        BY <1>3 DEF TraceKept
      <3>2. \A x \in Configured' : OutOfService(x)'
        BY <1>0, <2>2, <3>1 DEF Calm, DeviceTraces, OutOfService
      <3>3. ASSUME NEW x \in Configured', NEW p \in Procs PROVE ld'[p].e # x
        BY <1>3, <1>4, <3>1, <3>3 DEF Calm, DeviceTraces
      <3>. QED
        BY <1>0, <1>3, <3>2, <3>3, KeptIsTraced DEF Calm
    <2>. QED
      BY <1>7, <2>1, <2>2
  <1>9. TaskTraces(t)'
    <2>1. Configured' # {} => Configured # {}
      BY <1>3 DEF TraceKept
    <2>. QED
      BY <1>0, <1>1, <1>2, <1>4, <1>7, <2>1 DEF TaskTraces, Traces, Tracing
  <1>10. failed' \subseteq broken'
    BY <1>0 DEF Calm
  <1>. QED
    BY <1>0, <1>3, <1>6, <1>8, <1>9, <1>10, TaskKeepsCalm

\* A task starts: it asks for the model of the era, and for a trace past the last gate only.
LEMMA StartIsCalm ==
    ASSUME IInv, Calm, OneAtATime, NEW t \in Own, Start(t)
    PROVE  Calm'
  <1>0. /\ t \in Tasks /\ t \in Procs /\ Tasks \subseteq Procs
        /\ UNCHANGED <<era, job, wpc, server, walk, held, card, failed, broken>>
        /\ task[t].pc = "idle"
        /\ ld' = [ld EXCEPT ![t] = [pc |-> "check", m |-> era, e |-> 0]]
    BY DEF Own, Procs, Start, Enter, MiningModel, chain, trace
  <1>1. PICK k \in {"none"} \cup Kinds : /\ k # "none" => era = Eras
                                         /\ task' = [task EXCEPT ![t] = Loading(era, k)]
    BY DEF Start, MiningModel, TraceActive
  <1>2. /\ task'[t] = [pc |-> "load", m |-> era, kind |-> k]
        /\ \A s \in Tasks : s # t => task'[s] = task[s]
        /\ ld'[t] = [pc |-> "check", m |-> era, e |-> 0]
        /\ \A p \in Procs : p # t => ld'[p] = ld[p]
    BY <1>0, <1>1 DEF Loading, IInv, TypeOK, CardTypes, ActorTypes
  <1>3. ld[t].e = 0
    BY <1>0 DEF IInv, OneHandEach
  <1>4. \A p \in Procs : ld'[p].e = ld[p].e
    BY <1>2, <1>3
  <1>5. TraceKept
    <2>1. \A x \in Engines : Referenced(x) => Referenced(x)'
      BY <1>0, <1>4 DEF Referenced
    <2>. QED
      BY <1>0, <2>1, CardKeepsTraces DEF Calm
  <1>6. DeviceTraces'
    <2>1. held'[Worker] = held[Worker] /\ \A p \in Procs : ld'[p].e \in {0, ld[p].e}
      BY <1>0, <1>4
    <2>. QED
      BY <1>0, <1>5, <2>1, DeviceKeeps
  <1>7. FreshAlone' /\ WorkerLoads'
    BY <1>0, <1>4 DEF Calm, FreshAlone, WorkerLoads
  <1>8. TaskTraces(t)'
    <2>1. Configured' # {} => era = Eras
      BY <1>5 DEF Calm, DeviceTraces, TraceKept
    <2>. QED
      BY <1>0, <1>1, <1>2, <2>1 DEF TaskTraces, Traces, Tracing
  <1>9. failed' \subseteq broken'
    BY <1>0 DEF Calm
  <1>. QED
    BY <1>2, <1>6, <1>7, <1>8, <1>9, TaskKeepsCalm

\* A task that traces goes on to its next step on the same engine.
LEMMA MovingOnIsCalm ==
    ASSUME IInv, Calm, OneAtATime, NEW t \in Own, ~mixed, task[t].pc \in Traces,
           UNCHANGED <<era, job, wpc, server, walk, ld, held, eng>>, Configured \subseteq {held[t]},
           conf' = [conf EXCEPT ![held[t]] = Manifest(t)], dev' = Manifest(t),
           NEW pc_ \in Tracing, task' = [task EXCEPT ![t].pc = pc_], failed' \subseteq broken'
    PROVE  Calm'
  <1>0. /\ t \in Tasks /\ t \in Procs /\ TaskTraces(t)
    BY DEF Own, Procs, Calm, Traces, Tracing
  <1>1. /\ task[t].kind # "none" /\ task[t].m = Eras /\ era = Eras
        /\ held[t] # 0 /\ OutOfService(held[t]) /\ held[t] \in Engines
    BY <1>0 DEF TaskTraces, IInv, TypeOK, CardTypes, EngineOrNone
  <1>2. eng[held[t]] = Eras
    BY <1>0, <1>1 DEF IInv, EnginesMatch
  <1>3. \A p \in Procs : ld[p].e # held[t]
    BY <1>0, <1>1 DEF Calm, FreshAlone
  <1>4. OutOfService(held[t])'
    BY <1>1 DEF OutOfService
  <1>5. /\ conf' = [x \in Engines |-> conf'[x]] /\ conf'[held[t]] = Manifest(t)
        /\ Configured' = {held[t]}
    <2>1. Manifest(t) # NoTrace
      BY <1>1 DEF Manifest, NoTrace
    <2>2. /\ conf' = [x \in Engines |-> IF x = held[t] THEN Manifest(t) ELSE conf[x]]
          /\ \A x \in Engines : x # held[t] => conf[x] = NoTrace
      BY <1>1 DEF Calm, DeviceTraces, Configured
    <2>3. \A x \in Engines : conf'[x] # NoTrace <=> x = held[t]
      BY <1>1, <2>1, <2>2
    <2>. QED
      BY <1>1, <2>2, <2>3 DEF Configured
  <1>10. DeviceTraces'
    <2>1. \A x \in Configured' : conf'[x] = dev' /\ eng'[x] = Eras /\ OutOfService(x)'
      BY <1>1, <1>2, <1>4, <1>5
    <2>. QED
      BY <1>1, <1>3, <1>5, <2>1 DEF DeviceTraces, Engines, Procs
  <1>6. /\ task'[t].pc = pc_ /\ task'[t].m = task[t].m /\ task'[t].kind = task[t].kind
        /\ \A s \in Tasks : s # t => task'[s] = task[s]
    BY <1>0 DEF IInv, TypeOK, ActorTypes
  <1>7. ld[t].pc = "out"
    BY <1>0 DEF IInv, OneHandEach, Traces, Tracing
  <1>8. TaskTraces(t)'
    <2>1. Manifest(t)' = Manifest(t)
      BY <1>6 DEF Manifest
    <2>. QED
      BY <1>1, <1>4, <1>5, <1>6, <1>7, <2>1 DEF TaskTraces, Traces, Tracing
  <1>9. FreshAlone' /\ WorkerLoads'
    BY DEF Calm, FreshAlone, WorkerLoads
  <1>. QED
    BY <1>6, <1>8, <1>9, <1>10, TaskKeepsCalm

\* A task that traces, up to its answer: it takes the device over, and keeps it.
LEMMA TracingIsCalm ==
    ASSUME IInv, Calm, OneAtATime, NEW t \in Own, ~mixed, Arm(t) \/ Begin(t) \/ SelfCheck(t)
    PROVE  Calm'
  <1>0. /\ t \in Tasks /\ t \in Procs /\ failed \subseteq broken /\ DeviceTraces
        /\ UNCHANGED <<era, job, wpc>> /\ task[t].pc \in Traces
    BY DEF Own, Procs, Calm, Arm, Begin, SelfCheck, chain, Traces, Tracing
  <1>1. /\ TaskTraces(t) /\ held[t] \in Engines /\ eng[held[t]] = task[t].m
        /\ conf = [x \in Engines |-> conf[x]]
    BY <1>0 DEF Calm, Traces, Tracing, TaskTraces, DeviceTraces, IInv, EnginesMatch, TypeOK, CardTypes, EngineOrNone
  <1>2. ASSUME Leaves(t) PROVE task'[t].pc = "idle"
    BY <1>0, <1>2 DEF Leaves, Idle, IInv, TypeOK, ActorTypes
  <1>3. ASSUME NEW pc_ \in Tracing, task' = [task EXCEPT ![t].pc = pc_] PROVE task'[t].pc # "idle"
    BY <1>0, <1>3 DEF IInv, TypeOK, ActorTypes, Tracing
  <1>4. CASE Arm(t)
    <2>1. task[t].pc = "arm" /\ Configured \subseteq {held[t]}
      BY <1>1, <1>4 DEF Arm, TaskTraces
    <2>2. CASE UNCHANGED ld /\ Leaves(t) /\ Drops /\ UNCHANGED <<failed, broken>>
      BY <1>0, <2>2, LeavingIsCalm
    <2>3. CASE /\ task' = [task EXCEPT ![t].pc = IF Manifest(t) \in checked THEN "begin" ELSE "try"]
               /\ UNCHANGED <<server, walk, ld, held, paused, eng, failed, broken>>
               /\ IF ConfiguredFor(held[t], Manifest(t)) THEN UNCHANGED <<conf, dev>>
                  ELSE conf' = [conf EXCEPT ![held[t]] = Manifest(t)] /\ dev' = Manifest(t)
      <3>1. /\ conf' = [conf EXCEPT ![held[t]] = Manifest(t)] /\ dev' = Manifest(t)
        <4>1. CASE ConfiguredFor(held[t], Manifest(t))
          <5>1. conf[held[t]] = Manifest(t) /\ Manifest(t) # NoTrace
            BY <1>0, <1>1, <4>1 DEF ConfiguredFor, TaskTraces, Manifest, NoTrace
          <5>2. dev = Manifest(t)
            BY <1>0, <1>1, <5>1 DEF DeviceTraces, Configured
          <5>. QED
            BY <1>1, <2>3, <4>1, <5>1, <5>2
        <4>. QED
          BY <2>3, <4>1
      <3>. DEFINE next == IF Manifest(t) \in checked THEN "begin" ELSE "try"
      <3>2. next \in Tracing /\ task' = [task EXCEPT ![t].pc = next] /\ failed' \subseteq broken'
        BY <1>0, <2>3 DEF Tracing
      <3>. HIDE DEF next
      <3>. QED
        BY <1>0, <2>1, <2>3, <3>1, <3>2, MovingOnIsCalm
    <2>4. CASE /\ failed' = failed \cup {Manifest(t)} /\ broken' = broken \cup {Manifest(t)}
               /\ Leaves(t) /\ UNCHANGED ld
               /\ \E device \in {dev, Manifest(t), NoTrace} :
                     Settle(eng, [conf EXCEPT ![held[t]] = NoTrace], device)
      <3>1. \A x \in Engines : [conf EXCEPT ![held[t]] = NoTrace][x] = NoTrace
        BY <1>1, <2>1 DEF Configured
      <3>2. conf' = [x \in Engines |-> NoTrace]
        BY <2>4, <3>1 DEF Settle
      <3>3. DeviceTraces'
        BY <3>2 DEF DeviceTraces, Configured
      <3>. QED
        BY <1>0, <2>4, <3>3, LeavingIsCalm
    <2>. QED
      BY <1>4, <2>2, <2>3, <2>4 DEF Arm
  <1>5. ASSUME Begin(t) \/ SelfCheck(t)
        PROVE  /\ conf[held[t]] = Manifest(t) /\ dev = Manifest(t) /\ dev # NoTrace
               /\ Configured \subseteq {held[t]}
    <2>1. task[t].pc \in Tracing
      BY <1>5 DEF Begin, SelfCheck, Tracing
    <2>. QED
      BY <1>0, <1>1, <2>1 DEF TaskTraces, DeviceTraces, Configured
  <1>6. ASSUME Begin(t) \/ SelfCheck(t), UNCHANGED card
        PROVE  /\ conf' = [conf EXCEPT ![held[t]] = Manifest(t)] /\ dev' = Manifest(t) /\ UNCHANGED eng
    BY <1>1, <1>5, <1>6 DEF card
  <1>7. CASE Begin(t)
    <2>1. Begins(t)
      BY <1>5, <1>7 DEF Begins
    <2>2. /\ task' = [task EXCEPT ![t].pc = IF task[t].pc = "try" THEN "trying" ELSE "tracing"]
          /\ UNCHANGED <<server, walk, ld, held, card, failed, broken>>
      BY <1>7, <2>1 DEF Begin
    <2>. DEFINE next == IF task[t].pc = "try" THEN "trying" ELSE "tracing"
    <2>3. next \in Tracing /\ task' = [task EXCEPT ![t].pc = next] /\ failed' \subseteq broken'
      BY <1>0, <2>2 DEF Tracing
    <2>. HIDE DEF next
    <2>. QED
      BY <1>0, <1>5, <1>6, <1>7, <2>2, <2>3, MovingOnIsCalm
  <1>8. CASE SelfCheck(t)
    <2>1. Reproduces(t)
      BY <1>1, <1>5, <1>8 DEF Reproduces
    <2>2. CASE Leaves(t)
      <3>1. task' # [task EXCEPT ![t].pc = "begin"]
        BY <1>2, <1>3, <2>2 DEF Tracing
      <3>2. /\ Drops /\ UNCHANGED ld
            /\ failed' = failed \cup {Manifest(t)} /\ broken' = broken \cup {Manifest(t)}
        BY <1>8, <2>1, <3>1 DEF SelfCheck
      <3>3. failed' \subseteq broken'
        BY <1>0, <3>2
      <3>. QED
        BY <1>0, <2>2, <3>2, <3>3, LeavingIsCalm
    <2>3. CASE ~Leaves(t)
      <3>1. /\ task' = [task EXCEPT ![t].pc = "begin"]
            /\ UNCHANGED <<server, walk, ld, held, card, failed, broken>>
        BY <1>8, <2>3 DEF SelfCheck
      <3>2. "begin" \in Tracing /\ failed' \subseteq broken'
        BY <1>0, <3>1 DEF Tracing
      <3>. QED
        BY <1>0, <1>5, <1>6, <1>8, <3>1, <3>2, MovingOnIsCalm
    <2>. QED
      BY <2>2, <2>3
  <1>. QED
    BY <1>4, <1>7, <1>8

\* The last gate finds no trace: none is asked for before it.
LEMMA NewEraIsCalm ==
    ASSUME IInv, Calm, NewEra
    PROVE  Calm'
  <1>1. /\ era # Eras
        /\ UNCHANGED <<job, server, walk, ld, held, wpc, task, eng, conf, dev, failed, broken>>
    BY ServingAssumption DEF NewEra, card, trace, IInv, TypeOK, ActorTypes
  <1>2. Configured = {} /\ Configured' = {} /\ DeviceTraces'
    BY <1>1 DEF Calm, DeviceTraces, Configured
  <1>3. ASSUME NEW t \in Own, task'[t].pc # "idle" PROVE TaskTraces(t)'
    <2>1. TaskTraces(t)
      BY <1>1, <1>3 DEF Calm
    <2>2. task[t].kind = "none" /\ task[t].pc \notin Traces
      BY <1>1, <2>1 DEF TaskTraces
    <2>. QED
      BY <1>1, <1>2, <2>1, <2>2 DEF TaskTraces, Traces, Tracing
  <1>4. FreshAlone' /\ WorkerLoads' /\ failed' \subseteq broken' /\ \A t \in Orphans : task'[t].pc = "idle"
    BY <1>1 DEF Calm, FreshAlone, WorkerLoads
  <1>. QED
    BY <1>2, <1>3, <1>4 DEF Calm, Own

\* Every step of a session that is alone and is handed its model is calm.
LEMMA StepsAreCalm ==
    ASSUME OneAtATime, IInv, BInv, [Next]_vars
    PROVE  BInv'
  <1>1. CASE UNCHANGED vars
    BY <1>1 DEF vars, card, BInv, Calm, WorkerLoads, DeviceTraces, FreshAlone, TaskTraces, OutOfService,
                Configured, Manifest
  <1>2. CASE Next
    <2>1. strayed' = strayed
      BY ZenonT(60), <1>2 DEF Next, NewEra, WorkerStep, Top, Wait, DropStale, Share, Build, Blob, Mine, Ground,
                  EnsureLoaded, Check, Uninstall, Clear, Launch, Publish, Start, TaskStep, Grab, Generate,
                  Arm, Begin, SelfCheck, Traced
    <2>2. mixed => mixed'
      BY ZenonT(60), <1>2 DEF Next, NewEra, WorkerStep, Top, Wait, DropStale, Share, Build, Blob, Mine, Ground,
                  EnsureLoaded, Check, Uninstall, Clear, Launch, Publish, Start, TaskStep, Grab, Generate,
                  Arm, Begin, SelfCheck, Traced
    <2>3. ASSUME ~mixed', Calm PROVE Calm'
      <3>0. ~mixed
        BY <2>2, <2>3
      <3>1. CASE NewEra
        BY <2>3, <3>1, NewEraIsCalm
      <3>2. CASE WorkerStep
        BY <2>3, <3>2, WorkerIsCalm, WorkerKeepsCalm
      <3>3. ASSUME NEW t \in Own, Start(t) PROVE Calm'
        BY <2>3, <3>3, StartIsCalm
      <3>4. ASSUME NEW t \in Tasks, TaskStep(t) PROVE Calm'
        <4>1. task[t].pc # "idle"
          BY <3>4 DEF TaskStep, EnsureLoaded, Check, Uninstall, Clear, Launch, Publish, InLoad, Grab, Generate,
                      Arm, Begin, SelfCheck, Traced, IInv, OneHandEach
        <4>2. t \in Own
          BY <2>3, <3>4, <4>1 DEF Calm, Own
        <4>3. CASE EnsureLoaded(t)
          BY <2>3, <4>2, <4>3, LoadIsCalm
        <4>4. CASE Grab(t)
          BY <2>3, <4>2, <4>4, GrabIsCalm
        <4>5. CASE Generate(t) \/ Traced(t)
          <5>1. /\ Leaves(t) /\ Drops /\ UNCHANGED <<era, job, wpc, ld, failed, broken>>
            BY <4>5 DEF Generate, Traced, chain, trace
          <5>2. failed' \subseteq broken'
            BY <2>3, <5>1 DEF Calm
          <5>. QED
            BY <2>3, <4>2, <5>1, <5>2, LeavingIsCalm
        <4>6. CASE Arm(t) \/ Begin(t) \/ SelfCheck(t)
          BY <2>3, <3>0, <4>2, <4>6, TracingIsCalm
        <4>. QED
          BY <3>4, <4>3, <4>4, <4>5, <4>6 DEF TaskStep
      <3>. QED
        BY <1>2, <3>1, <3>2, <3>3, <3>4 DEF Next
    <2>. QED
      BY SMTT(60), <2>1, <2>2, <2>3 DEF BInv
  <1>. QED
    BY <1>1, <1>2

\* While no task of a closed session runs and no task is handed the engine of another model,
\* a model is barred from a kind of traced answers only by the GPU, never by the Drop of an engine
\* that releases the device under the trace, nor because the engine is configured for the other
\* kind by then: for every number of eras, inferences and faults, of a session that runs one
\* inference at a time (which SessionsAgree proves of the handler)
\* (slm.rs:968-1004, llm_engine.rs:203-210, 920-970).
THEOREM OnlyTheGpuBars == ASSUME OneAtATime PROVE Spec => []BarredByTheGpuOnly
  <1>1. Init => BInv
    <2>. SUFFICES ASSUME Init, ~strayed PROVE Calm
      BY DEF BInv
    <2>1. /\ task = [t \in Tasks |-> Idle] /\ ld = [p \in Procs |-> Out] /\ held = [p \in Procs |-> 0]
          /\ wpc = "top" /\ failed = {} /\ conf = [x \in Engines |-> NoTrace]
      BY DEF Init
    <2>4. Configured = {}
      BY <2>1 DEF Configured
    <2>2. (\A t \in Tasks : task[t].pc = "idle") /\ \A p \in Procs : ld[p].e = 0
      BY <2>1 DEF Idle, Out
    <2>3. WorkerLoads /\ DeviceTraces /\ FreshAlone
      BY <2>1, <2>2, <2>4 DEF WorkerLoads, DeviceTraces, FreshAlone
    <2>. QED
      BY <2>1, <2>2, <2>3, ServingAssumption DEF Calm, Own
  <1>2. IInv /\ BInv /\ [Next]_vars => BInv'
    BY StepsAreCalm
  <1>3. BInv => BarredByTheGpuOnly
    BY DEF BInv, Calm, BarredByTheGpuOnly
  <1>. QED
    BY <1>1, <1>2, <1>3, InvariantHolds, PTL DEF Spec
=============================================================================

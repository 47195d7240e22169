----------------------------- MODULE ClaimBatch -----------------------------
(***************************************************************************)
(* select_claim_batch of src/escrow.rs: which escrow entries the next      *)
(* claim transaction spends.                                               *)
(*                                                                         *)
(* An entry is seen here through what the selection reads of it:           *)
(*   inference  it pays an answered AI request, not a block reward         *)
(*   window     its CSV lock, in blocks                                    *)
(*   cap        batch_cap, 0 for none                                      *)
(*   dead       orphan_slashed                                             *)
(*   ready      neither claimed nor slashed, mature, past its cooldown and *)
(*              in no claim that is in flight                              *)
(***************************************************************************)
EXTENDS Naturals, Sequences, FiniteSets, SequencesExt

CONSTANT MaxClaimBatch  \* MAX_CLAIM_BATCH, and MIN_CLAIM_BATCH: a nominal batch is full or not sent

ASSUME MaxClaimBatchAssumption == MaxClaimBatch \in Nat \ {0}

\* No window has been settled yet.
AnyWindow == 0

Nominal == 0
Repair == 1
Drain == 2
DeadPool == 3

\* Which entries a pass draws from.
InPass(e, pass, current) ==
    CASE pass = Nominal -> e.cap = 0 /\ ~e.dead
      [] pass = Repair  -> e.cap # 0 /\ ~e.dead
      [] pass = Drain   -> e.cap = 0 /\ ~e.dead /\ e.window # current
      [] OTHER          -> e.dead

Smaller(a, b) == IF a <= b THEN a ELSE b

\* The largest batch an entry may join.
CapOf(e) == IF e.cap = 0 THEN MaxClaimBatch ELSE Smaller(e.cap, MaxClaimBatch)

\* Faulty variant: only the newcomer's cap counts.
JoinOwnCap(entries, pass, current, b, i) ==
    LET e == entries[i]
    IN  IF /\ InPass(e, pass, current)
           /\ e.ready
           /\ b.window \in {AnyWindow, e.window}
           /\ Len(b.members) < CapOf(e)
        THEN [members |-> Append(b.members, i), limit |-> CapOf(e), window |-> e.window]
        ELSE b

\* The entry with index i joins a batch under construction, or is passed over.
Join(entries, pass, current, b, i) ==
    LET e     == entries[i]
        limit == Smaller(CapOf(e), b.limit)
    IN  IF /\ InPass(e, pass, current)
           /\ e.ready
           /\ b.window \in {AnyWindow, e.window}
           /\ Len(b.members) < limit
        THEN [members |-> Append(b.members, i), limit |-> limit, window |-> e.window]
        ELSE b

\* The k-th of a set of numbers, and all of them in their order.
Nth(at, k) == CHOOSE i \in at : Cardinality({j \in at : j <= i}) = k
InOrder(at) == [k \in 1..Cardinality(at) |-> Nth(at, k)]

\* Queue order; the nominal pass looks at inference entries first.
VisitOrder(entries, pass) ==
    LET all   == 1..Len(entries)
        ahead == {i \in all : pass = Nominal /\ entries[i].inference}
    IN  InOrder(ahead) \o InOrder(all \ ahead)

\* The batch of a candidate (a pass and the window it is held to) after the first n of these entries.
Built(entries, c, current, order) ==
    LET built[n \in 0..Len(order)] ==
            IF n = 0 THEN [members |-> <<>>, limit |-> MaxClaimBatch, window |-> c.window]
                     ELSE Join(entries, c.pass, current, built[n - 1], order[n])
    IN  built

BatchOf(entries, c, current) ==
    LET order == VisitOrder(entries, c.pass) IN Built(entries, c, current, order)[Len(order)].members

WindowsOf(entries) == {entries[i].window : i \in 1..Len(entries)}

\* One nominal candidate per window, the current one first, then repair, drain and dead pool.
Candidates(entries, current) ==
    LET windows == WindowsOf(entries)
        ordered == InOrder(windows \cap {current}) \o InOrder(windows \ {current})
    IN  [k \in 1..Len(ordered) |-> [pass |-> Nominal, window |-> ordered[k]]]
          \o <<[pass |-> Repair, window |-> AnyWindow],
               [pass |-> Drain, window |-> AnyWindow],
               [pass |-> DeadPool, window |-> AnyWindow]>>

Releasable(batch, pass) == Len(batch) >= (IF pass = Nominal THEN MaxClaimBatch ELSE 1)

\* Faulty variant: the first pass that finds anything decides, sent or held back.
SelectFirstPass(entries, current) ==
    LET candidates  == Candidates(entries, current)
        BatchFor(k) == BatchOf(entries, candidates[k], current)
        first       == SelectInSeq([k \in 1..Len(candidates) |-> BatchFor(k) # <<>>], LAMBDA some : some)
    IN  IF first = 0 \/ ~Releasable(BatchFor(first), candidates[first].pass) THEN <<>> ELSE BatchFor(first)

\* select_claim_batch: the first candidate whose batch may be sent, as indices; empty for none.
SelectClaimBatch(entries, current) ==
    LET candidates == Candidates(entries, current)
        Ships(k)   == Releasable(BatchOf(entries, candidates[k], current), candidates[k].pass)
        first      == SelectInSeq([k \in 1..Len(candidates) |-> Ships(k)], LAMBDA ships : ships)
    IN  IF first = 0 THEN <<>> ELSE BatchOf(entries, candidates[first], current)
-----------------------------------------------------------------------------
\* A member's bisection cap bounds the batch it travels in, whichever members joined after it,
\* and no batch outgrows the node's mass limit.
CapsRespected(entries, batch) ==
    /\ Len(batch) <= MaxClaimBatch
    /\ \A i \in ToSet(batch) : entries[i].cap # 0 => Len(batch) <= entries[i].cap

\* One transaction signs one sequence and one script, and a dead input orphans all of it: a batch
\* has one window, and never mixes dead, capped and nominal entries.
OnePool(entries, batch) ==
    \A i, j \in ToSet(batch) :
        LET a == entries[i]
            b == entries[j]
        IN  a.window = b.window /\ a.dead = b.dead /\ (~a.dead => ((a.cap = 0) = (b.cap = 0)))

\* A batch spends entries that are ready, each once.
SpendsOnce(entries, batch) ==
    /\ \A k \in 1..Len(batch) : batch[k] \in 1..Len(entries) /\ entries[batch[k]].ready
    /\ \A k, l \in 1..Len(batch) : batch[k] = batch[l] => k = l

\* What makes a batch a transaction that can be signed and accepted.
OneTransaction(entries, batch) ==
    CapsRespected(entries, batch) /\ OnePool(entries, batch) /\ SpendsOnce(entries, batch)
-----------------------------------------------------------------------------
\* The entries that could join a nominal batch of a window.
Claimable(entries, w) == {i \in 1..Len(entries) : /\ entries[i].ready /\ entries[i].window = w
                                                  /\ entries[i].cap = 0 /\ ~entries[i].dead}

\* "A held-back pass never starves the ones below": nothing is sent only when every ready entry
\* waits for a full nominal batch of the current window.
NothingStarved(entries, current, batch) ==
    batch = <<>> =>
        /\ \A i \in 1..Len(entries) : entries[i].ready => i \in Claimable(entries, current)
        /\ Cardinality(Claimable(entries, current)) < MaxClaimBatch

\* Full batches are never delayed behind repair, and a nominal entry of the current window is
\* only ever sent in one.
FullBatchesFirst(entries, current, batch) ==
    /\ (\E w \in WindowsOf(entries) : Cardinality(Claimable(entries, w)) >= MaxClaimBatch)
          => /\ Len(batch) = MaxClaimBatch
             /\ \E w \in WindowsOf(entries) : ToSet(batch) \subseteq Claimable(entries, w)
    /\ ToSet(batch) \cap Claimable(entries, current) # {} => Len(batch) = MaxClaimBatch

\* Inference escrows carry user fees: a nominal batch that takes a coinbase entry leaves no
\* inference entry behind.
InferenceFirst(entries, batch) ==
    \A w \in WindowsOf(entries) :
        /\ Len(batch) = MaxClaimBatch /\ ToSet(batch) \subseteq Claimable(entries, w)
        /\ \E i \in ToSet(batch) : ~entries[i].inference
        => \A i \in Claimable(entries, w) : entries[i].inference => i \in ToSet(batch)
=============================================================================

--------------------------- MODULE TraceOpenings ---------------------------
(***************************************************************************)
(* The audits of a solo session (client/grpc.rs, trace_store.rs): a traced *)
(* response is followed from its submission to the chain block that        *)
(* accepts it, to the seed block that draws it, to the replay on the GPU   *)
(* and to the opening the node takes, through reorganisations of the       *)
(* chain, lost connections and replays that fail.                          *)
(*                                                                         *)
(* Blocks form a tree; the node's selected chain is the path to its tip.   *)
(* A block's DAA score is its depth, a seed is known by its block, an      *)
(* opening by response and seed block (its signature is deterministic).    *)
(***************************************************************************)
EXTENDS Naturals, Sequences, FiniteSets, SequencesExt, FiniteSetsExt

CONSTANTS
    Parent,         \* the block tree: Parent[b] < b, 0 above the root
    Accepting,      \* response -> the blocks of the tree that accept it
    Unaudited,      \* seed blocks that draw no audit
    SeedDelay,      \* TRACE_SEED_DELAY_DAA
    OpeningWindow,  \* opening_window_daa of a response
    Grace,          \* TRACE_UNAUDITED_GRACE_DAA
    SubmitWindow,   \* AI_BACKFILL_WINDOW_DAA
    LogTail,        \* CHAIN_LOG_TAIL
    BuiltKept,      \* BUILT_OPENINGS_KEPT
    RestoreInflight,    \* CHAIN_RESTORE_INFLIGHT
    RestoreFailures,    \* CHAIN_RESTORE_MAX_FAILURES
    ReplayFailures,     \* REPLAY_MAX_FAILURES
    NotAwaited,     \* OPENING_NOT_AWAITED_MAX_ATTEMPTS
    MaxAttempts,    \* AI_RESPONSE_MAX_ATTEMPTS
    Ordered,        \* whether answers and notifications keep the node's order
    MaxMoves,       \* bound: changes of the node's tip
    MaxTrouble      \* bound: connections lost, failed replays and requests, late and busy answers

Blocks == DOMAIN Parent
Responses == DOMAIN Accepting

ASSUME TreeAssumption == \A b \in Blocks : Parent[b] \in 0..(b - 1)
ASSUME AcceptingAssumption == \A r \in Responses : Accepting[r] \subseteq Blocks

VARIABLES
    tip,        \* the node: tip of the selected chain
    known,      \* responses the node has
    openings,   \* openings the node has taken: <<response, seed block>>
    wire,       \* messages on their way to the client
    up,         \* whether a connection is open
    c,          \* the client (KeryxdHandler)
    disk,       \* the trace store: response -> [acc, opening, sub]
    unseen,     \* history: responses accepted by a block no connection saw
    lost,       \* history: responses given up for a reason the code states
    moves, trouble

vars == <<tip, known, openings, wire, up, c, disk, unseen, lost, moves, trouble>>

Path[b \in 0..Len(Parent)] ==
    IF b = 0 THEN <<>> ELSE Append(Path[Parent[b]], b)
Daa(b) == Len(Path[b])
OnChain(b, t) == b \in ToSet(Path[t])

NoReplay == [r |-> "none", seed |-> 0, out |-> "none"]
EmptyFn == [x \in {} |-> 0]

(* A handler without a connection's worth of knowledge.                     *)
Fresh ==
    [tr |-> EmptyFn, log |-> <<>>, starts |-> <<>>,
     fails |-> [b \in Blocks |-> 0], rq |-> <<>>, rp |-> {}, asks |-> {},
     replay |-> NoReplay, inflight |-> {}, daa |-> 0]

NewTrace(sub) ==
    [acc |-> 0, seed |-> 0, opened |-> FALSE, fails |-> 0,
     opening |-> 0, built |-> <<>>, sub |-> sub]

Without(f, gone) == [x \in DOMAIN f \ gone |-> f[x]]

Audited(b) == b \notin Unaudited
Deadline(b) == Daa(b) + OpeningWindow

Logged(s) == {s.log[i].b : i \in DOMAIN s.log}
LogAt(s, b) == CHOOSE i \in DOMAIN s.log : s.log[i].b = b

-----------------------------------------------------------------------------
(* The node *)

AcceptedBy(r, t) ==
    LET on == {b \in Accepting[r] : OnChain(b, t)} IN
    IF r \in known /\ on # {} THEN Min(on) ELSE 0

(* The block that draws r on the chain of tip t, 0 while there is none.     *)
SeedOf(r, t) ==
    LET a == AcceptedBy(r, t)
        later == {b \in ToSet(Path[t]) : Daa(b) >= Daa(a) + SeedDelay /\ b # a}
    IN IF a = 0 \/ later = {} THEN 0
       ELSE CHOOSE b \in later : \A x \in later : Daa(b) <= Daa(x)

(* What leaves and what joins the chain from block x to tip t, and what the *)
(* joining blocks accept.                                                   *)
ChainChange(kind, x, t) ==
    LET added == SelectSeq(Path[t], LAMBDA b : ~OnChain(b, x)) IN
    [kind |-> kind,
     removed |-> ToSet(Path[x]) \ ToSet(Path[t]),
     added |-> added,
     accepts |-> {<<r, AcceptedBy(r, t)>> : r \in
                    {q \in Responses : AcceptedBy(q, t) \in ToSet(added)}}]

-----------------------------------------------------------------------------
(* Chain log *)

(* seed_block_after: the first later logged block at the delay or more;     *)
(* none while a block before it has no score yet.                           *)
SeedBlockAfter(s, a) ==
    LET i == LogAt(s, a)
        far(j) == s.log[j].known /\ Daa(s.log[j].b) >= Daa(a) + SeedDelay
        stops == {j \in (i + 1)..Len(s.log) : ~s.log[j].known \/ far(j)}
    IN IF a \notin Logged(s) THEN 0
       ELSE IF ~s.log[i].known \/ stops = {} THEN 0
       ELSE IF far(Min(stops)) THEN s.log[Min(stops)].b ELSE 0

(* place_chain_after: added goes right behind start, or to the end.         *)
PlaceChainAfter(log, start, added) ==
    LET kept == SelectSeq(log, LAMBDA e : e.b \notin ToSet(added))
        at == IF \E i \in DOMAIN kept : kept[i].b = start
              THEN CHOOSE i \in DOMAIN kept : kept[i].b = start
              ELSE Len(kept)
        entry(b) == [b |-> b, known |-> \E i \in DOMAIN log :
                                            log[i].b = b /\ log[i].known]
    IN SubSeq(kept, 1, at) \o [k \in DOMAIN added |-> entry(added[k])]
         \o SubSeq(kept, at + 1, Len(kept))

(* on_chain_blocks_removed: what depended on the blocks is forgotten, the   *)
(* opening and its submission included.                                     *)
ChainBlocksRemoved(s, gone) ==
    LET p(r) == s.tr[r]
        reset == {r \in DOMAIN s.tr : p(r).acc \in gone \/ p(r).seed \in gone}
    IN [s EXCEPT
          !.log = SelectSeq(@, LAMBDA e : e.b \notin gone),
          !.tr = [r \in DOMAIN @ |->
                    IF r \notin reset THEN @[r]
                    ELSE [@[r] EXCEPT !.acc = IF @ \in gone THEN 0 ELSE @,
                                      !.seed = 0, !.opened = FALSE,
                                      !.fails = 0, !.opening = 0]],
          !.inflight = {o \in @ : o.r \notin reset}]

(* An acceptance is noted when none is known.                               *)
NoteAcceptances(s, accepts) ==
    [s EXCEPT !.tr = [r \in DOMAIN @ |->
        IF @[r].acc = 0 /\ \E a \in accepts : a[1] = r
        THEN [@[r] EXCEPT !.acc = (CHOOSE a \in accepts : a[1] = r)[2]]
        ELSE @[r]]]

(* resolve_traces: every accepted response whose seed block is known is     *)
(* drawn, unless the chain behind its acceptance is being rebuilt.  An      *)
(* opening stored for this very seed counts as opened.                      *)
ResolveTraces(s) ==
    [s EXCEPT !.tr = [r \in DOMAIN @ |->
        LET p == @[r]
            b == IF p.acc = 0 \/ p.acc \in ToSet(s.starts) THEN 0
                 ELSE SeedBlockAfter(s, p.acc)
        IN IF p.seed # 0 \/ b = 0 THEN p
           ELSE [p EXCEPT !.seed = b, !.fails = 0,
                          !.opened = (p.opening = b)]]]

(* chain_restore_pump: blocks of the rebuilt chain are fetched a few at a   *)
(* time, as long as an accepted response has no draw.                       *)
RestorePump(s) ==
    LET needed == \E r \in DOMAIN s.tr : s.tr[r].acc # 0 /\ s.tr[r].seed = 0
        room == IF Cardinality(s.rp) >= RestoreInflight THEN 0
                ELSE RestoreInflight - Cardinality(s.rp)
        n == IF Len(s.rq) < room THEN Len(s.rq) ELSE room
        next == ToSet(SubSeq(s.rq, 1, n))
    IN IF ~needed THEN [s EXCEPT !.rq = <<>>]
       ELSE [s EXCEPT !.rq = SubSeq(@, n + 1, Len(@)),
                      !.rp = @ \cup next, !.asks = @ \cup next]

-----------------------------------------------------------------------------
(* Replays and openings *)

(* submit_opening: it is in flight until answered, and kept with the trace. *)
SubmitOpening(s, r, b) ==
    [s EXCEPT !.inflight =
                {o \in @ : <<o.r, o.seed>> # <<r, b>>}
                    \cup {[r |-> r, seed |-> b, n |-> 1, st |-> "sent"]},
              !.tr[r].opening = b]

Keep(built, b) ==
    LET others == SelectSeq(built, LAMBDA x : x # b) IN
    Append(IF Len(others) >= BuiltKept THEN Tail(others) ELSE others, b)

(* poll_replay: a failed replay of the current draw is tried again, up to   *)
(* the limit; a body is kept for its seed block, and submitted when that    *)
(* still is the draw.                                                       *)
PollReplay(s) ==
    LET j == s.replay
        done == [s EXCEPT !.replay = NoReplay]
        failed == [done EXCEPT !.tr[j.r].fails = @ + 1,
                               !.tr[j.r].opened = s.tr[j.r].fails + 1 > ReplayFailures]
        kept == [done EXCEPT !.tr[j.r].built = Keep(@, j.seed)]
    IN CASE j = NoReplay \/ j.out = "running" -> s
         [] j.out \notin {"none", "running"} /\ j.r \notin DOMAIN s.tr -> done
         [] j.out = "failed" /\ j.r \in DOMAIN s.tr ->
                IF s.tr[j.r].seed = j.seed THEN failed ELSE done
         [] OTHER -> IF kept.tr[j.r].seed = j.seed
                     THEN SubmitOpening(kept, j.r, j.seed) ELSE kept

(* prune_traces: what is past its window goes, and the chain log before the *)
(* oldest acceptance still needed.                                          *)
Kept(s, r) ==
    LET p == s.tr[r] IN
    CASE p.seed = 0 -> p.acc # 0 \/ p.sub + SubmitWindow > s.daa
      [] p.seed # 0 /\ ~Audited(p.seed) -> Daa(p.seed) + Grace > s.daa
      [] OTHER -> s.daa <= Deadline(p.seed)

PruneTraces(s) ==
    LET tr == Without(s.tr, {r \in DOMAIN s.tr : ~Kept(s, r)})
        places == {LogAt(s, tr[r].acc) : r \in {q \in DOMAIN tr : tr[q].acc \in Logged(s)}}
        needed == IF places = {} THEN Len(s.log) ELSE Min(places) - 1
        tail == IF Len(s.log) > LogTail THEN Len(s.log) - LogTail ELSE 0
    IN [s EXCEPT !.tr = tr,
                 !.log = SubSeq(@, Min({needed, tail}) + 1, Len(@))]

(* retry_pending_openings: past the window or the attempts an opening is    *)
(* dropped; a refused one is sent again, and one without an answer when it  *)
(* has been late for one.                                                   *)
RetryOpenings(s, late) ==
    LET due(o) == o.st = "refused" \/ late
    IN [s EXCEPT !.inflight =
         {IF due(o) THEN [o EXCEPT !.n = @ + 1, !.st = "sent"] ELSE o :
             o \in {x \in @ : /\ s.daa <= Deadline(x.seed)
                              /\ due(x) => x.n < MaxAttempts}}]

Due(s) == {r \in DOMAIN s.tr : /\ s.tr[r].seed # 0
                               /\ Audited(s.tr[r].seed)
                               /\ ~s.tr[r].opened}

(* try_start_replay, first half: what was built for the current seed is     *)
(* submitted without a replay.                                              *)
SubmitBuilt(s) ==
    LET ready == {r \in Due(s) : s.tr[r].seed \in ToSet(s.tr[r].built)} IN
    FoldSet(LAMBDA r, a : SubmitOpening([a EXCEPT !.tr[r].opened = TRUE],
                                        r, a.tr[r].seed),
            s, ready)

(* Second half: the response closest to its deadline is replayed, when the  *)
(* GPU is free.                                                             *)
StartReplay(s, r) ==
    [s EXCEPT !.tr[r].opened = TRUE,
              !.replay = [r |-> r, seed |-> s.tr[r].seed, out |-> "running"]]

NextReplays(s) ==
    {r \in Due(s) : \A q \in Due(s) :
        Deadline(s.tr[r].seed) <= Deadline(s.tr[q].seed)}

-----------------------------------------------------------------------------
(* Every change of acceptance or opening is written to disk at once, and a  *)
(* dropped trace is removed from it (persist_trace, TraceStore::remove).    *)
Stored(s) ==
    [r \in DOMAIN s.tr |-> [acc |-> s.tr[r].acc, opening |-> s.tr[r].opening,
                            sub |-> s.tr[r].sub]]

(* What a handler leaves behind; gone are the responses it gave up.         *)
After(s, gone) ==
    /\ c' = s
    /\ disk' = Stored(s)
    /\ unseen' = {r \in unseen : r \in DOMAIN s.tr => s.tr[r].acc = 0}
    /\ lost' = lost \cup gone

Trouble(some) == trouble' = IF some THEN trouble - 1 ELSE trouble

(* submit_ai_response, of a traced answer: the trace is kept and stored.    *)
NewResponse(r) ==
    /\ up
    /\ r \notin known
    /\ AcceptedBy(r, tip) = 0
    /\ \A b \in Accepting[r] : ~OnChain(b, tip)
    /\ known' = known \cup {r}
    /\ After([c EXCEPT !.tr = [x \in DOMAIN @ \cup {r} |->
                IF x = r THEN NewTrace(c.daa) ELSE @[x]]], {})
    /\ UNCHANGED <<tip, openings, wire, up, moves, trouble>>

(* The node's chain changes.  A closed connection is not told.              *)
MoveTip(t) ==
    /\ moves > 0
    /\ t # tip
    /\ Daa(t) >= Daa(tip)
    /\ \A r \in Responses \ known : \A b \in Accepting[r] : ~OnChain(b, t)
    /\ tip' = t
    /\ moves' = moves - 1
    /\ wire' = IF up THEN Append(wire, ChainChange("chain", tip, t)) ELSE wire
    /\ unseen' = IF up THEN unseen
                 ELSE unseen \cup {r \in known : AcceptedBy(r, t) \notin
                                        ToSet(Path[tip]) \cup {0}}
    /\ UNCHANGED <<known, openings, up, c, disk, lost, trouble>>

Deliverable(i) ==
    \A j \in 1..(i - 1) : ~Ordered /\ wire[j].kind # wire[i].kind

(* Faulty variant: acceptances are noted before the removed blocks are      *)
(* forgotten.                                                               *)
ChainChangedLate(i) ==
    /\ Deliverable(i)
    /\ wire[i].kind = "chain"
    /\ \E s1 \in {ChainBlocksRemoved(NoteAcceptances(c, wire[i].accepts),
                                     wire[i].removed)} :
       \E new \in {SelectSeq(wire[i].added, LAMBDA b : b \notin Logged(s1))} :
        After([s1 EXCEPT
                 !.log = @ \o [k \in DOMAIN new |-> [b |-> new[k], known |-> FALSE]],
                 !.asks = @ \cup ToSet(wire[i].added)], {})
    /\ wire' = RemoveAt(wire, i)
    /\ UNCHANGED <<tip, known, openings, up, moves, trouble>>

(* VirtualSelectedParentChainChanged: removed blocks first, then added ones *)
(* are logged, acceptances noted, and the added blocks fetched.             *)
OnChainChanged(i) ==
    /\ Deliverable(i)
    /\ wire[i].kind = "chain"
    /\ \E s1 \in {ChainBlocksRemoved(c, wire[i].removed)} :
       \E new \in {SelectSeq(wire[i].added, LAMBDA b : b \notin Logged(s1))} :
       \E s2 \in {[s1 EXCEPT
                     !.log = @ \o [k \in DOMAIN new |-> [b |-> new[k], known |-> FALSE]],
                     !.asks = @ \cup ToSet(wire[i].added)]} :
        After(NoteAcceptances(s2, wire[i].accepts), {})
    /\ wire' = RemoveAt(wire, i)
    /\ UNCHANGED <<tip, known, openings, up, moves, trouble>>

(* GetBlock answered: the score of a logged block is known.                 *)
OnBlock(b) ==
    /\ b \in c.asks
    /\ \E s1 \in {ResolveTraces([c EXCEPT
                    !.asks = @ \ {b},
                    !.log = [i \in DOMAIN @ |-> IF @[i].b = b
                                THEN [@[i] EXCEPT !.known = TRUE] ELSE @[i]]])} :
        After(IF b \in c.rp THEN RestorePump([s1 EXCEPT !.rp = @ \ {b}]) ELSE s1, {})
    /\ UNCHANGED <<tip, known, openings, wire, up, moves, trouble>>

(* The node no longer has a block that left its chain: it leaves the log.   *)
OnBlockError(b) ==
    /\ trouble > 0
    /\ b \in c.asks
    /\ ~OnChain(b, tip)
    /\ \E s1 \in {[c EXCEPT !.asks = @ \ {b}]} :
       \E s2 \in {IF b \in Logged(c)
                  THEN ResolveTraces([s1 EXCEPT
                         !.log = SelectSeq(@, LAMBDA e : e.b # b)]) ELSE s1} :
        After(IF b \in c.rp THEN RestorePump([s2 EXCEPT !.rp = @ \ {b}]) ELSE s2, {})
    /\ Trouble(TRUE)
    /\ UNCHANGED <<tip, known, openings, wire, up, moves>>

(* The node answers the request for the chain from the first start.  It     *)
(* may fail, or not know the block any more.                                *)
NodeAnswers(ok) ==
    /\ up
    /\ c.starts # <<>>
    /\ \A i \in DOMAIN wire : wire[i].kind # "restore"
    /\ ok \/ trouble > 0
    /\ wire' = Append(wire,
                 IF ok THEN [ok |-> TRUE] @@ ChainChange("restore", Head(c.starts), tip)
                 ELSE [kind |-> "restore", ok |-> FALSE])
    /\ Trouble(~ok)
    /\ UNCHANGED <<tip, known, openings, up, c, disk, unseen, lost, moves>>

(* on_chain_restore_failed: again, up to the limit; then the responses it   *)
(* accepted are dropped.                                                    *)
RestoreFailed(s, h) ==
    LET again == s.fails[h] + 1 < RestoreFailures
        gone == {r \in DOMAIN s.tr : s.tr[r].acc = h}
    IN IF again
       THEN [s EXCEPT !.fails[h] = @ + 1, !.starts = Append(@, h)]
       ELSE [s EXCEPT !.fails[h] = 0,
                      !.tr = Without(@, gone),
                      !.inflight = {o \in @ : o.r \notin gone},
                      !.log = SelectSeq(@, LAMBDA e : e.b # h)]

(* GetVirtualSelectedParentChainFromBlock answered: the chain goes behind   *)
(* its start in the log, its unknown blocks are fetched.                    *)
OnRestoreAnswer(i) ==
    /\ Deliverable(i)
    /\ wire[i].kind = "restore"
    /\ \E h \in {Head(c.starts)}, s0 \in {[c EXCEPT !.starts = Tail(@)]} :
       \E s1 \in {IF wire[i].ok THEN ChainBlocksRemoved([s0 EXCEPT !.fails[h] = 0],
                                                        wire[i].removed)
                  ELSE RestoreFailed(s0, h)} :
       \E s2 \in {IF wire[i].ok
                  THEN [s1 EXCEPT !.log = PlaceChainAfter(@, h, wire[i].added)]
                  ELSE s1} :
       \E s3 \in {IF wire[i].ok
                  THEN NoteAcceptances([s2 EXCEPT !.rq = @ \o
                        SelectSeq(wire[i].added, LAMBDA b :
                            ~s2.log[LogAt(s2, b)].known)], wire[i].accepts)
                  ELSE s2} :
        After(RestorePump(ResolveTraces(s3)), DOMAIN c.tr \ DOMAIN s3.tr)
    /\ wire' = RemoveAt(wire, i)
    /\ UNCHANGED <<tip, known, openings, up, moves, trouble>>

(* A template brings the current score.                                     *)
OnTemplate ==
    /\ up
    /\ Daa(tip) > c.daa
    /\ c' = [c EXCEPT !.daa = Daa(tip)]
    /\ UNCHANGED <<tip, known, openings, wire, up, disk, unseen, lost, moves, trouble>>

(* The timer of listen(); free tells whether inference leaves the GPU, late *)
(* whether the node has left a submission unanswered for three seconds.     *)
Tick(free, late) ==
    /\ up
    /\ late => trouble > 0 /\ \E o \in c.inflight : o.st = "sent"
    /\ \E s1 \in {PollReplay(c)} : \E s2 \in {PruneTraces(s1)} :
       \E s3 \in {RetryOpenings(s2, late)} : \E s4 \in {SubmitBuilt(s3)} :
       \E gone \in {(DOMAIN s1.tr \ DOMAIN s2.tr)
                      \cup ({o.r : o \in s2.inflight} \ {o.r : o \in s3.inflight})
                      \cup {r \in DOMAIN s1.tr : s1.tr[r].fails > ReplayFailures}} :
        IF free /\ s4.replay = NoReplay /\ Due(s4) # {}
        THEN \E r \in NextReplays(s4) : After(StartReplay(s4, r), gone)
        ELSE After(s4, gone)
    /\ Trouble(late)
    /\ UNCHANGED <<tip, known, openings, wire, up, moves>>

ReplayEnds(out) ==
    /\ c.replay.out = "running"
    /\ out = "failed" => trouble > 0
    /\ c' = [c EXCEPT !.replay.out = out]
    /\ Trouble(out = "failed")
    /\ UNCHANGED <<tip, known, openings, wire, up, disk, unseen, lost, moves>>

Awaits(r, b) == SeedOf(r, tip) = b /\ b # 0 /\ Daa(tip) <= Deadline(b)

(* The node takes an opening it waits for.                                  *)
NodeTakes(o) ==
    /\ o.st = "sent"
    /\ Awaits(o.r, o.seed)
    /\ openings' = openings \cup {<<o.r, o.seed>>}
    /\ openings' # openings
    /\ UNCHANGED <<tip, known, wire, up, c, disk, unseen, lost, moves, trouble>>

(* SubmitTransactionResponse for an opening: accepted or known ones are     *)
(* done; one the node does not wait for is dropped after some attempts; one *)
(* it refuses for another reason (busy: another opening of the response is  *)
(* in its mempool, say) waits for its next one.                             *)
OnOpeningAnswer(o, busy) ==
    /\ up
    /\ o.st = "sent"
    /\ LET taken == <<o.r, o.seed>> \in openings
           strange == ~taken /\ ~busy
           drop == taken \/ (strange /\ o.n >= NotAwaited)
       IN /\ busy => ~taken /\ trouble > 0
          /\ strange => ~Awaits(o.r, o.seed)
          /\ After([c EXCEPT !.inflight = (@ \ {o}) \cup
                      IF drop THEN {} ELSE {[o EXCEPT !.st = "refused"]}],
                   IF drop /\ ~taken THEN {o.r} ELSE {})
    /\ Trouble(busy)
    /\ UNCHANGED <<tip, known, openings, wire, up, moves>>

(* The connection is lost, with the replay and all that is not stored.      *)
Disconnect ==
    /\ up
    /\ trouble > 0
    /\ up' = FALSE
    /\ c' = Fresh
    /\ wire' = <<>>
    /\ unseen' = unseen \cup {r \in known : \E i \in DOMAIN wire : wire[i].kind = "chain"
                      /\ \E a \in wire[i].accepts : a[1] = r}
    /\ Trouble(TRUE)
    /\ UNCHANGED <<tip, known, openings, disk, lost, moves>>

(* Faulty variant: a stored opening is loaded but not sent again.           *)
RestoreUnsent ==
    [Fresh EXCEPT
       !.tr = [r \in DOMAIN disk |->
                 [NewTrace(disk[r].sub) EXCEPT !.acc = disk[r].acc,
                                               !.opening = disk[r].opening]]]

(* restore_traces: stored traces come back undrawn, their openings to be    *)
(* sent again.                                                              *)
RestoreTraces ==
    [Fresh EXCEPT
       !.tr = [r \in DOMAIN disk |->
                 [NewTrace(disk[r].sub) EXCEPT !.acc = disk[r].acc,
                                               !.opening = disk[r].opening]],
       !.inflight = {[r |-> r, seed |-> disk[r].opening, n |-> 1, st |-> "refused"] :
                       r \in {q \in DOMAIN disk : disk[q].opening # 0}}]

(* Connected and registered: start_chain_restore asks for the chain from    *)
(* every accepting block.                                                   *)
StartChainRestore(s) ==
    LET accs == SetToSeq({s.tr[r].acc : r \in DOMAIN s.tr} \ {0}) IN
    RestorePump([s EXCEPT
        !.starts = accs,
        !.log = [k \in DOMAIN accs |-> [b |-> accs[k], known |-> FALSE]],
        !.rq = accs])

Connect ==
    /\ ~up
    /\ up' = TRUE
    /\ c' = StartChainRestore(RestoreTraces)
    /\ UNCHANGED <<tip, known, openings, wire, disk, unseen, lost, moves, trouble>>

-----------------------------------------------------------------------------
Init ==
    /\ tip = 1
    /\ known = {}
    /\ openings = {}
    /\ wire = <<>>
    /\ up = TRUE
    /\ c = Fresh
    /\ disk = EmptyFn
    /\ unseen = {}
    /\ lost = {}
    /\ moves = MaxMoves
    /\ trouble = MaxTrouble

(* What goes on by itself: deliveries, answers, ticks, the GPU.             *)
Progress ==
    \/ \E i \in DOMAIN wire : OnChainChanged(i) \/ OnRestoreAnswer(i)
    \/ \E b \in c.asks : OnBlock(b)
    \/ NodeAnswers(TRUE)
    \/ OnTemplate
    \/ Tick(TRUE, FALSE)
    \/ ReplayEnds("body")
    \/ \E o \in c.inflight : NodeTakes(o) \/ OnOpeningAnswer(o, FALSE)
    \/ Connect

Next ==
    \/ \E r \in Responses : NewResponse(r)
    \/ \E t \in Blocks : MoveTip(t)
    \/ \E i \in DOMAIN wire : OnChainChanged(i) \/ OnRestoreAnswer(i)
    \/ \E b \in c.asks : OnBlock(b) \/ OnBlockError(b)
    \/ \E ok \in BOOLEAN : NodeAnswers(ok)
    \/ OnTemplate
    \/ \E free, late \in BOOLEAN : Tick(free, late)
    \/ \E out \in {"body", "failed"} : ReplayEnds(out)
    \/ \E o \in c.inflight : NodeTakes(o) \/ \E busy \in BOOLEAN : OnOpeningAnswer(o, busy)
    \/ Disconnect
    \/ Connect

(* Each of these is enabled finitely often, so none can keep another out.   *)
Spec == Init /\ [][Next]_vars /\ WF_vars(Progress)

-----------------------------------------------------------------------------
(* Properties *)

(* Everything the node had to say has been heard.                           *)
Quiet == up /\ wire = <<>> /\ c.asks = {} /\ c.starts = <<>>

(* Every draw is the one the node's chain makes: the accepting block is on  *)
(* it and the seed is the first block after it at the delay.                *)
DrawIsSeed ==
    Quiet => \A r \in DOMAIN c.tr : c.tr[r].seed # 0 =>
                /\ c.tr[r].acc = AcceptedBy(r, tip)
                /\ c.tr[r].seed = SeedOf(r, tip)

(* An acceptance on the node's chain is known, unless it happened in a      *)
(* block no connection was told of.                                         *)
AcceptedIsNoted ==
    Quiet => \A r \in DOMAIN c.tr :
                c.tr[r].acc = AcceptedBy(r, tip) \/ r \in unseen

(* "so a restart or a reconnection does not lose an audit in flight"        *)
(* (trace_store.rs): a stored response is known to be accepted, however the *)
(* connection was lost meanwhile.                                           *)
NoAuditLost ==
    Quiet => \A r \in DOMAIN c.tr : c.tr[r].acc = AcceptedBy(r, tip)

(* A draw marked as opened has its opening under way: on the GPU, in        *)
(* flight, or with the node, unless it was given up.                        *)
OpenedIsCovered ==
    up => \A r \in DOMAIN c.tr : LET b == c.tr[r].seed IN
            b # 0 /\ Audited(b) /\ c.tr[r].opened =>
                \/ <<r, b>> \in openings
                \/ \E o \in c.inflight : o.r = r /\ o.seed = b
                \/ c.replay.r = r /\ c.replay.seed = b
                \/ r \in lost

(* The trace table follows the node's chain through reorganisations and     *)
(* reconnections: acceptances, draws and openings are the chain's.          *)
TracesFollowTheChain == DrawIsSeed /\ AcceptedIsNoted /\ OpenedIsCovered

(* Every audit is answered: once the chain rests, the opening of a drawn    *)
(* response is with the node, through reorganisations, replays that fail    *)
(* and reconnections, unless it was given up or its acceptance missed.      *)
AuditsAnswered ==
    \A r \in Responses :
        <>[](LET b == SeedOf(r, tip) IN
             b # 0 /\ Audited(b) =>
                <<r, b>> \in openings \/ r \in lost \cup unseen)

=============================================================================

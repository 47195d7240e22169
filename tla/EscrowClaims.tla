---------------------------- MODULE EscrowClaims ----------------------------
(***************************************************************************)
(* EscrowWatcher of src/escrow.rs against the node it talks to: escrow     *)
(* outputs are tracked from chain blocks, purged when their block leaves   *)
(* the chain, batched into claim transactions, and settled by the node's   *)
(* answers; at every connection the whole state is validated first.        *)
(*                                                                         *)
(* The node and its stream (src/client/grpc.rs, handle_message) are        *)
(* reduced to what reaches the watcher.  A coinbase outpoint stands for its*)
(* block: one escrow output per block.  A claim's txid is the sequence of  *)
(* outpoints it spends, since claims are deterministic.                    *)
(***************************************************************************)
EXTENDS Naturals, Sequences, FiniteSets, SequencesExt, ClaimBatch

CONSTANTS
    Coinbase,          \* escrow outputs of block rewards
    Inference,         \* escrow outputs of AI requests this miner answered
    Bonded,            \* the coinbase outputs locked for the service-bond window
    Ghosts,            \* coinbase outputs of the loaded state whose block never was on the chain
    Unknown,           \* blocks the node cannot return (pruned, or not synced yet)
    Burnable,          \* outputs the node may burn
    Dust,              \* outputs that do not cover the claim fee on their own
    MaxInFlightClaims,
    LegacyWindow,      \* CHALLENGE_WINDOW_BLOCKS plus the margin of 10
    BondedWindow,      \* SERVICE_BOND_CSV_WINDOW_BLOCKS plus the margin of 10
    GateDaa,           \* the score from which coinbases mint bonded escrows
    CapExpiry,         \* CAP_EXPIRY_DAA
    ResponseTimeout,   \* CLAIM_RESPONSE_TIMEOUT_DAA
    OrphanCooldown,    \* ORPHAN_RETRY_COOLDOWN_BLOCKS
    SeqLockCooldown,   \* SEQ_LOCK_RETRY_COOLDOWN_BLOCKS
    UnknownCooldown,   \* UNKNOWN_RETRY_BASE_COOLDOWN_DAA
    MaxUnknownCooldown,\* UNKNOWN_RETRY_MAX_COOLDOWN_DAA
    MaxOrphanRetries,
    ValidationWindow,  \* VALIDATION_WINDOW of grpc.rs
    Rejections,        \* rejections the node may give without a cause modelled here
    MaxDaa,            \* bound on the score
    Lag,               \* how far behind the tip a handled block may be
    MaxReorgs,         \* bound on chain changes
    MaxLost,           \* bound on submit answers that never arrive
    MaxRestarts,       \* bound on reconnections
    MaxInbox           \* bound on unread messages

Outpoints == Coinbase \cup Inference
None == 0

ASSUME OutpointsAssumption ==
    /\ Coinbase \cap Inference = {}
    /\ Ghosts \subseteq Coinbase /\ Bonded \subseteq Coinbase /\ Unknown \subseteq Coinbase
    /\ Burnable \subseteq Outpoints /\ Dust \subseteq Outpoints
    /\ IsFiniteSet(Coinbase)
ASSUME DurationsAssumption ==
    /\ {LegacyWindow, BondedWindow} \subseteq Nat \ {0}
    /\ {CapExpiry, OrphanCooldown, SeqLockCooldown, UnknownCooldown, MaxUnknownCooldown, MaxDaa} \subseteq Nat
ASSUME WindowAssumption == ValidationWindow \in Nat \ {0}
ASSUME RejectionsAssumption == Rejections \subseteq {"seqlock", "other"}

VARIABLES
    entries,              \* EscrowState.entries
    in_flight,            \* EscrowWatcher.in_flight: txid -> submit_daa
    in_flight_outpoints,
    last_daa_score,
    outpoint_set,
    block_index,          \* block -> indices into entries
    validation_pending,
    validation_queue,     \* KeryxdHandler.validation_queue
    chain,                \* node: blocks on the selected chain
    tip,                  \* node: highest score
    spent,                \* node: outputs spent by accepted claims
    burned,               \* node: burned outputs
    accepted,             \* node: claims in the mempool or on the chain
    asked,                \* GetBlock requests the node has not answered
    submitted,            \* claims the node has not answered
    inbox,                \* the stream to the miner
    tracked,              \* blocks whose escrow was taken from the chain
    reorgs, lost, restarts

watcher == <<entries, in_flight, in_flight_outpoints, last_daa_score, outpoint_set, block_index,
             validation_pending, validation_queue, tracked>>
node == <<chain, tip, spent, burned, accepted>>
stream == <<asked, submitted, inbox>>
bounds == <<reorgs, lost, restarts>>
vars == <<watcher, node, stream, bounds>>
-----------------------------------------------------------------------------
(* Entries.                                                                *)

NewEntry(o, daa) ==
    [o |-> o, confirm |-> daa, claimed |-> FALSE, slashed |-> FALSE, dead |-> FALSE, retries |-> 0,
     after |-> None, submits |-> 0, cap |-> 0, capset |-> 0]

Live(e) == ~e.claimed /\ ~e.slashed
WindowOf(o) == IF o \in Bonded THEN BondedWindow ELSE LegacyWindow
CurrentWindow(daa) == IF daa >= GateDaa THEN BondedWindow ELSE LegacyWindow

\* What select_claim_batch reads of an entry.
View(e, daa, flying) ==
    [inference |-> e.o \in Inference, window |-> WindowOf(e.o), cap |-> e.cap, dead |-> e.dead,
     ready |-> /\ Live(e)
               /\ daa >= e.confirm + WindowOf(e.o)
               /\ e.after = None \/ daa >= e.after
               /\ e.o \notin flying]

\* The expiry of repair verdicts at the head of find_claim.
Healed(e, daa) ==
    [e EXCEPT !.cap  = IF @ # 0 /\ daa >= e.capset + CapExpiry THEN 0 ELSE @,
              !.dead = @ /\ ~(e.after = None \/ daa >= e.after + CapExpiry * 2^Smaller(e.retries, 10))]

HalvedCap(n) == IF n \div 2 > 1 THEN n \div 2 ELSE 1

\* Cooldown after an unrecognized rejection, doubling with each one.
Backoff(submits) ==
    Smaller(UnknownCooldown * 2^Smaller(submits, 9), MaxUnknownCooldown)

Capped(e, n, daa) == [e EXCEPT !.cap = HalvedCap(n), !.capset = daa]

\* Faulty variant: an orphaned claim condemns all its members.
RejectedByAssociation(e, msg, n, daa) == [e EXCEPT !.slashed = @ \/ msg.kind = "orphan"]

\* What a rejection of a claim of n outputs does to one of its entries.
Rejected(e, msg, n, daa) ==
    CASE msg.kind = "orphan" /\ n > 1 -> Capped(e, n, daa)
      [] msg.kind = "orphan" /\ n = 1 ->
            IF e.retries + 1 >= MaxOrphanRetries
              THEN [e EXCEPT !.retries = @ + 1, !.dead = FALSE, !.slashed = TRUE]
              ELSE [e EXCEPT !.retries = @ + 1, !.dead = TRUE, !.after = daa + OrphanCooldown]
      [] msg.kind = "seqlock" -> [e EXCEPT !.after = daa + SeqLockCooldown]
      [] msg.kind = "burned" /\ msg.named # {} -> [e EXCEPT !.slashed = @ \/ e.o \in msg.named]
      [] msg.kind = "burned" /\ msg.named = {} ->
            IF n > 1 THEN Capped(e, n, daa) ELSE [e EXCEPT !.slashed = TRUE]
      [] OTHER -> [(IF n > 1 THEN Capped(e, n, daa) ELSE e)
                     EXCEPT !.submits = @ + 1, !.after = daa + Backoff(e.submits + 1)]

\* Where the watcher finds these outpoints: each at the first of its entries.
Found(es, outs) == {SelectInSeq(es, LAMBDA e : e.o = o) : o \in outs}

\* rebuild_indexes.
OutpointsOf(es) == {es[i].o : i \in 1..Len(es)}
IndexOf(es) == [b \in Coinbase |-> {i \in 1..Len(es) : es[i].o = b}]
\* Faulty variant: the entries are left as they are.
SlashNone(es, at) == es
SlashAt(es, at) == [i \in 1..Len(es) |-> IF i \in at /\ Live(es[i]) THEN [es[i] EXCEPT !.slashed = TRUE] ELSE es[i]]

\* compact: the entries still live, in their order.
Kept(es) == {i \in 1..Len(es) : Live(es[i])}
Compacted(es) == [k \in 1..Cardinality(Kept(es)) |-> es[Nth(Kept(es), k)]]
-----------------------------------------------------------------------------
(* Handling a block.                                                       *)

\* expire_in_flight: the claims still waited for at a score.
Awaited(daa) == {t \in DOMAIN in_flight : daa < in_flight[t] + ResponseTimeout}
Spending(claims) == UNION {ToSet(t) : t \in claims}

\* build_claim_tx refuses a batch whose total does not exceed the fee.
Buildable(t) == t # <<>> /\ ~(ToSet(t) \subseteq Dust)

\* find_claim: nothing while claims are at their limit or the state is being validated; otherwise
\* verdicts expire, a batch is chosen, and a claim that can be built is sent.
FindClaim(es, waiting, daa) ==
    LET flying == Spending(waiting)
        open   == Cardinality(waiting) < MaxInFlightClaims /\ validation_pending = {}
        healed == IF open THEN [i \in 1..Len(es) |-> Healed(es[i], daa)] ELSE es
        view   == [i \in 1..Len(es) |-> View(healed[i], daa, flying)]
        batch  == IF open THEN SelectClaimBatch(view, CurrentWindow(daa)) ELSE <<>>
        txid   == [k \in 1..Len(batch) |-> healed[batch[k]].o]
        claims == waiting \cup (IF Buildable(txid) THEN {txid} ELSE {})
    IN  /\ entries' = healed
        /\ in_flight' = [t \in claims |-> IF t \in waiting THEN in_flight[t] ELSE daa]
        /\ in_flight_outpoints' = (in_flight_outpoints \ Spending(DOMAIN in_flight \ waiting)) \cup Spending(claims \ waiting)
        /\ submitted' = submitted \cup (claims \ waiting)

\* handle_block: time-outs, compaction when it is due, red blocks, tracking, then a claim.
\* `new` is the chain block whose coinbase is scanned, if any.
HandleBlock(daa, compacting, reds, new) ==
    LET base    == IF compacting THEN Compacted(entries) ELSE entries
        rebuilt == Len(base) # Len(entries)
        index   == IF rebuilt THEN IndexOf(base) ELSE block_index
        known   == IF rebuilt THEN OutpointsOf(base) ELSE outpoint_set
        slashed == SlashAt(base, UNION {index[b] : b \in reds})
        fresh   == new \ known
        es      == slashed \o SetToSeq({NewEntry(o, daa) : o \in fresh})
    IN  /\ last_daa_score' = daa
        /\ outpoint_set' = known \cup fresh
        /\ block_index' = [b \in Coinbase |-> index[b] \cup (IF b \in fresh THEN {Len(es)} ELSE {})]
        /\ tracked' = tracked \cup new
        /\ FindClaim(es, Awaited(daa), daa)

Scores == {d \in 0..tip : d + Lag >= tip}
-----------------------------------------------------------------------------
(* The messages of the stream.                                             *)

Read == inbox # <<>> /\ inbox' = Tail(inbox)
NextMsg == Head(inbox)
Replies == {"ok", "duplicate", "orphan", "seqlock", "burned", "other"}
Thin(b) == [b |-> b, full |-> FALSE]

\* Faulty variant: nothing asks for the blocks still queued.
PullNothing == UNCHANGED <<validation_queue, asked>>

\* A consumed validation answer pulls the next queued request.
Pull ==
    IF validation_queue = <<>>
      THEN UNCHANGED <<validation_queue, asked>>
      ELSE /\ asked' = asked \cup {Thin(Head(validation_queue))}
           /\ validation_queue' = Tail(validation_queue)

\* BlockAdded: the block is not on the chain yet, but may turn others red.
OnBlockAdded ==
    /\ Read
    /\ NextMsg.kind = "added"
    /\ \E daa \in Scores, compacting \in BOOLEAN : HandleBlock(daa, compacting, NextMsg.reds, {})
    /\ UNCHANGED <<validation_pending, validation_queue, node, asked, bounds>>

\* GetBlockResponse with a block that is not a validation answer: a full block, or a thin one
\* another part of the miner asked for.
OnBlock ==
    /\ Read
    /\ NextMsg.kind = "block"
    /\ NextMsg.full \/ NextMsg.b \notin validation_pending
    /\ \E daa \in Scores, compacting \in BOOLEAN :
         HandleBlock(daa, compacting, {}, IF NextMsg.full /\ NextMsg.on_chain THEN {NextMsg.b} ELSE {})
    /\ UNCHANGED <<validation_pending, validation_queue, node, asked, bounds>>

\* GetBlockResponse, a validation answer: consume_validation_ok, on_block_validated.
OnValidated ==
    /\ Read
    /\ NextMsg.kind = "block"
    /\ ~NextMsg.full
    /\ NextMsg.b \in validation_pending
    /\ validation_pending' = validation_pending \ {NextMsg.b}
    /\ entries' = IF NextMsg.on_chain THEN entries ELSE SlashAt(entries, block_index[NextMsg.b])
    /\ Pull
    /\ UNCHANGED <<in_flight, in_flight_outpoints, last_daa_score, outpoint_set, block_index,
                   tracked, node, submitted, bounds>>

\* GetBlockResponse with an error: on_block_validation_error keeps the entries.
OnBlockError ==
    /\ Read
    /\ NextMsg.kind = "unknown"
    /\ validation_pending' = validation_pending \ {NextMsg.b}
    /\ IF NextMsg.b \in validation_pending THEN Pull ELSE UNCHANGED <<validation_queue, asked>>
    /\ UNCHANGED <<entries, in_flight, in_flight_outpoints, last_daa_score, outpoint_set, block_index,
                   tracked, node, submitted, bounds>>

\* Faulty variant: purged outpoints stay known.
ReleaseNone(at) == {}

\* The outpoints a purge of these entries releases.
Released(at) == {entries[i].o : i \in {j \in at : Live(entries[j])}}

\* VirtualSelectedParentChainChanged: on_chain_blocks_removed, then every added block is fetched.
OnChainChanged ==
    LET at == UNION {block_index[b] : b \in NextMsg.removed}
    IN  /\ Read
        /\ NextMsg.kind = "chain"
        /\ entries' = SlashAt(entries, at)
        /\ outpoint_set' = outpoint_set \ Released(at)
        /\ block_index' = [b \in Coinbase |-> IF b \in NextMsg.removed THEN {} ELSE block_index[b]]
        /\ asked' = asked \cup {[b |-> b, full |-> TRUE] : b \in NextMsg.added}
        /\ UNCHANGED <<in_flight, in_flight_outpoints, last_daa_score, validation_pending, validation_queue,
                       tracked, node, submitted, bounds>>

\* Faulty variant: an orphan counts as already spent.
SettlingOrphans == {"ok", "duplicate", "orphan"}

\* The answers after which a claim is taken for paid.
Settling == {"ok", "duplicate"}

\* SubmitTransactionResponse: on_submit_response settles the claim it names, if it still waits.
OnSubmitResponse ==
    LET t    == NextMsg.txid
        outs == ToSet(t)
        done == NextMsg.kind \in Settling
        Settled(e) == IF done THEN [e EXCEPT !.claimed = TRUE] ELSE Rejected(e, NextMsg, Len(t), last_daa_score)
    IN  /\ Read
        /\ NextMsg.kind \in Replies
        /\ IF t \notin DOMAIN in_flight
             THEN UNCHANGED <<entries, in_flight, in_flight_outpoints>>
             ELSE /\ in_flight' = [u \in DOMAIN in_flight \ {t} |-> in_flight[u]]
                  /\ in_flight_outpoints' = in_flight_outpoints \ outs
                  /\ entries' = [i \in 1..Len(entries) |->
                                    IF i \in Found(entries, outs) THEN Settled(entries[i]) ELSE entries[i]]
        /\ UNCHANGED <<last_daa_score, outpoint_set, block_index, validation_pending, validation_queue,
                       tracked, node, asked, submitted, bounds>>

\* track_inference_escrow, after an AiResponse was submitted.
TrackInference(o) ==
    /\ o \notin outpoint_set
    /\ o \notin spent
    /\ entries' = Append(entries, NewEntry(o, tip))
    /\ outpoint_set' = outpoint_set \cup {o}
    /\ UNCHANGED <<in_flight, in_flight_outpoints, last_daa_score, block_index, validation_pending,
                   validation_queue, tracked, node, stream, bounds>>

\* A new connection: EscrowWatcher::new on the saved entries, GetInfoResponse, start_state_validation.
\* What the node had not answered is gone.
ConnectTo(es) ==
    LET hashes == {es[i].o : i \in Kept(es)} \cap Coinbase
        order  == SetToSeq(hashes)
        first  == IF Len(order) < ValidationWindow THEN Len(order) ELSE ValidationWindow
    IN  /\ in_flight' = [t \in {} |-> 0]
        /\ in_flight_outpoints' = {}
        /\ last_daa_score' = 0
        /\ outpoint_set' = OutpointsOf(es)
        /\ block_index' = IndexOf(es)
        /\ validation_pending' = hashes
        /\ validation_queue' = SubSeq(order, first + 1, Len(order))
        /\ asked' = {Thin(order[k]) : k \in 1..first}

Reconnect ==
    /\ restarts < MaxRestarts
    /\ restarts' = restarts + 1
    /\ ConnectTo(entries)
    /\ inbox' = <<>>
    /\ submitted' = {}
    /\ UNCHANGED <<entries, tracked, node, reorgs, lost>>
-----------------------------------------------------------------------------
(* The node, modelled from what the watcher relies on.                     *)

Spendable == ((chain \cup Inference) \ spent) \ burned

Say(msg) == Len(inbox) < MaxInbox /\ inbox' = Append(inbox, msg)

\* A block is added: the score rises, and blocks off the chain may turn red.
NodeAddsBlock ==
    /\ tip' = IF tip < MaxDaa THEN tip + 1 ELSE tip
    /\ \E reds \in {{}} \cup {{b} : b \in Coinbase \ chain} : Say([kind |-> "added", reds |-> reds])
    /\ UNCHANGED <<watcher, chain, spent, burned, accepted, asked, submitted, bounds>>

\* The selected chain changes: blocks join it, blocks leave it; one whose output is spent is final.
NodeChangesChain(removed, new) ==
    /\ reorgs < MaxReorgs
    /\ reorgs' = reorgs + 1
    /\ removed \subseteq chain \ spent
    /\ new \subseteq Coinbase \ (chain \cup Ghosts)
    /\ removed \cup new # {}
    /\ chain' = (chain \ removed) \cup new
    /\ Say([kind |-> "chain", removed |-> removed, added |-> new])
    /\ UNCHANGED <<watcher, tip, spent, burned, accepted, asked, submitted, lost, restarts>>

\* GetBlock is answered with the node's current verdict on the block.
NodeAnswersBlock(q) ==
    /\ q \in asked
    /\ asked' = asked \ {q}
    /\ Say(IF q.b \in Unknown
             THEN [kind |-> "unknown", b |-> q.b]
             ELSE [kind |-> "block", b |-> q.b, full |-> q.full, on_chain |-> q.b \in chain])
    /\ UNCHANGED <<watcher, node, submitted, bounds>>

\* Another part of the miner asks for the header of a block (the chain rebuild of grpc.rs).
ChainRestoreAsks(b) ==
    /\ Thin(b) \notin asked
    /\ b \in validation_pending
    /\ asked' = asked \cup {Thin(b)}
    /\ UNCHANGED <<watcher, node, submitted, inbox, bounds>>

\* The verdict on a submitted claim.
Verdicts(t) ==
    LET outs == ToSet(t)
        cause == IF t \in accepted THEN {[kind |-> "duplicate", txid |-> t]}
                 ELSE IF outs \cap burned # {}
                   THEN {[kind |-> "burned", txid |-> t, named |-> named] : named \in {{}, outs \cap burned}}
                 ELSE IF ~(outs \subseteq Spendable) THEN {[kind |-> "orphan", txid |-> t]}
                 ELSE {[kind |-> "ok", txid |-> t]}
    IN  cause \cup {[kind |-> k, txid |-> t] : k \in Rejections}

\* The node takes or rejects a claim; the answer may get lost.
NodeAnswersClaim(t) ==
    /\ t \in submitted
    /\ submitted' = submitted \ {t}
    /\ \E v \in Verdicts(t) :
         /\ spent' = IF v.kind = "ok" THEN spent \cup ToSet(t) ELSE spent
         /\ accepted' = IF v.kind = "ok" THEN accepted \cup {t} ELSE accepted
         /\ \/ Say(v) /\ UNCHANGED lost
            \/ lost < MaxLost /\ lost' = lost + 1 /\ UNCHANGED inbox
    /\ UNCHANGED <<watcher, chain, tip, burned, asked, reorgs, restarts>>

NodeBurns(o) ==
    /\ o \in Burnable \ (burned \cup spent)
    /\ burned' = burned \cup {o}
    /\ UNCHANGED <<watcher, chain, tip, spent, accepted, stream, bounds>>
-----------------------------------------------------------------------------
Init ==
    /\ entries = SetToSeq({NewEntry(o, 0) : o \in Ghosts})
    /\ in_flight = [t \in {} |-> 0]
    /\ in_flight_outpoints = {}
    /\ last_daa_score = 0
    /\ outpoint_set = Ghosts
    /\ block_index = IndexOf(entries)
    /\ validation_pending = Ghosts
    /\ LET order == SetToSeq(Ghosts)
           first == IF Len(order) < ValidationWindow THEN Len(order) ELSE ValidationWindow
       IN  /\ validation_queue = SubSeq(order, first + 1, Len(order))
           /\ asked = {Thin(order[k]) : k \in 1..first}
    /\ chain = {}
    /\ tip = 0
    /\ spent = {}
    /\ burned = {}
    /\ accepted = {}
    /\ submitted = {}
    /\ inbox = <<>>
    /\ tracked = {}
    /\ reorgs = 0
    /\ lost = 0
    /\ restarts = 0

WatcherNext ==
    \/ OnBlockAdded
    \/ OnBlock
    \/ OnValidated
    \/ OnBlockError
    \/ OnChainChanged
    \/ OnSubmitResponse
    \/ \E o \in Inference : TrackInference(o)
    \/ Reconnect

NodeNext ==
    \/ NodeAddsBlock
    \/ \E removed, new \in SUBSET Coinbase : NodeChangesChain(removed, new)
    \/ \E q \in asked : NodeAnswersBlock(q)
    \/ \E b \in Coinbase : ChainRestoreAsks(b)
    \/ \E t \in submitted : NodeAnswersClaim(t)
    \/ \E o \in Outpoints : NodeBurns(o)

Next == WatcherNext \/ NodeNext
Spec == Init /\ [][Next]_vars
-----------------------------------------------------------------------------
Entry == [o : Outpoints, confirm : Nat, claimed : BOOLEAN, slashed : BOOLEAN, dead : BOOLEAN,
          retries : Nat, after : Nat, submits : Nat, cap : 0..MaxClaimBatch, capset : Nat]

TypeOK ==
    /\ entries \in Seq(Entry)
    /\ \A t \in DOMAIN in_flight : t \in Seq(Outpoints) /\ in_flight[t] \in 0..MaxDaa
    /\ outpoint_set \subseteq Outpoints
    /\ \A b \in Coinbase : block_index[b] \subseteq 1..Len(entries)
    /\ validation_pending \subseteq Coinbase

\* The O(1) index of in-flight outpoints agrees with the claims in flight through time-outs, late
\* answers and retries, and no output is in two of them: a released output is never still held,
\* and two claims of ours never compete for one.
InFlightExact ==
    /\ in_flight_outpoints = Spending(DOMAIN in_flight)
    /\ \A t, u \in DOMAIN in_flight : t # u => ToSet(t) \cap ToSet(u) = {}
    /\ \A t \in DOMAIN in_flight : Cardinality(ToSet(t)) = Len(t)

\* An outpoint has at most one live entry, through reorganisations, restarts and compaction: it
\* is counted once as pending and never spent twice by one claim.
NoDoubleTracking ==
    \A i, j \in 1..Len(entries) : Live(entries[i]) /\ Live(entries[j]) /\ entries[i].o = entries[j].o => i = j

\* Only an output the node let a claim of ours spend is ever marked claimed.
ClaimedIsSpent == \A i \in 1..Len(entries) : entries[i].claimed => entries[i].o \in spent

\* The books of the claims are right: what is in flight, and what was paid.
ClaimsAreExact == TypeOK /\ InFlightExact /\ ClaimedIsSpent

\* "a valid entry repeatedly batched with a dead one can never be slashed by association": the
\* answers to our claims, in whatever batches and after whatever retries, make the watcher give up
\* an entry only when its output cannot be claimed any more.
SlashedIsLost ==
    [][(inbox # <<>> /\ inbox' = Tail(inbox) /\ NextMsg.kind \in Replies) =>
         \A i \in 1..Len(entries) :
             ~entries[i].slashed /\ entries'[i].slashed => entries[i].o \notin Spendable]_vars

\* Messages still on their way about a block.
News(b) ==
    \/ [b |-> b, full |-> TRUE] \in asked
    \/ \E k \in 1..Len(inbox) : \/ inbox[k].kind = "block" /\ inbox[k].b = b
                                \/ inbox[k].kind = "chain" /\ b \in inbox[k].added \cup inbox[k].removed

\* A live coinbase entry is on the selected chain, unless the node cannot say, has not been asked
\* or answered yet, or its removal is on its way: no claim ships a ghost the watcher could know of.
LiveIsOnChain ==
    \A i \in 1..Len(entries) :
        Live(entries[i]) /\ entries[i].o \in Coinbase \ Unknown =>
            entries[i].o \in chain \cup validation_pending \/ News(entries[i].o)

\* The tracked entries are the chain's: one live entry for an output, and only for one on the chain.
TrackingMatchesChain == LiveIsOnChain /\ NoDoubleTracking

\* "Their outpoints are released so a block re-added later is tracked afresh": once the stream has
\* settled, a spendable output that was taken from the chain has an entry that is not given up.
ReAddedIsTracked ==
    \A b \in tracked \ Unknown :
        b \in Spendable /\ ~News(b) => \E i \in 1..Len(entries) : entries[i].o = b /\ ~entries[i].slashed

\* The answers to a request for a block's header.
Answers(msg, b) ==
    /\ msg.kind \in {"block", "unknown"} /\ msg.b = b
    /\ msg.kind = "block" => ~msg.full

\* A block is being validated.
UnderWay(b) == Thin(b) \in asked \/ \E k \in 1..Len(inbox) : Answers(inbox[k], b)

\* Claiming is off until the state is validated: some request or answer that will bring the
\* validation on is always on its way.
ValidationNeverWedges == validation_pending # {} => \E b \in validation_pending : UnderWay(b)

\* "a blind retry of a claim that actually went through is rejected as a duplicate and marked
\* claimed": an output a claim of ours spent is never given up.
SpentIsNotSlashed == \A i \in 1..Len(entries) : entries[i].slashed => entries[i].o \notin spent
=============================================================================

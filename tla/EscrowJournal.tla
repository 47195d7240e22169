---------------------------- MODULE EscrowJournal ----------------------------
(***************************************************************************)
(* Persistence of the escrow claims (src/escrow.rs): the entries in        *)
(* memory, the journal lines not yet written, the append-only journal file *)
(* and the snapshot file, with writes that fail half way and a process that*)
(* dies at any point.                                                      *)
(*                                                                         *)
(* An entry is abstracted to its version (how many journal lines its       *)
(* outpoint has had) and its stage.  "gone" is an entry compact() dropped: *)
(* absent for the program, and remembered here to compare versions.        *)
(***************************************************************************)
EXTENDS Naturals, Sequences, FiniteSets, SequencesExt

CONSTANTS Outpoints,  \* escrow outpoints ("txid:index")
          MaxSeq,     \* bound on the journal sequence number
          MaxFaults,  \* bound on failed writes and process deaths
          Cuts        \* how an interrupted append may end; see AppendCuts

\* "clean": after a whole line; "frag": inside a line; "line": before the newline of a whole line.
AppendCuts == {"clean", "frag", "line"}
ASSUME CutsAssumption == Cuts \subseteq AppendCuts /\ "clean" \in Cuts
ASSUME BoundsAssumption == IsFiniteSet(Outpoints) /\ MaxSeq \in Nat /\ MaxFaults \in Nat

VARIABLES
    up,           \* the process is running and has loaded its state
    entries,      \* EscrowState.entries, by outpoint
    journal_seq,  \* EscrowWatcher.journal_seq
    pending,      \* EscrowWatcher.journal_pending: lines not yet on disk
    grown,        \* journal_bytes_since_snapshot > 0
    snapshot_due, \* EscrowWatcher.snapshot_due
    snapshot,     \* escrow_state.json: entries and journal_seq
    file,         \* escrow_state.journal: its parseable lines
    tail,         \* how the journal file ends
    acked,        \* acked[o]: version of o covered by the last write that reported success
    log,          \* log[s]: the outpoint and version of the line numbered s
    faults        \* failed writes and process deaths so far

vars == <<up, entries, journal_seq, pending, grown, snapshot_due, snapshot, file, tail,
          acked, log, faults>>
memory == <<entries, journal_seq, pending, grown, snapshot_due>>
disk == <<snapshot, file, tail>>

Stages == {"absent", "live", "done", "gone"}
Entry == [v : 0..MaxSeq, stage : Stages]
Line == [s : 1..MaxSeq, o : Outpoints, e : Entry]

NoEntries == [o \in Outpoints |-> [v |-> 0, stage |-> "absent"]]

Init ==
    /\ up = TRUE
    /\ entries = NoEntries
    /\ journal_seq = 0
    /\ pending = <<>>
    /\ grown = FALSE
    /\ snapshot_due = FALSE
    /\ snapshot = [seq |-> 0, entries |-> NoEntries]
    /\ file = <<>>
    /\ tail = "clean"
    /\ acked = [o \in Outpoints |-> 0]
    /\ log = <<>>
    /\ faults = 0
-----------------------------------------------------------------------------
(* Loading.                                                                *)

\* Faulty variant: stale lines are replayed too.
ReplayStale(st, l) == [seq |-> l.s, entries |-> [st.entries EXCEPT ![l.o] = l.e]]

\* replay_journal, one line: a line not newer than the state is stale, any other upserts its entry.
ReplayLine(st, l) ==
    IF l.s <= st.seq THEN st
    ELSE [seq |-> l.s, entries |-> [st.entries EXCEPT ![l.o] = l.e]]

\* load_state: the snapshot, then the journal over it.
Replayed[n \in 0..Len(file)] == IF n = 0 THEN snapshot ELSE ReplayLine(Replayed[n - 1], file[n])
LoadState == Replayed[Len(file)]
-----------------------------------------------------------------------------
(* Writing.  Each operator gives the disk after a write that stops at a    *)
(* given point.                                                            *)

\* Bytes appended behind an unterminated line join it, and the joined line does not parse.
Appended(lines, n, cut) ==
    LET whole == SubSeq(lines, 1, n)
        half  == IF cut = "line" THEN <<lines[n + 1]>> ELSE <<>>
        rest  == IF tail = "line" THEN Front(file) ELSE file
    IN  CASE tail = "clean"                         -> [file |-> file \o whole \o half, tail |-> cut]
          [] tail # "clean" /\ n > 0                -> [file |-> rest \o Tail(whole) \o half, tail |-> cut]
          [] tail # "clean" /\ n = 0 /\ cut = "clean" -> [file |-> file, tail |-> tail]
          [] OTHER                                  -> [file |-> rest, tail |-> "frag"]

\* The journal after an append that was cut short.
AppendStops(lines) ==
    \E n \in 0..Len(lines), cut \in Cuts :
        /\ n = Len(lines) => cut = "clean"
        /\ LET a == Appended(lines, n, cut) IN file' = a.file /\ tail' = a.tail
        /\ UNCHANGED snapshot

AppendCompletes(lines) ==
    /\ LET a == Appended(lines, Len(lines), "clean") IN file' = a.file /\ tail' = a.tail
    /\ UNCHANGED snapshot

\* Faulty variant: the journal is emptied before the snapshot is in place.
SnapshotAfterTruncate(ents, seq) ==
    \/ UNCHANGED disk
    \/ UNCHANGED snapshot /\ file' = <<>> /\ tail' = "clean"

\* save_state_atomic: the rename installs the whole snapshot or none of it; the journal is emptied after.
SnapshotStops(ents, seq) ==
    /\ snapshot' \in {snapshot, [seq |-> seq, entries |-> ents]}
    /\ UNCHANGED <<file, tail>>

SnapshotCompletes(ents, seq) ==
    /\ snapshot' = [seq |-> seq, entries |-> ents]
    /\ file' = <<>>
    /\ tail' = "clean"

Fault == faults < MaxFaults /\ faults' = faults + 1

Versions(ents) == [o \in Outpoints |-> ents[o].v]

\* write_snapshot and write_journal, returning: on failure the pending lines are kept for the next try.
WriteSnapshot(ents, lines, seq, due) ==
    /\ entries' = ents
    /\ journal_seq' = seq
    /\ \/ /\ SnapshotCompletes(ents, seq)
          /\ pending' = <<>>
          /\ grown' = FALSE
          /\ snapshot_due' = FALSE
          /\ acked' = Versions(ents)
          /\ UNCHANGED faults
       \/ /\ Fault
          /\ SnapshotStops(ents, seq)
          /\ pending' = lines
          /\ snapshot_due' = due
          /\ UNCHANGED <<grown, acked>>

WriteJournal(ents, lines, seq) ==
    /\ entries' = ents
    /\ journal_seq' = seq
    /\ snapshot_due' = FALSE
    /\ \/ /\ AppendCompletes(lines)
          /\ pending' = <<>>
          /\ grown' = TRUE
          /\ acked' = Versions(ents)
          /\ UNCHANGED faults
       \/ /\ Fault
          /\ AppendStops(lines)
          /\ pending' = lines
          /\ UNCHANGED <<grown, acked>>

\* maybe_flush: a due snapshot is always tried; otherwise the clock and the journal size decide.
MaybeFlush(ents, lines, seq, due) ==
    \/ (due \/ grown \/ lines # <<>>) /\ WriteSnapshot(ents, lines, seq, due)
    \/ ~due /\ lines # <<>> /\ WriteJournal(ents, lines, seq)
    \/ /\ ~due
       /\ entries' = ents
       /\ journal_seq' = seq
       /\ pending' = lines
       /\ snapshot_due' = due
       /\ UNCHANGED <<grown, disk, acked, faults>>
-----------------------------------------------------------------------------
(* The handlers.                                                           *)

\* An outpoint not known is tracked; a known one is changed or finished; a finished one comes
\* back only when a reorganisation released its outpoint.
NextStages(o) == IF entries[o].stage = "live" THEN {"live", "done"} ELSE {"live"}

\* The entries after a handler moved the outpoints of `moved` to a new stage.
Moved(ents, moved) ==
    [o \in Outpoints |-> IF o \in DOMAIN moved
                           THEN [v |-> ents[o].v + 1, stage |-> moved[o]]
                           ELSE ents[o]]

\* append_journal_line for each of them, numbered on from the last line.
NewLines(ents, moved) ==
    LET order == SetToSeq(DOMAIN moved)
    IN  [i \in 1..Len(order) |-> [s |-> journal_seq + i, o |-> order[i], e |-> ents[order[i]]]]

\* The choices of a handler: one change for each outpoint it touches.
Changes == UNION {{m \in [O -> {"live", "done"}] : \A o \in O : m[o] \in NextStages(o)}
                  : O \in SUBSET Outpoints}

\* compact drops the done entries.
Compacted == [o \in Outpoints |-> IF entries[o].stage = "done"
                                    THEN [entries[o] EXCEPT !.stage = "gone"]
                                    ELSE entries[o]]

Logged(lines) == log' = log \o lines

\* handle_block, on_submit_response, on_chain_blocks_removed, track_inference_escrow: changes, their
\* lines, then maybe_flush; every COMPACT_EVERY_BLOCKS blocks the done entries go first.
Handle(compacting, moved) ==
    LET base  == IF compacting THEN Compacted ELSE entries
        ents  == Moved(base, moved)
        lines == NewLines(ents, moved)
    IN  /\ up
        /\ journal_seq + Len(lines) <= MaxSeq
        /\ Logged(lines)
        /\ MaybeFlush(ents, pending \o lines, journal_seq + Len(lines),
                      snapshot_due \/ base # entries)
        /\ UNCHANGED up

\* on_block_validated while other answers are awaited: lines, no flush.
PurgeUnflushed(moved) ==
    LET ents  == Moved(entries, moved)
        lines == NewLines(ents, moved)
    IN  /\ up
        /\ DOMAIN moved # {}
        /\ journal_seq + Len(lines) <= MaxSeq
        /\ entries' = ents
        /\ pending' = pending \o lines
        /\ journal_seq' = journal_seq + Len(lines)
        /\ Logged(lines)
        /\ UNCHANGED <<up, grown, snapshot_due, disk, acked, faults>>

\* flush_state, then the watcher is dropped: a reconnect, or a clean stop.
Stop ==
    /\ up
    /\ up' = FALSE
    /\ IF snapshot_due \/ grown \/ pending # <<>>
         THEN WriteSnapshot(entries, pending, journal_seq, snapshot_due)
         ELSE UNCHANGED <<memory, disk, acked, faults>>
    /\ UNCHANGED log

\* The process dies, between two writes or inside one.
Crash ==
    /\ up
    /\ Fault
    /\ up' = FALSE
    /\ \/ UNCHANGED disk
       \/ pending # <<>> /\ AppendStops(pending)
       \/ SnapshotStops(entries, journal_seq)
    /\ UNCHANGED <<memory, acked, log>>

\* EscrowWatcher::new: what is not on disk is lost, and line numbers go on from what was read.
Start ==
    /\ ~up
    /\ up' = TRUE
    /\ entries' = LoadState.entries
    /\ journal_seq' = LoadState.seq
    /\ pending' = <<>>
    /\ grown' = FALSE
    /\ snapshot_due' = FALSE
    /\ log' = SubSeq(log, 1, LoadState.seq)
    /\ UNCHANGED <<disk, acked, faults>>

Next ==
    \/ \E compacting \in BOOLEAN, moved \in Changes : Handle(compacting, moved)
    \/ \E moved \in Changes : PurgeUnflushed(moved)
    \/ Stop
    \/ Crash
    \/ Start

Spec == Init /\ [][Next]_vars
-----------------------------------------------------------------------------
TypeOK ==
    /\ up \in BOOLEAN /\ grown \in BOOLEAN /\ snapshot_due \in BOOLEAN
    /\ entries \in [Outpoints -> Entry]
    /\ journal_seq \in 0..MaxSeq
    /\ pending \in Seq(Line) /\ file \in Seq(Line) /\ log \in Seq(Line)
    /\ snapshot \in [seq : 0..MaxSeq, entries : [Outpoints -> Entry]]
    /\ tail \in AppendCuts
    /\ acked \in [Outpoints -> 0..MaxSeq]
    /\ faults \in 0..MaxFaults

\* The header of escrow.rs: the state is persisted "so claims survive miner restarts".  What a
\* journal or snapshot write reported as saved is in what a restart would read.
SavedSurvives == \A o \in Outpoints : LoadState.entries[o].v >= acked[o]

\* A restart reads the state as it was after some line, without a hole: every outpoint has the
\* version of its last line up to the last line read.
RecoveryIsAPrefix ==
    \A o \in Outpoints :
        LoadState.entries[o].v =
            LET mine == {s \in 1..LoadState.seq : log[s].o = o}
            IN  IF mine = {} THEN 0 ELSE log[Max(mine)].e.v

\* The lines this process will write are newer than every line a restart would read: none of
\* them is taken for a stale line.
NewLinesAreNewer ==
    up => /\ LoadState.seq <= journal_seq
          /\ \A i \in 1..Len(pending) : pending[i].s > LoadState.seq
                 \/ LoadState.entries[pending[i].o].v >= pending[i].e.v

\* A restart goes on where the process stopped: what it reads is the state after some line, and
\* what it will write is newer.
RecoveryIsExact == TypeOK /\ RecoveryIsAPrefix /\ NewLinesAreNewer
=============================================================================

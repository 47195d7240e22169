------------------------ MODULE EscrowJournalProofs -------------------------
(***************************************************************************)
(* What was saved survives, and a restart reads the state as it was after   *)
(* some line: for every set of outpoints and every number of lines, failed   *)
(* writes and process deaths, as long as an append stops between two lines.  *)
(***************************************************************************)
EXTENDS EscrowJournal, FunctionTheorems, FiniteSetTheorems, SequenceTheorems,
        NaturalsInduction, WellFoundedInduction, TLAPS

-----------------------------------------------------------------------------
(* The inductive invariant *)

(* After the first n lines of lg the version of o is v. *)
VersionAt(lg, n, o, v) ==
    \/ v = 0 /\ \A s \in 1..n : lg[s].o # o
    \/ \E s \in 1..n : lg[s].o = o /\ lg[s].e.v = v /\ \A t \in (s + 1)..n : lg[t].o # o

(* The lines are numbered, and the versions of an outpoint grow. *)
LogGrows(lg) ==
    /\ \A s \in 1..Len(lg) : lg[s].s = s /\ lg[s].e.v <= s
    /\ \A s, t \in 1..Len(lg) : s <= t /\ lg[s].o = lg[t].o => lg[s].e.v <= lg[t].e.v

(* The snapshot is the state after its line; every line of the journal file is *)
(* the line of its number, and the one before it is in the snapshot or earlier  *)
(* in the file: a replay meets no hole.                                       *)
DiskFollows(lg, sn, f) ==
    /\ sn.seq <= Len(lg)
    /\ \A o \in Outpoints : VersionAt(lg, sn.seq, o, sn.entries[o].v)
    /\ \A i \in 1..Len(f) : /\ f[i].s <= Len(lg)
                            /\ f[i] = lg[f[i].s]
                            /\ f[i].s <= sn.seq + 1 \/ \E j \in 1..(i - 1) : f[i].s <= f[j].s + 1

(* A restart would read line n. *)
OnDisk(n) == n <= snapshot.seq \/ \E i \in 1..Len(file) : n <= file[i].s

(* What was reported as saved is a line a restart would read. *)
AckedOnDisk(lg) ==
    \A o \in Outpoints :
        acked[o] = 0 \/ \E s \in 1..Len(lg) : OnDisk(s) /\ lg[s].o = o /\ acked[o] <= lg[s].e.v

(* The entries in memory are those after the last line, and the pending lines   *)
(* are the last ones.                                                         *)
MemoryFollows(lg, ents, lines, seq) ==
    /\ seq = Len(lg)
    /\ \A o \in Outpoints : VersionAt(lg, seq, o, ents[o].v)
    /\ Len(lines) <= seq
    /\ \A i \in 1..Len(lines) : lines[i] = lg[seq - Len(lines) + i]

IInv ==
    /\ TypeOK
    /\ tail = "clean"
    /\ LogGrows(log)
    /\ DiskFollows(log, snapshot, file)
    /\ AckedOnDisk(log)
    /\ up => MemoryFollows(log, entries, pending, journal_seq) /\ OnDisk(journal_seq - Len(pending))

-----------------------------------------------------------------------------
(* Replaying *)

\* A set of naturals that is not empty has a least element.
LEMMA LeastNatural ==
    ASSUME NEW S \in SUBSET Nat, S # {}
    PROVE  \E x \in S : \A y \in S : x <= y
  <1>. DEFINE R == {ss \in Nat \X Nat : ss[1] < ss[2]}
  <1>1. IsWellFoundedOn(R, Nat)
    BY NatLessThanWellFounded, Zenon DEF OpToRel
  <1>2. \E x \in S : \A y \in S : <<y, x>> \notin R
    <2>. HIDE DEF R
    <2>. QED
      BY <1>1, WFMin
  <1>3. PICK x \in S : \A y \in S : <<y, x>> \notin R
    BY <1>2
  <1>4. \A y \in S : x <= y
    <2>. SUFFICES ASSUME NEW y \in S PROVE x <= y
      OBVIOUS
    <2>1. ~(y < x)
      BY <1>3
    <2>. QED
      BY <2>1
  <1>. QED
    BY <1>4

\* load_state goes through the file line by line: the recursion of Replayed is defined, since the
\* shortest prefix of the file for which it was not would be one line longer than one for which it is.
LEMMA ReplayIsDefined ==
    ASSUME Len(file) \in Nat
    PROVE  /\ Replayed[0] = snapshot
           /\ \A n \in 1..Len(file) : Replayed[n] = ReplayLine(Replayed[n - 1], file[n])
  <1>. DEFINE Upto(n, f) == f = [i \in 0..n |-> IF i = 0 THEN snapshot ELSE ReplayLine(f[i - 1], file[i])]
              Bad == {n \in 0..Len(file) : ~ \E f : Upto(n, f)}
  <1>1. Bad = {}
    <2>1. SUFFICES ASSUME Bad # {} PROVE FALSE
      OBVIOUS
    <2>2. PICK n \in Bad : \A m \in Bad : n <= m
      <3>1. Bad \in SUBSET Nat
        OBVIOUS
      <3>. HIDE DEF Bad
      <3>. QED
        BY <2>1, <3>1, LeastNatural
    <2>3. n # 0
      <3>1. Upto(0, [i \in 0..0 |-> snapshot])
        OBVIOUS
      <3>. QED
        BY <3>1
    <2>4. n - 1 \in 0..Len(file) /\ n - 1 \notin Bad
      <3>1. n \in 0..Len(file)
        OBVIOUS
      <3>. HIDE DEF Bad
      <3>2. n - 1 \in 0..Len(file) /\ ~(n <= n - 1)
        BY <2>3, <3>1
      <3>. QED
        BY <2>2, <3>2
    <2>5. PICK f : Upto(n - 1, f)
      <3>. HIDE DEF Upto
      <3>. QED
        BY <2>4
    <2>. DEFINE g == [i \in 0..n |-> IF i <= n - 1 THEN f[i] ELSE ReplayLine(f[n - 1], file[n])]
    <2>6. ASSUME NEW i \in 0..n
          PROVE  g[i] = IF i = 0 THEN snapshot ELSE ReplayLine(g[i - 1], file[i])
      <3>1. CASE i = 0
        BY <2>3, <2>4, <2>5, <3>1
      <3>2. CASE i \in 1..(n - 1)
        <4>1. g[i] = f[i] /\ g[i - 1] = f[i - 1]
          BY <2>4, <3>2
        <4>2. f[i] = ReplayLine(f[i - 1], file[i])
          BY <2>4, <2>5, <3>2
        <4>. QED
          BY <3>2, <4>1, <4>2
      <3>3. CASE i = n
        <4>1. g[n] = ReplayLine(f[n - 1], file[n]) /\ g[n - 1] = f[n - 1]
          BY <2>3, <2>4
        <4>. QED
          BY <2>3, <3>3, <4>1
      <3>. QED
        BY <2>4, <3>1, <3>2, <3>3
    <2>7. Upto(n, g)
      BY <2>6
    <2>. QED
      BY <2>7
  <1>2. \E f : Upto(Len(file), f)
    BY <1>1
  <1>3. Upto(Len(file), Replayed)
    BY <1>2 DEF Replayed
  <1>. QED
    BY <1>3

\* A line more: the version of its outpoint is its own, and no other changes.
LEMMA NextVersion ==
    ASSUME NEW lg, NEW n \in Nat, NEW o, NEW v, NEW w,
           VersionAt(lg, n, o, v), w = IF lg[n + 1].o = o THEN lg[n + 1].e.v ELSE v
    PROVE  VersionAt(lg, n + 1, o, w)
  <1>1. CASE lg[n + 1].o = o
    <2>1. n + 1 \in 1..(n + 1) /\ \A t \in (n + 2)..(n + 1) : lg[t].o # o
      OBVIOUS
    <2>. QED
      BY <1>1, <2>1 DEF VersionAt
  <1>2. CASE lg[n + 1].o # o
    <2>1. CASE v = 0 /\ \A s \in 1..n : lg[s].o # o
      BY <1>2, <2>1 DEF VersionAt
    <2>2. CASE \E s \in 1..n : lg[s].o = o /\ lg[s].e.v = v /\ \A t \in (s + 1)..n : lg[t].o # o
      BY <1>2, <2>2 DEF VersionAt
    <2>. QED
      BY <2>1, <2>2 DEF VersionAt
  <1>. QED
    BY <1>1, <1>2

\* What a line of an outpoint says is no newer than its version after any later line.
LEMMA VersionsGrow ==
    ASSUME NEW lg, Len(lg) \in Nat, LogGrows(lg), NEW n \in 0..Len(lg), NEW s \in 1..n, NEW v,
           VersionAt(lg, n, lg[s].o, v)
    PROVE  lg[s].e.v <= v
  <1>1. PICK t \in 1..n : lg[t].o = lg[s].o /\ lg[t].e.v = v /\ \A u \in (t + 1)..n : lg[u].o # lg[s].o
    BY DEF VersionAt
  <1>2. s <= t
    BY <1>1
  <1>3. s \in 1..Len(lg) /\ t \in 1..Len(lg)
    BY <1>1
  <1>. QED
    BY <1>1, <1>2, <1>3 DEF LogGrows

State == [seq : 0..MaxSeq, entries : [Outpoints -> Entry]]

(* The state after the first n lines of the file: the newest of them and the     *)
(* snapshot, and the versions after that line.                                *)
ReadsPrefix(n) ==
    LET st == Replayed[n] IN
    /\ st \in State /\ st.seq <= Len(log)
    /\ snapshot.seq <= st.seq /\ \A i \in 1..n : file[i].s <= st.seq
    /\ st.seq = snapshot.seq \/ \E i \in 1..n : st.seq = file[i].s
    /\ \A o \in Outpoints : VersionAt(log, st.seq, o, st.entries[o].v)

\* replay_journal on one line more: it is stale, or it is the next one.
LEMMA ReadsOneMore ==
    ASSUME TypeOK, DiskFollows(log, snapshot, file), NEW n \in 1..Len(file), ReadsPrefix(n - 1)
    PROVE  ReadsPrefix(n)
  <1>. DEFINE l == file[n]
              st == Replayed[n - 1]
  <1>0. /\ Len(file) \in Nat /\ Len(log) \in Nat /\ l \in Line
        /\ \A i \in 1..Len(file) : file[i] \in Line
    BY DEF TypeOK
  <1>1. /\ st \in State /\ st.seq <= Len(log)
        /\ snapshot.seq <= st.seq /\ \A i \in 1..(n - 1) : file[i].s <= st.seq
        /\ st.seq = snapshot.seq \/ \E i \in 1..(n - 1) : st.seq = file[i].s
        /\ \A o \in Outpoints : VersionAt(log, st.seq, o, st.entries[o].v)
    BY DEF ReadsPrefix
  <1>2. /\ l.s <= Len(log) /\ l = log[l.s]
        /\ l.s <= snapshot.seq + 1 \/ \E j \in 1..(n - 1) : l.s <= file[j].s + 1
    BY DEF DiskFollows
  <1>3. Replayed[n] = ReplayLine(st, l)
    BY <1>0, ReplayIsDefined
  <1>4. /\ l.s \in 1..MaxSeq /\ l.o \in Outpoints /\ l.e \in Entry /\ st.seq \in 0..MaxSeq /\ MaxSeq \in Nat
        /\ st.entries \in [Outpoints -> Entry] /\ snapshot.seq \in 0..MaxSeq
        /\ \A i \in 1..Len(file) : file[i].s \in 1..MaxSeq
    BY <1>0, <1>1, BoundsAssumption DEF Line, State, TypeOK
  <1>. HIDE DEF l, st
  <1>5. CASE l.s <= st.seq
    <2>1. Replayed[n] = st
      BY <1>3, <1>5 DEF ReplayLine
    <2>2. \A i \in 1..n : file[i].s <= st.seq
      BY SMTT(60), <1>0, <1>1, <1>4, <1>5 DEF l
    <2>3. st.seq = snapshot.seq \/ \E i \in 1..n : st.seq = file[i].s
      BY <1>0, <1>1
    <2>. QED
      BY <1>1, <2>1, <2>2, <2>3 DEF ReadsPrefix
  <1>6. CASE ~(l.s <= st.seq)
    <2>1. l.s = st.seq + 1
      <3>. l.s \in Int /\ st.seq \in Int /\ snapshot.seq \in Int /\ snapshot.seq <= st.seq
        BY <1>1, <1>4
      <3>1. CASE l.s <= snapshot.seq + 1
        BY <1>6, <3>1
      <3>2. CASE \E j \in 1..(n - 1) : l.s <= file[j].s + 1
        <4>1. PICK j \in 1..(n - 1) : l.s <= file[j].s + 1
          BY <3>2
        <4>2. file[j].s \in Int /\ file[j].s <= st.seq
          BY <1>0, <1>1, <1>4
        <4>. QED
          BY <1>6, <4>1, <4>2
      <3>. QED
        BY <1>2, <3>1, <3>2
    <2>. DEFINE nx == [seq |-> l.s, entries |-> [st.entries EXCEPT ![l.o] = l.e]]
    <2>2. Replayed[n] = nx
      BY <1>3, <1>6 DEF ReplayLine
    <2>3. nx \in State /\ nx.seq = l.s /\ \A o \in Outpoints : nx.entries[o] = IF o = l.o THEN l.e ELSE st.entries[o]
      BY <1>4 DEF State
    <2>4. ASSUME NEW o \in Outpoints PROVE VersionAt(log, l.s, o, nx.entries[o].v)
      <3>1. VersionAt(log, st.seq, o, st.entries[o].v) /\ st.seq \in Nat
        BY <1>1, <1>4
      <3>2. nx.entries[o].v = IF log[st.seq + 1].o = o THEN log[st.seq + 1].e.v ELSE st.entries[o].v
        BY <1>2, <2>1, <2>3
      <3>. HIDE DEF nx
      <3>3. VersionAt(log, st.seq + 1, o, nx.entries[o].v)
        BY <3>1, <3>2, NextVersion
      <3>. QED
        BY <2>1, <3>3
    <2>. HIDE DEF nx
    <2>5. snapshot.seq <= nx.seq /\ nx.seq <= Len(log)
      BY <1>1, <1>2, <1>4, <2>1, <2>3
    <2>6. \A i \in 1..n : file[i].s <= nx.seq
      <3>1. ASSUME NEW i \in 1..n PROVE file[i].s <= l.s
        <4>1. CASE i = n
          BY <1>4, <4>1 DEF l
        <4>2. CASE i # n
          <5>1. i \in 1..(n - 1) /\ file[i].s \in 1..MaxSeq
            BY <1>0, <1>4, <4>2
          <5>2. file[i].s <= st.seq
            BY <1>1, <5>1
          <5>3. file[i].s \in Int /\ st.seq \in Int
            BY <1>4, <5>1
          <5>. QED
            BY <2>1, <5>2, <5>3
        <4>. QED
          BY <4>1, <4>2
      <3>. QED
        BY <2>3, <3>1
    <2>7. \E i \in 1..n : nx.seq = file[i].s
      BY <1>0, <2>3 DEF l
    <2>. QED
      BY <2>2, <2>3, <2>4, <2>5, <2>6, <2>7 DEF ReadsPrefix
  <1>. QED
    BY <1>5, <1>6

\* A restart reads the state after the newest line on disk.
LEMMA RestartReads ==
    ASSUME TypeOK, DiskFollows(log, snapshot, file)
    PROVE  /\ LoadState \in State /\ LoadState.seq \in 0..Len(log)
           /\ \A n \in Nat : OnDisk(n) <=> n <= LoadState.seq
           /\ \A o \in Outpoints : VersionAt(log, LoadState.seq, o, LoadState.entries[o].v)
  <1>0. Len(file) \in Nat /\ Len(log) \in Nat /\ snapshot \in State
    BY DEF TypeOK, State
  <1>. DEFINE Bad == {n \in 0..Len(file) : ~ReadsPrefix(n)}
  <1>1. ReadsPrefix(0)
    <2>1. Replayed[0] = snapshot
      BY <1>0, ReplayIsDefined
    <2>2. snapshot.seq \in Nat
      BY <1>0 DEF State
    <2>. QED
      BY <1>0, <2>1, <2>2 DEF ReadsPrefix, DiskFollows
  <1>2. Bad = {}
    <2>1. SUFFICES ASSUME Bad # {} PROVE FALSE
      OBVIOUS
    <2>2. PICK n \in Bad : \A m \in Bad : n <= m
      <3>1. Bad \in SUBSET Nat
        OBVIOUS
      <3>. HIDE DEF Bad
      <3>. QED
        BY <2>1, <3>1, LeastNatural
    <2>3. n \in 1..Len(file) /\ n - 1 \in 0..Len(file)
      BY <1>0, <1>1, <2>2
    <2>4. ReadsPrefix(n - 1)
      BY <2>2, <2>3
    <2>5. ReadsPrefix(n)
      BY <2>3, <2>4, ReadsOneMore
    <2>. QED
      BY <2>5
  <1>3. ReadsPrefix(Len(file))
    BY <1>0, <1>2
  <1>. DEFINE st == LoadState
  <1>4. /\ st \in State /\ st.seq <= Len(log)
        /\ snapshot.seq <= st.seq /\ \A i \in 1..Len(file) : file[i].s <= st.seq
        /\ st.seq = snapshot.seq \/ \E i \in 1..Len(file) : st.seq = file[i].s
        /\ \A o \in Outpoints : VersionAt(log, st.seq, o, st.entries[o].v)
    BY <1>3 DEF ReadsPrefix, LoadState
  <1>. HIDE DEF st
  <1>5. st.seq \in Nat /\ snapshot.seq \in Nat /\ \A i \in 1..Len(file) : file[i].s \in Nat
    <2>1. \A i \in 1..Len(file) : file[i] \in Line
      BY DEF TypeOK
    <2>2. \A x \in Line : x.s \in Nat
      BY BoundsAssumption DEF Line
    <2>3. \A x \in State : x.seq \in Nat
      BY BoundsAssumption DEF State
    <2>. QED
      BY <1>0, <1>4, <2>1, <2>2, <2>3
  <1>6. ASSUME NEW n \in Nat PROVE OnDisk(n) <=> n <= st.seq
    BY <1>4, <1>5 DEF OnDisk
  <1>. QED
    BY <1>0, <1>4, <1>5, <1>6 DEF st

-----------------------------------------------------------------------------
(* Writing *)

(* What a handler leaves to be saved: the state after the lines so far, of which  *)
(* those on disk and those pending leave out none.                             *)
Ready(lg, ents, lines, seq) ==
    /\ lg \in Seq(Line) /\ lines \in Seq(Line) /\ ents \in [Outpoints -> Entry] /\ seq \in 0..MaxSeq
    /\ LogGrows(lg) /\ DiskFollows(lg, snapshot, file) /\ AckedOnDisk(lg)
    /\ MemoryFollows(lg, ents, lines, seq) /\ OnDisk(seq - Len(lines))

LineNumbers == \A f \in Seq(Line) : Len(f) \in Nat /\ \A i \in 1..Len(f) : f[i].s \in 1..MaxSeq /\ f[i].e.v \in 0..MaxSeq

\* Lines carry numbers.
LEMMA LinesAreNumbered == LineNumbers /\ MaxSeq \in Nat /\ (TypeOK => snapshot.seq \in 0..MaxSeq)
  <1>1. \A l \in Line : l.s \in 1..MaxSeq /\ l.e.v \in 0..MaxSeq
    BY DEF Line, Entry
  <1>2. \A f \in Seq(Line) : Len(f) \in Nat /\ \A i \in 1..Len(f) : f[i] \in Line
    OBVIOUS
  <1>. QED
    BY <1>1, <1>2, BoundsAssumption DEF TypeOK, LineNumbers

\* write_journal, up to its n-th line: the file goes on without a hole, and nothing is lost from it.
LEMMA AppendFollows ==
    ASSUME TypeOK, NEW lg, NEW ents, NEW lines, NEW seq, Ready(lg, ents, lines, seq), NEW n \in 0..Len(lines),
           file' = file \o SubSeq(lines, 1, n), snapshot' = snapshot
    PROVE  /\ file' \in Seq(Line) /\ DiskFollows(lg, snapshot', file')
           /\ \A m \in Nat : OnDisk(m) => OnDisk(m)'
           /\ n = Len(lines) /\ n # 0 => OnDisk(seq)'
  <1>. DEFINE k == seq - Len(lines)
  <1>0. /\ file \in Seq(Line) /\ lines \in Seq(Line) /\ lg \in Seq(Line) /\ Len(file) \in Nat /\ Len(lines) \in Nat
        /\ seq = Len(lg) /\ Len(lines) <= seq /\ seq \in Nat /\ k \in Nat /\ OnDisk(k)
        /\ \A i \in 1..Len(lines) : lines[i] = lg[k + i]
    <2>1. file \in Seq(Line) /\ lines \in Seq(Line) /\ lg \in Seq(Line) /\ OnDisk(k)
      BY DEF TypeOK, Ready
    <2>2. seq = Len(lg) /\ Len(lines) <= seq /\ \A i \in 1..Len(lines) : lines[i] = lg[k + i]
      BY DEF Ready, MemoryFollows
    <2>. QED
      BY <2>1, <2>2
  <1>1. n \in Nat /\ n <= Len(lines)
    BY <1>0
  <1>. DEFINE add == SubSeq(lines, 1, n)
  <1>2. add \in Seq(Line) /\ Len(add) = n /\ \A i \in 1..n : add[i] = lines[i]
    BY <1>0, <1>1
  <1>. HIDE DEF add
  <1>3. /\ file' \in Seq(Line) /\ Len(file') = Len(file) + n
        /\ \A i \in 1..Len(file) : file'[i] = file[i]
        /\ \A i \in 1..n : file'[Len(file) + i] = add[i]
    <2>1. file' = file \o add
      BY DEF add
    <2>. QED
      BY <1>0, <1>1, <1>2, <2>1
  <1>4. \A i \in 1..n : file'[Len(file) + i] = lg[k + i] /\ lg[k + i].s = k + i /\ k + i <= Len(lg)
    <2>1. \A s \in 1..Len(lg) : lg[s].s = s
      BY DEF Ready, LogGrows
    <2>2. \A i \in 1..n : k + i \in 1..Len(lg) /\ k + i <= Len(lg) /\ i \in 1..Len(lines)
      BY <1>0, <1>1
    <2>. QED
      BY <1>0, <1>1, <1>2, <1>3, <2>1, <2>2
  <1>5. snapshot.seq \in Nat /\ \A i \in 1..Len(file) : file[i].s \in Nat
    <2>1. \A i \in 1..Len(file) : file[i].s \in 1..MaxSeq
      BY <1>0, LinesAreNumbered DEF LineNumbers
    <2>2. snapshot.seq \in 0..MaxSeq /\ MaxSeq \in Nat
      BY LinesAreNumbered
    <2>. QED
      BY <2>1, <2>2
  <1>51. k \in Nat /\ seq \in Nat /\ seq = Len(lg)
    BY <1>0
  <1>. HIDE DEF k
  <1>6. DiskFollows(lg, snapshot, file')
    <2>1. DiskFollows(lg, snapshot, file)
      BY DEF Ready
    <2>2. ASSUME NEW i \in 1..Len(file')
          PROVE  /\ file'[i].s <= Len(lg)
                 /\ file'[i] = lg[file'[i].s]
                 /\ file'[i].s <= snapshot.seq + 1 \/ \E j \in 1..(i - 1) : file'[i].s <= file'[j].s + 1
      <3>1. CASE i \in 1..Len(file)
        <4>1. file'[i] = file[i] /\ file[i].s <= Len(lg) /\ file[i] = lg[file[i].s]
          BY <1>3, <2>1, <3>1 DEF DiskFollows
        <4>2. CASE file[i].s <= snapshot.seq + 1
          BY <4>1, <4>2
        <4>3. CASE \E j \in 1..(i - 1) : file[i].s <= file[j].s + 1
          <5>1. PICK j \in 1..(i - 1) : file[i].s <= file[j].s + 1
            BY <4>3
          <5>2. file'[j] = file[j]
            BY <1>0, <1>3, <3>1, <5>1
          <5>. QED
            BY <4>1, <5>1, <5>2
        <4>. QED
          BY <2>1, <3>1, <4>2, <4>3 DEF DiskFollows
      <3>2. CASE i \notin 1..Len(file)
        <4>1. PICK x \in 1..n : i = Len(file) + x
          <5>1. i - Len(file) \in 1..n /\ i = Len(file) + (i - Len(file))
            BY <1>0, <1>1, <1>3, <3>2
          <5>. QED
            BY <5>1
        <4>2. file'[i] = lg[k + x] /\ file'[i].s = k + x /\ file'[i] = lg[file'[i].s] /\ file'[i].s <= Len(lg)
          BY SMTT(60), <1>4, <4>1
        <4>3. CASE x = 1
          <5>1. CASE k <= snapshot.seq
            <6>1. file'[i].s <= snapshot.seq + 1
              BY <1>5, <1>51, <4>2, <4>3, <5>1
            <6>. QED
              BY <4>2, <6>1
          <5>2. CASE \E j \in 1..Len(file) : k <= file[j].s
            <6>1. PICK j \in 1..Len(file) : k <= file[j].s
              BY <5>2
            <6>2. j \in 1..(i - 1) /\ file'[j] = file[j] /\ file[j].s \in Nat
              BY <1>0, <1>3, <1>5, <4>1
            <6>3. file'[i].s <= file'[j].s + 1
              <7>1. k + 1 <= file[j].s + 1
                BY <1>51, <6>1, <6>2
              <7>. QED
                BY <4>2, <4>3, <6>2, <7>1
            <6>. QED
              BY <4>2, <6>2, <6>3
          <5>. QED
            BY <1>0, <4>2, <5>1, <5>2 DEF OnDisk
        <4>4. CASE x # 1
          <5>1. x - 1 \in 1..n /\ i - 1 = Len(file) + (x - 1) /\ i - 1 \in 1..(i - 1)
            BY <1>0, <1>1, <4>1, <4>4
          <5>2. file'[i - 1].s = k + (x - 1)
            BY <1>4, <5>1
          <5>3. file'[i].s <= file'[i - 1].s + 1
            <6>1. x \in Nat /\ k + x <= k + (x - 1) + 1
              BY <1>1, <1>51, <4>1
            <6>. QED
              BY <4>2, <5>2, <6>1
          <5>. QED
            BY <4>2, <5>1, <5>3
        <4>. QED
          BY <4>3, <4>4
      <3>. QED
        BY <3>1, <3>2
    <2>. QED
      BY <2>1, <2>2 DEF DiskFollows
  <1>7. ASSUME NEW m \in Nat, OnDisk(m) PROVE OnDisk(m)'
    <2>1. CASE m <= snapshot.seq
      BY <2>1 DEF OnDisk
    <2>2. CASE \E i \in 1..Len(file) : m <= file[i].s
      <3>1. PICK i \in 1..Len(file) : m <= file[i].s
        BY <2>2
      <3>2. i \in 1..Len(file') /\ file'[i] = file[i]
        BY <1>0, <1>1, <1>3
      <3>. QED
        BY <3>1, <3>2 DEF OnDisk
    <2>. QED
      BY <1>7, <2>1, <2>2 DEF OnDisk
  <1>8. ASSUME n = Len(lines), n # 0 PROVE OnDisk(seq)'
    <2>1. n \in 1..n /\ Len(file) + n \in 1..Len(file') /\ k + n = seq
      BY <1>0, <1>1, <1>3, <1>8 DEF k
    <2>2. file'[Len(file) + n].s = seq
      BY <1>4, <2>1
    <2>3. seq <= file'[Len(file) + n].s
      <3>1. seq <= seq
        BY <1>51
      <3>. QED
        BY <2>2, <3>1
    <2>. QED
      BY <2>1, <2>3 DEF OnDisk
  <1>. QED
    BY <1>3, <1>6, <1>7, <1>8

\* save_state_atomic: the snapshot is the state after the last line, with the journal or without it.
LEMMA SnapshotFollows ==
    ASSUME TypeOK, NEW lg, NEW ents, NEW lines, NEW seq, Ready(lg, ents, lines, seq),
           snapshot' = [seq |-> seq, entries |-> ents], file' \in {file, <<>>}
    PROVE  /\ snapshot' \in State /\ file' \in Seq(Line) /\ DiskFollows(lg, snapshot', file')
           /\ \A m \in Nat : OnDisk(m) => OnDisk(m)'
           /\ OnDisk(seq)'
  <1>0. /\ snapshot'.seq = seq /\ snapshot'.entries = ents /\ seq \in 0..MaxSeq /\ seq = Len(lg)
        /\ ents \in [Outpoints -> Entry] /\ MaxSeq \in Nat /\ file \in Seq(Line)
        /\ \A o \in Outpoints : VersionAt(lg, seq, o, ents[o].v)
    BY LinesAreNumbered DEF Ready, MemoryFollows, TypeOK
  <1>1. snapshot' \in State
    BY <1>0 DEF State
  <1>2. snapshot.seq \in Nat /\ \A i \in 1..Len(file) : file[i].s \in Nat
    BY <1>0, LinesAreNumbered DEF LineNumbers
  <1>3. /\ snapshot.seq <= seq
        /\ \A i \in 1..Len(file) : file[i].s <= seq /\ file[i] = lg[file[i].s]
    BY <1>0 DEF Ready, DiskFollows
  <1>4. \A i \in 1..Len(file') : file'[i].s <= seq /\ file'[i] = lg[file'[i].s] /\ file'[i].s <= seq + 1
    BY <1>0, <1>2, <1>3
  <1>5. DiskFollows(lg, snapshot', file')
    BY <1>0, <1>4 DEF DiskFollows
  <1>6. \A m \in Nat : OnDisk(m) => OnDisk(m)'
    <2>1. ASSUME NEW m \in Nat, OnDisk(m) PROVE m <= seq
      BY <1>0, <1>2, <1>3, <2>1 DEF OnDisk
    <2>. QED
      BY <1>0, <2>1 DEF OnDisk
  <1>7. OnDisk(seq)'
    BY <1>0 DEF OnDisk
  <1>8. file' \in Seq(Line)
    <2>1. <<>> \in Seq(Line)
      OBVIOUS
    <2>. QED
      BY <1>0, <2>1
  <1>. QED
    BY <1>1, <1>5, <1>6, <1>7, <1>8

\* An append behind a whole line, of whole lines.
LEMMA AppendsWholeLines ==
    ASSUME Cuts = {"clean"}, TypeOK, tail = "clean", NEW lines \in Seq(Line)
    PROVE  /\ AppendStops(lines) => \E n \in 0..Len(lines) : /\ file' = file \o SubSeq(lines, 1, n)
                                                             /\ tail' = "clean" /\ snapshot' = snapshot
           /\ AppendCompletes(lines) => /\ file' = file \o SubSeq(lines, 1, Len(lines))
                                        /\ tail' = "clean" /\ snapshot' = snapshot
  <1>1. ASSUME NEW n \in 0..Len(lines)
        PROVE  Appended(lines, n, "clean") = [file |-> file \o SubSeq(lines, 1, n), tail |-> "clean"]
    <2>1. file \in Seq(Line) /\ SubSeq(lines, 1, n) \in Seq(Line)
      BY DEF TypeOK
    <2>2. file \o SubSeq(lines, 1, n) \o <<>> = file \o SubSeq(lines, 1, n)
      BY <2>1
    <2>. QED
      BY <2>2 DEF Appended
  <1>2. Len(lines) \in 0..Len(lines)
    OBVIOUS
  <1>3. ASSUME AppendStops(lines)
        PROVE  \E n \in 0..Len(lines) : /\ file' = file \o SubSeq(lines, 1, n)
                                        /\ tail' = "clean" /\ snapshot' = snapshot
    <2>1. PICK n \in 0..Len(lines), cut \in Cuts :
             LET a == Appended(lines, n, cut) IN file' = a.file /\ tail' = a.tail
      BY <1>3 DEF AppendStops
    <2>2. Appended(lines, n, cut) = [file |-> file \o SubSeq(lines, 1, n), tail |-> "clean"]
      BY <1>1
    <2>3. file' = file \o SubSeq(lines, 1, n) /\ tail' = "clean"
      BY <2>1, <2>2
    <2>4. snapshot' = snapshot
      BY <1>3 DEF AppendStops
    <2>. QED
      BY <2>3, <2>4
  <1>4. ASSUME AppendCompletes(lines)
        PROVE  file' = file \o SubSeq(lines, 1, Len(lines)) /\ tail' = "clean" /\ snapshot' = snapshot
    <2>1. LET a == Appended(lines, Len(lines), "clean") IN file' = a.file /\ tail' = a.tail
      BY <1>4 DEF AppendCompletes
    <2>2. Appended(lines, Len(lines), "clean") = [file |-> file \o SubSeq(lines, 1, Len(lines)), tail |-> "clean"]
      BY <1>1, <1>2
    <2>3. snapshot' = snapshot
      BY <1>4 DEF AppendCompletes
    <2>. QED
      BY <2>1, <2>2, <2>3
  <1>. QED
    BY <1>3, <1>4

\* A write that returned, one way or the other, keeps the invariant: what failed stays pending, and
\* what succeeded is on disk up to the last line.
LEMMA SaveKeeps ==
    ASSUME TypeOK, NEW lg, NEW ents, NEW lines, NEW seq, Ready(lg, ents, lines, seq),
           log' = lg, entries' = ents, journal_seq' = seq,
           up' \in BOOLEAN, grown' \in BOOLEAN, snapshot_due' \in BOOLEAN, faults' \in 0..MaxFaults,
           snapshot' \in State, file' \in Seq(Line), tail' = "clean", DiskFollows(lg, snapshot', file'),
           \A m \in Nat : OnDisk(m) => OnDisk(m)',
           \/ pending' = lines /\ acked' = acked
           \/ pending' = <<>> /\ acked' = Versions(ents) /\ OnDisk(seq)'
    PROVE  IInv'
  <1>0. /\ lg \in Seq(Line) /\ lines \in Seq(Line) /\ ents \in [Outpoints -> Entry] /\ seq \in 0..MaxSeq
        /\ LogGrows(lg) /\ AckedOnDisk(lg) /\ MemoryFollows(lg, ents, lines, seq) /\ OnDisk(seq - Len(lines))
        /\ acked \in [Outpoints -> 0..MaxSeq] /\ MaxSeq \in Nat
    BY BoundsAssumption DEF Ready, TypeOK
  <1>1. /\ seq = Len(lg) /\ seq \in Nat /\ Len(lines) \in Nat /\ Len(lines) <= seq /\ seq - Len(lines) \in Nat
        /\ \A o \in Outpoints : VersionAt(lg, seq, o, ents[o].v)
    BY <1>0 DEF MemoryFollows
  <1>2. \A o \in Outpoints : ents[o].v \in 0..MaxSeq
    BY <1>0 DEF Entry
  <1>3. CASE pending' = lines /\ acked' = acked
    <2>1. TypeOK'
      BY <1>0, <1>3 DEF TypeOK, State, AppendCuts
    <2>2. AckedOnDisk(lg)'
      <3>. SUFFICES ASSUME NEW o \in Outpoints
                    PROVE  acked'[o] = 0 \/ \E s \in 1..Len(lg) : OnDisk(s)' /\ lg[s].o = o /\ acked'[o] <= lg[s].e.v
        BY DEF AckedOnDisk
      <3>1. acked[o] = 0 \/ \E s \in 1..Len(lg) : OnDisk(s) /\ lg[s].o = o /\ acked[o] <= lg[s].e.v
        BY <1>0 DEF AckedOnDisk
      <3>2. \A s \in 1..Len(lg) : s \in Nat
        OBVIOUS
      <3>. QED
        BY <1>3, <3>1, <3>2
    <2>3. MemoryFollows(lg, ents, pending', seq) /\ OnDisk(seq - Len(lines))'
      BY <1>0, <1>1, <1>3
    <2>4. OnDisk(journal_seq - Len(pending))'
      BY <1>3, <2>3 DEF OnDisk
    <2>. QED
      BY <1>0, <2>1, <2>2, <2>3, <2>4 DEF IInv
  <1>4. CASE pending' = <<>> /\ acked' = Versions(ents) /\ OnDisk(seq)'
    <2>0. <<>> \in Seq(Line) /\ Len(<<>>) = 0
      OBVIOUS
    <2>1. TypeOK'
      <3>1. acked' \in [Outpoints -> 0..MaxSeq]
        BY <1>2, <1>4 DEF Versions
      <3>2. pending' \in Seq(Line)
        BY <1>4, <2>0
      <3>. QED
        BY <1>0, <3>1, <3>2 DEF TypeOK, State, AppendCuts
    <2>2. AckedOnDisk(lg)'
      <3>. SUFFICES ASSUME NEW o \in Outpoints
                    PROVE  acked'[o] = 0 \/ \E s \in 1..Len(lg) : OnDisk(s)' /\ lg[s].o = o /\ acked'[o] <= lg[s].e.v
        BY DEF AckedOnDisk
      <3>1. acked'[o] = ents[o].v /\ acked'[o] \in Nat
        BY <1>0, <1>2, <1>4 DEF Versions
      <3>2. CASE \E s \in 1..seq : lg[s].o = o /\ lg[s].e.v = ents[o].v
        <4>1. PICK s \in 1..seq : lg[s].o = o /\ lg[s].e.v = ents[o].v
          BY <3>2
        <4>2. OnDisk(s)'
          <5>1. snapshot'.seq \in Nat /\ \A i \in 1..Len(file') : file'[i].s \in Nat
            <6>1. \A i \in 1..Len(file') : file'[i].s \in 1..MaxSeq
              BY LinesAreNumbered DEF LineNumbers
            <6>2. snapshot'.seq \in 0..MaxSeq
              BY DEF State
            <6>. QED
              BY SMTT(60), <1>0, <6>1, <6>2
          <5>2. s \in Nat /\ s <= seq
            BY <1>1
          <5>3. CASE seq <= snapshot'.seq
            BY <1>1, <5>1, <5>2, <5>3 DEF OnDisk
          <5>4. CASE \E i \in 1..Len(file') : seq <= file'[i].s
            BY <1>1, <5>1, <5>2, <5>4 DEF OnDisk
          <5>. QED
            BY <1>4, <5>3, <5>4 DEF OnDisk
        <4>. QED
          BY <1>1, <3>1, <4>1, <4>2
      <3>3. CASE ~ \E s \in 1..seq : lg[s].o = o /\ lg[s].e.v = ents[o].v
        BY <1>1, <3>1, <3>3 DEF VersionAt
      <3>. QED
        BY <3>2, <3>3
    <2>3. MemoryFollows(lg, ents, pending', seq)
      BY <1>1, <1>4, <2>0 DEF MemoryFollows
    <2>4. OnDisk(journal_seq - Len(pending))'
      <3>1. journal_seq' - Len(pending') = seq
        BY <1>1, <1>4, <2>0
      <3>. QED
        BY <1>4, <3>1 DEF OnDisk
    <2>. QED
      BY <1>0, <2>1, <2>2, <2>3, <2>4 DEF IInv
  <1>. QED
    BY <1>3, <1>4

\* write_snapshot keeps the invariant, whether it succeeds, fails before the rename or after it.
LEMMA WriteSnapshotKeeps ==
    ASSUME TypeOK, tail = "clean", NEW lg, NEW ents, NEW lines, NEW seq, Ready(lg, ents, lines, seq),
           NEW due \in BOOLEAN, WriteSnapshot(ents, lines, seq, due), log' = lg, up' \in BOOLEAN
    PROVE  IInv'
  <1>0. /\ entries' = ents /\ journal_seq' = seq /\ faults \in 0..MaxFaults /\ MaxFaults \in Nat
        /\ grown \in BOOLEAN /\ snapshot \in State /\ file \in Seq(Line) /\ DiskFollows(lg, snapshot, file)
    BY BoundsAssumption DEF WriteSnapshot, TypeOK, State, Ready
  <1>1. CASE /\ SnapshotCompletes(ents, seq) /\ pending' = <<>> /\ grown' = FALSE /\ snapshot_due' = FALSE
             /\ acked' = Versions(ents) /\ UNCHANGED faults
    <2>1. snapshot' = [seq |-> seq, entries |-> ents] /\ file' = <<>> /\ tail' = "clean"
      BY <1>1 DEF SnapshotCompletes
    <2>2. grown' \in BOOLEAN /\ snapshot_due' \in BOOLEAN /\ faults' \in 0..MaxFaults
      BY <1>0, <1>1
    <2>3. /\ snapshot' \in State /\ file' \in Seq(Line) /\ DiskFollows(lg, snapshot', file')
          /\ \A m \in Nat : OnDisk(m) => OnDisk(m)'
          /\ OnDisk(seq)'
      BY <2>1, SnapshotFollows
    <2>. QED
      BY <1>0, <1>1, <2>1, <2>2, <2>3, SaveKeeps
  <1>2. CASE /\ Fault /\ SnapshotStops(ents, seq) /\ pending' = lines /\ snapshot_due' = due
             /\ UNCHANGED <<grown, acked>>
    <2>1. snapshot' \in {snapshot, [seq |-> seq, entries |-> ents]} /\ file' = file /\ tail' = "clean"
      BY <1>2 DEF SnapshotStops
    <2>2. grown' \in BOOLEAN /\ snapshot_due' \in BOOLEAN /\ faults' \in 0..MaxFaults
      BY <1>0, <1>2 DEF Fault
    <2>3. /\ snapshot' \in State /\ file' \in Seq(Line) /\ DiskFollows(lg, snapshot', file')
          /\ \A m \in Nat : OnDisk(m) => OnDisk(m)'
      <3>1. CASE snapshot' = snapshot
        BY <1>0, <2>1, <3>1 DEF OnDisk
      <3>2. CASE snapshot' = [seq |-> seq, entries |-> ents]
        BY <2>1, <3>2, SnapshotFollows
      <3>. QED
        BY <2>1, <3>1, <3>2
    <2>. QED
      BY <1>0, <1>2, <2>1, <2>2, <2>3, SaveKeeps
  <1>. QED
    BY <1>1, <1>2 DEF WriteSnapshot

\* write_journal keeps the invariant, whether it succeeds or stops after some of its lines.
LEMMA WriteJournalKeeps ==
    ASSUME Cuts = {"clean"}, TypeOK, tail = "clean", NEW lg, NEW ents, NEW lines, NEW seq,
           Ready(lg, ents, lines, seq), lines # <<>>, WriteJournal(ents, lines, seq), log' = lg, up' \in BOOLEAN
    PROVE  IInv'
  <1>0. /\ entries' = ents /\ journal_seq' = seq /\ snapshot_due' = FALSE /\ faults \in 0..MaxFaults
        /\ MaxFaults \in Nat /\ grown \in BOOLEAN /\ snapshot \in State /\ lines \in Seq(Line)
    BY BoundsAssumption DEF WriteJournal, TypeOK, State, Ready
  <1>1. CASE /\ AppendCompletes(lines) /\ pending' = <<>> /\ grown' = TRUE
             /\ acked' = Versions(ents) /\ UNCHANGED faults
    <2>1. file' = file \o SubSeq(lines, 1, Len(lines)) /\ tail' = "clean" /\ snapshot' = snapshot
      BY <1>0, <1>1, AppendsWholeLines
    <2>2. grown' \in BOOLEAN /\ snapshot_due' \in BOOLEAN /\ faults' \in 0..MaxFaults /\ snapshot' \in State
      BY <1>0, <1>1, <2>1
    <2>3. Len(lines) \in 0..Len(lines) /\ Len(lines) # 0
      BY <1>0
    <2>4. /\ file' \in Seq(Line) /\ DiskFollows(lg, snapshot', file')
          /\ \A m \in Nat : OnDisk(m) => OnDisk(m)'
          /\ OnDisk(seq)'
      BY <2>1, <2>3, AppendFollows
    <2>. QED
      BY <1>0, <1>1, <2>1, <2>2, <2>4, SaveKeeps
  <1>2. CASE /\ Fault /\ AppendStops(lines) /\ pending' = lines /\ UNCHANGED <<grown, acked>>
    <2>1. PICK n \in 0..Len(lines) : file' = file \o SubSeq(lines, 1, n) /\ tail' = "clean" /\ snapshot' = snapshot
      BY <1>0, <1>2, AppendsWholeLines
    <2>2. grown' \in BOOLEAN /\ snapshot_due' \in BOOLEAN /\ faults' \in 0..MaxFaults /\ snapshot' \in State
      <3>1. faults' \in 0..MaxFaults
        BY <1>0, <1>2 DEF Fault
      <3>. QED
        BY <1>0, <1>2, <2>1, <3>1
    <2>3. /\ file' \in Seq(Line) /\ DiskFollows(lg, snapshot', file')
          /\ \A m \in Nat : OnDisk(m) => OnDisk(m)'
      BY <2>1, AppendFollows
    <2>. QED
      BY <1>0, <1>2, <2>1, <2>2, <2>3, SaveKeeps
  <1>. QED
    BY <1>1, <1>2 DEF WriteJournal

\* maybe_flush keeps the invariant.
LEMMA MaybeFlushKeeps ==
    ASSUME Cuts = {"clean"}, TypeOK, tail = "clean", NEW lg, NEW ents, NEW lines, NEW seq,
           Ready(lg, ents, lines, seq), NEW due \in BOOLEAN, MaybeFlush(ents, lines, seq, due), log' = lg,
           up' \in BOOLEAN
    PROVE  IInv'
  <1>1. CASE WriteSnapshot(ents, lines, seq, due)
    BY <1>1, WriteSnapshotKeeps
  <1>2. CASE lines # <<>> /\ WriteJournal(ents, lines, seq)
    BY <1>2, WriteJournalKeeps
  <1>3. CASE /\ entries' = ents /\ journal_seq' = seq /\ pending' = lines /\ snapshot_due' = due
             /\ UNCHANGED <<grown, disk, acked, faults>>
    <2>1. UNCHANGED <<snapshot, file, tail, grown, acked, faults>>
      BY <1>3 DEF disk
    <2>2. /\ snapshot' \in State /\ file' \in Seq(Line) /\ grown' \in BOOLEAN /\ snapshot_due' \in BOOLEAN
          /\ faults' \in 0..MaxFaults /\ tail' = "clean"
      BY <1>3, <2>1 DEF TypeOK, State
    <2>3. DiskFollows(lg, snapshot', file') /\ \A m \in Nat : OnDisk(m) => OnDisk(m)'
      BY <2>1 DEF Ready, OnDisk
    <2>. QED
      BY <1>3, <2>1, <2>2, <2>3, SaveKeeps
  <1>. QED
    BY <1>1, <1>2, <1>3 DEF MaybeFlush

-----------------------------------------------------------------------------
(* The handlers *)

\* The versions after n lines depend on these lines only.
LEMMA VersionAgrees ==
    ASSUME NEW lg, NEW lh, NEW n \in Nat, \A i \in 1..n : lh[i] = lg[i], NEW o, NEW v, VersionAt(lg, n, o, v)
    PROVE  VersionAt(lh, n, o, v)
  <1>1. CASE v = 0 /\ \A s \in 1..n : lg[s].o # o
    BY <1>1 DEF VersionAt
  <1>2. CASE \E s \in 1..n : lg[s].o = o /\ lg[s].e.v = v /\ \A t \in (s + 1)..n : lg[t].o # o
    <2>1. PICK s \in 1..n : lg[s].o = o /\ lg[s].e.v = v /\ \A t \in (s + 1)..n : lg[t].o # o
      BY <1>2
    <2>2. \A t \in (s + 1)..n : t \in 1..n
      OBVIOUS
    <2>. QED
      BY <2>1, <2>2 DEF VersionAt
  <1>. QED
    BY <1>1, <1>2 DEF VersionAt

\* The disk follows every log that agrees with a log it follows, as far as it goes.
LEMMA DiskAgrees ==
    ASSUME TypeOK, NEW lg \in Seq(Line), NEW lh \in Seq(Line), DiskFollows(lg, snapshot, file),
           \A i \in 1..Len(lg) : OnDisk(i) => i <= Len(lh) /\ lh[i] = lg[i]
    PROVE  DiskFollows(lh, snapshot, file)
  <1>0. /\ snapshot.seq \in Nat /\ snapshot.seq <= Len(lg) /\ Len(lg) \in Nat /\ Len(lh) \in Nat
        /\ \A i \in 1..Len(file) : file[i].s \in 1..MaxSeq /\ MaxSeq \in Nat
    <2>1. snapshot.seq \in 0..MaxSeq /\ MaxSeq \in Nat /\ file \in Seq(Line)
      BY LinesAreNumbered DEF TypeOK
    <2>2. \A i \in 1..Len(file) : file[i].s \in 1..MaxSeq
      BY <2>1, LinesAreNumbered DEF LineNumbers
    <2>3. snapshot.seq <= Len(lg)
      BY DEF DiskFollows
    <2>. QED
      BY <2>1, <2>2, <2>3
  <1>1. \A i \in 1..snapshot.seq : i <= Len(lh) /\ lh[i] = lg[i]
    <2>1. \A i \in 1..snapshot.seq : i \in 1..Len(lg) /\ OnDisk(i)
      BY <1>0 DEF OnDisk
    <2>. QED
      BY <2>1
  <1>2. snapshot.seq <= Len(lh)
    BY <1>0, <1>1
  <1>3. \A o \in Outpoints : VersionAt(lh, snapshot.seq, o, snapshot.entries[o].v)
    <2>. SUFFICES ASSUME NEW o \in Outpoints PROVE VersionAt(lh, snapshot.seq, o, snapshot.entries[o].v)
      OBVIOUS
    <2>1. VersionAt(lg, snapshot.seq, o, snapshot.entries[o].v)
      BY DEF DiskFollows
    <2>. QED
      BY <1>0, <1>1, <2>1, VersionAgrees
  <1>4. ASSUME NEW i \in 1..Len(file) PROVE file[i].s <= Len(lh) /\ file[i] = lh[file[i].s]
    <2>1. file[i].s <= Len(lg) /\ file[i] = lg[file[i].s]
      BY DEF DiskFollows
    <2>2. file[i].s \in 1..Len(lg) /\ file[i].s <= file[i].s
      BY <1>0, <2>1
    <2>3. OnDisk(file[i].s)
      BY <2>2 DEF OnDisk
    <2>. QED
      BY <2>1, <2>2, <2>3
  <1>. QED
    BY <1>2, <1>3, <1>4 DEF DiskFollows

\* SetToSeq lists every element of a finite set once.
LEMMA SetToSeqLists ==
    ASSUME NEW S \in SUBSET Outpoints
    PROVE  /\ SetToSeq(S) \in Seq(S) /\ Len(SetToSeq(S)) \in Nat
           /\ \A i, j \in 1..Len(SetToSeq(S)) : SetToSeq(S)[i] = SetToSeq(S)[j] => i = j
           /\ \A x \in S : \E i \in 1..Len(SetToSeq(S)) : SetToSeq(S)[i] = x
  <1>0. IsFiniteSet(S)
    BY BoundsAssumption, FS_Subset
  <1>. DEFINE n == Cardinality(S)
  <1>1. n \in Nat /\ ExistsBijection(1..n, S)
    BY <1>0, FS_CardinalityType
  <1>2. PICK g : g \in Bijection(1..n, S)
    BY <1>1 DEF ExistsBijection
  <1>3. g \in [1..n -> S] /\ IsInjective(g)
    BY <1>2 DEF Bijection, Injection
  <1>. DEFINE s == SetToSeq(S)
  <1>4. s \in [1..n -> S] /\ IsInjective(s)
    BY <1>3 DEF SetToSeq
  <1>5. s \in Injection(1..n, S)
    BY <1>4 DEF Injection
  <1>6. Cardinality(1..n) = n
    BY <1>1, FS_Interval
  <1>7. s \in Surjection(1..n, S)
    <2>. HIDE DEF s, n
    <2>. QED
      BY <1>0, <1>5, <1>6, FS_Injection DEF n
  <1>8. s \in Seq(S) /\ Len(s) = n
    <2>. HIDE DEF s, n
    <2>. QED
      BY <1>1, <1>4
  <1>9. \A x \in S : \E i \in 1..n : s[i] = x
    BY <1>7 DEF Surjection
  <1>10. \A i, j \in 1..n : s[i] = s[j] => i = j
    BY <1>4 DEF IsInjective
  <1>. QED
    BY <1>1, <1>8, <1>9, <1>10

\* The lines of a concatenation.
LEMMA Concatenated ==
    ASSUME NEW q \in Seq(Line), NEW r \in Seq(Line)
    PROVE  /\ q \o r \in Seq(Line) /\ Len(q) \in Nat /\ Len(r) \in Nat /\ Len(q \o r) = Len(q) + Len(r)
           /\ \A i \in 1..Len(q) : (q \o r)[i] = q[i]
           /\ \A i \in 1..Len(r) : (q \o r)[Len(q) + i] = r[i]
  OBVIOUS

\* append_journal_line, for each outpoint a handler touched: its new version under the next numbers.
LEMMA LinesGrow ==
    ASSUME IInv, up, NEW moved \in Changes, NEW base \in [Outpoints -> Entry],
           \A o \in Outpoints : base[o].v = entries[o].v,
           NEW ents, ents = Moved(base, moved), NEW lines, lines = NewLines(ents, moved),
           journal_seq + Len(lines) <= MaxSeq
    PROVE  Ready(log \o lines, ents, pending \o lines, journal_seq + Len(lines)) /\ Len(lines) \in Nat
  <1>. DEFINE D == DOMAIN moved
              ord == SetToSeq(D)
              N == Len(ord)
              J == journal_seq
  <1>0. /\ TypeOK /\ LogGrows(log) /\ DiskFollows(log, snapshot, file) /\ AckedOnDisk(log)
        /\ MemoryFollows(log, entries, pending, J) /\ OnDisk(J - Len(pending))
        /\ log \in Seq(Line) /\ pending \in Seq(Line) /\ J \in 0..MaxSeq /\ MaxSeq \in Nat
        /\ entries \in [Outpoints -> Entry]
    BY BoundsAssumption DEF IInv, TypeOK
  <1>1. /\ J = Len(log) /\ J \in Nat /\ Len(pending) \in Nat /\ Len(pending) <= J /\ J - Len(pending) \in Nat
        /\ \A o \in Outpoints : VersionAt(log, J, o, entries[o].v)
        /\ \A i \in 1..Len(pending) : pending[i] = log[J - Len(pending) + i]
    BY <1>0 DEF MemoryFollows
  <1>2. D \in SUBSET Outpoints /\ \A o \in D : moved[o] \in {"live", "done"}
    BY DEF Changes
  <1>3. /\ ord \in Seq(D) /\ N \in Nat
        /\ \A i, j \in 1..N : ord[i] = ord[j] => i = j
        /\ \A x \in D : \E i \in 1..N : ord[i] = x
        /\ \A i \in 1..N : ord[i] \in D
    BY SMTT(60), <1>2, SetToSeqLists
  <1>4. lines = [i \in 1..N |-> [s |-> J + i, o |-> ord[i], e |-> ents[ord[i]]]]
    BY DEF NewLines
  <1>. HIDE DEF ord, N, J, D
  <1>5. /\ ents = [o \in Outpoints |-> IF o \in D THEN [v |-> base[o].v + 1, stage |-> moved[o]] ELSE base[o]]
    BY DEF Moved, D
  <1>6. \A o \in Outpoints : base[o].v \in Nat /\ base[o].v <= J
    <2>. SUFFICES ASSUME NEW o \in Outpoints PROVE base[o].v \in Nat /\ base[o].v <= J
      OBVIOUS
    <2>1. base[o].v \in Nat
      BY <1>0 DEF Entry
    <2>2. base[o].v = 0 \/ \E s \in 1..J : base[o].v = log[s].e.v
      BY <1>1 DEF VersionAt
    <2>3. \A s \in 1..J : log[s].e.v <= s /\ log[s].e.v \in Nat
      <3>1. \A s \in 1..J : log[s].e.v <= s
        BY <1>0, <1>1 DEF LogGrows
      <3>2. \A s \in 1..J : log[s].e.v \in 0..MaxSeq
        BY <1>0, <1>1, LinesAreNumbered DEF LineNumbers
      <3>. QED
        BY <1>0, <3>1, <3>2
    <2>. QED
      BY <1>1, <2>1, <2>2, <2>3
  <1>7. lines \in Seq(Line) /\ Len(lines) = N /\ ents \in [Outpoints -> Entry] /\ J + N \in 0..MaxSeq
    <2>1. Len(lines) = N
      BY <1>3, <1>4
    <2>2. J + N \in 0..MaxSeq
      BY <1>0, <1>1, <1>3, <2>1 DEF J
    <2>3. \A o \in D : base[o].v + 1 \in 0..MaxSeq
      <3>. SUFFICES ASSUME NEW o \in D PROVE base[o].v + 1 \in 0..MaxSeq
        OBVIOUS
      <3>1. N > 0
        BY <1>3
      <3>. QED
        BY <1>0, <1>1, <1>2, <1>3, <1>6, <2>2, <3>1
    <2>4. \A o \in Outpoints : ents[o] \in Entry
      <3>. SUFFICES ASSUME NEW o \in Outpoints PROVE ents[o] \in Entry
        OBVIOUS
      <3>1. CASE o \in D
        <4>1. ents[o] = [v |-> base[o].v + 1, stage |-> moved[o]]
          BY <1>5, <3>1
        <4>2. moved[o] \in Stages
          BY <1>2, <3>1 DEF Stages
        <4>. QED
          BY <2>3, <3>1, <4>1, <4>2 DEF Entry
      <3>2. CASE o \notin D
        BY <1>5, <3>2
      <3>. QED
        BY <3>1, <3>2
    <2>5. ents \in [Outpoints -> Entry]
      BY <1>5, <2>4
    <2>6. \A i \in 1..N : J + i \in 1..MaxSeq
      BY <1>0, <1>1, <1>3, <2>2
    <2>7. \A i \in 1..N : [s |-> J + i, o |-> ord[i], e |-> ents[ord[i]]] \in Line
      BY <1>2, <1>3, <2>4, <2>6 DEF Line
    <2>8. lines \in [1..N -> Line]
      BY <1>4, <2>7
    <2>9. lines \in Seq(Line)
      BY SMTT(60), <1>3, <2>8
    <2>. QED
      BY <2>1, <2>2, <2>5, <2>9
  <1>. DEFINE lg == log \o lines
  <1>8. /\ lg \in Seq(Line) /\ Len(lg) = J + N
        /\ \A s \in 1..J : lg[s] = log[s]
        /\ \A i \in 1..N : lg[J + i] = lines[i]
    BY <1>0, <1>1, <1>7, Concatenated
  <1>. HIDE DEF lg
  <1>9. \A i \in 1..N : /\ lg[J + i].s = J + i /\ lg[J + i].o = ord[i]
                        /\ lg[J + i].e.v = entries[ord[i]].v + 1 /\ lg[J + i].e.v = ents[ord[i]].v
    <2>. SUFFICES ASSUME NEW i \in 1..N
                  PROVE  /\ lg[J + i].s = J + i /\ lg[J + i].o = ord[i]
                         /\ lg[J + i].e.v = entries[ord[i]].v + 1 /\ lg[J + i].e.v = ents[ord[i]].v
      OBVIOUS
    <2>1. lg[J + i] = [s |-> J + i, o |-> ord[i], e |-> ents[ord[i]]]
      BY <1>4, <1>8
    <2>2. ord[i] \in D /\ ord[i] \in Outpoints
      BY <1>2, <1>3
    <2>3. ents[ord[i]].v = entries[ord[i]].v + 1
      BY <1>5, <2>2
    <2>. QED
      BY <2>1, <2>3
  <1>10. \A s \in 1..(J + N) : s \in 1..J \/ \E i \in 1..N : s = J + i
    <2>1. ASSUME NEW s \in 1..(J + N), s \notin 1..J PROVE s - J \in 1..N /\ s = J + (s - J)
      BY <1>1, <1>3, <2>1
    <2>. QED
      BY <2>1
  <1>11. \A s \in 1..J : log[s].o \in Outpoints
    <2>1. \A l \in Line : l.o \in Outpoints
      BY DEF Line
    <2>. QED
      BY <1>0, <1>1, <2>1
  <1>12. LogGrows(lg)
    <2>1. ASSUME NEW s \in 1..(J + N) PROVE lg[s].s = s /\ lg[s].e.v <= s
      <3>1. CASE s \in 1..J
        BY <1>0, <1>1, <1>8, <3>1 DEF LogGrows
      <3>2. CASE \E i \in 1..N : s = J + i
        <4>1. PICK i \in 1..N : s = J + i
          BY <3>2
        <4>2. ord[i] \in Outpoints /\ entries[ord[i]].v \in Nat /\ entries[ord[i]].v <= J
          BY <1>2, <1>3, <1>6
        <4>3. entries[ord[i]].v + 1 <= s
          BY SMTT(60), <1>1, <1>3, <4>1, <4>2
        <4>. QED
          BY <1>9, <4>1, <4>3
      <3>. QED
        BY <1>10, <3>1, <3>2
    <2>2. ASSUME NEW s \in 1..(J + N), NEW u \in 1..(J + N), s <= u, lg[s].o = lg[u].o
          PROVE  lg[s].e.v <= lg[u].e.v
      <3>1. CASE u \in 1..J
        <4>1. s \in 1..J
          BY <1>1, <1>3, <2>2, <3>1
        <4>. QED
          BY <1>0, <1>1, <1>8, <2>2, <3>1, <4>1 DEF LogGrows
      <3>2. CASE \E j \in 1..N : u = J + j
        <4>1. PICK j \in 1..N : u = J + j
          BY <3>2
        <4>2. ord[j] \in Outpoints /\ entries[ord[j]].v \in Nat
          BY <1>2, <1>3, <1>6
        <4>3. CASE s \in 1..J
          <5>1. log[s].o = ord[j]
            BY <1>8, <1>9, <2>2, <4>1, <4>3
          <5>2. J \in 0..Len(log) /\ Len(log) \in Nat
            BY <1>1
          <5>3. VersionAt(log, J, log[s].o, entries[ord[j]].v)
            BY <1>1, <4>2, <5>1
          <5>4. log[s].e.v <= entries[ord[j]].v
            BY <1>0, <4>3, <5>2, <5>3, VersionsGrow
          <5>5. log[s].e.v \in Nat
            <6>1. log[s].e.v \in 0..MaxSeq
              BY <1>0, <1>1, <4>3, LinesAreNumbered DEF LineNumbers
            <6>. QED
              BY <1>0, <6>1
          <5>6. log[s].e.v <= entries[ord[j]].v + 1
            BY SMTT(60), <4>2, <5>4, <5>5
          <5>. QED
            BY <1>8, <1>9, <4>1, <4>3, <5>6
        <4>4. CASE \E i \in 1..N : s = J + i
          <5>1. PICK i \in 1..N : s = J + i
            BY <4>4
          <5>2. i = j
            BY <1>3, <1>9, <2>2, <4>1, <5>1
          <5>3. lg[u].e.v \in Nat
            BY SMTT(60), <1>9, <4>1, <4>2
          <5>. QED
            BY <4>1, <5>1, <5>2, <5>3
        <4>. QED
          BY <1>10, <4>3, <4>4
      <3>. QED
        BY <1>10, <3>1, <3>2
    <2>. QED
      BY <1>8, <2>1, <2>2 DEF LogGrows
  <1>13. ASSUME NEW o \in Outpoints PROVE VersionAt(lg, J + N, o, ents[o].v)
    <2>1. CASE o \in D
      <3>1. PICK i \in 1..N : ord[i] = o
        BY <1>3, <2>1
      <3>2. J + i \in 1..(J + N) /\ lg[J + i].o = o /\ lg[J + i].e.v = ents[o].v
        BY SMTT(60), <1>1, <1>3, <1>9, <3>1
      <3>3. ASSUME NEW u \in (J + i + 1)..(J + N) PROVE lg[u].o # o
        <4>1. u - J \in 1..N /\ u = J + (u - J) /\ u - J # i
          BY <1>1, <1>3
        <4>2. lg[u].o = ord[u - J]
          BY <1>9, <4>1
        <4>. QED
          BY <1>3, <3>1, <4>1, <4>2
      <3>. QED
        BY <3>2, <3>3 DEF VersionAt
    <2>2. CASE o \notin D
      <3>1. ents[o].v = entries[o].v
        BY <1>5, <2>2
      <3>2. \A i \in 1..N : lg[J + i].o # o
        BY <1>3, <1>9, <2>2
      <3>3. CASE entries[o].v = 0 /\ \A s \in 1..J : log[s].o # o
        <4>1. \A s \in 1..(J + N) : lg[s].o # o
          BY <1>8, <1>10, <3>2, <3>3
        <4>. QED
          BY <3>1, <3>3, <4>1 DEF VersionAt
      <3>4. CASE \E s \in 1..J : log[s].o = o /\ log[s].e.v = entries[o].v /\ \A u \in (s + 1)..J : log[u].o # o
        <4>1. PICK s \in 1..J : log[s].o = o /\ log[s].e.v = entries[o].v /\ \A u \in (s + 1)..J : log[u].o # o
          BY <3>4
        <4>2. s \in 1..(J + N) /\ lg[s].o = o /\ lg[s].e.v = ents[o].v
          BY <1>1, <1>3, <1>8, <3>1, <4>1
        <4>3. ASSUME NEW u \in (s + 1)..(J + N) PROVE lg[u].o # o
          <5>1. u \in 1..(J + N)
            BY <1>1, <1>3
          <5>2. CASE u \in 1..J
            <6>1. u \in (s + 1)..J
              BY <5>2
            <6>. QED
              BY <1>8, <4>1, <5>2, <6>1
          <5>3. CASE \E i \in 1..N : u = J + i
            BY <3>2, <5>3
          <5>. QED
            BY <1>10, <5>1, <5>2, <5>3
        <4>. QED
          BY <4>2, <4>3 DEF VersionAt
      <3>. QED
        BY <1>1, <3>3, <3>4 DEF VersionAt
    <2>. QED
      BY <2>1, <2>2
  <1>. DEFINE pend == pending \o lines
  <1>14. /\ pend \in Seq(Line) /\ Len(pend) = Len(pending) + N
         /\ \A i \in 1..Len(pending) : pend[i] = pending[i]
         /\ \A i \in 1..N : pend[Len(pending) + i] = lines[i]
    BY <1>0, <1>1, <1>7, Concatenated
  <1>. HIDE DEF pend
  <1>15. MemoryFollows(lg, ents, pend, J + N)
    <2>1. Len(pend) <= J + N /\ (J + N) - Len(pend) = J - Len(pending)
      BY <1>1, <1>3, <1>14
    <2>2. ASSUME NEW i \in 1..Len(pend) PROVE pend[i] = lg[(J - Len(pending)) + i]
      <3>1. CASE i \in 1..Len(pending)
        <4>1. (J - Len(pending)) + i \in 1..J
          BY <1>1, <3>1
        <4>. QED
          BY <1>1, <1>8, <1>14, <3>1, <4>1
      <3>2. CASE i \notin 1..Len(pending)
        <4>1. i - Len(pending) \in 1..N /\ i = Len(pending) + (i - Len(pending))
              /\ (J - Len(pending)) + i = J + (i - Len(pending))
          BY <1>1, <1>3, <1>14, <3>2
        <4>. QED
          BY <1>8, <1>14, <4>1
      <3>. QED
        BY <3>1, <3>2
    <2>. QED
      BY <1>8, <1>13, <2>1, <2>2 DEF MemoryFollows
  <1>16. OnDisk((J + N) - Len(pend))
    <2>1. (J + N) - Len(pend) = J - Len(pending)
      BY <1>1, <1>3, <1>14
    <2>. QED
      BY <1>0, <2>1
  <1>17. DiskFollows(lg, snapshot, file)
    <2>1. \A i \in 1..Len(log) : i <= Len(lg) /\ lg[i] = log[i]
      BY <1>1, <1>3, <1>8
    <2>. QED
      BY <1>0, <1>8, <2>1, DiskAgrees
  <1>18. AckedOnDisk(lg)
    <2>1. \A s \in 1..Len(log) : s \in 1..Len(lg) /\ lg[s] = log[s]
      BY <1>1, <1>3, <1>8
    <2>. QED
      BY <1>0, <2>1 DEF AckedOnDisk
  <1>19. Ready(lg, ents, pend, J + N)
    BY <1>7, <1>8, <1>12, <1>14, <1>15, <1>16, <1>17, <1>18 DEF Ready
  <1>. QED
    BY <1>3, <1>7, <1>19 DEF lg, pend, J

\* A running process is ready to save.
LEMMA RunningIsReady ==
    ASSUME IInv, up
    PROVE  Ready(log, entries, pending, journal_seq)
  BY DEF IInv, TypeOK, Ready

\* A handler of the watcher, with compact() or without it, keeps the invariant.
LEMMA HandleKeeps ==
    ASSUME Cuts = {"clean"}, IInv, NEW compacting \in BOOLEAN, NEW moved \in Changes, Handle(compacting, moved)
    PROVE  IInv'
  <1>. DEFINE base == IF compacting THEN Compacted ELSE entries
              ents == Moved(base, moved)
              lines == NewLines(ents, moved)
              due == snapshot_due \/ base # entries
  <1>1. /\ up /\ up' = up /\ journal_seq + Len(lines) <= MaxSeq /\ log' = log \o lines
        /\ MaybeFlush(ents, pending \o lines, journal_seq + Len(lines), due)
    BY DEF Handle, Logged
  <1>2. entries \in [Outpoints -> Entry] /\ TypeOK /\ tail = "clean" /\ up \in BOOLEAN
    BY DEF IInv, TypeOK
  <1>3. base \in [Outpoints -> Entry] /\ \A o \in Outpoints : base[o].v = entries[o].v
    <2>1. \A e \in Entry : [e EXCEPT !.stage = "gone"] \in Entry /\ [e EXCEPT !.stage = "gone"].v = e.v
      BY DEF Entry, Stages
    <2>2. /\ Compacted \in [Outpoints -> Entry]
          /\ \A o \in Outpoints : Compacted[o].v = entries[o].v
      BY <1>2, <2>1 DEF Compacted
    <2>. QED
      BY <1>2, <2>2
  <1>4. due \in BOOLEAN
    OBVIOUS
  <1>. HIDE DEF base, ents, lines, due
  <1>5. Ready(log \o lines, ents, pending \o lines, journal_seq + Len(lines))
    <2>1. ents = Moved(base, moved) /\ lines = NewLines(ents, moved)
      BY DEF ents, lines
    <2>. QED
      BY <1>1, <1>3, <2>1, LinesGrow
  <1>. QED
    BY <1>1, <1>2, <1>4, <1>5, MaybeFlushKeeps

\* on_block_validated without a flush keeps the invariant.
LEMMA PurgeKeeps ==
    ASSUME IInv, NEW moved \in Changes, PurgeUnflushed(moved)
    PROVE  IInv'
  <1>. DEFINE ents == Moved(entries, moved)
              lines == NewLines(ents, moved)
  <1>1. /\ up /\ up' = up /\ journal_seq + Len(lines) <= MaxSeq /\ log' = log \o lines
        /\ entries' = ents /\ pending' = pending \o lines /\ journal_seq' = journal_seq + Len(lines)
        /\ UNCHANGED <<grown, snapshot_due, snapshot, file, tail, acked, faults>>
    BY DEF PurgeUnflushed, Logged, disk
  <1>2. /\ entries \in [Outpoints -> Entry] /\ TypeOK /\ tail = "clean"
        /\ up \in BOOLEAN /\ grown \in BOOLEAN /\ snapshot_due \in BOOLEAN /\ faults \in 0..MaxFaults
        /\ snapshot \in State /\ file \in Seq(Line)
    BY DEF IInv, TypeOK, State
  <1>. HIDE DEF ents, lines
  <1>3. Ready(log \o lines, ents, pending \o lines, journal_seq + Len(lines))
    <2>1. ents = Moved(entries, moved) /\ lines = NewLines(ents, moved)
      BY DEF ents, lines
    <2>. QED
      BY <1>1, <1>2, <2>1, LinesGrow
  <1>4. DiskFollows(log \o lines, snapshot', file') /\ \A m \in Nat : OnDisk(m) => OnDisk(m)'
    BY <1>1, <1>3 DEF Ready, OnDisk
  <1>5. /\ up' \in BOOLEAN /\ grown' \in BOOLEAN /\ snapshot_due' \in BOOLEAN /\ faults' \in 0..MaxFaults
        /\ snapshot' \in State /\ file' \in Seq(Line) /\ tail' = "clean"
    BY <1>1, <1>2
  <1>. QED
    BY <1>1, <1>2, <1>3, <1>4, <1>5, SaveKeeps

\* flush_state at the end of a connection keeps the invariant.
LEMMA StopKeeps ==
    ASSUME IInv, Stop
    PROVE  IInv'
  <1>0. /\ TypeOK /\ tail = "clean" /\ snapshot_due \in BOOLEAN /\ up' \in BOOLEAN /\ up' = FALSE /\ up /\ log' = log
    BY DEF IInv, TypeOK, Stop
  <1>1. CASE WriteSnapshot(entries, pending, journal_seq, snapshot_due)
    BY <1>0, <1>1, RunningIsReady, WriteSnapshotKeeps
  <1>2. CASE UNCHANGED <<memory, disk, acked, faults>>
    <2>1. UNCHANGED <<entries, journal_seq, pending, grown, snapshot_due, snapshot, file, tail, acked, faults, log>>
      BY <1>0, <1>2 DEF memory, disk
    <2>2. TypeOK'
      BY <1>0, <2>1 DEF TypeOK
    <2>3. LogGrows(log') /\ DiskFollows(log', snapshot', file') /\ AckedOnDisk(log)'
      BY <2>1 DEF IInv, AckedOnDisk, OnDisk
    <2>. QED
      BY <1>0, <2>1, <2>2, <2>3 DEF IInv
  <1>. QED
    BY <1>1, <1>2 DEF Stop

\* A process death keeps the invariant: what is on disk is what a write that stopped would leave.
LEMMA CrashKeeps ==
    ASSUME Cuts = {"clean"}, IInv, Crash
    PROVE  IInv'
  <1>1. /\ up /\ up' = FALSE /\ Fault
        /\ UNCHANGED <<entries, journal_seq, pending, grown, snapshot_due, acked, log>>
    BY DEF Crash, memory
  <1>2. /\ TypeOK /\ tail = "clean" /\ grown \in BOOLEAN /\ snapshot_due \in BOOLEAN
        /\ faults \in 0..MaxFaults /\ MaxFaults \in Nat
        /\ snapshot \in State /\ file \in Seq(Line) /\ pending \in Seq(Line)
    BY BoundsAssumption DEF IInv, TypeOK, State
  <1>3. Ready(log, entries, pending, journal_seq)
    BY <1>1, RunningIsReady
  <1>4. faults' \in 0..MaxFaults
    BY <1>1, <1>2 DEF Fault
  <1>5. up' \in BOOLEAN /\ grown' \in BOOLEAN /\ snapshot_due' \in BOOLEAN
    BY <1>1, <1>2
  <1>6. /\ snapshot' \in State /\ file' \in Seq(Line) /\ tail' = "clean" /\ DiskFollows(log, snapshot', file')
        /\ \A m \in Nat : OnDisk(m) => OnDisk(m)'
    <2>1. CASE UNCHANGED <<snapshot, file, tail>>
      BY <1>2, <1>3, <2>1 DEF Ready, OnDisk
    <2>2. CASE AppendStops(pending)
      <3>1. PICK n \in 0..Len(pending) :
               file' = file \o SubSeq(pending, 1, n) /\ tail' = "clean" /\ snapshot' = snapshot
        BY <1>2, <2>2, AppendsWholeLines
      <3>2. /\ file' \in Seq(Line) /\ DiskFollows(log, snapshot', file')
            /\ \A m \in Nat : OnDisk(m) => OnDisk(m)'
        BY <1>2, <1>3, <3>1, AppendFollows
      <3>. QED
        BY <1>2, <3>1, <3>2
    <2>3. CASE SnapshotStops(entries, journal_seq)
      <3>1. file' = file /\ tail' = "clean"
            /\ snapshot' \in {snapshot, [seq |-> journal_seq, entries |-> entries]}
        BY <1>2, <2>3 DEF SnapshotStops
      <3>2. CASE snapshot' = snapshot
        BY <2>1, <1>2, <3>1, <3>2
      <3>3. CASE snapshot' = [seq |-> journal_seq, entries |-> entries]
        BY <1>2, <1>3, <3>1, <3>3, SnapshotFollows
      <3>. QED
        BY <3>1, <3>2, <3>3
    <2>. QED
      BY <2>1, <2>2, <2>3 DEF Crash, disk
  <1>. QED
    BY <1>1, <1>2, <1>3, <1>4, <1>5, <1>6, SaveKeeps

\* EscrowWatcher::new keeps the invariant: the lines that are not on disk never were.
LEMMA StartKeeps ==
    ASSUME IInv, Start
    PROVE  IInv'
  <1>. DEFINE n == LoadState.seq
              lg == SubSeq(log, 1, n)
  <1>0. /\ TypeOK /\ tail = "clean" /\ LogGrows(log) /\ DiskFollows(log, snapshot, file) /\ AckedOnDisk(log)
        /\ log \in Seq(Line) /\ Len(log) \in Nat /\ MaxSeq \in Nat
    BY BoundsAssumption DEF IInv, TypeOK
  <1>1. /\ up' = TRUE /\ entries' = LoadState.entries /\ journal_seq' = n /\ pending' = <<>>
        /\ grown' = FALSE /\ snapshot_due' = FALSE /\ log' = lg
        /\ UNCHANGED <<snapshot, file, tail, acked, faults>>
    BY DEF Start, disk
  <1>2. /\ LoadState \in State /\ n \in 0..Len(log)
        /\ \A m \in Nat : OnDisk(m) <=> m <= n
        /\ \A o \in Outpoints : VersionAt(log, n, o, LoadState.entries[o].v)
    BY <1>0, RestartReads
  <1>3. n \in 0..MaxSeq /\ LoadState.entries \in [Outpoints -> Entry]
    BY <1>2 DEF State
  <1>. HIDE DEF n
  <1>4. n \in Nat /\ n <= Len(log)
    BY <1>0, <1>2
  <1>5. lg \in Seq(Line) /\ Len(lg) = n /\ \A i \in 1..n : lg[i] = log[i]
    BY <1>0, <1>4
  <1>. HIDE DEF lg
  <1>6. <<>> \in Seq(Line) /\ Len(<<>>) = 0
    OBVIOUS
  <1>7. TypeOK'
    <2>1. up' \in BOOLEAN /\ grown' \in BOOLEAN /\ snapshot_due' \in BOOLEAN
      BY <1>1
    <2>2. pending' \in Seq(Line) /\ log' \in Seq(Line) /\ entries' \in [Outpoints -> Entry] /\ journal_seq' \in 0..MaxSeq
      BY <1>1, <1>3, <1>5, <1>6
    <2>. QED
      BY <1>0, <1>1, <2>1, <2>2 DEF TypeOK
  <1>8. LogGrows(lg)
    <2>1. \A i \in 1..n : i \in 1..Len(log)
      BY <1>0, <1>4
    <2>. QED
      BY <1>0, <1>5, <2>1 DEF LogGrows
  <1>9. DiskFollows(lg, snapshot, file)
    <2>1. \A i \in 1..Len(log) : OnDisk(i) => i <= Len(lg) /\ lg[i] = log[i]
      BY <1>0, <1>2, <1>4, <1>5
    <2>. QED
      BY <1>0, <1>5, <2>1, DiskAgrees
  <1>10. AckedOnDisk(lg)
    <2>1. \A s \in 1..Len(log) : OnDisk(s) => s \in 1..Len(lg) /\ lg[s] = log[s]
      BY <1>0, <1>2, <1>4, <1>5
    <2>. QED
      BY <1>0, <2>1 DEF AckedOnDisk
  <1>11. MemoryFollows(lg, LoadState.entries, <<>>, n)
    <2>1. \A o \in Outpoints : VersionAt(lg, n, o, LoadState.entries[o].v)
      <3>. SUFFICES ASSUME NEW o \in Outpoints PROVE VersionAt(lg, n, o, LoadState.entries[o].v)
        OBVIOUS
      <3>1. VersionAt(log, n, o, LoadState.entries[o].v)
        BY <1>2
      <3>. QED
        BY <1>4, <1>5, <3>1, VersionAgrees
    <2>. QED
      BY <1>4, <1>5, <1>6, <2>1 DEF MemoryFollows
  <1>12. OnDisk(journal_seq - Len(pending))'
    <2>1. OnDisk(n) /\ journal_seq' - Len(pending') = n
      BY <1>1, <1>2, <1>4, <1>6
    <2>. QED
      BY <1>1, <2>1 DEF OnDisk
  <1>13. AckedOnDisk(log)'
    BY <1>1, <1>10 DEF AckedOnDisk, OnDisk
  <1>. QED
    BY <1>0, <1>1, <1>7, <1>8, <1>9, <1>11, <1>12, <1>13 DEF IInv

-----------------------------------------------------------------------------
(* The theorems *)

\* Nothing is saved and nothing to save.
LEMMA InitIInv == Init => IInv
  <1>. SUFFICES ASSUME Init PROVE IInv
    OBVIOUS
  <1>0. /\ log = <<>> /\ file = <<>> /\ pending = <<>> /\ journal_seq = 0 /\ snapshot = [seq |-> 0, entries |-> NoEntries]
        /\ entries = NoEntries /\ acked = [o \in Outpoints |-> 0] /\ tail = "clean" /\ faults = 0
    BY DEF Init
  <1>1. <<>> \in Seq(Line) /\ Len(<<>>) = 0
    OBVIOUS
  <1>2. NoEntries \in [Outpoints -> Entry] /\ \A o \in Outpoints : NoEntries[o].v = 0
    BY BoundsAssumption DEF NoEntries, Entry, Stages
  <1>3. TypeOK
    <2>1. up \in BOOLEAN /\ grown \in BOOLEAN /\ snapshot_due \in BOOLEAN
      BY Zenon DEF Init
    <2>2. pending \in Seq(Line) /\ file \in Seq(Line) /\ log \in Seq(Line)
      BY <1>0, <1>1
    <2>3. journal_seq \in 0..MaxSeq /\ faults \in 0..MaxFaults /\ acked \in [Outpoints -> 0..MaxSeq]
          /\ snapshot \in [seq : 0..MaxSeq, entries : [Outpoints -> Entry]]
      BY <1>0, <1>2, BoundsAssumption
    <2>. QED
      BY <1>0, <1>2, <2>1, <2>2, <2>3 DEF TypeOK, AppendCuts
  <1>4. LogGrows(log)
    BY <1>0, <1>1 DEF LogGrows
  <1>5. \A o \in Outpoints : VersionAt(log, 0, o, 0)
    BY DEF VersionAt
  <1>6. DiskFollows(log, snapshot, file)
    BY <1>0, <1>1, <1>2, <1>5 DEF DiskFollows
  <1>7. AckedOnDisk(log)
    BY <1>0 DEF AckedOnDisk
  <1>8. MemoryFollows(log, entries, pending, journal_seq)
    BY <1>0, <1>1, <1>2, <1>5 DEF MemoryFollows
  <1>9. OnDisk(journal_seq - Len(pending))
    BY <1>0, <1>1 DEF OnDisk
  <1>. QED
    BY <1>0, <1>3, <1>4, <1>6, <1>7, <1>8, <1>9 DEF IInv

\* Every step keeps the invariant.
LEMMA StepKeeps ==
    ASSUME Cuts = {"clean"}, IInv, [Next]_vars
    PROVE  IInv'
  <1>1. CASE Next
    BY <1>1, HandleKeeps, PurgeKeeps, StopKeeps, CrashKeeps, StartKeeps DEF Next
  <1>2. CASE UNCHANGED vars
    <2>1. UNCHANGED <<up, entries, journal_seq, pending, grown, snapshot_due, snapshot, file, tail, acked, log, faults>>
      BY <1>2 DEF vars
    <2>. QED
      BY <2>1 DEF IInv, TypeOK, AckedOnDisk, OnDisk
  <1>. QED
    BY <1>1, <1>2

\* The files, the memory and the history of the escrow journal (src/escrow.rs) agree, whichever write
\* fails and whenever the process dies.
THEOREM FilesFollowTheLog ==
    ASSUME Cuts = {"clean"}
    PROVE  Spec => []IInv
  <1>1. IInv /\ [Next]_vars => IInv'
    BY StepKeeps
  <1>. QED
    BY <1>1, InitIInv, PTL DEF Spec

\* A version of an outpoint that write_journal or write_snapshot reported as saved is in what
\* load_state reads, as long as no append is cut inside a line.
THEOREM SavedIsRead ==
    ASSUME Cuts = {"clean"}
    PROVE  Spec => []SavedSurvives
  <1>1. IInv => SavedSurvives
    <2>. SUFFICES ASSUME IInv, NEW o \in Outpoints PROVE LoadState.entries[o].v >= acked[o]
      BY DEF SavedSurvives
    <2>. DEFINE n == LoadState.seq
                v == LoadState.entries[o].v
    <2>1. /\ LoadState \in State /\ n \in 0..Len(log) /\ \A m \in Nat : OnDisk(m) <=> m <= n
          /\ VersionAt(log, n, o, v)
      BY RestartReads DEF IInv
    <2>2. v \in Nat /\ acked[o] \in Nat
      BY <2>1, BoundsAssumption DEF State, Entry, IInv, TypeOK
    <2>. HIDE DEF n, v
    <2>3. CASE acked[o] = 0
      BY <2>2, <2>3 DEF v
    <2>4. CASE \E s \in 1..Len(log) : OnDisk(s) /\ log[s].o = o /\ acked[o] <= log[s].e.v
      <3>1. PICK s \in 1..Len(log) : OnDisk(s) /\ log[s].o = o /\ acked[o] <= log[s].e.v
        BY <2>4
      <3>2. Len(log) \in Nat /\ LogGrows(log) /\ log[s].e.v \in Nat
        <4>1. log \in Seq(Line) /\ LogGrows(log)
          BY DEF IInv, TypeOK
        <4>2. log[s].e.v \in 0..MaxSeq /\ MaxSeq \in Nat
          BY <4>1, LinesAreNumbered DEF LineNumbers
        <4>. QED
          BY <4>1, <4>2
      <3>3. s \in 1..n
        BY <2>1, <3>1, <3>2
      <3>4. log[s].e.v <= v
        BY <2>1, <3>1, <3>2, <3>3, VersionsGrow
      <3>. QED
        BY <2>2, <3>1, <3>2, <3>4 DEF v
    <2>. QED
      BY <2>3, <2>4 DEF IInv, AckedOnDisk
  <1>. QED
    BY <1>1, FilesFollowTheLog, PTL

\* A restart goes on where the process stopped: it reads the state after some line, without a hole,
\* and the lines written next are newer than all it reads.
THEOREM RestartsAreExact ==
    ASSUME Cuts = {"clean"}
    PROVE  Spec => []RecoveryIsExact
  <1>1. IInv => RecoveryIsAPrefix
    <2>. SUFFICES ASSUME IInv, NEW o \in Outpoints
                  PROVE  LoadState.entries[o].v =
                           LET mine == {s \in 1..LoadState.seq : log[s].o = o}
                           IN  IF mine = {} THEN 0 ELSE log[Max(mine)].e.v
      BY DEF RecoveryIsAPrefix
    <2>. DEFINE n == LoadState.seq
                v == LoadState.entries[o].v
                mine == {s \in 1..n : log[s].o = o}
    <2>1. VersionAt(log, n, o, v) /\ n \in Nat
      BY RestartReads DEF IInv
    <2>. HIDE DEF n, v
    <2>2. CASE v = 0 /\ \A s \in 1..n : log[s].o # o
      BY <2>2 DEF n, v
    <2>3. CASE \E s \in 1..n : log[s].o = o /\ log[s].e.v = v /\ \A t \in (s + 1)..n : log[t].o # o
      <3>1. PICK s \in 1..n : log[s].o = o /\ log[s].e.v = v /\ \A t \in (s + 1)..n : log[t].o # o
        BY <2>3
      <3>2. s \in mine /\ \A t \in mine : s >= t
        BY <2>1, <3>1
      <3>3. \A x \in mine : (\A t \in mine : x >= t) => x = s
        BY <2>1, <3>2
      <3>4. Max(mine) = s
        BY <3>2, <3>3 DEF Max
      <3>. QED
        BY <3>1, <3>2, <3>4 DEF n, v
    <2>. QED
      BY <2>1, <2>2, <2>3 DEF VersionAt
  <1>2. IInv => NewLinesAreNewer
    <2>. SUFFICES ASSUME IInv, up
                  PROVE  /\ LoadState.seq <= journal_seq
                         /\ \A i \in 1..Len(pending) : pending[i].s > LoadState.seq
                               \/ LoadState.entries[pending[i].o].v >= pending[i].e.v
      BY DEF NewLinesAreNewer
    <2>. DEFINE n == LoadState.seq
    <2>1. /\ LoadState \in State /\ n \in 0..Len(log) /\ n \in Nat
          /\ \A o \in Outpoints : VersionAt(log, n, o, LoadState.entries[o].v)
      BY RestartReads DEF IInv
    <2>2. /\ journal_seq = Len(log) /\ journal_seq \in Nat /\ Len(pending) \in Nat /\ Len(pending) <= journal_seq
          /\ \A i \in 1..Len(pending) : pending[i] = log[journal_seq - Len(pending) + i]
          /\ log \in Seq(Line) /\ LogGrows(log)
      BY DEF IInv, MemoryFollows, TypeOK
    <2>. HIDE DEF n
    <2>3. n <= journal_seq
      BY <2>1, <2>2
    <2>4. ASSUME NEW i \in 1..Len(pending), ~(pending[i].s > n)
          PROVE  LoadState.entries[pending[i].o].v >= pending[i].e.v
      <3>. DEFINE s == journal_seq - Len(pending) + i
      <3>1. s \in 1..Len(log) /\ pending[i] = log[s]
        BY <2>2
      <3>. HIDE DEF s
      <3>2. log[s].s = s /\ log[s] \in Line
        BY <2>2, <3>1 DEF LogGrows
      <3>3. s \in 1..n
        BY <2>1, <2>4, <3>1, <3>2
      <3>4. log[s].o \in Outpoints /\ log[s].e.v \in Nat /\ \A o \in Outpoints : LoadState.entries[o].v \in Nat
        BY <2>1, <3>2, BoundsAssumption DEF Line, Entry, State
      <3>5. VersionAt(log, n, log[s].o, LoadState.entries[log[s].o].v)
        BY <2>1, <3>4
      <3>6. log[s].e.v <= LoadState.entries[log[s].o].v
        BY <2>1, <2>2, <3>3, <3>5, VersionsGrow
      <3>. QED
        BY <3>1, <3>4, <3>6
    <2>. QED
      BY <2>3, <2>4 DEF n
  <1>3. IInv => RecoveryIsExact
    BY <1>1, <1>2 DEF IInv, RecoveryIsExact
  <1>. QED
    BY <1>3, FilesFollowTheLog, PTL
=============================================================================

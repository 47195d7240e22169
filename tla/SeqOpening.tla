----------------------------- MODULE SeqOpening -----------------------------
(***************************************************************************)
(* Attention and recurrent openings, as the miner draws and builds them    *)
(* (src/trace_seq.rs), over the tree of softmax partials (attn_blocks.rs). *)
(* A partial is the part of the positions it sums; a root of partials is   *)
(* their sequence.                                                         *)
(***************************************************************************)
EXTENDS PointOpening, TracedRun, SequencesExt

CONSTANTS SeqChunk,    \* units of one chunk of a sequence leaf
          BlockBudget, \* BLOCK_BUDGET
          RecurRows    \* RECUR_ROWS

Floor(a, b) == IF a >= b THEN a - b ELSE 0

\* Largest power of two of units in the budget; 0 when not one fits.
Fit(unit) == Max({0} \cup {n \in {2^k : k \in 0..BlockBudget} : n * unit <= BlockBudget})
PartialLen(d) == d
BlockParams(row, partial) == [c |-> Fit(row), b |-> Fit(partial)]
-----------------------------------------------------------------------------
(* Leaves of c positions aligned on multiples of c over lo..hi-1, under    *)
(* nodes of b children; a node is the sequence of child indices to it.     *)

BlockTree(lo, hi, p) == [lo |-> lo, hi |-> hi, c |-> p.c, b |-> p.b]
TreeLeaves(tree) == ((tree.hi - 1) \div tree.c) - (tree.lo \div tree.c) + 1
Depth(tree) == Min({d \in 0..TreeLeaves(tree) : tree.b^d >= TreeLeaves(tree)})
LeavesPerNode(tree, level) == tree.b^(Depth(tree) - level)

\* First position, and one past the last, of the tree leaves a..z-1.
Positions(tree, a, z) ==
    LET first == tree.lo \div tree.c
    IN  <<AtLeast(tree.lo, (first + a) * tree.c), AtMost(tree.hi, (first + z) * tree.c)>>

\* The tree leaves under a node; <<>> for a path that leaves the tree.
LeafRange(tree, path) ==
    LET range[level \in 0..Len(path)] ==
            IF level = 0 THEN <<0, TreeLeaves(tree)>>
            ELSE LET s == LeavesPerNode(tree, level)
                     above == range[level - 1]
                     a == above[1] + path[level] * s
                 IN  IF above = <<>> \/ path[level] >= CeilDiv(above[2] - above[1], s) THEN <<>>
                     ELSE <<a, AtMost(above[2], a + s)>>
    IN  IF Len(path) > Depth(tree) THEN <<>> ELSE range[Len(path)]

Node(tree, path) == LET l == LeafRange(tree, path) IN Positions(tree, l[1], l[2])

\* Positions of each child; <<>> for a leaf.
Children(tree, path) ==
    LET l == LeafRange(tree, path)
        s == LeavesPerNode(tree, Len(path) + 1)
    IN  IF Len(path) >= Depth(tree) \/ l = <<>> THEN <<>>
        ELSE [i \in 1..CeilDiv(l[2] - l[1], s) |-> Positions(tree, l[1] + (i - 1) * s, AtMost(l[2], l[1] + i * s))]

\* draw_weighted_child: uniform for half of the draws, else by weight.
DrawWeightedChild(uniform, r, weights) ==
    LET n == Len(weights)
        below[i \in 0..n] == IF i = 0 THEN 0 ELSE below[i - 1] + weights[i]
        hit == {i \in 1..n : (r % AtLeast(below[n], 1)) < below[i]}
    IN  IF uniform THEN r % n ELSE IF hit = {} THEN n - 1 ELSE Min(hit) - 1
-----------------------------------------------------------------------------
(* Spans of sequence leaves: the whole chunks that cover lo..hi-1.         *)

Span(m, r, leaf, total, lo, hi) ==
    IF lo >= hi \/ hi > total THEN Refused
    ELSE [built |-> TRUE, leaf |-> leaf, total |-> SeqLen(m, r, leaf), first |-> lo \div SeqChunk,
          len |-> AtMost(total, CeilDiv(hi, SeqChunk) * SeqChunk) - (lo \div SeqChunk) * SeqChunk]
NoSpan == [built |-> TRUE, leaf |-> NoEntry, total |-> 0, first |-> 0, len |-> 0]

\* Chunks of a leaf that cover its values lo..lo+n-1.
ValueChunks(m, r, t, leaf, lo, n) ==
    [i \in 1..((lo + n - 1) \div PerChunk) - (lo \div PerChunk) + 1 |-> LeafChunk(m, r, t, leaf, (lo \div PerChunk) + i - 1)]

Latent(a) == a.mla_rank > 0

\* The attention point of a draw.
DrawAttn(m, r, d) ==
    LET slot == d.d1 % m.chain.n_attn
        layer == Min({l \in AttnLayers(m) : Attn(m, l).slot = slot})
        a    == Attn(m, layer)
        t    == ResidPosition(m, r, layer, d.d0)
        g    == a.n_head \div a.n_head_kv
        kv   == d.d2 % a.n_head_kv
        start == IF ~Latent(a) /\ a.swa_window > 0 THEN Floor(t + 1, a.swa_window) ELSE 0
        row  == CacheRow(a)
        dv   == IF Latent(a) THEN a.mla_rank ELSE a.head_dim
    IN  [layer |-> layer, slot |-> slot, t |-> t, a |-> a, dv |-> dv, start |-> start, anchor |-> d.d3,
         head |-> IF Latent(a) THEN d.d2 % a.n_head ELSE kv,
         qh |-> IF Latent(a) THEN d.d2 % a.n_head ELSE kv * g + ((d.d2 \div a.n_head_kv) % g),
         tree |-> BlockTree(start, t + 1, BlockParams(IF Latent(a) THEN row ELSE 2 * row, PartialLen(dv))),
         proj |-> IF Latent(a) /\ a.out # NoEntry THEN a.out ELSE LayerLinks(m, layer).proj]

IsLeafPhase(p, path) == Len(path) = Depth(p.tree)
Anchor(p, path) == LET n == Node(p.tree, path) IN n[1] + (p.anchor % (n[2] - n[1]))
PartialOf(p, range) == <<p.slot, p.t, p.qh, range>>
Partials(p, path) == [i \in DOMAIN Children(p.tree, path) |-> PartialOf(p, Children(p.tree, path)[i])]

\* Leaves the phase needs: the query, the output at the first, the anchor at the last.
AttnCaptures(p, path) ==
    {<<p.t, LeafY(p.a.q)>>} \cup (IF path = <<>> THEN {<<p.t, LeafX(p.proj)>>} ELSE {})
      \cup (IF Latent(p.a) THEN {<<p.t, LeafY(p.a.absorb)>>} ELSE {})
      \cup (IF IsLeafPhase(p, path)
            THEN {<<Anchor(p, path), LeafY(s)>> : s \in {p.a.k} \cup (IF Latent(p.a) \/ p.a.v = p.a.k THEN {} ELSE {p.a.v})} ELSE {})

\* The query and the anchor of a phase; norms are those the layer declares.
QueryChunks(m, r, p) ==
    LET a == p.a
        w == m.entries[a.q].m \div a.n_head
        rope == a.head_dim - a.mla_rank
        qw == a.head_dim * (1 + a.gated)
    IN  IF Latent(a) THEN ValueChunks(m, r, p.t, LeafY(a.q), p.head * w + (w - rope), rope)
        ELSE ValueChunks(m, r, p.t, LeafY(a.q), p.qh * qw, qw)
AnchorChunks(m, r, p, path, src) ==
    ValueChunks(m, r, Anchor(p, path), LeafY(src), IF Latent(p.a) THEN 0 ELSE p.head * p.a.head_dim, p.a.head_dim)
NormWeights(a) ==
    IF Latent(a) THEN <<BytesRange(a.k_norm, 0, a.mla_rank)>>
    ELSE [i \in 1..Len(SelectSeq(<<a.q_norm, a.k_norm, a.rope_freqs>>, LAMBDA e : e # NoEntry)) |->
            LET e == SelectSeq(<<a.q_norm, a.k_norm, a.rope_freqs>>, LAMBDA x : x # NoEntry)[i]
            IN  BytesRange(e, 0, IF e = a.rope_freqs THEN a.n_rot \div 2 ELSE a.head_dim)]
CacheSpan(m, r, p, path, leaf) ==
    LET n == Node(p.tree, path) IN Span(m, r, leaf, r.n_pos * CacheRow(p.a), n[1] * CacheRow(p.a), n[2] * CacheRow(p.a))
MassSpan(m, r, p) ==
    LET g == Group(p.a)
        kv == IF Latent(p.a) THEN 0 ELSE p.head
        at == p.t * g + (IF Latent(p.a) THEN p.qh ELSE p.qh - kv * g)
    IN  Span(m, r, Lse(m, p.slot, kv), r.n_pos * g, at, at + 1)

\* The body of a phase; prev is the sequence of partials the phase before committed.
BuildPhase(m, r, d, path, prev) ==
    LET p    == DrawAttn(m, r, d)
        a    == p.a
        root == path = <<>>
        last == IsLeafPhase(p, path)
        kv   == IF Latent(a) THEN 0 ELSE p.head
        If(c, x) == IF c THEN x ELSE <<>>
    IN  [layer |-> m.chain.layer_base + p.layer, path |-> path, parent |-> If(~root, <<prev[path[Len(path)] + 1]>>),
         q_entry |-> If(root \/ last, <<a.q>>), q |-> If(root \/ last, QueryChunks(m, r, p)),
         o_entry |-> If(root, <<p.proj>>), out |-> If(root, <<XOf(m, r, p.t, p.proj)>>),
         lse |-> If(root, <<MassSpan(m, r, p)>>), norms |-> If(last, NormWeights(a)),
         kcache |-> If(last, <<CacheSpan(m, r, p, path, KCache(m, p.slot, kv))>>),
         vcache |-> If(last /\ ~Latent(a), <<CacheSpan(m, r, p, path, VCache(m, p.slot, kv))>>),
         anchor_k |-> If(last, AnchorChunks(m, r, p, path, a.k)),
         anchor_v |-> If(last /\ ~Latent(a) /\ a.v # a.k, AnchorChunks(m, r, p, path, a.v)),
         absorb |-> If(last /\ Latent(a), ValueChunks(m, r, p.t, LeafY(a.absorb), p.head * a.mla_rank, a.mla_rank)),
         partials |-> If(~last, Partials(p, path))]

Leaves(chunks) == {<<c.t, c.leaf>> : c \in Range(chunks)}
PhaseReads(o) == UNION {Leaves(o.q), Leaves(o.out), Leaves(o.anchor_k), Leaves(o.anchor_v), Leaves(o.absorb)}
-----------------------------------------------------------------------------
(* The recurrent point: one segment of one head, some rows of its state,   *)
(* and one position of it against the projections.                         *)

DrawRecur(m, r, d) ==
    LET slot  == d.d1 % m.chain.n_recur
        layer == Min({l \in RecurLayers(m) : Recur(m, l).slot = slot})
        u     == Recur(m, layer)
        seg   == d.d0 % CeilDiv(r.n_pos, u.interval)
        first == seg * u.interval
        end   == AtMost((seg + 1) * u.interval, r.n_pos)
    IN  [layer |-> layer, slot |-> slot, u |-> u, head |-> d.d2 % u.n_v_heads, segment |-> seg, first |-> first, end |-> end,
         row0 |-> (d.d3 % (u.head_dim \div RecurRows)) * RecurRows, anchor |-> first + (d.hi % (end - first)),
         proj |-> LayerLinks(m, layer).proj]

\* Where the channels of the head are in the projections.
Offsets(p) ==
    LET u == p.u
        hk == p.head % u.n_k_heads
    IN  IF u.kind = "kda" THEN [x \in {"q", "k", "v"} |-> p.head * u.head_dim]
        ELSE [q |-> hk * u.head_dim, k |-> (u.n_k_heads + hk) * u.head_dim, v |-> (2 * u.n_k_heads + p.head) * u.head_dim]
Taps(p) == Floor(p.anchor + 1, p.u.conv_len)..p.anchor

RecurCaptures(p) ==
    {<<t, LeafY(s)>> : t \in Taps(p), s \in IF p.u.kind = "kda" THEN {p.u.q, p.u.k, p.u.v} ELSE {p.u.q}}
      \cup {<<p.anchor, l>> : l \in {LeafY(p.u.beta), LeafY(p.u.decay), LeafY(p.u.gate), LeafX(p.proj)}}

\* Rows of the state after segment s.
StateRows(m, r, p, s) ==
    LET base == (s - 1) * StateLen(p.u)
    IN  Span(m, r, Checkpoint(m, p.slot, p.head), (r.n_pos \div p.u.interval) * StateLen(p.u),
             base + p.row0 * p.u.head_dim, base + (p.row0 + RecurRows) * p.u.head_dim)

BuildRecur(m, r, d) ==
    LET p  == DrawRecur(m, r, d)
        u  == p.u
        hd == u.head_dim
        gw == IF u.kind = "kda" THEN hd ELSE 1
        Tap(t, x) == LeafChunk(m, r, t, LeafY(u[x]), Offsets(p)[x] \div PerChunk)
        At(src, off) == LeafChunk(m, r, p.anchor, LeafY(src), off \div PerChunk)
    IN  [layer |-> m.chain.layer_base + p.layer, out_entry |-> p.proj, decay_entry |-> u.decay,
         weights |-> [x \in {"q", "k", "v"} |-> BytesRange(u.conv[x], Offsets(p)[x] * u.conv_len, hd * u.conv_len)],
         dt |-> BytesRange(u.dt, p.head * gw, gw), a |-> BytesRange(u.a, p.head, 1), norm |-> BytesRange(u.norm, 0, hd),
         records |-> Span(m, r, Record(m, p.slot, p.head), r.n_pos * RecordLen(u), p.first * RecordLen(u), p.end * RecordLen(u)),
         start_rows |-> IF p.segment > 0 THEN StateRows(m, r, p, p.segment) ELSE NoSpan,
         end_rows |-> IF p.end - p.first = u.interval THEN StateRows(m, r, p, p.segment + 1) ELSE NoSpan,
         taps |-> [i \in 1..Cardinality(Taps(p)) |->
                     [t |-> Min(Taps(p)) + i - 1, at |-> [x \in {"q", "k", "v"} |-> Tap(Min(Taps(p)) + i - 1, x)]]],
         beta |-> At(u.beta, p.head), decay |-> At(u.decay, p.head * gw), gate |-> At(u.gate, p.head * hd),
         out |-> XOf(m, r, p.anchor, p.proj)]

RecurReads(o) ==
    {<<c.t, c.leaf>> : c \in {o.beta, o.decay, o.gate, o.out} \cup {o.taps[i].at[x] : i \in DOMAIN o.taps, x \in {"q", "k", "v"}}}
=============================================================================

------------------------------ MODULE SeqCheck ------------------------------
(***************************************************************************)
(* The node's side of the attention phases (chain.rs) and of the recurrent *)
(* point (recur.rs).                                                       *)
(***************************************************************************)
EXTENDS PointCheck, SeqOpening

\* open_span.
SpanOK(m, r, span, leaf, total, lo, hi) ==
    /\ leaf # NoEntry /\ lo < hi /\ hi <= total
    /\ span = [built |-> TRUE, leaf |-> leaf, total |-> total, first |-> lo \div SeqChunk,
               len |-> AtMost(total, CeilDiv(hi, SeqChunk) * SeqChunk) - (lo \div SeqChunk) * SeqChunk]
    /\ SeqLen(m, r, leaf) = total

\* head_from_chunks: committed chunks of the leaf that cover the values lo..lo+n-1.
HeadFromChunks(m, r, chunks, t, leaf, total, lo, n) ==
    /\ chunks # <<>>
    /\ \A c \in Range(chunks) : ChunkOK(m, r, c, t, leaf, total, c.index)
    /\ \A i \in lo..(lo + n - 1) : \E c \in Range(chunks) : c.index = i \div PerChunk

\* f32_weights.
WeightsOK(m, range, entry, k, offset, n) ==
    m.entries[entry].role = "norm" /\ m.entries[entry].k = k /\ RangeOK(m, range, entry, offset, n)

\* attn_site: the layer opened must be the drawn slot's.
AttnSite(m, r, d, o) ==
    LET layer == o.layer - m.chain.layer_base
        a == Attn(m, layer)
        t == ResidPosition(m, r, layer, d.d0)
        row == CacheRow(a)
        g == a.n_head \div a.n_head_kv
        kv == d.d2 % a.n_head_kv
        start == IF ~Latent(a) /\ a.swa_window > 0 THEN Floor(t + 1, a.swa_window) ELSE 0
        dv == IF Latent(a) THEN a.mla_rank ELSE a.head_dim
    IN  [layer |-> layer, a |-> a, t |-> t, slot |-> d.d1 % m.chain.n_attn, dv |-> dv, draw |-> d.d3,
         kv |-> IF Latent(a) THEN 0 ELSE kv,
         qh |-> IF Latent(a) THEN d.d2 % a.n_head ELSE kv * g + ((d.d2 \div a.n_head_kv) % g),
         tree |-> BlockTree(start, t + 1, BlockParams(IF Latent(a) THEN row ELSE 2 * row, PartialLen(dv))),
         rank |-> IF Latent(a) /\ a.out # NoEntry THEN a.out ELSE LayerLinks(m, layer).proj]
AttnSiteOK(m, d, o) ==
    LET layer == o.layer - m.chain.layer_base
    IN  /\ layer \in Layers(m) /\ LayerLinks(m, layer).attn # <<>>
        /\ Attn(m, layer).slot = d.d1 % m.chain.n_attn
        /\ Attn(m, layer).head_dim % Block = 0
        /\ LET a == Attn(m, layer)
               p == BlockParams(IF Latent(a) THEN CacheRow(a) ELSE 2 * CacheRow(a), PartialLen(IF Latent(a) THEN a.mla_rank ELSE a.head_dim))
           IN  p.c >= 1 /\ p.b >= 2

\* The fields a phase may carry, no more.
PhaseFields(o, root, last) ==
    /\ ~(root \/ last) => o.q_entry = <<>> /\ o.q = <<>>
    /\ ~root => o.o_entry = <<>> /\ o.out = <<>> /\ o.lse = <<>>
    /\ ~last => o.norms = <<>> /\ o.kcache = <<>> /\ o.vcache = <<>> /\ o.anchor_k = <<>> /\ o.anchor_v = <<>> /\ o.absorb = <<>>
    /\ last => o.partials = <<>>

\* The shape of the layer and of its products.
GqaShapeOK(m, s) ==
    LET a == s.a
    IN  /\ a.absorb = NoEntry /\ a.out = NoEntry
        /\ a.n_head % a.n_head_kv = 0 /\ m.entries[a.q].m = a.n_head * a.head_dim * (1 + a.gated)
MlaShapeOK(m, s) ==
    LET a == s.a
        rope == a.head_dim - a.mla_rank
    IN  /\ a.n_head_kv = 1 /\ a.swa_window = 0 /\ a.gated = 0 /\ a.q_norm = NoEntry /\ a.rope_freqs = NoEntry
        /\ a.v = NoEntry /\ a.k_norm # NoEntry /\ a.absorb # NoEntry
        /\ m.entries[a.q].m % a.n_head = 0 /\ (m.entries[a.q].m \div a.n_head) > rope

\* The output whose head the root of the tree must give, and its committed mass.
OutOK(m, r, o, s) ==
    LET e == m.entries[s.rank]
    IN  /\ o.o_entry = <<s.rank>> /\ Len(o.out) = 1
        /\ IF Latent(s.a) THEN e.k = s.a.mla_rank /\ e.nexp = s.a.n_head /\ IsHeads(e) ELSE e.k = s.a.n_head * s.a.head_dim
        /\ o.out[1] = XOf(m, r, s.t, s.rank)
        /\ o.out[1].len = XLen(e.k) * (IF Latent(s.a) THEN s.a.n_head ELSE 1)
        /\ LayoutFor(ExpectedUbatch(s.t, r.n_prompt), e.wtype) = InputLayout(e.role, r.ubatch[s.t], e.wtype)
MassOK(m, r, o, s) ==
    LET g == Group(s.a)
        at == s.t * g + (s.qh - (IF Latent(s.a) THEN 0 ELSE s.kv * g))
    IN  Len(o.lse) = 1 /\ SpanOK(m, r, o.lse[1], Lse(m, s.slot, s.kv), r.n_pos * g, at, at + 1)

\* The query of the drawn head (gqa_query, mla_query), and the gate that scales the output.
QueryOK(m, r, o, s) ==
    LET a == s.a
        total == m.entries[a.q].m
        w == total \div a.n_head
        rope == a.head_dim - a.mla_rank
    IN  /\ o.q_entry = <<a.q>>
        /\ IF Latent(a)
           THEN /\ HeadFromChunks(m, r, o.absorb, s.t, LeafY(a.absorb), a.n_head * a.mla_rank, s.qh * a.mla_rank, a.mla_rank)
                /\ HeadFromChunks(m, r, o.q, s.t, LeafY(a.q), total, s.qh * w + (w - rope), rope)
           ELSE HeadFromChunks(m, r, o.q, s.t, LeafY(a.q), total, s.qh * a.head_dim * (1 + a.gated), a.head_dim * (1 + a.gated))
GateOK(m, r, o, s) ==
    LET a == s.a
    IN  a.gated = 1 => HeadFromChunks(m, r, o.q, s.t, LeafY(a.q), m.entries[a.q].m, s.qh * a.head_dim * 2 + a.head_dim, a.head_dim)

NormsOK(m, o, a) ==
    IF Latent(a) THEN Len(o.norms) = 1 /\ WeightsOK(m, o.norms[1], a.k_norm, a.mla_rank, 0, a.mla_rank)
    ELSE LET declared == SelectSeq(<<<<a.q_norm, a.head_dim>>, <<a.k_norm, a.head_dim>>, <<a.rope_freqs, a.n_rot \div 2>>>>, LAMBDA x : x[1] # NoEntry)
         IN  Len(o.norms) = Len(declared) /\ \A i \in DOMAIN declared : WeightsOK(m, o.norms[i], declared[i][1], declared[i][2], 0, declared[i][2])

\* The cache rows of a leaf, and one of them against the projections at its position.
RowsOfLeafOK(m, r, o, s, path) ==
    LET a == s.a
        n == Node(s.tree, path)
        Rows(span, leaf) == Len(span) = 1 /\ SpanOK(m, r, span[1], leaf, r.n_pos * CacheRow(a), n[1] * CacheRow(a), n[2] * CacheRow(a))
    IN  /\ Rows(o.kcache, KCache(m, s.slot, s.kv))
        /\ IF Latent(a) THEN o.vcache = <<>> ELSE Rows(o.vcache, VCache(m, s.slot, s.kv))
AnchorOK(m, r, o, s, path) ==
    LET a == s.a
        n == Node(s.tree, path)
        ps == n[1] + (s.draw % (n[2] - n[1]))
        total == IF Latent(a) THEN a.head_dim ELSE a.n_head_kv * a.head_dim
        lo == IF Latent(a) THEN 0 ELSE s.kv * a.head_dim
    IN  /\ HeadFromChunks(m, r, o.anchor_k, ps, LeafY(a.k), total, lo, a.head_dim)
        /\ IF Latent(a) \/ a.v = a.k THEN o.anchor_v = <<>>
           ELSE HeadFromChunks(m, r, o.anchor_v, ps, LeafY(a.v), total, lo, a.head_dim)

\* The output check at the first phase, the cache check at the last one.
GqaPhase(m, r, o, s, path, root, last) ==
    /\ GqaShapeOK(m, s) /\ o.absorb = <<>> /\ o.q_entry = <<s.a.q>>
    /\ root => OutOK(m, r, o, s) /\ MassOK(m, r, o, s) /\ GateOK(m, r, o, s)
    /\ last => NormsOK(m, o, s.a) /\ QueryOK(m, r, o, s) /\ RowsOfLeafOK(m, r, o, s, path) /\ AnchorOK(m, r, o, s, path)

\* The same of a latent cache, which has no values of its own.
MlaPhase(m, r, o, s, path, root, last) ==
    /\ MlaShapeOK(m, s) /\ o.q_entry = <<s.a.q>> /\ o.anchor_v = <<>> /\ o.vcache = <<>>
    /\ root => OutOK(m, r, o, s) /\ MassOK(m, r, o, s)
    /\ last => NormsOK(m, o, s.a) /\ QueryOK(m, r, o, s) /\ RowsOfLeafOK(m, r, o, s, path) /\ AnchorOK(m, r, o, s, path)

\* verify_attn_phase: parent is the partials the phase before committed, <<>> at the first.
VerifyPhase(m, r, d, path, parent, o) ==
    LET s    == AttnSite(m, r, d, o)
        root == path = <<>>
        last == Len(path) = Depth(s.tree)
        ch   == Children(s.tree, path)
        Of(range) == <<s.slot, s.t, s.qh, range>>
    IN  /\ AttnSiteOK(m, d, o)
        /\ o.path = path /\ Len(path) <= Depth(s.tree)
        /\ root = (parent = <<>>) /\ root = (o.parent = <<>>)
        /\ ~root => /\ Len(parent) = Len(Children(s.tree, Front(path)))
                    /\ o.parent = <<parent[Last(path) + 1]>>
                    /\ o.parent[1] = Of(Node(s.tree, path))
        /\ PhaseFields(o, root, last)
        /\ ~last => o.partials = [i \in DOMAIN ch |-> Of(ch[i])] /\ ch # <<>>
        /\ root \/ last => IF Latent(s.a) THEN MlaPhase(m, r, o, s, path, root, last) ELSE GqaPhase(m, r, o, s, path, root, last)
-----------------------------------------------------------------------------
\* chunk_values: the values lie in one chunk, the one opened.
ValuesOK(m, r, c, t, leaf, total, off, n) ==
    (off % PerChunk) + n <= PerChunk /\ ChunkOK(m, r, c, t, leaf, total, off \div PerChunk)

RecurSite(m, r, d, o) ==
    LET layer == o.layer - m.chain.layer_base
        u == Recur(m, layer)
        s == d.d0 % CeilDiv(r.n_pos, u.interval)
        c == s * u.interval
        e == AtMost((s + 1) * u.interval, r.n_pos)
    IN  [layer |-> layer, u |-> u, slot |-> d.d1 % m.chain.n_recur, h |-> d.d2 % u.n_v_heads, s |-> s, c |-> c, e |-> e,
         r0 |-> (d.d3 % (u.head_dim \div RecurRows)) * RecurRows, p |-> c + (d.hi % (e - c))]
RecurLayerOK(m, d, o) ==
    LET layer == o.layer - m.chain.layer_base
    IN  /\ layer \in Layers(m) /\ LayerLinks(m, layer).recur # <<>>
        /\ LET u == Recur(m, layer)
           IN  /\ u.slot = d.d1 % m.chain.n_recur /\ u.interval > 0
               /\ u.head_dim % Block = 0 /\ u.head_dim % RecurRows = 0
               /\ u.n_v_heads % u.n_k_heads = 0 /\ u.n_v_heads <= m.chain.seq_heads /\ (u.kind = "kda" => u.n_k_heads = u.n_v_heads)

\* The delta rule over a segment: the state before it, the records, the state after it.
SegmentOK(m, r, s, o) ==
    LET u == s.u
        len == (r.n_pos \div u.interval) * StateLen(u)
        Rows(n, span) == SpanOK(m, r, span, Checkpoint(m, s.slot, s.h), len,
                                (n - 1) * StateLen(u) + s.r0 * u.head_dim, (n - 1) * StateLen(u) + (s.r0 + RecurRows) * u.head_dim)
    IN  /\ SpanOK(m, r, o.records, Record(m, s.slot, s.h), r.n_pos * RecordLen(u), s.c * RecordLen(u), s.e * RecordLen(u))
        /\ IF s.s = 0 THEN o.start_rows = NoSpan ELSE Rows(s.s, o.start_rows)
        /\ IF s.e - s.c = u.interval THEN Rows(s.s + 1, o.end_rows) ELSE o.end_rows = NoSpan

\* Offsets of the head's channels, and values of the leaf that holds them.
Channels(s) ==
    LET u == s.u
        hk == s.h % u.n_k_heads
        hd == u.head_dim
    IN  IF u.kind = "kda" THEN [off |-> [x \in {"q", "k", "v"} |-> s.h * hd], total |-> u.n_v_heads * hd]
        ELSE [off |-> [q |-> hk * hd, k |-> (u.n_k_heads + hk) * hd, v |-> 2 * u.n_k_heads * hd + s.h * hd],
              total |-> (2 * u.n_k_heads + u.n_v_heads) * hd]

\* The record of one position against the projections, the convolution before it and the output.
RecordOK(m, r, s, o) ==
    LET u == s.u
        hd == u.head_dim
        ch == Channels(s)
        n_taps == AtMost(s.p + 1, u.conv_len)
        gw == IF u.kind = "kda" THEN hd ELSE 1
        out == m.entries[LayerLinks(m, s.layer).proj]
    IN  /\ Len(o.taps) = n_taps
        /\ \A i \in 1..n_taps, x \in {"q", "k", "v"} :
              ValuesOK(m, r, o.taps[i].at[x], s.p + i - n_taps, LeafY(u[x]), ch.total, ch.off[x], hd)
        /\ \A x \in {"q", "k", "v"} : WeightsOK(m, o.weights[x], u.conv[x], u.conv_len * ch.total, ch.off[x] * u.conv_len, hd * u.conv_len)
        /\ ValuesOK(m, r, o.beta, s.p, LeafY(u.beta), u.n_v_heads, s.h, 1)
        /\ EntryOK(o.decay_entry, u.decay) /\ m.entries[u.decay].role = "product"
        /\ ValuesOK(m, r, o.decay, s.p, LeafY(u.decay), u.n_v_heads * gw, s.h * gw, gw)
        /\ WeightsOK(m, o.dt, u.dt, u.n_v_heads * gw, s.h * gw, gw) /\ WeightsOK(m, o.a, u.a, u.n_v_heads, s.h, 1)
        /\ ValuesOK(m, r, o.gate, s.p, LeafY(u.gate), u.n_v_heads * hd, s.h * hd, hd)
        /\ WeightsOK(m, o.norm, u.norm, hd, 0, hd)
        /\ EntryOK(o.out_entry, LayerLinks(m, s.layer).proj) /\ out.k = u.n_v_heads * hd
        /\ o.out = XOf(m, r, s.p, o.out_entry) /\ o.out.len = XLen(out.k)
        /\ LayoutFor(ExpectedUbatch(s.p, r.n_prompt), out.wtype) = InputLayout(out.role, r.ubatch[s.p], out.wtype)

\* verify_recur_point.
VerifyRecur(m, r, d, o) ==
    /\ RecurLayerOK(m, d, o)
    /\ SegmentOK(m, r, RecurSite(m, r, d, o), o)
    /\ RecordOK(m, r, RecurSite(m, r, d, o), o)
-----------------------------------------------------------------------------
(* What accepted openings have related.                                    *)

\* The output of a head against the positions under an opened leaf; one cache row.
PhaseRelations(m, r, d, path) ==
    LET p == DrawAttn(m, r, d)
        n == Node(p.tree, path)
        rank == p.proj
    IN  (IF path = <<>> THEN {<<"out", p.t, rank, p.qh>>, <<"mass", p.slot, p.t, p.qh>>} ELSE {})
          \cup (IF IsLeafPhase(p, path)
                THEN {<<"attend", p.slot, p.t, p.qh, i>> : i \in n[1]..(n[2] - 1)} \cup {<<"cache", p.slot, IF Latent(p.a) THEN 0 ELSE p.head, Anchor(p, path)>>}
                ELSE {})

RecurRelations(m, r, d) ==
    LET p == DrawRecur(m, r, d)
    IN  {<<"out", p.anchor, p.proj, p.head>>, <<"record", p.slot, p.head, p.anchor>>}
          \cup {<<"state", p.slot, p.head, t, i>> : t \in p.first..(p.end - 1), i \in p.row0..(p.row0 + RecurRows - 1)}
=============================================================================

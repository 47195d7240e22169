----------------------------- MODULE PointCheck -----------------------------
(***************************************************************************)
(* The node's side of a trace opening: verify_point_at (verify.rs),        *)
(* verify_chain_point, verify_resid_opening (chain.rs) and                 *)
(* verify_prefix_point_at (prefix.rs).  Each predicate is what the node    *)
(* requires of the fields opened, next to the values it derives itself     *)
(* from the draw and from the manifest; the sets of relations say which    *)
(* committed values an accepted opening has related.                       *)
(***************************************************************************)
EXTENDS PointOpening

\* The product a draw falls on, as the node derives it.
Site(m, r, d) ==
    LET rank  == d.d1 % m.np
        first == m.entries[rank]
        from  == r.n_prompt - 1
        t     == IF first.role = "output" THEN from + (d.d0 % (r.n_pos - from)) ELSE d.d0 % r.n_pos
        g     == IF first.form = "up" THEN first.partner ELSE rank
        n_used == Slots(m, m.entries[g])
    IN  [rank |-> rank, g |-> g, t |-> t, n_used |-> n_used, slot |-> IF n_used > 1 THEN d.hi % n_used ELSE 0,
         row |-> d.d2 % MOut(m.entries[g])]

\* open_entry: the manifest entry of the index expected.
EntryOK(opened, expected) == opened = expected

\* open_bytes and open_row: exactly the weight chunks the node derives.
RangeOK(m, range, i, offset, len) ==
    /\ range = [entry |-> i, first |-> offset \div WeightChunk, last |-> (offset + len - 1) \div WeightChunk]
    /\ offset + len <= m.entries[i].nbytes
RowOK(m, range, i, exp, row) ==
    /\ row < m.entries[i].m /\ exp < m.entries[i].nexp
    /\ RangeOK(m, range, i, (exp * m.entries[i].m + row) * m.entries[i].rb, m.entries[i].rb)

\* The input committed at the position, of one row or of one per slot, in the layout the node expects.
InputOK(m, r, x, t, rank, n_slots, layout) ==
    LET e == m.entries[rank]
    IN  /\ x = XOf(m, r, t, rank)
        /\ \/ x.len = XLen(e.k)
           \/ n_slots > 1 /\ x.len = n_slots * XLen(e.k)
        /\ layout = InputLayout(e.role, r.ubatch[t], e.wtype)

\* The batch size the node derives and the meta leaf of the position.
PositionOK(r, t, n_ubatch, tok) ==
    /\ n_ubatch = ExpectedUbatch(t, r.n_prompt)
    /\ CommittedMeta(r, t) = <<t, n_ubatch, tok>>

PartnerOK(m, s, partner) ==
    LET first == m.entries[s.rank]
    IN  IF first.form \in {"gate", "up"}
        THEN /\ EntryOK(partner, first.partner)
             /\ m.entries[partner].partner = s.rank
             /\ m.entries[partner].k = first.k /\ m.entries[partner].m = first.m /\ m.entries[partner].nexp = first.nexp
        ELSE partner = NoEntry

\* The expert of the slot, read from the ids that close the output leaf.
SlotExpert(m, r, s, o) ==
    IF IsExperts(m.entries[s.g]) THEN RoutedExpert(m, s.t, s.slot) ELSE s.slot

BiasOK(m, rank, bias, row) ==
    LET b == m.entries[rank].bias
    IN  IF b = NoEntry THEN bias = NoRange
        ELSE m.entries[b].role = "bias" /\ m.entries[b].k = m.entries[rank].m /\ RangeOK(m, bias, b, row, 1)

\* The weight rows of the point.
RowsOK(m, s, o, exp) ==
    LET g == m.entries[s.g]
    IN  CASE g.form = "none" -> Len(o.rows) = 1 /\ RowOK(m, o.rows[1], s.g, exp, s.row) /\ BiasOK(m, s.g, o.bias, s.row)
          [] g.form = "split" -> /\ Len(o.rows) = 2 /\ o.bias = NoRange
                                 /\ RowOK(m, o.rows[1], s.g, exp, s.row)
                                 /\ RowOK(m, o.rows[2], s.g, exp, s.row + MOut(g))
          [] OTHER -> /\ Len(o.rows) = 2 /\ o.bias = NoRange
                      /\ RowOK(m, o.rows[1], s.g, exp, s.row)
                      /\ RowOK(m, o.rows[2], g.partner, exp, s.row)

\* verify_point_at.
VerifyPoint(m, r, d, o, tok) ==
    LET s       == Site(m, r, d)
        g       == m.entries[s.g]
        experts == IsExperts(g)
        body    == s.n_used * MOut(g)
        total   == body + (IF experts THEN s.n_used ELSE 0)
        y_off   == s.slot * MOut(g) + s.row
    IN  /\ EntryOK(o.entry, s.rank)
        /\ m.entries[s.rank].role \in {"product", "output", "heads"}
        /\ PartnerOK(m, s, o.partner)
        /\ experts = (o.ids # <<>>)
        /\ experts => m.chain.n_used > 0 /\ body % PerChunk = 0
        /\ IsHeads(g) => g.nexp >= 2 /\ g.form = "none"
        /\ InputOK(m, r, o.x, s.t, s.g, s.n_used, InputLayout(m.entries[s.rank].role, o.n_ubatch, g.wtype))
        /\ PositionOK(r, s.t, o.n_ubatch, tok)
        /\ ChunkOK(m, r, o.y, s.t, LeafY(s.g), total, y_off \div PerChunk)
        /\ experts => /\ ChunkOK(m, r, o.ids, s.t, LeafY(s.g), total, body \div PerChunk)
                      /\ SlotExpert(m, r, s, o) < g.nexp
        /\ RowsOK(m, s, o, SlotExpert(m, r, s, o))

\* The blocks of the fragment of norm weights a link compares.
FragmentOK(m, range, norm, k, block) ==
    LET f == NormFragment(block, k)
    IN  /\ block # NoEntry
        /\ m.entries[norm].role = "norm" /\ m.entries[norm].k = k
        /\ RangeOK(m, range, norm, f[1] * Block, AtMost(f[2] * Block, k - f[1] * Block))

\* The leaf a normed input comes from, as the node derives it.
NormSource(m, e) ==
    CASE e.link = "attn_in" -> ResidLeaf(m, e.layer - 1, "out")
      [] e.link = "ffn_in" -> ResidLeaf(m, e.layer, "attn")
      [] OTHER -> ResidLeaf(m, LastLayer(m), "out")

\* The source a gated, direct or per-head input must have.
SourceOK(m, e, src) ==
    LET se == m.entries[src]
    IN  CASE e.link = "glu" /\ IsExperts(e) -> se.form = "gate" /\ se.nexp = e.nexp /\ se.m = e.k /\ e.k % PerChunk = 0
          [] e.link = "glu" -> e.nexp = 1 /\ se.form \in {"gate", "split"} /\ MOut(se) = e.k /\ se.nexp = 1
          [] e.link = "direct" -> e.nexp = 1 /\ se.form = "none" /\ (IF IsHeads(se) THEN se.m * se.nexp ELSE se.m) = e.k
          [] OTHER -> /\ IsHeads(e) /\ se.role = "product" /\ se.nexp = 1 /\ e.nexp >= 2 /\ se.m % e.nexp = 0
                      /\ e.k <= se.m \div e.nexp /\ e.k % Block = 0 /\ (se.m \div e.nexp) % Block = 0

\* The chunk of the source the link is checked in, and the length of the source leaf.
SourceChunk(m, d, s, part) ==
    LET e == m.entries[s.g]
        block == LinkBlock(d, part, e.k)
    IN  CASE IsExperts(e) -> s.slot * (e.k \div PerChunk) + (block \div ChunkBlocks)
          [] e.link = "slice" -> (s.slot * (m.entries[e.src].m \div e.nexp) + block * Block) \div PerChunk
          [] OTHER -> block \div ChunkBlocks
SourceLen(m, e) ==
    CASE IsExperts(e) -> m.chain.n_used * e.k + m.chain.n_used
      [] e.link = "slice" -> m.entries[e.src].m
      [] OTHER -> e.k

\* verify_chain_point, past the point itself.
VerifyLink(m, r, d, o, tok, link) ==
    LET s    == Site(m, r, d)
        e    == m.entries[s.g]
        one  == XLen(e.k)
        part == IF e.link = "slice" \/ (e.link = "glu" /\ IsExperts(e)) THEN s.slot
                ELSE IF e.link \in {"glu", "direct"} \/ (e.link = "attn_in" /\ e.layer = 0) THEN 0
                ELSE XPart(o.x.len, one, s.slot)
        block == LinkBlock(d, part, e.k)
    IN  /\ e.link # "head" => e.layer < m.chain.n_layers
        /\ CASE e.link = "none" -> link.kind = "none" /\ o.x.len % one = 0
             [] e.link = "attn_in" /\ e.layer = 0 ->
                   /\ link.kind = "token"
                   /\ RowOK(m, link.embd, m.chain.embd, 0, tok)
                   /\ FragmentOK(m, link.norm, e.norm, e.k, block)
             [] e.link \in {"attn_in", "ffn_in", "head"} ->
                   /\ link.kind = "norm"
                   /\ WholeOK(m, r, link.src, s.t, NormSource(m, e), e.k)
                   /\ FragmentOK(m, link.norm, e.norm, e.k, block)
             [] OTHER ->
                   /\ link.kind = "source"
                   /\ EntryOK(link.src, e.src) /\ SourceOK(m, e, e.src)
                   /\ (part + 1) * one <= o.x.len
                   /\ IsExperts(e) = (link.ids # <<>>)
                   /\ IsExperts(e) => ChunkOK(m, r, link.ids, s.t, LeafY(e.src), SourceLen(m, e), (m.chain.n_used * e.k) \div PerChunk)
                   /\ ChunkOK(m, r, link.y, s.t, LeafY(e.src), SourceLen(m, e), SourceChunk(m, d, s, part))

\* verify_prefix_point_at, on a fragment of the norm.
VerifyPrefix(m, r, d, o) ==
    LET t == m.offset + (d.d0 % PrefixLen)
        e == m.entries[0]
        tok == r.request[t - m.offset]
    IN  /\ r.n_prompt >= m.offset + PrefixLen
        /\ o.built
        /\ e.role = "product" /\ e.nexp = 1 /\ m.entries[m.chain.embd].k = e.k
        /\ InputOK(m, r, o.x, t, 0, 1, LayoutFor(o.n_ubatch, e.wtype))
        /\ PositionOK(r, t, o.n_ubatch, tok)
        /\ RowOK(m, o.embd, m.chain.embd, 0, tok)
        /\ FragmentOK(m, o.norm, e.norm, e.k, LinkBlock(d, 0, e.k))
-----------------------------------------------------------------------------
(* The residual opening.                                                   *)

ResidSiteOf(m, r, d) ==
    LET sel == ResidSite(d.d1, 2 * m.chain.n_layers)
        layer == sel \div 2
        kind == IF sel % 2 = 0 THEN "attn" ELSE "out"
        ll == LayerLinks(m, layer)
        rank == IF kind = "attn" THEN ll.proj ELSE ll.down
    IN  [layer |-> layer, kind |-> kind, rank |-> rank, t |-> ResidPosition(m, r, layer, d.d0), dim |-> m.entries[rank].m,
         c |-> d.d2 % AtLeast(CeilDiv(m.entries[rank].m, PerChunk), 1),
         post |-> IF kind = "attn" THEN ll.post_attn ELSE ll.post_ffn, moe |-> ll.moe]

\* layer_role: only a trimmed layer may add an output product.
LayerRole(m, e, layer) == e.role = "product" \/ (Trimmed(m, layer) /\ e.role = "output")

ResidSrcOK(m, r, s, o) ==
    IF s.kind = "attn" /\ s.layer = 0
    THEN "embd" \in DOMAIN o.src /\ RowOK(m, o.src.embd, m.chain.embd, 0, o.tok)
    ELSE /\ "chunk" \in DOMAIN o.src
         /\ ChunkOK(m, r, o.src.chunk, s.t, IF s.kind = "attn" THEN ResidLeaf(m, s.layer - 1, "out") ELSE ResidLeaf(m, s.layer, "attn"), s.dim, s.c)

\* MoeCheck: the routed experts, their weights and one recomputed router score.
MoeOK(m, r, d, s, a) ==
    LET moe   == s.moe[1]
        n     == m.chain.n_used
        n_exp == m.entries[moe.router].m
        total == n * s.dim + n
        y     == LeafY(moe.down_exps)
    IN  /\ m.entries[moe.router].role = "router" /\ m.entries[moe.router].k = s.dim
        /\ WholeOK(m, r, a.scores, s.t, RouterLeaf(m, s.layer), n_exp)
        /\ RangeOK(m, a.bias, moe.probs_bias, 0, n_exp)
        /\ s.dim % PerChunk = 0
        /\ ChunkOK(m, r, a.ids, s.t, y, total, (n * s.dim) \div PerChunk)
        /\ WholeOK(m, r, a.resid, s.t, ResidLeaf(m, s.layer, "attn"), s.dim)
        /\ RangeOK(m, a.norm, moe.ffn_norm, 0, s.dim)
        /\ RangeOK(m, a.router_row, moe.router, (d.d3 % n_exp) * s.dim, s.dim)
        /\ DOMAIN a.slots = 0..(n - 1)
        /\ \A k \in 0..(n - 1) : ChunkOK(m, r, a.slots[k], s.t, y, total, k * (s.dim \div PerChunk) + s.c)
        /\ ChunkOK(m, r, a.shexp, s.t, LeafY(s.rank), s.dim, s.c)

\* verify_resid_point.
VerifyResidPoint(m, r, d, o) ==
    LET s   == ResidSiteOf(m, r, d)
        pe  == m.entries[s.rank]
        off == s.c * PerChunk
        n   == AtMost(PerChunk, s.dim - off)
    IN  /\ EntryOK(o.layer, m.chain.layer_base + s.layer) /\ LayerLinks(m, s.layer).layer = s.layer
        /\ EntryOK(o.product, s.rank) /\ LayerRole(m, pe, s.layer) /\ pe.form = "none" /\ pe.nexp = 1
        /\ ChunkOK(m, r, o.dst, s.t, ResidLeaf(m, s.layer, s.kind), s.dim, s.c)
        /\ PositionOK(r, s.t, o.n_ubatch, o.tok)
        /\ ResidSrcOK(m, r, s, o)
        /\ CASE s.moe # <<>> /\ s.kind = "out" /\ s.post = NoEntry -> o.add.kind = "moe" /\ MoeOK(m, r, d, s, o.add)
             [] s.post = NoEntry -> o.add.kind = "chunk" /\ ChunkOK(m, r, o.add.y, s.t, LeafY(s.rank), s.dim, s.c)
             [] OTHER -> /\ o.add.kind = "normed"
                         /\ WholeOK(m, r, o.add.y, s.t, LeafY(s.rank), s.dim)
                         /\ m.entries[s.post].role = "norm" /\ m.entries[s.post].k = s.dim
                         /\ RangeOK(m, o.add.norm, s.post, off, n)

\* feed_row: one row of a product over its committed input.
FeedOK(m, r, t, n_ubatch, rank, exp, n_slots, row, f) ==
    /\ InputOK(m, r, f.x, t, rank, n_slots, InputLayout(m.entries[rank].role, n_ubatch, m.entries[rank].wtype))
    /\ RowOK(m, f.row, rank, exp, row)

\* The row of the residual chunk whose product is recomputed.
FeedRow(s, d) == s.c * PerChunk + (d.hi % AtMost(PerChunk, s.dim - s.c * PerChunk))

\* verify_resid_opening.
VerifyResid(m, r, d, o) ==
    LET s   == ResidSiteOf(m, r, d)
        row == FeedRow(s, d)
        slot == d.top % AtLeast(m.chain.n_used, 1)
    IN  /\ VerifyResidPoint(m, r, d, o)
        /\ FeedOK(m, r, s.t, o.n_ubatch, s.rank, 0, 1, row, o.feed) /\ BiasOK(m, s.rank, o.feed.bias, row)
        /\ (o.add.kind = "moe") = (o.expert # <<>>)
        /\ o.add.kind = "moe" =>
              LET de == m.entries[s.moe[1].down_exps]
                  er == o.expert[1]
              IN  /\ EntryOK(er.entry, s.moe[1].down_exps)
                  /\ LayerRole(m, de, s.layer) /\ de.form = "none" /\ de.nexp >= 2 /\ de.m = s.dim
                  /\ FeedOK(m, r, s.t, o.n_ubatch, er.entry, RoutedExpert(m, s.t, slot), m.chain.n_used, row, er)
-----------------------------------------------------------------------------
(* What an accepted opening has related.                                   *)

\* The blocks of an input that the drawn link compares.
LinkedBlocks(m, d, s, part) ==
    LET e == m.entries[s.g]
        block == LinkBlock(d, part, e.k)
        f == NormFragment(block, e.k)
        c == SourceChunk(m, d, s, part)
        from == CASE IsExperts(e) -> s.slot * e.k [] e.link = "slice" -> s.slot * (m.entries[e.src].m \div e.nexp) [] OTHER -> 0
    IN  CASE e.link = "none" -> {}
          [] e.link \in {"attn_in", "ffn_in", "head"} -> f[1]..(f[1] + f[2] - 1)
          [] OTHER -> {b \in 0..((e.k \div Block) - 1) : (from + b * Block) \div PerChunk = c}

\* An output row against its input, and input blocks against their source.
PointRelations(m, r, d) ==
    LET s == Site(m, r, d)
        e == m.entries[s.g]
        part == IF e.link \in {"slice", "glu"} THEN s.slot ELSE XPart(CommittedX(m, r, s.t, s.g), XLen(e.k), s.slot)
    IN  {<<"dot", s.t, s.g, s.slot, s.row>>} \cup {<<"input", s.t, s.g, s.slot, b>> : b \in LinkedBlocks(m, d, s, part)}

ResidRelations(m, r, d) ==
    LET s == ResidSiteOf(m, r, d)
        routed == s.moe # <<>> /\ s.kind = "out" /\ s.post = NoEntry
    IN  {<<"resid", s.t, s.layer, s.kind, s.c>>, <<"dot", s.t, s.rank, 0, FeedRow(s, d)>>}
          \cup (IF routed THEN {<<"route", s.t, s.layer>>, <<"score", s.t, s.layer, d.d3 % m.entries[s.moe[1].router].m>>,
                                <<"dot", s.t, s.moe[1].down_exps, d.top % m.chain.n_used, FeedRow(s, d)>>} ELSE {})
=============================================================================

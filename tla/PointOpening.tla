---------------------------- MODULE PointOpening ----------------------------
(***************************************************************************)
(* The points, links, prefix and residual of a trace opening, drawn and    *)
(* built by the miner (src/trace.rs) and drawn and checked by the node     *)
(* (verify.rs, chain.rs, prefix.rs).  The two sides are separate           *)
(* definitions, as in the code.                                            *)
(*                                                                         *)
(* A draw d is the hash of the seed and of the point's index, cut as the   *)
(* code cuts it: d0, d1, d2, d3 (the low half), hi (d[3] >> 32), top       *)
(* (d[3] >> 48), and blk, the draw of link_block.                          *)
(***************************************************************************)
EXTENDS TierManifest

\* An opening that cannot be built.
Refused == [built |-> FALSE]

\* Mutant of the definition below.
LinkBlockInChunk(d, part, k) == IF k % Block # 0 THEN NoEntry ELSE (d.blk + part) % ChunkBlocks

\* The block of a product input that a link checks: drawn, in part by the scales of the row read.
LinkBlock(d, part, k) == IF k % Block # 0 THEN NoEntry ELSE (d.blk + part) % (k \div Block)

\* First block and number of blocks of the norm weights a link opens.
NormFragment(block, k) ==
    LET blocks == CeilDiv(k, Block)
        n      == AtMost(FragBlocks, blocks)
    IN  <<AtMost(block, blocks - n), n>>

\* The row of an input that belongs to a slot; one row serves every slot.
XPart(len, one, slot) == IF len = one THEN 0 ELSE slot
-----------------------------------------------------------------------------
(* The miner's draw.                                                       *)

\* The product, the position, the output row and the slot of a point.
DrawPoint(m, r, d) ==
    LET rank   == d.d1 % m.np
        e0     == m.entries[rank]
        first  == r.n_prompt - 1
        t      == IF e0.role = "output" THEN first + (d.d0 % (r.n_pos - first)) ELSE d.d0 % r.n_pos
        g_rank == IF e0.form = "up" THEN e0.partner ELSE rank
        n_used == Slots(m, m.entries[g_rank])
    IN  [rank |-> rank, g_rank |-> g_rank, t |-> t, row |-> d.d2 % MOut(m.entries[g_rank]), n_used |-> n_used,
         slot |-> IF n_used > 1 THEN d.hi % n_used ELSE 0, experts |-> IsExperts(m.entries[g_rank])]

\* The leaf the input of a product is linked to, at its position.
LinkLeaf(m, g_rank) ==
    LET e == m.entries[g_rank]
    IN  CASE e.link = "none" -> NoEntry
          [] e.link = "attn_in" -> IF e.layer = 0 THEN NoEntry ELSE ResidLeaf(m, e.layer - 1, "out")
          [] e.link = "ffn_in" -> ResidLeaf(m, e.layer, "attn")
          [] e.link = "head" -> ResidLeaf(m, LastLayer(m), "out")
          [] OTHER -> LeafY(e.src)

\* Site 2 * layer + kind of the residual point, site j weighted n - j.
ResidSite(d1, n) ==
    LET x == d1 % ((n * (n + 1)) \div 2)
        Below(j) == (j + 1) * n - ((j * (j + 1)) \div 2)
    IN  Min({j \in 0..(n - 1) : x < Below(j)})

\* The residual point: where, which product is added, which chunk, and the routed experts with it.
DrawResid(m, r, d) ==
    LET sel   == ResidSite(d.d1, 2 * m.chain.n_layers)
        layer == sel \div 2
        kind  == IF sel % 2 = 0 THEN "attn" ELSE "out"
        ll    == LayerLinks(m, layer)
        rank  == IF kind = "attn" THEN ll.proj ELSE ll.down
    IN  [t |-> ResidPosition(m, r, layer, d.d0), layer |-> layer, kind |-> kind, rank |-> rank,
         c |-> d.d2 % AtLeast(CeilDiv(m.entries[rank].m, PerChunk), 1),
         moe |-> IF kind = "out" /\ ll.post_ffn = NoEntry THEN ll.moe ELSE <<>>]

DstLeaf(m, p) == ResidLeaf(m, p.layer, p.kind)
SrcLeaf(m, p) ==
    IF p.kind = "out" THEN ResidLeaf(m, p.layer, "attn")
    ELSE IF p.layer = 0 THEN NoEntry ELSE ResidLeaf(m, p.layer - 1, "out")

\* The leaves the replay is asked to capture, by position.
PointCaptures(m, p) ==
    {<<p.t, LeafX(p.g_rank)>>, <<p.t, LeafY(p.g_rank)>>} \cup {<<p.t, l>> : l \in {LinkLeaf(m, p.g_rank)} \ {NoEntry}}

ResidCaptures(m, p) ==
    {<<p.t, l>> : l \in ({DstLeaf(m, p), SrcLeaf(m, p)} \ {NoEntry}) \cup {LeafX(p.rank), LeafY(p.rank)}}
      \cup (IF p.moe = <<>> THEN {}
            ELSE {<<p.t, l>> : l \in {LeafX(p.moe[1].down_exps), LeafY(p.moe[1].down_exps), RouterLeaf(m, p.layer)}})
-----------------------------------------------------------------------------
(* The miner's opening.  It reads a leaf only from the captures.           *)

XOf(m, r, t, rank) == [t |-> t, leaf |-> LeafX(rank), len |-> CommittedX(m, r, t, rank)]
ExpertIdsChunk(m, r, t, rank) == LeafChunk(m, r, t, LeafY(rank), (CommittedLen(m, r, t, LeafY(rank)) - m.chain.n_used) \div PerChunk)
NormRange(m, entry, block) ==
    LET f == NormFragment(block, m.entries[entry].k)
    IN  BytesRange(entry, f[1] * Block, AtMost(f[2] * Block, m.entries[entry].k - f[1] * Block))

BuildPoint(m, r, p) ==
    LET g     == m.entries[p.g_rank]
        m_out == MOut(g)
        exp   == IF p.experts THEN RoutedExpert(m, p.t, p.slot) ELSE IF p.n_used > 1 THEN p.slot ELSE 0
    IN  [n_ubatch |-> r.ubatch[p.t],
         entry    |-> p.rank,
         partner  |-> IF g.form # "gate" THEN NoEntry ELSE IF p.rank = p.g_rank THEN g.partner ELSE p.g_rank,
         bias     |-> IF g.bias = NoEntry THEN NoRange ELSE BytesRange(g.bias, p.row, 1),
         rows     |-> <<RowChunks(m, p.g_rank, exp, p.row)>>
                        \o (CASE g.form = "split" -> <<RowChunks(m, p.g_rank, exp, p.row + m_out)>>
                              [] g.form = "gate" -> <<RowChunks(m, g.partner, exp, p.row)>>
                              [] OTHER -> <<>>),
         x        |-> XOf(m, r, p.t, p.g_rank),
         y        |-> LeafChunk(m, r, p.t, LeafY(p.g_rank), (p.slot * m_out + p.row) \div PerChunk),
         ids      |-> IF p.experts THEN ExpertIdsChunk(m, r, p.t, p.g_rank) ELSE <<>>]

\* What shows where the input of the point comes from.
BuildLink(m, r, d, p) ==
    LET g     == m.entries[p.g_rank]
        one   == XLen(g.k)
        block == LinkBlock(d, XPart(CommittedX(m, r, p.t, p.g_rank), one, p.slot), g.k)
        leaf  == LinkLeaf(m, p.g_rank)
        Source(c, ids) == [kind |-> "source", src |-> g.src, y |-> LeafChunk(m, r, p.t, leaf, c), ids |-> ids]
    IN  CASE g.link = "none" -> [kind |-> "none"]
          [] g.link = "attn_in" /\ leaf = NoEntry ->
                [kind |-> "token", embd |-> RowChunks(m, m.chain.embd, 0, r.tokens[p.t]), norm |-> NormRange(m, g.norm, LinkBlock(d, 0, g.k))]
          [] g.link = "glu" /\ p.experts ->
                Source(p.slot * (g.k \div PerChunk) + (block \div ChunkBlocks), ExpertIdsChunk(m, r, p.t, g.src))
          [] g.link = "slice" -> Source((p.slot * (m.entries[g.src].m \div g.nexp) + block * Block) \div PerChunk, <<>>)
          [] g.link \in {"glu", "direct"} -> Source(block \div ChunkBlocks, <<>>)
          [] OTHER -> [kind |-> "norm", src |-> LeafBytes(m, r, p.t, leaf), norm |-> NormRange(m, g.norm, block)]

\* The prefix point: the first product's input at a position whose token the request gives.
BuildPrefix(m, r, d) ==
    LET t == m.offset + (d.d0 % PrefixLen)
        block == LinkBlock(d, 0, m.entries[0].k)
    IN  IF t >= r.n_pos THEN Refused
        ELSE [built |-> TRUE, t |-> t, n_ubatch |-> r.ubatch[t], x |-> XOf(m, r, t, 0),
              embd |-> RowChunks(m, m.chain.embd, 0, r.request[t - m.offset]),
              norm |-> NormRange(m, m.entries[0].norm, block)]

\* The summands of the residual.
BuildAdd(m, r, d, p) ==
    LET ll   == LayerLinks(m, p.layer)
        post == IF p.kind = "attn" THEN ll.post_attn ELSE ll.post_ffn
        dim  == m.entries[p.rank].m
        y    == LeafY(p.rank)
        off  == p.c * PerChunk
    IN  IF p.moe # <<>>
        THEN LET moe == p.moe[1]
                 n_exp == m.entries[moe.router].m
                 down == LeafY(moe.down_exps)
             IN  [kind |-> "moe", scores |-> LeafBytes(m, r, p.t, RouterLeaf(m, p.layer)),
                  bias |-> BytesRange(moe.probs_bias, 0, n_exp), ids |-> ExpertIdsChunk(m, r, p.t, moe.down_exps),
                  slots |-> [s \in 0..(m.chain.n_used - 1) |-> LeafChunk(m, r, p.t, down, s * (dim \div PerChunk) + p.c)],
                  shexp |-> LeafChunk(m, r, p.t, y, p.c),
                  router_row |-> BytesRange(moe.router, (d.d3 % n_exp) * dim, dim),
                  resid |-> LeafBytes(m, r, p.t, ResidLeaf(m, p.layer, "attn")),
                  norm |-> BytesRange(moe.ffn_norm, 0, dim)]
        ELSE IF post = NoEntry THEN [kind |-> "chunk", y |-> LeafChunk(m, r, p.t, y, p.c)]
        ELSE [kind |-> "normed", y |-> LeafBytes(m, r, p.t, y),
              norm |-> BytesRange(post, off, AtMost(CommittedLen(m, r, p.t, DstLeaf(m, p)) - off, PerChunk))]

\* The residual opening: the point, one row of the product it adds and one of a routed expert.
BuildResid(m, r, d, p) ==
    LET lo  == p.c * PerChunk
        dim == m.entries[p.rank].m
        row == lo + (d.hi % AtMost(PerChunk, dim - lo))
        bias == m.entries[p.rank].bias
    IN  [n_ubatch |-> r.ubatch[p.t], tok |-> r.tokens[p.t], layer |-> m.chain.layer_base + p.layer, product |-> p.rank,
         dst |-> LeafChunk(m, r, p.t, DstLeaf(m, p), p.c),
         src |-> IF SrcLeaf(m, p) = NoEntry THEN [embd |-> RowChunks(m, m.chain.embd, 0, r.tokens[p.t])]
                 ELSE [chunk |-> LeafChunk(m, r, p.t, SrcLeaf(m, p), p.c)],
         add |-> BuildAdd(m, r, d, p),
         feed |-> [x |-> XOf(m, r, p.t, p.rank), row |-> RowChunks(m, p.rank, 0, row),
                   bias |-> IF bias = NoEntry THEN NoRange ELSE BytesRange(bias, row, 1)],
         expert |-> IF p.moe = <<>> THEN <<>>
                    ELSE <<[entry |-> p.moe[1].down_exps, x |-> XOf(m, r, p.t, p.moe[1].down_exps),
                            row |-> RowChunks(m, p.moe[1].down_exps, RoutedExpert(m, p.t, d.top % m.chain.n_used), row)]>>]

\* The leaves the opened parts of a position come from.
PointReads(o, link) ==
    {<<l.t, l.leaf>> : l \in {o.x, o.y} \cup (CASE link.kind = "source" -> {link.y} [] link.kind = "norm" -> {link.src} [] OTHER -> {})}
ResidReads(o) ==
    {<<l.t, l.leaf>> : l \in {o.dst, o.feed.x}
                              \cup (IF "chunk" \in DOMAIN o.src THEN {o.src.chunk} ELSE {})
                              \cup (IF o.add.kind = "moe" THEN {o.add.scores, o.add.ids, o.add.shexp, o.add.resid} ELSE {o.add.y})
                              \cup {o.expert[i].x : i \in DOMAIN o.expert}}
=============================================================================

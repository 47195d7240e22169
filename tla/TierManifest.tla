---------------------------- MODULE TierManifest ----------------------------
(***************************************************************************)
(* The manifest of an audited model and the leaves of a traced position,   *)
(* shared by the miner that opens a trace (src/trace.rs, src/trace_seq.rs) *)
(* and by the node's checks (verifiable-inference).                        *)
(*                                                                         *)
(* A manifest m is a record: entries, np (the first np are products),      *)
(* chain (the ChainCtx) and offset (the first prefix position).  The trace *)
(* of a response is seen through r: n_prompt, n_pos, ubatch, tokens.       *)
(* Lengths are counted in f32 values, weights in units of their own;       *)
(* numeric agreement is not modelled, only which committed values a check  *)
(* relates.                                                                *)
(***************************************************************************)
EXTENDS Integers, Sequences, FiniteSets, FiniteSetsExt

CONSTANTS PerChunk,     \* values of one leaf chunk, B3_CHUNK / 4
          Block,        \* values of one Q8 block
          FragBlocks,   \* NORM_FRAGMENT_BLOCKS
          WeightChunk,  \* units of one weight chunk
          UBatch,       \* UBATCH, the positions of a committed prompt batch
          TraceUBatch,  \* TRACE_UBATCH, the tokens of a traced decode
          MaxVecBatch,  \* MMVQ_MAX_BATCH
          RowPadding,   \* MATRIX_ROW_PADDING
          PrefixLen     \* PREFIX_LEN

ASSUME TraceSizesAssumption == /\ {PerChunk, Block, FragBlocks, WeightChunk, UBatch, TraceUBatch, MaxVecBatch, RowPadding, PrefixLen} \subseteq Nat \ {0}
                          /\ PerChunk % Block = 0 /\ UBatch % TraceUBatch = 0

NoEntry == -1
NoRange == [entry |-> NoEntry, first |-> 0, last |-> 0]
CeilDiv(a, b) == (a + b - 1) \div b
AtMost(a, b) == IF a <= b THEN a ELSE b
AtLeast(a, b) == IF a >= b THEN a ELSE b
ChunkBlocks == PerChunk \div Block

\* The chunks of entry i that cover a weight row of an expert.
RowChunks(m, i, exp, row) ==
    LET e == m.entries[i]
    IN  IF row >= e.m \/ exp >= e.nexp THEN NoRange
        ELSE [entry |-> i, first |-> ((exp * e.m + row) * e.rb) \div WeightChunk,
              last |-> ((exp * e.m + row + 1) * e.rb - 1) \div WeightChunk]

\* The chunks of entry i that cover a span of its units.
BytesRange(i, offset, len) ==
    IF len = 0 THEN NoRange
    ELSE [entry |-> i, first |-> offset \div WeightChunk, last |-> (offset + len - 1) \div WeightChunk]
-----------------------------------------------------------------------------
\* Leaves of a position: X and Y of every product, two residuals per layer, a router leaf per
\* layer of a routed model, then the meta leaf.
LeafX(rank) == 2 * rank
LeafY(rank) == 2 * rank + 1
ResidLeaf(m, layer, kind) == 2 * m.np + 2 * layer + (IF kind = "attn" THEN 0 ELSE 1)
RouterLeaf(m, layer) == 2 * m.np + 2 * m.chain.n_layers + layer
MetaLeaf(m) == 2 * m.np + 2 * m.chain.n_layers + (IF m.chain.n_used > 0 THEN m.chain.n_layers ELSE 0)
LayerLinks(m, layer) == m.entries[m.chain.layer_base + layer]
LastLayer(m) == m.chain.n_layers - 1
Trimmed(m, layer) == m.chain.trim_last /\ layer = LastLayer(m)

\* The batch the traced run computes position t in.
ExpectedUbatch(t, n_prompt) ==
    IF t >= n_prompt THEN 1 ELSE AtMost(UBatch, n_prompt - (t \div UBatch) * UBatch)

\* How a product input is quantized; the kernels follow the batch size and the weight type.
LayoutFor(n_ubatch, wtype) == IF n_ubatch <= MaxVecBatch THEN "mmvq" ELSE wtype
InputLayout(role, n_ubatch, wtype) == IF role = "output" THEN "mmvq" ELSE LayoutFor(n_ubatch, wtype)

\* Units of one quantized row: the same for every layout, 36 bytes per 32 values and 144 per 128.
XLen(k) == CeilDiv(k, RowPadding) * RowPadding

MOut(e) == IF e.form = "split" THEN e.m \div 2 ELSE e.m

\* Rows of one output leaf: active experts, heads, or one.
IsHeads(e) == e.role = "heads"
IsExperts(e) == e.nexp > 1 /\ ~IsHeads(e)
Slots(m, e) == IF IsExperts(e) THEN m.chain.n_used ELSE IF IsHeads(e) THEN e.nexp ELSE 1

\* The position a residual point or an attention point of a layer falls on.
ResidPosition(m, r, layer, d0) ==
    IF Trimmed(m, layer) THEN (r.n_prompt - 1) + (d0 % (r.n_pos - (r.n_prompt - 1))) ELSE d0 % r.n_pos
-----------------------------------------------------------------------------
(* What an honest traced run commits.                                      *)

BeforeOutput(r, t) == t + 1 < r.n_prompt

\* The input rows of a product: one per slot where every slot has its own, else a shared one; none
\* where the product is not computed.
CommittedX(m, r, t, rank) ==
    LET e == m.entries[rank]
    IN  IF e.role = "output" /\ BeforeOutput(r, t) THEN 0
        ELSE XLen(e.k) * (IF e.link \in {"glu", "slice"} \/ IsHeads(e) THEN Slots(m, e) ELSE 1)

\* The values of any other leaf; 0 for the leaves the engine never writes, filled in as empty.
CommittedLen(m, r, t, leaf) ==
    LET rank  == leaf \div 2
        layer == (leaf - 2 * m.np) \div 2
        routed == leaf - 2 * m.np - 2 * m.chain.n_layers
    IN  IF leaf < 2 * m.np
        THEN LET e == m.entries[rank]
             IN  IF e.form = "up" \/ (e.role = "output" /\ BeforeOutput(r, t)) THEN 0
                 ELSE Slots(m, e) * MOut(e) + (IF IsExperts(e) THEN Slots(m, e) ELSE 0)
        ELSE IF leaf < 2 * m.np + 2 * m.chain.n_layers
        THEN IF Trimmed(m, layer) /\ BeforeOutput(r, t) THEN 0 ELSE m.dim
        ELSE IF LayerLinks(m, routed).moe = <<>> \/ (Trimmed(m, routed) /\ BeforeOutput(r, t)) THEN 0
        ELSE m.entries[LayerLinks(m, routed).moe[1].router].m

\* The expert a position routes a slot of a layer to.
RoutedExpert(m, t, slot) == (t + slot) % m.n_experts

\* Meta leaf of a position of the trace.
CommittedMeta(r, t) == <<t, r.ubatch[t], r.tokens[t]>>

\* A leaf opened whole, and one of its chunks.
LeafBytes(m, r, t, leaf) == [t |-> t, leaf |-> leaf, len |-> CommittedLen(m, r, t, leaf)]
LeafChunk(m, r, t, leaf, c) == [t |-> t, leaf |-> leaf, total |-> CommittedLen(m, r, t, leaf), index |-> c]

\* The node accepts a chunk of the committed leaf with the length and the index it expects.
ChunkOK(m, r, c, t, leaf, total, index) ==
    /\ c = [t |-> t, leaf |-> leaf, total |-> total, index |-> index]
    /\ CommittedLen(m, r, t, leaf) = total
    /\ index < CeilDiv(total, PerChunk)

WholeOK(m, r, l, t, leaf, len) ==
    l = [t |-> t, leaf |-> leaf, len |-> len] /\ CommittedLen(m, r, t, leaf) = len

\* Bytes of the capture buffer a leaf is given; the largest of a product leaf for any other one.
LeafCap(m, leaf) ==
    LET e == m.entries[leaf \div 2]
        n == IF IsHeads(e) THEN e.nexp ELSE IF e.nexp = 1 THEN 1 ELSE AtLeast(m.chain.n_used, 1)
    IN  IF leaf < 2 * m.np THEN n * (IF leaf % 2 = 0 THEN XLen(e.k) ELSE e.m + 1)
        ELSE Max({AtLeast(m.entries[i].m, m.entries[i].k) : i \in 0..(m.np - 1)})
=============================================================================

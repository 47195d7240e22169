----------------------------- MODULE AuditCases -----------------------------
(***************************************************************************)
(* Audits of a traced response: every draw of a point, a link, a prefix, a *)
(* residual, an attention point through its phases and a recurrent point,  *)
(* opened by the miner and checked by the node.  Three manifests stand for *)
(* the shipped ones: Dense (bias, fused gate and up, post norms, a window, *)
(* one product for keys and values, a trimmed last layer), Hybrid (gated   *)
(* attention, delta rule with one decay per head) and Routed (experts,     *)
(* latent attention, delta rule with one decay per key dimension).         *)
(***************************************************************************)
EXTENDS SeqCheck, TLC

CONSTANTS MaxTokens,     \* bound on an answer's tokens, and on its budget
          PieceBytes,    \* byte counts of a token
          Contexts       \* n_ctx

VARIABLES model,      \* the manifest of the model that answered
          response,   \* the traced response
          ask,        \* the draw of the node that is answered, if any
          related     \* what all the draws of the response relate
auditVars == <<model, response, ask, related>>

Base == [role |-> "product", form |-> "none", wtype |-> "ds4", k |-> 8, m |-> 8, nexp |-> 1, rb |-> 3, partner |-> NoEntry,
         bias |-> NoEntry, link |-> "none", layer |-> 0, norm |-> NoEntry, src |-> NoEntry]
\* Ranks of the weights every manifest has.
NormAt == 30
EmbdAt == 31

F32(k) == [Base EXCEPT !.role = "norm", !.k = k]
Bytes_(e) == IF e.role \in {"norm", "bias"} THEN e.k ELSE IF e.role = "router" THEN e.m * e.k ELSE e.nexp * e.m * e.rb
In(l, m) == [Base EXCEPT !.link = "attn_in", !.layer = l, !.norm = NormAt, !.m = m]
Out(l, k) == [Base EXCEPT !.layer = l, !.k = k, !.wtype = "d4"]

\* A manifest from its products, its other weights (from rank 30 on) and its layers.
Weights == <<F32(8), [Base EXCEPT !.role = "embd", !.m = 4], [Base EXCEPT !.role = "bias"], F32(2), F32(1), F32(4),
             [Base EXCEPT !.role = "router", !.m = 3], F32(3), F32(24), F32(12)>>
LayersAt == 40
LayerOf(l) == [role |-> "layer", form |-> "none", k |-> 1, m |-> 1, nexp |-> 1, layer |-> l, proj |-> NoEntry, down |-> NoEntry,
               post_attn |-> NoEntry, post_ffn |-> NoEntry, moe |-> <<>>, attn |-> <<>>, recur |-> <<>>, nbytes |-> 0]
Manifest(products, layers, chain) ==
    LET entry(i) == IF i < Len(products) THEN products[i + 1] ELSE Weights[i - NormAt + 1]
        weights == (0..(Len(products) - 1)) \cup (NormAt..(NormAt + Len(Weights) - 1))
    IN  [entries |-> [i \in weights \cup {LayersAt, LayersAt + 1} |->
                        IF i >= LayersAt THEN layers[i - LayersAt + 1] ELSE entry(i) @@ [nbytes |-> Bytes_(entry(i))]],
         np |-> Len(products), dim |-> 8, n_experts |-> 3, offset |-> 1,
         chain |-> chain @@ [n_layers |-> 2, layer_base |-> LayersAt, embd |-> EmbdAt]]

Gqa(slot, q, k, v) ==
    [slot |-> slot, n_head |-> 4, n_head_kv |-> 2, head_dim |-> 2, swa_window |-> 0, gated |-> 0, mla_rank |-> 0, q |-> q, k |-> k, v |-> v,
     absorb |-> NoEntry, out |-> NoEntry, q_norm |-> NoEntry, k_norm |-> NoEntry, rope_freqs |-> NoEntry, n_rot |-> 2]
Delta(kind, nk, q, k, v, b, conv) ==
    [slot |-> 0, kind |-> kind, head_dim |-> 2, n_v_heads |-> 2, n_k_heads |-> nk, conv_len |-> 3, interval |-> 4, q |-> q, k |-> k, v |-> v,
     beta |-> b, decay |-> b + 1, gate |-> b + 2, conv |-> [x \in {"q", "k", "v"} |-> conv],
     dt |-> IF kind = "kda" THEN 35 ELSE 33, a |-> 33, norm |-> 33]
Fused(l, b, role) ==
    <<[Base EXCEPT !.form = "split", !.m = 16, !.link = "ffn_in", !.layer = l, !.norm = NormAt, !.role = role],
      [Base EXCEPT !.link = "glu", !.layer = l, !.src = b, !.role = role]>>
Pair(l, b, m, n) ==
    <<[Base EXCEPT !.form = "gate", !.m = m, !.partner = b + 1, !.link = "ffn_in", !.layer = l, !.norm = NormAt, !.nexp = n],
      [Base EXCEPT !.form = "up", !.m = m, !.partner = b, !.link = "ffn_in", !.layer = l, !.norm = NormAt, !.nexp = n],
      [Base EXCEPT !.k = m, !.link = "glu", !.layer = l, !.src = b, !.nexp = n]>>
Lm == <<[Base EXCEPT !.role = "output", !.m = 3, !.link = "head", !.norm = NormAt]>>

Dense == Manifest(
    <<[In(0, 8) EXCEPT !.bias = 32], In(0, 4), In(0, 4), Out(0, 8)>> \o Fused(0, 4, "product")
      \o <<In(1, 8), In(1, 4), Out(1, 8)>> \o Fused(1, 9, "output") \o Lm,
    <<[LayerOf(0) EXCEPT !.proj = 3, !.down = 5, !.post_attn = NormAt, !.post_ffn = NormAt,
                         !.attn = <<[Gqa(0, 0, 1, 2) EXCEPT !.swa_window = 3, !.q_norm = 33, !.k_norm = 33]>>],
      [LayerOf(1) EXCEPT !.proj = 8, !.down = 10, !.post_attn = NormAt, !.attn = <<[Gqa(1, 6, 7, 7) EXCEPT !.rope_freqs = 34]>>]>>,
    [trim_last |-> TRUE, n_used |-> 0, n_attn |-> 2, n_recur |-> 0, seq_heads |-> 2])

Hybrid == Manifest(
    <<In(0, 8), In(0, 2), In(0, 2), In(0, 4), Out(0, 4)>> \o Fused(0, 5, "product")
      \o <<In(1, 16), In(1, 4), In(1, 4), Out(1, 8)>> \o Fused(1, 11, "product") \o Lm,
    <<[LayerOf(0) EXCEPT !.proj = 4, !.down = 6, !.recur = <<Delta("gda", 1, 0, 0, 0, 1, 38)>>],
      [LayerOf(1) EXCEPT !.proj = 10, !.down = 12, !.attn = <<[Gqa(0, 7, 8, 9) EXCEPT !.gated = 1]>>]>>,
    [trim_last |-> FALSE, n_used |-> 0, n_attn |-> 1, n_recur |-> 1, seq_heads |-> 2])

Routed == Manifest(
    <<In(0, 4), In(0, 4), In(0, 4), In(0, 2), In(0, 4), In(0, 4), Out(0, 4)>> \o Pair(0, 7, 4, 1)
      \o <<In(1, 8), In(1, 6), [Base EXCEPT !.role = "heads", !.nexp = 2, !.k = 2, !.m = 4, !.link = "slice", !.layer = 1, !.src = 10],
           [Base EXCEPT !.role = "heads", !.nexp = 2, !.k = 4, !.m = 4, !.layer = 1], [Base EXCEPT !.link = "direct", !.layer = 1, !.src = 13]>>
      \o Pair(1, 15, 4, 1) \o Pair(1, 18, 4, 3) \o Lm,
    <<[LayerOf(0) EXCEPT !.proj = 6, !.down = 9, !.recur = <<Delta("kda", 2, 0, 1, 2, 3, 39)>>],
      [LayerOf(1) EXCEPT !.proj = 14, !.down = 17, !.moe = <<[down_exps |-> 20, router |-> 36, probs_bias |-> 37, ffn_norm |-> NormAt]>>,
                         !.attn = <<[Gqa(0, 10, 11, NoEntry) EXCEPT !.n_head = 2, !.n_head_kv = 1, !.head_dim = 6, !.mla_rank = 4,
                                                                  !.absorb = 12, !.out = 13, !.k_norm = 35, !.n_rot = 0]>>]>>,
    [trim_last |-> FALSE, n_used |-> 2, n_attn |-> 1, n_recur |-> 1, seq_heads |-> 2])

Manifests == {Dense, Hybrid, Routed}

\* <<n_prompt, n_pos>>: no answer, an answer, a prompt that ends within a batch.
Lengths == {<<3, 3>>, <<4, 6>>, <<5, 9>>}

Response(l) ==
    [n_prompt |-> l[1], n_pos |-> l[2], ubatch |-> FedUbatch(l[1], l[2]), request |-> [i \in 0..(PrefixLen - 1) |-> (i + 2) % 4],
     tokens |-> [t \in 0..(l[2] - 1) |-> IF t \in 1..PrefixLen THEN (t + 1) % 4 ELSE t % 4]]

m == model
r == response
-----------------------------------------------------------------------------
(* Draws: one of each residue the code takes of the hash.                  *)

Draw == [d0 |-> 0, d1 |-> 0, d2 |-> 0, d3 |-> 0, hi |-> 0, top |-> 0, blk |-> 0]
PointDraws(mm, rr) ==
    UNION {LET e == mm.entries[rank]
               g == mm.entries[IF e.form = "up" THEN e.partner ELSE rank]
           IN  {[Draw EXCEPT !.d0 = t, !.d1 = rank, !.d2 = row, !.hi = slot, !.blk = b] :
                  t \in 0..(rr.n_pos - 1), row \in 0..(MOut(g) - 1), slot \in 0..(Slots(mm, g) - 1),
                  b \in 0..((g.k \div Block) - 1)} : rank \in 0..(mm.np - 1)}
PrefixDraws == {[Draw EXCEPT !.d0 = t, !.blk = b] : t \in 0..(PrefixLen - 1), b \in 0..3}
ResidDraws(mm, rr) ==
    {[Draw EXCEPT !.d0 = t, !.d1 = site, !.d2 = c, !.hi = row, !.d3 = e, !.top = s] :
        t \in 0..(rr.n_pos - 1), site \in 0..9, c \in 0..1, row \in 0..(PerChunk - 1),
        e \in IF mm.chain.n_used = 0 THEN {0} ELSE 0..2, s \in 0..(AtLeast(mm.chain.n_used, 1) - 1)}
AttnDraws(mm, rr) ==
    {[Draw EXCEPT !.d0 = t, !.d1 = slot, !.d2 = h, !.d3 = p] :
        t \in 0..(rr.n_pos - 1), slot \in 0..(mm.chain.n_attn - 1), h \in 0..3, p \in 0..3}
RecurDraws(mm, rr) ==
    {[Draw EXCEPT !.d0 = s, !.d2 = h, !.d3 = row, !.hi = p] : s \in 0..(rr.n_pos \div 4), h \in 0..1, row \in 0..1, p \in 0..3}

Idle == [kind |-> "none"]
AuditInit == model \in Manifests /\ response \in {Response(l) : l \in Lengths} /\ ask = Idle /\ related = {}

Free == ask = Idle /\ related = {}
Asked(a) == ask' = a /\ UNCHANGED <<model, response, related>>

AskPoint == Free /\ \E d \in PointDraws(m, r) : Asked([kind |-> "point", d |-> d])
AskPrefix == Free /\ \E d \in PrefixDraws : Asked([kind |-> "prefix", d |-> d])
AskResid == Free /\ \E d \in ResidDraws(m, r) : Asked([kind |-> "resid", d |-> d])
AskRecur == Free /\ m.chain.n_recur > 0 /\ \E d \in RecurDraws(m, r) : Asked([kind |-> "recur", d |-> d])
AskAttn == Free /\ \E d \in AttnDraws(m, r) : Asked([kind |-> "attn", d |-> d, path |-> <<>>, prev |-> <<>>])

\* The node accepted the phase and draws one of the children whose partials it committed.
Descend ==
    /\ ask.kind = "attn"
    /\ LET p == BuildPhase(m, r, ask.d, ask.path, ask.prev).partials
       IN  \E uniform \in BOOLEAN, x \in 0..3 :
              /\ p # <<>>
              /\ ask' = [ask EXCEPT !.path = Append(@, DrawWeightedChild(uniform, x, [i \in DOMAIN p |-> i])), !.prev = p]
    /\ UNCHANGED <<model, response, related>>

\* An answer of the engine, cut to n bytes by the trims.
AskAnswer ==
    Free /\ \E n \in 0..MaxTokens, budget \in 1..MaxTokens, c \in Contexts, cut \in {0, 2}, prompt \in {1, 2}, bytes \in {0, 4 * PromptBytes} :
        \E pieces \in [1..n -> PieceBytes] :
            Asked([kind |-> "answer", pieces |-> pieces, budget |-> budget, ctx |-> c, cut |-> cut, prompt |-> prompt, bytes |-> bytes])

\* Every leaf and node of a tree of partials.
RECURSIVE Paths(_, _)
Paths(tree, path) == {path} \cup UNION {Paths(tree, Append(path, i - 1)) : i \in DOMAIN Children(tree, path)}

\* Everything the draws of the response can relate.
Survey ==
    /\ Free
    /\ related' = UNION ({PointRelations(m, r, d) : d \in PointDraws(m, r)} \cup {ResidRelations(m, r, d) : d \in ResidDraws(m, r)}
                         \cup {PhaseRelations(m, r, d, path) : d \in AttnDraws(m, r), path \in {<<>>}}
                         \cup UNION {{PhaseRelations(m, r, d, path) : path \in Paths(DrawAttn(m, r, d).tree, <<>>)} : d \in AttnDraws(m, r)}
                         \cup (IF m.chain.n_recur = 0 THEN {} ELSE {RecurRelations(m, r, d) : d \in RecurDraws(m, r)}))
    /\ UNCHANGED <<model, response, ask>>

AuditNext == AskPoint \/ AskPrefix \/ AskResid \/ AskRecur \/ AskAttn \/ Descend \/ AskAnswer \/ Survey
-----------------------------------------------------------------------------
Tok(t) == r.tokens[t]

\* "checked as the node would": whatever the node draws, the opening the miner builds for it passes
\* every check the node derives on its own, phase after phase of an attention point.
HonestAccepted ==
    CASE ask.kind = "point" -> LET p == DrawPoint(m, r, ask.d)
                                   o == BuildPoint(m, r, p)
                               IN  /\ VerifyPoint(m, r, ask.d, o, Tok(p.t))
                                   /\ VerifyLink(m, r, ask.d, o, Tok(p.t), BuildLink(m, r, ask.d, p))
      [] ask.kind = "prefix" -> VerifyPrefix(m, r, ask.d, BuildPrefix(m, r, ask.d))
      [] ask.kind = "resid" -> VerifyResid(m, r, ask.d, BuildResid(m, r, ask.d, DrawResid(m, r, ask.d)))
      [] ask.kind = "recur" -> VerifyRecur(m, r, ask.d, BuildRecur(m, r, ask.d))
      [] ask.kind = "attn" -> VerifyPhase(m, r, ask.d, ask.path, ask.prev, BuildPhase(m, r, ask.d, ask.path, ask.prev))
      [] OTHER -> TRUE

Captures ==
    CASE ask.kind = "point" -> PointCaptures(m, DrawPoint(m, r, ask.d))
      [] ask.kind = "resid" -> ResidCaptures(m, DrawResid(m, r, ask.d))
      [] ask.kind = "recur" -> RecurCaptures(DrawRecur(m, r, ask.d))
      [] ask.kind = "attn" -> AttnCaptures(DrawAttn(m, r, ask.d), ask.path)
      [] OTHER -> {}
Reads ==
    CASE ask.kind = "point" -> LET p == DrawPoint(m, r, ask.d) IN PointReads(BuildPoint(m, r, p), BuildLink(m, r, ask.d, p))
      [] ask.kind = "resid" -> ResidReads(BuildResid(m, r, ask.d, DrawResid(m, r, ask.d)))
      [] ask.kind = "recur" -> RecurReads(BuildRecur(m, r, ask.d))
      [] ask.kind = "attn" -> PhaseReads(BuildPhase(m, r, ask.d, ask.path, ask.prev))
      [] OTHER -> {}

\* A replay hands back every leaf an opening is built from: it was asked for, it fits its slot, and
\* its position is fed in the batch it was first computed in, none of which is refused.
ReplayCovers ==
    Captures # {} =>
        LET last == Max({c[1] : c \in Captures})
            fed  == FedBatches(r.n_prompt, r.n_pos)
            again == ReplayBatches(r.n_prompt, last)
        IN  /\ Reads \subseteq Captures
            /\ \A c \in Captures : /\ c[1] < r.n_pos /\ c[2] < MetaLeaf(m)
                                   /\ LeafCap(m, c[2]) >= (IF c[2] < 2 * m.np /\ c[2] % 2 = 0 THEN CommittedX(m, r, c[1], c[2] \div 2)
                                                           ELSE CommittedLen(m, r, c[1], c[2]))
            /\ IsPrefix(again, fed) /\ last \in 0..(again[Len(again)][1] + again[Len(again)][2] - 1)
            /\ \A i \in DOMAIN fed : FeedTraced(fed[i], r.n_prompt)

\* Positions at which a product is computed, and the values of the trace a link or an attention
\* must account for.
Computed(e) == {t \in 0..(r.n_pos - 1) : e.role = "output" => t + 1 >= r.n_prompt}
Live(l) == {t \in 0..(r.n_pos - 1) : Trimmed(m, l) => t + 1 >= r.n_prompt}
Claims ==
    UNION {LET e == m.entries[g]
           IN  IF e.form = "up" THEN {}
               ELSE {<<"dot", t, g, s, row>> : t \in Computed(e), s \in 0..(Slots(m, e) - 1), row \in 0..(MOut(e) - 1)}
                      \cup (IF e.link = "none" THEN {}
                            ELSE {<<"input", t, g, s, b>> : t \in Computed(e), s \in 0..(Slots(m, e) - 1), b \in 0..((e.k \div Block) - 1)})
           : g \in 0..(m.np - 1)}
      \cup {<<"resid", t, l, kind, c>> : t \in Live(0) \cap Live(1), l \in Layers(m), kind \in {"attn", "out"}, c \in 0..1}
      \cup UNION {{<<"route", t, l>> : t \in Live(l)} \cup {<<"score", t, l, e>> : t \in Live(l), e \in 0..2} :
                  l \in {k \in Layers(m) : LayerLinks(m, k).moe # <<>>}}
      \cup UNION {LET a == Attn(m, l)
                      from(t) == IF a.swa_window = 0 THEN 0 ELSE Floor(t + 1, a.swa_window)
                  IN  UNION {{<<"mass", a.slot, t, h>>, <<"out", t, IF a.out = NoEntry THEN LayerLinks(m, l).proj ELSE a.out, h>>}
                               \cup {<<"attend", a.slot, t, h, i>> : i \in from(t)..t} : t \in Live(l), h \in 0..(a.n_head - 1)}
                        \cup {<<"cache", a.slot, h, i>> : h \in 0..(a.n_head_kv - 1), i \in 0..(r.n_pos - 1)} : l \in AttnLayers(m)}
      \cup UNION {LET u == Recur(m, l)
                  IN  UNION {{<<"record", u.slot, h, t>>, <<"out", t, LayerLinks(m, l).proj, h>>}
                               \cup {<<"state", u.slot, h, t, i>> : i \in 0..(u.head_dim - 1)} :
                             t \in 0..(r.n_pos - 1), h \in 0..(u.n_v_heads - 1)} : l \in RecurLayers(m)}

\* A child the draw falls on exists, and the leaves of a tree of partials are the attended positions.
DescentTiles ==
    ask.kind = "attn" =>
        LET p == DrawAttn(m, r, ask.d)
            ch == Children(p.tree, ask.path)
            n == Node(p.tree, ask.path)
        IN  /\ LeafRange(p.tree, ask.path) # <<>> /\ n[1] < n[2]
            /\ ask.path = <<>> => n = <<p.start, p.t + 1>>
            /\ ch = <<>> => n[2] - n[1] <= p.tree.c
            /\ ch # <<>> => /\ ch[1][1] = n[1] /\ ch[Len(ch)][2] = n[2] /\ Len(ch) <= p.tree.b
                            /\ \A i \in 2..Len(ch) : ch[i][1] = ch[i - 1][2]

\* "the shape rule pads the traced prompt to it": with room in its context, a traced answer commits
\* the positions the node asks for the bytes of its prompt and of its text.
CommitsItsShape ==
    ask.kind = "answer" =>
        LET n_prompt == AtLeast(ask.prompt, MinPromptPositions(ask.bytes))
            g == Generate(ask.prompt, ask.bytes, ask.pieces, ask.cut, ask.budget, ask.ctx)
        IN  g.built /\ n_prompt + ask.budget < ask.ctx => ShapeOk(ask.bytes, g.answer_len, ask.budget, g.n_prompt, g.n_pos)

\* No value a response commits is out of the audit's reach: some draw relates each product to its
\* input, each input to where it comes from, each residual, routing, cache row, head and record,
\* and the descents of an attention point leave no attended position out.
NothingUnaudited == DescentTiles /\ (related # {} => Claims \subseteq related)
=============================================================================

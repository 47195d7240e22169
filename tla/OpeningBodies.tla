---------------------------- MODULE OpeningBodies ----------------------------
(***************************************************************************)
(* The bodies openings travel in (opening.rs), the bundles they wait in    *)
(* (trace_seq.rs) and the manifest entries they carry (manifest.rs).  A    *)
(* body is a sequence of units: an integer, a hash, a byte of a payload.   *)
(* Writers concatenate; readers are described by what they expect, and     *)
(* answer {} on failure, else the value read and the units left.           *)
(***************************************************************************)
EXTENDS Integers, Sequences, SequencesExt, TLC

CONSTANT CountValues   \* values of a u8 count
ASSUME CountValuesAssumption == CountValues \in Nat \ {0}

\* First unit of a body, by version.
Version == [plain |-> 1, prefix |-> 2, chain |-> 3, seeded |-> 4, attn |-> 5, recur |-> 6, roots |-> 7, resid |-> 8]
BundleTag == 176
-----------------------------------------------------------------------------
(* Writers.  An optional part is a sequence of at most one.                *)

hashes(h) == <<Len(h) % CountValues>> \o h
bytes32(b) == <<Len(b)>> \o b
Several(parts) == <<Len(parts) % CountValues>> \o FlattenSeq(parts)
Optional(parts) == <<Len(parts)>> \o FlattenSeq(parts)
entry(e) == <<e.index>> \o bytes32(e.bytes) \o hashes(e.path)
range(r) == <<r.first_chunk>> \o bytes32(r.chunks) \o hashes(r.proof)
weights(w) == entry(w.entry) \o range(w.range)
leaf_chunk(c) == <<c.total_len, c.index>> \o bytes32(c.chunk) \o hashes(c.chunk_path) \o hashes(c.leaf_path)
leaf_bytes(l) == bytes32(l.bytes) \o hashes(l.leaf_path)
seq_span(s) == <<s.first_chunk>> \o bytes32(s.bytes) \o hashes(s.chunk_proof) \o hashes(s.leaf_path)
expert_ids(e) == bytes32(e.chunk) \o hashes(e.chunk_path)

\* A link, a residual's source and what it adds are a tag and the part it names.
link(l) ==
    LET p == l.part
    IN  <<l.tag>> \o CASE l.tag = 0 -> <<>>
                       [] l.tag = 1 -> leaf_bytes(p.src) \o weights(p.norm)
                       [] l.tag = 2 -> weights(p.embd) \o weights(p.norm)
                       [] l.tag = 3 -> entry(p.src) \o leaf_chunk(p.y) \o Optional([i \in DOMAIN p.ids |-> expert_ids(p.ids[i])])

moe_add(a) ==
    leaf_bytes(a.scores) \o weights(a.bias) \o expert_ids(a.ids) \o Several([i \in DOMAIN a.slots |-> leaf_chunk(a.slots[i])])
      \o leaf_chunk(a.shexp) \o weights(a.router_row) \o leaf_bytes(a.resid) \o weights(a.norm)

resid(p) ==
    LET add == p.add.part
    IN  <<p.n_ubatch, p.tok>> \o hashes(p.pos_path) \o hashes(p.meta_path) \o entry(p.layer) \o entry(p.product) \o leaf_chunk(p.dst)
          \o <<p.src.tag>> \o (IF p.src.tag = 0 THEN leaf_chunk(p.src.part) ELSE weights(p.src.part))
          \o <<p.add.tag>> \o CASE p.add.tag = 0 -> leaf_chunk(add)
                                [] p.add.tag = 1 -> leaf_bytes(add.y) \o weights(add.norm)
                                [] p.add.tag = 2 -> moe_add(add)

point(p) ==
    <<p.n_ubatch>> \o hashes(p.pos_path) \o hashes(p.meta_path) \o entry(p.entry)
      \o Optional([i \in DOMAIN p.partner |-> entry(p.partner[i])]) \o Optional([i \in DOMAIN p.bias |-> weights(p.bias[i])])
      \o Several([i \in DOMAIN p.rows |-> range(p.rows[i])]) \o bytes32(p.x) \o hashes(p.x_path)
      \o <<p.y_total_len, p.y_chunk_index>> \o bytes32(p.y_chunk) \o hashes(p.y_chunk_path) \o hashes(p.y_path)

prefix_point(p) ==
    <<p.n_ubatch>> \o hashes(p.pos_path) \o hashes(p.meta_path) \o entry(p.entry) \o bytes32(p.x) \o hashes(p.x_path)
      \o weights(p.embd) \o weights(p.norm)

IsChain(o) == o.links # <<>> \/ o.resid # <<>>

\* Mutant of the definition below.
OpeningVersionNoRoots(o) == IF IsChain(o) THEN Version.chain ELSE IF o.prefix # <<>> THEN Version.prefix ELSE Version.plain

OpeningVersion(o) ==
    IF IsChain(o) /\ o.roots # <<>> THEN Version.roots
    ELSE IF IsChain(o) THEN Version.chain ELSE IF o.prefix # <<>> THEN Version.prefix ELSE Version.plain

EncodeOpening(o) ==
    <<OpeningVersion(o), o.txid>>
      \o (IF IsChain(o) THEN FlattenSeq(o.roots) ELSE <<>>) \o Several([i \in DOMAIN o.points |-> point(o.points[i])])
      \o FlattenSeq([i \in DOMAIN o.links |-> <<o.links[i].tok>> \o link(o.links[i].link)
                                               \o Optional([j \in DOMAIN o.experts[i] |-> expert_ids(o.experts[i][j])])])
      \o FlattenSeq([i \in DOMAIN o.prefix |-> prefix_point(o.prefix[i])]) \o FlattenSeq([i \in DOMAIN o.resid |-> resid(o.resid[i])])

EncodeResid(o) ==
    <<Version.resid, o.txid>> \o Optional(o.roots) \o resid(o.resid) \o bytes32(o.feed.x) \o hashes(o.feed.x_path) \o range(o.feed.row)
      \o Optional([i \in DOMAIN o.feed.bias |-> weights(o.feed.bias[i])])
      \o Optional([i \in DOMAIN o.expert |->
            LET e == o.expert[i] IN entry(e.entry) \o bytes32(e.x) \o hashes(e.x_path) \o range(e.row)])

LeafChunks(cs) == Several([i \in DOMAIN cs |-> leaf_chunk(cs[i])])
EncodeAttn(o) ==
    <<Version.attn, o.txid, o.pos_root, o.seq_root>> \o entry(o.layer) \o entry(o.q_entry) \o entry(o.o_entry)
      \o Several([i \in DOMAIN o.norms |-> weights(o.norms[i])]) \o hashes(o.pos_path) \o LeafChunks(o.q) \o leaf_bytes(o.out)
      \o seq_span(o.kcache) \o seq_span(o.vcache) \o hashes(o.anchor_pos_path)
      \o LeafChunks(o.anchor_k) \o LeafChunks(o.anchor_v) \o LeafChunks(o.absorb)
      \o hashes(o.path) \o bytes32(o.parent) \o hashes(o.parent_path) \o bytes32(o.partials) \o seq_span(o.lse)

EncodeRecur(o) ==
    <<Version.recur, o.txid, o.pos_root, o.seq_root>> \o entry(o.layer) \o entry(o.out_entry) \o entry(o.decay_entry)
      \o Several([i \in DOMAIN o.weights |-> weights(o.weights[i])])
      \o seq_span(o.records) \o seq_span(o.start_rows) \o seq_span(o.end_rows)
      \o Several([i \in DOMAIN o.taps |->
            LET t == o.taps[i] IN hashes(t.pos_path) \o leaf_chunk(t.q) \o leaf_chunk(t.k) \o leaf_chunk(t.v)])
      \o leaf_chunk(o.beta) \o leaf_chunk(o.decay) \o leaf_chunk(o.gate) \o leaf_bytes(o.out)
-----------------------------------------------------------------------------
(* Readers: what is expected of the units.                                 *)

Unit == <<"unit">>
Count(item) == <<"count", item>>      \* a number, then as many items
Opt(part) == <<"opt", part>>          \* 0, or 1 and the part
Lenient(part) == <<"lenient", part>>  \* 1 and the part, or any other unit
Tagged(parts) == <<"tagged", parts>>  \* which part, from 0, and the part
Rec(fields) == <<"rec", fields>>      \* named parts, in order

RECURSIVE Read(_, _), ReadMany(_, _, _), ReadFields(_, _)
\* Long lists are read in halves, so that a count of many items is not read many calls deep.
ReadMany(item, n, s) ==
    CASE n = 0 -> {<<<<>>, s>>}
      [] n = 1 -> {<<<<x[1]>>, x[2]>> : x \in Read(item, s)}
      [] OTHER -> UNION {{<<x[1] \o y[1], y[2]>> : y \in ReadMany(item, n - (n \div 2), x[2])} : x \in ReadMany(item, n \div 2, s)}
ReadFields(fields, s) ==
    LET n == Len(fields)
    IN  CASE n = 0 -> {<<<<>>, s>>}
          [] n = 1 -> {<<fields[1][1] :> x[1], x[2]>> : x \in Read(fields[1][2], s)}
          [] OTHER -> UNION {{<<x[1] @@ y[1], y[2]>> : y \in ReadFields(SubSeq(fields, (n \div 2) + 1, n), x[2])} :
                             x \in ReadFields(SubSeq(fields, 1, n \div 2), s)}
Read(what, s) ==
    IF what[1] = "rec" THEN ReadFields(what[2], s)
    ELSE IF s = <<>> THEN {}
    ELSE LET u == Head(s)
             rest == Tail(s)
         IN  CASE what[1] = "unit" -> {<<u, rest>>}
               [] what[1] = "count" -> IF u > Len(rest) THEN {} ELSE ReadMany(what[2], u, rest)
               [] what[1] = "opt" -> IF u > 1 THEN {} ELSE ReadMany(what[2], u, rest)
               [] what[1] = "lenient" -> ReadMany(what[2], IF u = 1 THEN 1 ELSE 0, rest)
               [] what[1] = "tagged" -> IF u >= Len(what[2]) THEN {}
                                        ELSE {<<[tag |-> u, part |-> x[1]], x[2]>> : x \in Read(what[2][u + 1], rest)}

Units == Count(Unit)
REntry == Rec(<<<<"index", Unit>>, <<"bytes", Units>>, <<"path", Units>>>>)
RRange == Rec(<<<<"first_chunk", Unit>>, <<"chunks", Units>>, <<"proof", Units>>>>)
RWeights == Rec(<<<<"entry", REntry>>, <<"range", RRange>>>>)
RLeafChunk == Rec(<<<<"total_len", Unit>>, <<"index", Unit>>, <<"chunk", Units>>, <<"chunk_path", Units>>, <<"leaf_path", Units>>>>)
RLeafBytes == Rec(<<<<"bytes", Units>>, <<"leaf_path", Units>>>>)
RSeqSpan == Rec(<<<<"first_chunk", Unit>>, <<"bytes", Units>>, <<"chunk_proof", Units>>, <<"leaf_path", Units>>>>)
RExpertIds == Rec(<<<<"chunk", Units>>, <<"chunk_path", Units>>>>)

RLink == Tagged(<<Rec(<<>>), Rec(<<<<"src", RLeafBytes>>, <<"norm", RWeights>>>>), Rec(<<<<"embd", RWeights>>, <<"norm", RWeights>>>>),
                  Rec(<<<<"src", REntry>>, <<"y", RLeafChunk>>, <<"ids", Opt(RExpertIds)>>>>)>>)

RResid ==
    Rec(<<<<"n_ubatch", Unit>>, <<"tok", Unit>>, <<"pos_path", Units>>, <<"meta_path", Units>>, <<"layer", REntry>>, <<"product", REntry>>,
          <<"dst", RLeafChunk>>, <<"src", Tagged(<<RLeafChunk, RWeights>>)>>,
          <<"add", Tagged(<<RLeafChunk, Rec(<<<<"y", RLeafBytes>>, <<"norm", RWeights>>>>),
                            Rec(<<<<"scores", RLeafBytes>>, <<"bias", RWeights>>, <<"ids", RExpertIds>>, <<"slots", Count(RLeafChunk)>>,
                                  <<"shexp", RLeafChunk>>, <<"router_row", RWeights>>, <<"resid", RLeafBytes>>,
                                  <<"norm", RWeights>>>>)>>)>>>>)

RPoint ==
    Rec(<<<<"n_ubatch", Unit>>, <<"pos_path", Units>>, <<"meta_path", Units>>, <<"entry", REntry>>, <<"partner", Lenient(REntry)>>,
          <<"bias", Lenient(RWeights)>>, <<"rows", Count(RRange)>>, <<"x", Units>>, <<"x_path", Units>>, <<"y_total_len", Unit>>,
          <<"y_chunk_index", Unit>>, <<"y_chunk", Units>>, <<"y_chunk_path", Units>>, <<"y_path", Units>>>>)

RPrefix == Rec(<<<<"n_ubatch", Unit>>, <<"pos_path", Units>>, <<"meta_path", Units>>, <<"entry", REntry>>, <<"x", Units>>, <<"x_path", Units>>,
                 <<"embd", RWeights>>, <<"norm", RWeights>>>>)

\* The body inside a seeded envelope, or the body itself; no envelope within an envelope.
inner_body(b) ==
    IF b = <<>> \/ b[1] # Version.seeded THEN {b}
    ELSE IF Len(b) < 4 \/ b[4] = Version.seeded THEN {}
    ELSE {<<b[4], b[2]>> \o SubSeq(b, 5, Len(b))}

seed_block(b) == IF b = <<>> \/ b[1] # Version.seeded \/ Len(b) < 3 THEN {} ELSE {b[3]}

seeded(b, seed) ==
    IF Len(b) < 2 \/ b[1] \notin {Version[k] : k \in DOMAIN Version \ {"seeded"}} THEN {}
    ELSE {<<Version.seeded, b[2], seed, b[1]>> \o SubSeq(b, 3, Len(b))}

\* All of a body, read as what it expects; the leading unit is the version.
Whole(what, b) == {x[1] : x \in {y \in Read(what, b) : y[2] = <<>>}}
Headed(fields) == Rec(<<<<"version", Unit>>, <<"txid", Unit>>>> \o fields)

DecodeOpening(body) ==
    UNION {LET version == b[1]
               chain == version \in {Version.chain, Version.roots}
               n == IF Len(b) < (IF version = Version.roots THEN 5 ELSE 3) THEN 0 ELSE b[IF version = Version.roots THEN 5 ELSE 3]
               links == IF chain THEN [i \in 1..n |-> <<i, Rec(<<<<"tok", Unit>>, <<"link", RLink>>, <<"expert", Opt(RExpertIds)>>>>)>>] ELSE <<>>
               fields(rs) ==
                   (IF version = Version.roots THEN <<<<"pos_root", Unit>>, <<"seq_root", Unit>>>> ELSE <<>>)
                     \o <<<<"points", Count(RPoint)>>, <<"links", Rec(links)>>>>
                     \o (IF version >= Version.prefix THEN <<<<"prefix", RPrefix>>>> ELSE <<>>) \o rs
               found == Whole(Headed(fields(<<>>)), b)
                          \cup IF chain THEN Whole(Headed(fields(<<<<"resid", RResid>>>>)), b) ELSE {}
               part(o, f) == IF f \in DOMAIN o THEN <<o[f]>> ELSE <<>>
           IN  IF version \notin {Version.plain, Version.prefix, Version.chain, Version.roots} \/ n > Len(b) THEN {}
               ELSE {[txid |-> o.txid, points |-> o.points, prefix |-> part(o, "prefix"), resid |-> part(o, "resid"),
                      links |-> [i \in DOMAIN o.links |-> [tok |-> o.links[i].tok, link |-> o.links[i].link]],
                      experts |-> [i \in DOMAIN o.links |-> o.links[i].expert],
                      roots |-> IF "pos_root" \in DOMAIN o THEN <<<<o.pos_root, o.seq_root>>>> ELSE <<>>] : o \in found}
           : b \in {x \in inner_body(body) : x # <<>>}}

Body(version, b, fields) == IF b = <<>> \/ b[1] # version THEN {} ELSE Whole(Headed(fields), b)
DecodeResid(b) ==
    Body(Version.resid, b,
         <<<<"roots", Opt(Rec(<<<<1, Unit>>, <<2, Unit>>>>))>>, <<"resid", RResid>>,
           <<"feed", Rec(<<<<"x", Units>>, <<"x_path", Units>>, <<"row", RRange>>, <<"bias", Opt(RWeights)>>>>)>>,
           <<"expert", Opt(Rec(<<<<"entry", REntry>>, <<"x", Units>>, <<"x_path", Units>>, <<"row", RRange>>>>))>>>>)

DecodeAttn(b) ==
    Body(Version.attn, b,
         <<<<"pos_root", Unit>>, <<"seq_root", Unit>>, <<"layer", REntry>>, <<"q_entry", REntry>>, <<"o_entry", REntry>>,
           <<"norms", Count(RWeights)>>, <<"pos_path", Units>>, <<"q", Count(RLeafChunk)>>, <<"out", RLeafBytes>>, <<"kcache", RSeqSpan>>,
           <<"vcache", RSeqSpan>>, <<"anchor_pos_path", Units>>, <<"anchor_k", Count(RLeafChunk)>>, <<"anchor_v", Count(RLeafChunk)>>,
           <<"absorb", Count(RLeafChunk)>>, <<"path", Units>>, <<"parent", Units>>, <<"parent_path", Units>>, <<"partials", Units>>,
           <<"lse", RSeqSpan>>>>)

DecodeRecur(b) ==
    Body(Version.recur, b,
         <<<<"pos_root", Unit>>, <<"seq_root", Unit>>, <<"layer", REntry>>, <<"out_entry", REntry>>, <<"decay_entry", REntry>>,
           <<"weights", Count(RWeights)>>, <<"records", RSeqSpan>>, <<"start_rows", RSeqSpan>>, <<"end_rows", RSeqSpan>>,
           <<"taps", Count(Rec(<<<<"pos_path", Units>>, <<"q", RLeafChunk>>, <<"k", RLeafChunk>>, <<"v", RLeafChunk>>>>))>>,
           <<"beta", RLeafChunk>>, <<"decay", RLeafChunk>>, <<"gate", RLeafChunk>>, <<"out", RLeafBytes>>>>)

DecodeInner(b) == UNION {DecodeAttn(i) \cup DecodeRecur(i) \cup DecodeResid(i) : i \in inner_body(b)}
is_audit_body(b) == DecodeOpening(b) # {} \/ DecodeInner(b) # {}
attn_path(b) == UNION {{o.path : o \in DecodeAttn(i)} : i \in inner_body(b)}
-----------------------------------------------------------------------------
(* Bundles of bodies.                                                      *)

bundle(bodies) ==
    IF Len(bodies) = 1 THEN bodies[1]
    ELSE <<BundleTag, Len(bodies) % CountValues>> \o FlattenSeq([i \in DOMAIN bodies |-> bytes32(bodies[i])])
unbundle(b) == IF b = <<>> \/ b[1] # BundleTag THEN {<<b>>} ELSE Whole(Count(Units), Tail(b))
-----------------------------------------------------------------------------
(* Manifest entries: fixed fields, then the links of the entry.            *)

AttnFields == <<"q", "k", "v", "q_norm", "k_norm", "n_head", "n_head_kv", "head_dim", "rope_kind", "n_rot", "rope_base", "kq_scale",
                "swa_window", "softcap", "rope_freqs", "v_norm", "gated", "slot", "mla_rank", "absorb", "out">>
RecurFields == <<"kind", "slot", "n_v_heads", "n_k_heads", "head_dim", "q", "k", "v", "conv_q", "conv_k", "conv_v", "beta", "decay", "dt", "a",
                 "norm", "gate", "interval", "conv_len">>
MoeFields == <<"down_exps", "router", "probs_bias", "w_scale", "ffn_norm", "gate_exps">>
LayerFields == <<"layer", "proj", "down", "post_attn", "post_ffn", "scale">>
ProductFields == <<"layer", "link", "norm", "src">>
BaseFields == <<"wtype", "k", "m", "n_exp", "chunk_base", "n_bytes", "row_bytes", "role", "glu_op", "glu_form", "partner", "bias">>

Written(fields, v) == [i \in DOMAIN fields |-> v[fields[i]]]
Unread(fields) == Rec([i \in DOMAIN fields |-> <<fields[i], Unit>>])

\* The links of an entry; a layer with attention has no recurrence.
chain_bytes(c) ==
    IF c.kind = "none" THEN <<0>>
    ELSE IF c.kind = "product" THEN <<1>> \o Written(ProductFields, c.links)
    ELSE <<(CASE c.attn # <<>> -> 4 [] c.attn = <<>> /\ c.recur # <<>> -> 6 [] OTHER -> 2) + Len(c.moe)>>
           \o Written(LayerFields, c.links) \o FlattenSeq([i \in DOMAIN c.moe |-> Written(MoeFields, c.moe[i])])
           \o (IF c.attn # <<>> THEN Written(AttnFields, c.attn[1]) ELSE FlattenSeq([i \in DOMAIN c.recur |-> Written(RecurFields, c.recur[i])]))

parse_chain(s) ==
    LET tag == Head(s)
        moe == tag \in {3, 5, 7}
        parts == <<<<"links", Unread(LayerFields)>>>> \o (IF moe THEN <<<<"moe", Unread(MoeFields)>>>> ELSE <<>>)
                   \o (IF tag \in {4, 5} THEN <<<<"attn", Unread(AttnFields)>>>> ELSE <<>>)
                   \o (IF tag \in {6, 7} THEN <<<<"recur", Unread(RecurFields)>>>> ELSE <<>>)
        part(v, f) == IF f \in DOMAIN v THEN <<v[f]>> ELSE <<>>
    IN  IF s = <<>> \/ Head(s) > 7 THEN {}
        ELSE IF tag = 0 THEN {<<[kind |-> "none"], Tail(s)>>}
        ELSE IF tag = 1 THEN {<<[kind |-> "product", links |-> x[1]], x[2]>> : x \in Read(Unread(ProductFields), Tail(s))}
        ELSE {<<[kind |-> "layer", links |-> x[1].links, moe |-> part(x[1], "moe"), attn |-> part(x[1], "attn"), recur |-> part(x[1], "recur")],
                x[2]>> : x \in Read(Rec(parts), Tail(s))}

EntryBase == Rec(<<<<"name", Units>>, <<"base", Unread(BaseFields)>>>>)
NoChain == [kind |-> "none"]
\* One entry of a file, whose entries carry their links or none does.
parse_in_file(s, chain) ==
    UNION {IF ~chain THEN {<<[e |-> x[1], chain |-> NoChain], x[2]>>}
           ELSE {<<[e |-> x[1], chain |-> c[1]], c[2]>> : c \in parse_chain(x[2])} : x \in Read(EntryBase, s)}

\* One entry alone: it has links when units are left.
parse_entry(s) ==
    UNION {IF x[2] = <<>> THEN {[e |-> x[1], chain |-> NoChain]} ELSE {[e |-> x[1], chain |-> c[1]] : c \in parse_chain(x[2])} :
           x \in Read(EntryBase, s)}

RECURSIVE ReadEntries(_, _, _)
ReadEntries(s, n, chain) ==
    IF n = 0 THEN {<<>>}
    ELSE UNION {{<<[entry |-> x[1], bytes |-> SubSeq(s, 1, Len(s) - Len(x[2]))]>> \o r : r \in ReadEntries(x[2], n - 1, chain)} :
                x \in parse_in_file(s, chain)}

\* A manifest file: its format (1 or 2), the number of entries and of products, the entries.
read_file(f) ==
    IF Len(f) < 3 \/ f[1] \notin {1, 2} THEN {}
    ELSE {[entries |-> es, np |-> f[3]] : es \in ReadEntries(SubSeq(f, 4, Len(f)), f[2], f[1] = 2)}
==============================================================================

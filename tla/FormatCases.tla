----------------------------- MODULE FormatCases -----------------------------
(***************************************************************************)
(* Proofs, bodies, payloads and envelopes of every shape within bounds,    *)
(* written by one side and read by the other.                              *)
(***************************************************************************)
EXTENDS Merkle, OpeningBodies, Payloads, FiniteSetsExt

CONSTANTS MaxLeaves,    \* bound on the leaves of a tree whose honest proofs are folded
          MaxForged     \* bound on the leaves of a tree whose proofs are all tried

VARIABLE case
NoCase == [kind |-> "none"]
-----------------------------------------------------------------------------
(* Trees.                                                                  *)

LeafTerm(i) == <<"leaf", i>>
LeavesOf(n) == [i \in 1..n |-> LeafTerm(i)]
AskTree(t, n, f, c) == case' = [kind |-> "tree", tree |-> t, n |-> n, first |-> f, count |-> c]
TryTree ==
    /\ case = NoCase
    /\ \E t \in {"rt", "b3"}, n \in 1..MaxLeaves : \E f \in 0..n, c \in 1..n : f + c <= n + 1 /\ AskTree(t, n, f, c)

\* BLAKE3's tree: the left half is the largest power of two smaller than the whole.
RECURSIVE Blake3(_, _)
Blake3(leaves, top) ==
    LET n == Len(leaves)
        half == CHOOSE h \in 1..n : h < n /\ 2 * h >= n /\ \E k \in 0..n : h = 2 ^ k
    IN  IF n = 1 THEN leaves[1]
        ELSE Merge("b3", Blake3(SubSeq(leaves, 1, half), FALSE), Blake3(SubSeq(leaves, half + 1, n), FALSE), top)

\* Every node below the root, and one of no tree.
RECURSIVE NodesBelow(_, _)
NodesBelow(tree, level) ==
    IF Len(level) = 1 THEN {LeafTerm(0)} ELSE {level[i] : i \in DOMAIN level} \cup NodesBelow(tree, NextLevel(tree, level, Len(level) = 2))

\* A proof folds to the root of the tree exactly for the leaves that are where it says: honest
\* proofs do (the b3 root being BLAKE3's), and no leaves and proof put together from the nodes of
\* the tree do for anything else.
TreesExact ==
    case.kind = "tree" =>
        LET leaves == LeavesOf(case.n)
            root == Root(case.tree, leaves)
            last == case.first + case.count
            here == SubSeq(leaves, case.first + 1, last)
            known == NodesBelow(case.tree, leaves)
        IN  /\ case.tree = "b3" => root = Blake3(leaves, TRUE)
            /\ last <= case.n =>
                  /\ RangeFold(case.tree, case.n, case.first, here, RangeProof(case.tree, leaves, case.first, last - 1)) = root
                  /\ case.tree = "b3" /\ case.count = 1 => B3Fold(case.n, case.first, here[1], B3Path(leaves, case.first)) = root
            /\ case.n <= MaxForged /\ case.count <= 2 =>
                  \A claim \in [1..case.count -> known], proof \in UNION {[1..k -> known] : k \in 0..2} :
                      RangeFold(case.tree, case.n, case.first, claim, proof) = root => last <= case.n /\ claim = here

\* An input of a declared length, and the chunks of it that are opened.
TryChunks ==
    /\ case = NoCase
    /\ \E len \in 0..(3 * HashChunk + 1) : \E f \in 0..(NChunks(len) - 1) : \E c \in 1..(NChunks(len) - f) :
          case' = [kind |-> "chunks", data |-> LeavesOf(len), first |-> f, count |-> c]

\* The hash of an input is reached from any of its chunks at its place and length, and from no other.
ChunksExact ==
    case.kind = "chunks" =>
        LET data == case.data
            len == Len(data)
            n == NChunks(len)
            hash == IF n = 1 THEN HashOf(data) ELSE Root("b3", ChunkCvs(data))
            some == FlattenSeq([i \in 1..case.count |-> ChunkAt(data, case.first + i - 1)])
            path == IF n = 1 THEN <<>> ELSE B3Path(ChunkCvs(data), case.first)
        IN  /\ some # <<>> => LeafFromChunks(len, case.first, some, ChunksProof(data, case.first, case.count)) = hash
            /\ \A l \in 0..(len + 1), at \in 0..n, c \in 0..(n - 1) :
                  LeafFromChunk(l, at, ChunkAt(data, c), path) = hash =>
                      at = c /\ LeafFromChunk(len, c, ChunkAt(data, c), IF n = 1 THEN <<>> ELSE B3Path(ChunkCvs(data), c)) = hash
            /\ LeafFromChunk(len, case.first, ChunkAt(data, case.first), path) = hash

\* Range and chunk proofs show exactly what is in the tree, where it is.
ProofsExact == TreesExact /\ ChunksExact
-----------------------------------------------------------------------------
(* Bodies.  Parts numbered apart, so that no two are alike.                *)

E(t) == [index |-> t, bytes |-> <<t, 1>>, path |-> <<t>>]
R(t) == [first_chunk |-> t, chunks |-> <<t>>, proof |-> <<1, t>>]
Wt(t) == [entry |-> E(t), range |-> R(t + 1)]
LC(t) == [total_len |-> t, index |-> 1, chunk |-> <<t, 0>>, chunk_path |-> <<>>, leaf_path |-> <<t>>]
LB(t) == [bytes |-> <<t>>, leaf_path |-> <<0, t>>]
SS(t) == [first_chunk |-> t, bytes |-> <<1, t>>, chunk_proof |-> <<t>>, leaf_path |-> <<>>]
Ids(t) == [chunk |-> <<t>>, chunk_path |-> <<t>>]
Times(n, x) == [i \in 1..n |-> x]
LCs(n, t) == [i \in 1..n |-> LC(t + i)]
Upto(n) == 0..n

Links == {[tag |-> 0, part |-> <<>>], [tag |-> 1, part |-> [src |-> LB(40), norm |-> Wt(41)]],
          [tag |-> 2, part |-> [embd |-> Wt(43), norm |-> Wt(45)]], [tag |-> 3, part |-> [src |-> E(47), y |-> LC(48), ids |-> <<>>]],
          [tag |-> 3, part |-> [src |-> E(47), y |-> LC(48), ids |-> <<Ids(49)>>]]}
Resids ==
    {[n_ubatch |-> 2, tok |-> 50, pos_path |-> <<51>>, meta_path |-> <<>>, layer |-> E(52), product |-> E(53), dst |-> LC(54), src |-> s, add |-> a] :
        s \in {[tag |-> 0, part |-> LC(55)], [tag |-> 1, part |-> Wt(56)]},
        a \in {[tag |-> 0, part |-> LC(58)], [tag |-> 1, part |-> [y |-> LB(59), norm |-> Wt(60)]]}
                \cup {[tag |-> 2, part |-> [scores |-> LB(62), bias |-> Wt(63), ids |-> Ids(65), slots |-> LCs(n, 66), shexp |-> LC(70),
                                            router_row |-> Wt(71), resid |-> LB(73), norm |-> Wt(74)]] : n \in Upto(2)}}
PointOf(partner, bias, rows) ==
    [n_ubatch |-> 3, pos_path |-> <<20>>, meta_path |-> <<21, 22>>, entry |-> E(23), partner |-> Times(partner, E(24)), bias |-> Times(bias, Wt(25)),
     rows |-> [i \in 1..rows |-> R(27 + i)], x |-> <<30>>, x_path |-> <<31>>, y_total_len |-> 32, y_chunk_index |-> 0, y_chunk |-> <<33>>,
     y_chunk_path |-> <<34>>, y_path |-> <<>>]
PrefixOf == [n_ubatch |-> 3, pos_path |-> <<80>>, meta_path |-> <<81>>, entry |-> E(82), x |-> <<83>>, x_path |-> <<>>, embd |-> Wt(84), norm |-> Wt(86)]
Roots == <<<<88, 89>>>>

NewTrace(n, p, links, x, prefix, rs, roots) ==
    [txid |-> 9, points |-> Times(n, p), links |-> [i \in 1..Len(links) |-> [tok |-> 90 + i, link |-> links[i]]],
     experts |-> [i \in 1..Len(links) |-> IF i \in x THEN <<Ids(92)>> ELSE <<>>], prefix |-> prefix, resid |-> rs, roots |-> roots]
\* What trace.rs and block_task.rs put together: a chain has a prefix, and a link for every point.
AskTraceBody ==
    /\ case = NoCase
    /\ \E n \in Upto(2) :
          \/ \E partner \in Upto(1), bias \in Upto(1), rows \in Upto(2), prefix \in Upto(1) :
                case' = [kind |-> "trace", o |-> NewTrace(n, PointOf(partner, bias, rows), <<>>, {}, Times(prefix, PrefixOf), <<>>, <<>>)]
          \/ \E links \in [1..n -> Links], x \in {{}, {1}}, rs \in {<<>>} \cup {<<r>> : r \in Resids}, roots \in {<<>>, Roots} :
                /\ n > 0 \/ rs # <<>>
                /\ case' = [kind |-> "trace", o |-> NewTrace(n, PointOf(1, 0, 1), links, x, <<PrefixOf>>, rs, roots)]
AskResidBody ==
    /\ case = NoCase
    /\ \E rs \in Resids, roots \in {<<>>, Roots}, bias \in Upto(1), expert \in Upto(1) :
          case' = [kind |-> "resid", o |-> [version |-> Version.resid, txid |-> 9, roots |-> roots, resid |-> rs,
                                            feed |-> [x |-> <<94>>, x_path |-> <<95>>, row |-> R(96), bias |-> Times(bias, Wt(97))],
                                            expert |-> Times(expert, [entry |-> E(99), x |-> <<>>, x_path |-> <<1>>, row |-> R(2)])]]
AskAttnBody ==
    /\ case = NoCase
    /\ \E norms \in Upto(2), q \in Upto(2), anchor \in Upto(1), absorb \in Upto(1), path \in Upto(2) :
          case' = [kind |-> "attn", o |-> [version |-> Version.attn, txid |-> 9, pos_root |-> 10, seq_root |-> 11, layer |-> E(12), q_entry |-> E(13),
                      o_entry |-> E(14), norms |-> Times(norms, Wt(15)), pos_path |-> <<17>>, q |-> LCs(q, 18), out |-> LB(21), kcache |-> SS(22),
                      vcache |-> SS(23), anchor_pos_path |-> <<24>>, anchor_k |-> LCs(anchor, 25), anchor_v |-> LCs(anchor, 26),
                      absorb |-> LCs(absorb, 27), path |-> Times(path, 5), parent |-> <<28>>, parent_path |-> <<>>, partials |-> <<29, 30>>,
                      lse |-> SS(31)]]
AskRecurBody ==
    /\ case = NoCase
    /\ \E ws \in Upto(2), taps \in Upto(2) :
          case' = [kind |-> "recur", o |-> [version |-> Version.recur, txid |-> 9, pos_root |-> 10, seq_root |-> 11, layer |-> E(12), out_entry |-> E(13),
                      decay_entry |-> E(14), weights |-> Times(ws, Wt(15)), records |-> SS(17), start_rows |-> SS(18), end_rows |-> SS(19),
                      taps |-> Times(taps, [pos_path |-> <<20>>, q |-> LC(21), k |-> LC(22), v |-> LC(23)]), beta |-> LC(24), decay |-> LC(25),
                      gate |-> LC(26), out |-> LB(27)]]

Kinds == {"trace", "resid", "attn", "recur"}
Encoded(k, o) == CASE k = "trace" -> EncodeOpening(o) [] k = "resid" -> EncodeResid(o) [] k = "attn" -> EncodeAttn(o) [] k = "recur" -> EncodeRecur(o)
DecodedAs(k, b) ==
    IF k = "trace" THEN DecodeOpening(b)
    ELSE UNION {CASE k = "resid" -> DecodeResid(i) [] k = "attn" -> DecodeAttn(i) [] k = "recur" -> DecodeRecur(i) : i \in inner_body(b)}

\* Where a body is cut: anywhere; at its last unit if it has two points.
Cuts(b) == IF case.kind = "trace" /\ Len(case.o.points) > 1 THEN {Len(b) - 1} ELSE 0..(Len(b) - 1)

\* The node reads of a body what the miner wrote, bare or in the envelope that names its seed, and
\* reads it as nothing else; a body cut short or drawn out is not one (but for a trace body less
\* the residual that ends it); bodies come out of a bundle as they went in.
OpeningsExact ==
    case.kind \in Kinds =>
        LET b == Encoded(case.kind, case.o)
            sent == CHOOSE s \in seeded(b, 77) : TRUE
        IN  /\ seeded(b, 77) # {} /\ inner_body(sent) = {b} /\ seed_block(sent) = {77} /\ seed_block(b) = {} /\ seeded(sent, 78) = {}
            /\ \A k \in Kinds : DecodedAs(k, b) = (IF k = case.kind THEN {case.o} ELSE {})
            /\ is_audit_body(sent) /\ DecodedAs(case.kind, sent) = {case.o}
            /\ attn_path(sent) = IF case.kind = "attn" THEN {case.o.path} ELSE {}
            /\ ~is_audit_body(Append(b, 0))
            /\ \A n \in Cuts(b) : \A o \in DecodedAs(case.kind, SubSeq(b, 1, n)) :
                  case.kind = "trace" /\ case.o.resid # <<>> /\ o = [case.o EXCEPT !.resid = <<>>]
            /\ \A n \in 0..2 : unbundle(bundle(Times(n, b))) = {Times(n, b)}

\* An entry and its links, in a file of one or two; bytes as the manifest's builder lays them out.
Named(fields, t) == [f \in {fields[i] : i \in DOMAIN fields} |-> t]
ChainsOf == {NoChain, [kind |-> "product", links |-> Named(ProductFields, 3)]}
              \cup {[kind |-> "layer", links |-> Named(LayerFields, 4), moe |-> Times(m, Named(MoeFields, 5)), attn |-> Times(a, Named(AttnFields, 6)),
                     recur |-> Times(r, Named(RecurFields, 7))] : m \in Upto(1), a \in Upto(1), r \in Upto(1)}
AskEntry ==
    /\ case = NoCase
    /\ \E c1 \in ChainsOf, c2 \in ChainsOf, n \in Upto(2) :
          case' = [kind |-> "entries", name |-> [i \in 1..n |-> i], chains |-> <<c1, c2>>]

\* Every entry is read back with its links, alone or in its file.
EntriesExact ==
    case.kind = "entries" =>
        LET base == [name |-> case.name, base |-> Named(BaseFields, 8)]
            raw == bytes32(case.name) \o Written(BaseFields, base.base)
            full(i) == raw \o chain_bytes(case.chains[i])
            read(i) == [entry |-> [e |-> base, chain |-> case.chains[i]], bytes |-> full(i)]
            fits(c) == c.kind = "layer" => c.attn = <<>> \/ c.recur = <<>>
        IN  fits(case.chains[1]) /\ fits(case.chains[2]) =>
                /\ parse_entry(full(1)) = {[e |-> base, chain |-> case.chains[1]]} /\ parse_entry(raw) = {[e |-> base, chain |-> NoChain]}
                /\ read_file(<<2, 2, 1>> \o full(1) \o full(2)) = {[entries |-> <<read(1), read(2)>>, np |-> 1]}
                /\ read_file(<<1, 1, 1>> \o raw) = {[entries |-> <<[entry |-> [e |-> base, chain |-> NoChain], bytes |-> raw]>>, np |-> 1]}

\* Openings and manifest entries are read as they were written, and as nothing else.
BodiesExact == OpeningsExact /\ EntriesExact
-----------------------------------------------------------------------------
(* Payloads.                                                               *)

Traces == {<<>>, <<[commit |-> Nums(<<1, 2, 3, 4>>), tokens_root |-> <<>>]>>, <<[commit |-> Nums(<<1, 2, 3, 4>>), tokens_root |-> <<Num(5)>>]>>}
ResponsesOf ==
    {p \in [head : {Nums(<<1, 2, 3, h>>) : h \in {4, ExtBody}}, responder : {<<>>, <<Nums(<<6, 7>>)>>},
            body : {<<>>} \cup {<<[i \in 1..n |-> Num(IF i = 2 THEN ExtTrace ELSE 4)]>> : n \in 1..MaxBody}, trace : Traces] :
        (p.body # <<>> => p.responder # <<>>) /\ (p.trace # <<>> => p.body # <<>>)}
AskResponse == case = NoCase /\ \E p \in ResponsesOf : case' = [kind |-> "response", p |-> p]
AskPlain == case = NoCase /\ \E text \in BoundedSeq({Num(0), Num(1), TokensMagic}, 3), ids \in BoundedSeq({Num(1), Num(2)}, 2) :
                case' = [kind |-> "plain", text |-> text, ids |-> ids]

\* A response and an answer are read as they were written; a response cut, drawn out or with another
\* length is read only as what would be written so; a signature covers one response's parts.
PayloadsExact ==
    /\ case.kind = "response" =>
          LET d == SerializeResponse(case.p)
          IN  /\ DeserializeResponse(d) = {case.p}
              /\ \A e \in {SubSeq(d, 1, k) : k \in 0..Len(d)} \cup {Append(d, Num(4))} \cup {[d EXCEPT ![k] = Num(n)] : k \in DOMAIN d, n \in 1..MaxBody} :
                    \A p \in DeserializeResponse(e) : SerializeResponse(p) = e
              /\ \A p \in ResponsesOf : signed_bytes(p) = signed_bytes(case.p) => [p EXCEPT !.responder = <<>>] = [case.p EXCEPT !.responder = <<>>]
    /\ case.kind = "plain" =>
          LET d == EncodeAnswer(case.text, case.ids)
          IN  DecodeAnswer(d) = {<<case.text, case.ids>>} /\ text_len(Len(d), Len(case.ids)) = {Len(case.text)}
-----------------------------------------------------------------------------
(* Private inference.                                                      *)

People == 1..3
KeyOf(i) == <<"key", i>>
SecretOf(i) == Secret(KeyOf(i), i % 2 = 1)
Fields == Nums(<<1, 2, 3, 4>>)
Others == {Nums(<<1, 2, 3, 5>>), Nums(<<2, 2, 3, 4>>)}
AskPrivate ==
    /\ case = NoCase
    /\ \E s \in {1, 2}, b \in {1, 2}, to \in BoundedSeq(People, 3), len \in Upto(5) :
          case' = [kind |-> "private", schedule |-> s, bytes |-> <<"b", b>>, to |-> [i \in DOMAIN to |-> KeyOf(to[i])],
                   prompt |-> [i \in 1..len |-> Num(i)]]

SealedCase == seal_request(case.schedule, case.bytes, Secret(<<"r", 1>>, TRUE), Num(11), Fields, case.prompt, case.to)
\* A sealed request with another header, one unit of the envelope changed, or cut.
Altered(q) ==
    {[q EXCEPT !.header = h] : h \in Others} \cup {[q EXCEPT !.prompt = SubSeq(@, 1, k)] : k \in 0..(Len(q.prompt) - 1)}
      \cup {[q EXCEPT !.prompt[k] = u] : k \in DOMAIN q.prompt, u \in {Num(1), Num(2), KeyOf(1), KeyOf(3)}}

\* Keys a recipient can derive for the answer of another: from the root key and its own shared secret.
KeysOf(i, secret, q) ==
    LET shared == UNION {{Shared(env.ephemeral, EvenSecret(SecretOf(i)))} : env \in ParseEnvelope(q.prompt)}
    IN  {response_key_v1(root_key(secret), KeyOf(j)) : j \in People}
          \cup {response_key_v2(sh, root_key(secret), KeyOf(j)) : sh \in shared, j \in People}

\* The prompt is sealed whenever it has one to as many recipients as fit, and the payload is then one
\* the node accepts; each of them opens it, whatever the parity of its key, and nobody else; a changed
\* one is opened by nobody, unless it reads the same; what a responder seals is the requester's to
\* open, as that responder's answer to that request; and under the second schedule no other recipient
\* can derive its key.
PrivateExact ==
    case.kind = "private" =>
        LET keys == {case.to[i] : i \in DOMAIN case.to}
            fits == RequestHead + EnvelopeHead + (Cardinality(keys) * RecipientLen) + Len(case.prompt) + TagLen <= MaxRequest
        IN  /\ (SealedCase # {}) <=> (keys # {} /\ Cardinality(keys) <= MaxRecipients /\ fits)
            /\ \A x \in SealedCase :
                  /\ DeserializeRequest(SerializeRequest(x.request)) = {x.request} /\ from_hex(to_hex(x.secret)) = {x.secret}
                  /\ \A i \in People :
                        LET opened == open_request(x.request, SecretOf(i))
                        IN  /\ {o.prompt : o \in opened} = IF KeyOf(i) \in keys THEN {case.prompt} ELSE {}
                            /\ \A q \in Altered(x.request) : q # x.request => open_request(q, SecretOf(i)) = {}
                            /\ \A o \in opened :
                                  LET answer == Nums(<<7, 8>>)
                                      body == seal_response(o, Num(12), Num(13), answer)
                                  IN  /\ \A j \in People, h \in {13, 14} :
                                            open_response(x.secret, Num(h), KeyOf(j), body) = (IF i = j /\ h = 13 THEN {answer} ELSE {})
                                      /\ \A j \in People \ {i} : case.schedule = 2 => o.key \notin KeysOf(j, x.secret, x.request)
=============================================================================

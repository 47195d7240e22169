------------------------------ MODULE TracedRun ------------------------------
(***************************************************************************)
(* How a traced evaluation is fed, committed and replayed:                 *)
(* generate_traced, feed_traced, RecurSink, seq_leaf_bytes and the replays *)
(* (src/llm_engine.rs), with the sizes a commitment must have (shape.rs).  *)
(* Decodes are external; a batch is <<first position, tokens>>.            *)
(***************************************************************************)
EXTENDS TierManifest

CONSTANTS PromptBytes,   \* PROMPT_BYTES_PER_POSITION
          AnswerBytes,   \* ANSWER_BYTES_PER_POSITION
          TokenBytes,    \* MAX_ANSWER_BYTES_PER_TOKEN
          PromptMargin   \* PROMPT_MARGIN

\* The tokens of the first n positions, TraceUBatch at a time; then one by one.
PromptBatches(n) ==
    [i \in 1..CeilDiv(n, TraceUBatch) |-> <<(i - 1) * TraceUBatch, AtMost(TraceUBatch, n - (i - 1) * TraceUBatch)>>]
Singles(from, to) == [i \in 1..(to - from + 1) |-> <<from + i - 1, 1>>]

FedBatches(n_prompt, n_pos) == PromptBatches(n_prompt) \o Singles(n_prompt, n_pos - 1)

\* Mutant of the definition below.
ReplayBatchesExact(n_prompt, last) ==
    PromptBatches(IF last < n_prompt THEN last + 1 ELSE n_prompt) \o Singles(n_prompt, last)

\* A replay feeds the prompt through the batch of the last capture.
ReplayBatches(n_prompt, last) ==
    PromptBatches(IF last < n_prompt THEN AtMost(n_prompt, ((last \div TraceUBatch) + 1) * TraceUBatch) ELSE n_prompt)
      \o Singles(n_prompt, last)

\* feed_traced declares the batch the node expects, and refuses one that straddles two.
Declared(b, n_prompt) == ExpectedUbatch(b[1], n_prompt)
FeedTraced(b, n_prompt) ==
    Declared(b, n_prompt) = ExpectedUbatch(b[1] + b[2] - 1, n_prompt) /\ b[2] <= Declared(b, n_prompt)

BatchHolding(batches, t) == CHOOSE i \in DOMAIN batches : t \in batches[i][1]..(batches[i][1] + batches[i][2] - 1)
FedUbatch(n_prompt, n_pos) ==
    LET fed == FedBatches(n_prompt, n_pos)
    IN  [t \in 0..(n_pos - 1) |-> Declared(fed[BatchHolding(fed, t)], n_prompt)]
-----------------------------------------------------------------------------
(* generate_traced: the prompt is padded to the positions its bytes need,  *)
(* and the answer with padding tokens to those of its bytes.  An answer is *)
(* the sequence of its tokens' byte counts; the request's prompt takes     *)
(* prompt_toks tokens.                                                     *)

MinPromptPositions(prompt_len) == prompt_len \div PromptBytes
MinGenerated(answer_len, max_tokens) == AtMost(answer_len \div AnswerBytes, max_tokens)
MaxAnswerLen(max_tokens) == max_tokens * TokenBytes

ShapeOk(prompt_len, answer_len, max_tokens, n_prompt, n_pos) ==
    /\ n_prompt > 0 /\ n_pos >= n_prompt
    /\ n_pos - n_prompt <= max_tokens
    /\ n_prompt >= MinPromptPositions(prompt_len)
    /\ n_pos - n_prompt >= MinGenerated(answer_len, max_tokens)
    /\ answer_len <= MaxAnswerLen(max_tokens)

Bytes(pieces, n) == MapThenSumSet(LAMBDA i : pieces[i], 1..n)

\* Mutant of the definition below.
AnswerPaddingFloor(n_tokens, out, n_prompt, max_tokens, n_ctx) == n_tokens

\* Positions of the answer, once padded; the context leaves room for one more.
AnswerPadding(n_tokens, out, n_prompt, max_tokens, n_ctx) ==
    AtLeast(n_tokens, AtMost(AtMost(out \div AnswerBytes, max_tokens), n_ctx - 1 - n_prompt))

\* truncate_answer and the trims before it only shorten the text.
Sent(out, cut, max_tokens) == AtMost(out - cut, MaxAnswerLen(max_tokens))

\* What a run commits; refused when the prompt leaves no margin in the context.
Generate(prompt_toks, prompt_len, pieces, cut, max_tokens, n_ctx) ==
    LET n_prompt == AtLeast(prompt_toks, MinPromptPositions(prompt_len))
        budget   == AtMost(max_tokens, n_ctx - (n_prompt + 1))
        n_tokens == AtMost(Len(pieces), budget)
        out      == Bytes(pieces, n_tokens)
    IN  IF n_prompt + PromptMargin > n_ctx THEN [built |-> FALSE]
        ELSE [built |-> TRUE, n_prompt |-> n_prompt, answer_len |-> Sent(out, AtMost(cut, out), max_tokens),
              n_pos |-> n_prompt + AnswerPadding(n_tokens, out, n_prompt, max_tokens, n_ctx)]
-----------------------------------------------------------------------------
(* Sequence leaves: per attention layer and head its cache rows and its    *)
(* masses, per recurrent layer and head its records and checkpoints.       *)

KCache(m, slot, h) == IF slot < m.chain.n_attn /\ h < m.chain.seq_heads THEN 2 * (slot * m.chain.seq_heads + h) ELSE NoEntry
VCache(m, slot, h) == KCache(m, slot, h) + 1
Record(m, slot, h) ==
    IF slot < m.chain.n_recur /\ h < m.chain.seq_heads
    THEN 2 * m.chain.seq_heads * m.chain.n_attn + 2 * (slot * m.chain.seq_heads + h) ELSE NoEntry
Checkpoint(m, slot, h) == Record(m, slot, h) + 1
Lse(m, slot, h) ==
    IF slot < m.chain.n_attn /\ h < m.chain.seq_heads
    THEN 2 * m.chain.seq_heads * (m.chain.n_attn + m.chain.n_recur) + slot * m.chain.seq_heads + h ELSE NoEntry

Layers(m) == 0..LastLayer(m)
AttnLayers(m) == {l \in Layers(m) : LayerLinks(m, l).attn # <<>>}
RecurLayers(m) == {l \in Layers(m) : LayerLinks(m, l).recur # <<>>}
Attn(m, l) == LayerLinks(m, l).attn[1]
Recur(m, l) == LayerLinks(m, l).recur[1]

\* Units of a cache row and of a record; a latent cache keeps one head and no values.
CacheRow(a) == a.head_dim \div Block
RecordLen(u) == 4 * u.head_dim + 2 + (IF u.kind = "kda" THEN u.head_dim ELSE 2)
StateLen(u) == u.head_dim * u.head_dim
Group(a) == IF a.mla_rank > 0 THEN a.n_head ELSE a.n_head \div a.n_head_kv

\* Mutant of the definition below.
CheckpointsCeil(u, r) == CeilDiv(r.n_pos, u.interval)

\* RecurSink: a state at every batch end on a multiple of the interval.
Checkpoints(u, r) ==
    LET fed == FedBatches(r.n_prompt, r.n_pos)
    IN  Cardinality({i \in DOMAIN fed : (fed[i][1] + fed[i][2]) % u.interval = 0})

\* Length of a sequence leaf as the engine commits it.
SeqLen(m, r, leaf) ==
    LET attn == {<<Attn(m, l), h>> : l \in AttnLayers(m), h \in 0..(m.chain.seq_heads - 1)}
        recur == {<<Recur(m, l), h>> : l \in RecurLayers(m), h \in 0..(m.chain.seq_heads - 1)}
        Heads(a) == IF a.mla_rank > 0 THEN 1 ELSE a.n_head_kv
    IN  IF \E x \in attn : x[2] < Heads(x[1]) /\ leaf \in {KCache(m, x[1].slot, x[2]), VCache(m, x[1].slot, x[2])}
        THEN LET x == CHOOSE x \in attn : leaf \in {KCache(m, x[1].slot, x[2]), VCache(m, x[1].slot, x[2])}
             IN  IF x[1].mla_rank > 0 /\ leaf = VCache(m, x[1].slot, x[2]) THEN 0 ELSE r.n_pos * CacheRow(x[1])
        ELSE IF \E x \in attn : x[2] < Heads(x[1]) /\ leaf = Lse(m, x[1].slot, x[2])
        THEN r.n_pos * Group((CHOOSE x \in attn : leaf = Lse(m, x[1].slot, x[2]))[1])
        ELSE IF \E x \in recur : x[2] < x[1].n_v_heads /\ leaf = Record(m, x[1].slot, x[2])
        THEN r.n_pos * RecordLen((CHOOSE x \in recur : leaf = Record(m, x[1].slot, x[2]))[1])
        ELSE IF \E x \in recur : x[2] < x[1].n_v_heads /\ leaf = Checkpoint(m, x[1].slot, x[2])
        THEN LET u == (CHOOSE x \in recur : leaf = Checkpoint(m, x[1].slot, x[2]))[1]
             IN  Checkpoints(u, r) * StateLen(u)
        ELSE 0
=============================================================================

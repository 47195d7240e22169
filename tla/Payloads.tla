------------------------------- MODULE Payloads -------------------------------
(***************************************************************************)
(* Payloads of AI requests and responses (ai_payload.rs), the plaintext of *)
(* a traced answer (answer.rs) and the envelopes of private inference      *)
(* (private.rs).  A payload is a sequence of units, each the term it       *)
(* stands for; cryptography is symbolic: a key derivation, a shared secret *)
(* and a ciphertext equal another exactly when their inputs do.            *)
(***************************************************************************)
EXTENDS Integers, Sequences, FiniteSets, SequencesExt

CONSTANTS MaxRequest,        \* MAX_AI_REQUEST_PRIVATE_PAYLOAD_LEN, in units
          MaxBody,           \* MAX_AI_RESPONSE_PRIVATE_BODY_LEN
          MaxRecipients      \* MAX_PRIVATE_RECIPIENTS
ASSUME PayloadAssumption == {MaxRequest, MaxBody, MaxRecipients} \subseteq Nat \ {0}

Num(n) == <<"n", n>>
Nums(s) == [i \in DOMAIN s |-> Num(s[i])]
From(s, i) == SubSeq(s, i, Len(s))
-----------------------------------------------------------------------------
(* Requests: four fixed fields, then the prompt.                           *)

RequestHead == 4
header_bytes(q) == q.header
SerializeRequest(q) == header_bytes(q) \o q.prompt
DeserializeRequest(d) ==
    IF Len(d) < RequestHead \/ Len(d) > MaxRequest THEN {}
    ELSE {[header |-> SubSeq(d, 1, RequestHead), prompt |-> From(d, RequestHead + 1)]}
-----------------------------------------------------------------------------
(* Responses: the head; then the responder's key and signature; then the   *)
(* answer, and the trace it was computed with.  A part that may be missing *)
(* is a sequence of at most one.                                           *)

V1Len == 4
V2Len == V1Len + 2
TraceLen == 4
ExtHeader == 2
ExtBody == 128
ExtTrace == 129

TraceBytes(t) == t.commit \o t.tokens_root

\* An extension is its kind, its length and its data; a trace is only sent after a body.
Extension(kind, data) == <<Num(kind), Num(Len(data))>> \o data
extension_bytes(p) ==
    IF p.body = <<>> THEN <<>>
    ELSE Extension(ExtBody, p.body[1]) \o FlattenSeq([i \in DOMAIN p.trace |-> Extension(ExtTrace, TraceBytes(p.trace[i]))])
signed_bytes(p) == p.head \o extension_bytes(p)
SerializeResponse(p) == p.head \o FlattenSeq(p.responder) \o extension_bytes(p)

\* What follows the body: nothing, or one trace that fills the rest.
TraceExt(rest) ==
    IF rest = <<>> THEN {<<>>}
    ELSE IF /\ Len(rest) - ExtHeader \in {TraceLen, TraceLen + 1}
            /\ rest[1] = Num(ExtTrace) /\ rest[2] = Num(Len(rest) - ExtHeader)
         THEN {<<[commit |-> SubSeq(rest, 3, 2 + TraceLen), tokens_root |-> From(rest, 3 + TraceLen)]>>}
    ELSE {}

\* Mutant of the definition below.
ExtensionsLoose(ext) ==
    IF Len(ext) < ExtHeader \/ ext[1] # Num(ExtBody) THEN {}
    ELSE UNION {{<<<<SubSeq(ext, 3, 2 + n)>>, t>> : t \in TraceExt(From(ext, 3 + n)) \cup {<<>>}} :
                n \in {k \in 1..MaxBody : ext[2] = Num(k) /\ 2 + k <= Len(ext)}}

\* The body, of the length it declares, and what follows it.
Extensions(ext) ==
    IF Len(ext) < ExtHeader \/ ext[1] # Num(ExtBody) THEN {}
    ELSE UNION {{<<<<SubSeq(ext, 3, 2 + n)>>, t>> : t \in TraceExt(From(ext, 3 + n))} :
                n \in {k \in 1..MaxBody : ext[2] = Num(k) /\ 2 + k <= Len(ext)}}

DeserializeResponse(d) ==
    IF Len(d) < V2Len /\ Len(d) # V1Len THEN {}
    ELSE {[head |-> SubSeq(d, 1, V1Len), responder |-> IF Len(d) >= V2Len THEN <<SubSeq(d, V1Len + 1, V2Len)>> ELSE <<>>,
           body |-> x[1], trace |-> x[2]] : x \in IF Len(d) > V2Len THEN Extensions(From(d, V2Len + 1)) ELSE {<<<<>>, <<>>>>}}
-----------------------------------------------------------------------------
(* Plaintext of an answer: the text, the token ids, their count, a mark.   *)

TokensMagic == <<"KXTK">>
EncodeAnswer(text, ids) == text \o ids \o <<Num(Len(ids)), TokensMagic>>
DecodeAnswer(plain) ==
    LET body == Len(plain) - 2
    IN  IF body < 0 \/ plain[Len(plain)] # TokensMagic THEN {}
        ELSE {<<SubSeq(plain, 1, body - n), SubSeq(plain, body - n + 1, body)>> : n \in {k \in 0..body : plain[body + 1] = Num(k)}}
text_len(answer_len, n_ids) == IF answer_len < n_ids + 2 THEN {} ELSE {answer_len - (n_ids + 2)}
-----------------------------------------------------------------------------
(* Keys.  A secret has the x of its point and its parity; lift_x takes the *)
(* even point of an x.  A shared secret is that of the two points' x and   *)
(* the sign their parities give.                                           *)

hkdf(salt, ikm, info) == <<"kdf", salt, ikm, info>>
Secret(x, odd) == [x |-> x, odd |-> odd]
PublicKey(s) == [x |-> s.x, odd |-> s.odd]
lift_x(key) == [x |-> key, odd |-> FALSE]
Shared(point, secret) == <<"dh", {point.x, secret.x}, point.odd # secret.odd>>

Sealed(key, nonce, msg, aad, i) == <<"ct", key, nonce, msg, aad, i>>
aead_encrypt(key, nonce, msg, aad) == [i \in 1..(Len(msg) + 1) |-> Sealed(key, nonce, msg, aad, i)]
aead_decrypt(key, nonce, c, aad) ==
    IF c = <<>> \/ c[1][1] # "ct" THEN {} ELSE {msg \in {c[1][4]} : c = aead_encrypt(key, nonce, msg, aad)}

Salt(schedule) == <<"salt", schedule>>
Info(label, keys) == <<<<"info", label>>>> \o keys
response_key_v1(root, responder) == hkdf(Salt(1), <<root>>, Info("response", <<responder>>))
response_key_v2(shared, root, responder) == hkdf(Salt(2), <<shared, root>>, Info("response", <<responder>>))
\* The first valid scalar drawn from the seed.
ephemeral_secret_v2(seed) == Secret(hkdf(Salt(2), <<seed>>, Info("ephemeral", <<>>)), seed[2] % 2 = 1)

\* What the requester keeps: the key schedule, and the root key or the seed it is derived from.
root_key(secret) == IF secret.schedule = 1 THEN secret.bytes ELSE hkdf(Salt(2), <<secret.bytes>>, Info("root", <<>>))
response_key(secret, responder) ==
    IF secret.schedule = 1 THEN response_key_v1(root_key(secret), responder)
    ELSE response_key_v2(Shared(lift_x(responder), ephemeral_secret_v2(secret.bytes)), root_key(secret), responder)
to_hex(secret) == (IF secret.schedule = 2 THEN <<Num(2)>> ELSE <<>>) \o <<secret.bytes>>
from_hex(s) ==
    IF Len(s) = 2 /\ s[1] = Num(2) THEN {[schedule |-> 2, bytes |-> s[2]]} ELSE IF Len(s) = 1 THEN {[schedule |-> 1, bytes |-> s[1]]} ELSE {}
-----------------------------------------------------------------------------
(* Envelopes.                                                              *)

PrivateMagic == <<"KXP">>
PrivateVersion == Num(1)
EnvelopeHead == 5
RecipientLen == 3
TagLen == 1

is_private(prompt) == prompt # <<>> /\ prompt[1] = PrivateMagic
header_len(env) == EnvelopeHead + Len(env.recipients) * RecipientLen
SerializeEnvelope(env) ==
    <<PrivateMagic, PrivateVersion, <<"point", env.ephemeral>>, env.nonce, Num(Len(env.recipients))>>
      \o FlattenSeq([i \in DOMAIN env.recipients |-> <<env.recipients[i].key>> \o env.recipients[i].wrapped]) \o env.ciphertext

ParseEnvelope(p) ==
    LET at(i) == EnvelopeHead + (i - 1) * RecipientLen
        ends(n) == EnvelopeHead + n * RecipientLen
    IN  IF ~is_private(p) \/ Len(p) < EnvelopeHead THEN {}
        ELSE IF p[2] # PrivateVersion \/ p[3][1] # "point" THEN {}
        ELSE {[ephemeral |-> p[3][2], nonce |-> p[4], ciphertext |-> From(p, ends(n) + 1),
               recipients |-> [i \in 1..n |-> [key |-> p[at(i) + 1], wrapped |-> SubSeq(p, at(i) + 2, at(i) + RecipientLen)]]] :
              n \in {k \in 1..MaxRecipients : /\ p[5] = Num(k) /\ Len(p) >= ends(k) + TagLen
                                              /\ \A i \in 1..k : p[at(i) + 1][1] = "key"
                                              /\ \A i \in 2..k : p[at(i - 1) + 1][2] < p[at(i) + 1][2]}}

SerializeReply(nonce, c) == <<PrivateMagic, PrivateVersion, nonce>> \o c
ParseReply(b) ==
    IF ~is_private(b) \/ Len(b) < 3 + TagLen THEN {} ELSE IF b[2] # PrivateVersion THEN {} ELSE {[nonce |-> b[3], ciphertext |-> From(b, 4)]}

max_private_prompt_len(n) == (MaxRequest - RequestHead) - (EnvelopeHead + n * RecipientLen + TagLen)

\* Seals a prompt to the keys; {} when there are none, too many, or the payload would be too long.
seal_payload(secret, ephemeral, nonce, header, prompt, recipients) ==
    LET keys == SetToSortSeq({recipients[i] : i \in DOMAIN recipients}, LAMBDA a, b : a[2] < b[2])
        salt == Salt(secret.schedule)
        epub == PublicKey(ephemeral)
        wrap(key) == aead_encrypt(hkdf(salt, <<Shared(lift_x(key), ephemeral)>>, Info("kek", <<<<"point", epub>>, key>>)),
                                  nonce, <<root_key(secret)>>, header)
        env == [ephemeral |-> epub, nonce |-> nonce, ciphertext |-> <<>>,
                recipients |-> [i \in DOMAIN keys |-> [key |-> keys[i], wrapped |-> wrap(keys[i])]]]
        aad == header \o SerializeEnvelope(env)
        full == [env EXCEPT !.ciphertext = aead_encrypt(hkdf(salt, <<root_key(secret)>>, Info("prompt", <<>>)), nonce, prompt, aad)]
    IN  IF keys = <<>> \/ Len(keys) > MaxRecipients \/ Len(prompt) > max_private_prompt_len(Len(keys)) THEN {}
        ELSE {[header |-> header, prompt |-> SerializeEnvelope(full)]}

\* A request sealed under a schedule: the first draws its ephemeral secret, the second derives it.
seal_request(schedule, bytes, drawn, nonce, header, prompt, recipients) ==
    LET secret == [schedule |-> schedule, bytes |-> bytes]
        ephemeral == IF schedule = 1 THEN drawn ELSE ephemeral_secret_v2(bytes)
    IN  {[request |-> q, secret |-> secret] : q \in seal_payload(secret, ephemeral, nonce, header, prompt, recipients)}

\* Mutant of the definition below.
EvenSecretAsIs(secret) == secret

\* The requester lifted the x of the key to its even point.
EvenSecret(secret) == [secret EXCEPT !.odd = FALSE]

\* The schedule is the one whose key opens the wrapped root key, the second tried first.
open_request(q, secret) ==
    UNION {LET me == secret.x
               index == {i \in DOMAIN env.recipients : env.recipients[i].key = me}
               shared == Shared(env.ephemeral, EvenSecret(secret))
               header == header_bytes(q)
               root(s) == UNION {aead_decrypt(hkdf(Salt(s), <<shared>>, Info("kek", <<<<"point", env.ephemeral>>, me>>)), env.nonce,
                                              env.recipients[i].wrapped, header) : i \in index}
               schedule == IF root(2) # {} THEN 2 ELSE 1
               aad == header \o SubSeq(q.prompt, 1, header_len(env))
               key(k) == IF schedule = 1 THEN response_key_v1(k, me) ELSE response_key_v2(shared, k, me)
           IN  UNION {{[prompt |-> p, key |-> key(k[1]), responder |-> me] :
                       p \in aead_decrypt(hkdf(Salt(schedule), <<k[1]>>, Info("prompt", <<>>)), env.nonce, env.ciphertext, aad)} :
                      k \in root(schedule)}
           : env \in ParseEnvelope(q.prompt)}

response_aad(request_hash, responder) == <<request_hash, responder>>
seal_response(opened, nonce, request_hash, answer) ==
    SerializeReply(nonce, aead_encrypt(opened.key, nonce, answer, response_aad(request_hash, opened.responder)))
open_response(secret, request_hash, responder, body) ==
    UNION {aead_decrypt(response_key(secret, responder), env.nonce, env.ciphertext, response_aad(request_hash, responder)) : env \in ParseReply(body)}
===============================================================================

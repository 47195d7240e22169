---------------------------- MODULE MCAlgorithms ----------------------------
(***************************************************************************)
(* The pure algorithms on every input within bounds.  A behaviour is about *)
(* one topic: an audit of a traced response, a format, a claim batch, or   *)
(* the nonces of a worker.                                                 *)
(***************************************************************************)
EXTENDS AuditCases, FormatCases, ClaimCases, NonceRange

\* Inference escrows keep to the first window, and an entry that is not ready is passed over
\* whatever its cap and its pool.
MCEscrows == {e \in [inference : BOOLEAN, window : {1, 2}, cap : {0, 2}, dead : BOOLEAN, ready : BOOLEAN] :
                /\ e.inference => e.window = 1
                /\ ~e.ready => e.cap = 0 /\ ~e.dead}

VARIABLE topic
allVars == <<topic, case, selection, auditVars, nonceVars>>

FormatNext == \/ TryTree \/ TryChunks \/ AskTraceBody \/ AskResidBody \/ AskAttnBody \/ AskRecurBody \/ AskEntry
              \/ AskResponse \/ AskPlain \/ AskPrivate

NoAudit == model = {} /\ response = {} /\ ask = Idle /\ related = {}
NoNonce == pom_nonce = 0 /\ size = Space /\ nonce_fixed = 0 /\ first = 0 /\ last = 0 /\ mined = FALSE

AlgorithmsInit ==
    /\ case = NoCase
    /\ SelectInit
    /\ \/ topic = "audit" /\ AuditInit /\ NoNonce
       \/ topic \in {"formats", "claims"} /\ NoAudit /\ NoNonce
       \/ topic = "nonces" /\ NoAudit /\ NonceInit

AlgorithmsNext ==
    \/ topic = "audit" /\ AuditNext /\ UNCHANGED <<topic, case, selection, nonceVars>>
    \/ topic = "formats" /\ FormatNext /\ UNCHANGED <<topic, selection, auditVars, nonceVars>>
    \/ topic = "claims" /\ SelectNext /\ UNCHANGED <<topic, case, auditVars, nonceVars>>
    \/ topic = "nonces" /\ NonceNext /\ UNCHANGED <<topic, case, selection, auditVars>>

AlgorithmsSpec == AlgorithmsInit /\ [][AlgorithmsNext]_allVars
=============================================================================

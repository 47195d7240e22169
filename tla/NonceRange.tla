----------------------------- MODULE NonceRange -----------------------------
(***************************************************************************)
(* The nonce cursor of a GPU worker and the sub-range a pool assigns:       *)
(* set_extranonce (src/client/stratum.rs), pom_batch_start                  *)
(* (src/pom_gpu.rs) and the batch loop of launch_gpu_miner (src/miner.rs).  *)
(* The mask is always one less than a power of two and the fixed bits a     *)
(* multiple of that power, so the bitwise operations are arithmetic:        *)
(* `size` is nonce_mask + 1, and nonce & mask is nonce % size.              *)
(***************************************************************************)
EXTENDS Integers

CONSTANTS Space,       \* number of nonces, 2^64
          Sizes,       \* the sub-range sizes a pool may assign
          Extranonces, \* the extranonces it may assign
          Batch        \* v4_batch(): nonces of one dispatch

ASSUME SpaceAssumption == Space \in Nat \ {0}
ASSUME SizesAssumption == Sizes \subseteq 1..Space
ASSUME ExtranoncesAssumption == Extranonces \subseteq Nat
ASSUME BatchAssumption == Batch \in Nat \ {0}
\* The sizes and the space are powers of two.
ASSUME DivisionAssumption == \A s \in Sizes : Space % s = 0

VARIABLES pom_nonce,    \* the cursor
          size,         \* nonce_mask + 1
          nonce_fixed,
          first, last,  \* the run mined last
          mined         \* there was one since the range was assigned

nonceVars == <<pom_nonce, size, nonce_fixed, first, last, mined>>

NonceInit ==
    /\ pom_nonce \in 0..(Space - 1)
    /\ size = Space
    /\ nonce_fixed = 0
    /\ first = 0
    /\ last = 0
    /\ mined = FALSE

\* Faulty variants: a run that does not fit goes on; one that just fits starts over.
StartUnchecked(cursor, batch, sz, fixed) ==
    IF sz = Space THEN cursor ELSE (cursor % sz) + fixed

StartEarly(cursor, batch, sz, fixed) ==
    IF sz = Space THEN cursor
    ELSE (IF batch > sz \/ cursor % sz >= sz - batch THEN 0 ELSE cursor % sz) + fixed

\* The whole space keeps the cursor; in a sub-range a cursor whose run does not fit starts over.
PomBatchStart(cursor, batch, sz, fixed) ==
    IF sz = Space THEN cursor
    ELSE (IF batch > sz \/ cursor % sz > sz - batch THEN 0 ELSE cursor % sz) + fixed

SetExtranonce(sz, extranonce) ==
    /\ size' = sz
    /\ nonce_fixed' = (extranonce * sz) % Space
    /\ mined' = FALSE
    /\ UNCHANGED <<pom_nonce, first, last>>

\* One batch; the run wraps only in the whole space.
MineBatch ==
    LET start == PomBatchStart(pom_nonce, Batch, size, nonce_fixed)
    IN  /\ first' = start
        /\ last' = (start + Batch - 1) % Space
        /\ pom_nonce' = (start + Batch) % Space
        /\ mined' = TRUE
        /\ UNCHANGED <<size, nonce_fixed>>

NonceNext == MineBatch \/ \E sz \in Sizes, e \in Extranonces : SetExtranonce(sz, e)
NonceSpec == NonceInit /\ [][NonceNext]_nonceVars
-----------------------------------------------------------------------------
NonceTypeOK ==
    /\ pom_nonce \in 0..(Space - 1)
    /\ size \in 1..Space
    /\ nonce_fixed \in 0..(Space - 1)
    /\ nonce_fixed + size <= Space
    /\ first \in Int /\ last \in Int
    /\ mined \in BOOLEAN

\* "the whole run has to lie inside the sub-range": every nonce of a run is in the range assigned,
\* however the cursor came from another range, wherever it stands and though it wraps.
RunInRange ==
    mined /\ size # Space /\ Batch <= size =>
        nonce_fixed <= first /\ first <= last /\ last < nonce_fixed + size

\* A run follows the previous one in the same range, or starts over when fewer nonces than a batch
\* are left: no nonce is tried twice in one pass over the range and none is passed by early.
RunsTile ==
    [][mined /\ mined' /\ size # Space /\ Batch <= size =>
         first' = last + 1 \/ (first' = nonce_fixed /\ last + Batch >= nonce_fixed + size)]_nonceVars
=============================================================================

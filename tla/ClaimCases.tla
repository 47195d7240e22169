----------------------------- MODULE ClaimCases -----------------------------
(* select_claim_batch of src/escrow.rs, given any queue of escrow entries. *)
EXTENDS ClaimBatch

CONSTANTS Escrows,    \* the entries a queue may hold
          Windows,    \* the CSV windows a coinbase may be minted with, one of them current
          MaxQueue    \* bound on the escrow queue

ASSUME EscrowsAssumption ==
    Escrows \subseteq [inference : BOOLEAN, window : Nat \ {AnyWindow}, cap : Nat, dead : BOOLEAN, ready : BOOLEAN]
ASSUME WindowsAssumption == Windows \subseteq Nat \ {AnyWindow}
ASSUME MaxQueueAssumption == MaxQueue \in Nat

VARIABLE selection    \* a queue, the current window and the batch selected from them

NoSelection == [entries |-> <<>>, now |-> AnyWindow, batch |-> <<>>]

SelectInit == selection = NoSelection

\* Every queue is given to select_claim_batch once.
SelectNext ==
    /\ selection = NoSelection
    /\ \E n \in 0..MaxQueue, now \in Windows : \E q \in [1..n -> Escrows] :
          selection' = [entries |-> q, now |-> now, batch |-> SelectClaimBatch(q, now)]

SelectSpec == SelectInit /\ [][SelectNext]_selection
-----------------------------------------------------------------------------
\* A batch select_claim_batch returns can be signed and accepted as one transaction: it keeps to
\* the caps of its members, draws from one pool and spends no entry twice or too early.
BatchesSpendable == OneTransaction(selection.entries, selection.batch)

\* No escrow waits that could be claimed, and those that go first do: full batches before repair,
\* inference rewards before block rewards.
NothingWaits ==
    /\ NothingStarved(selection.entries, selection.now, selection.batch)
    /\ FullBatchesFirst(selection.entries, selection.now, selection.batch)
    /\ InferenceFirst(selection.entries, selection.batch)
=============================================================================

--------------------------- MODULE ProviderLineage --------------------------
(***************************************************************************)
(* What the record rules promise of one Provider Record: the accepted head *)
(* as it evolves when one holder applies                                   *)
(* RecordValidator.validate_provider_overwrite to every envelope offered   *)
(* to it.  For a tombstone the holder also keeps the active predecessor    *)
(* that the result names (predecessor_envelope_cbor), without which the    *)
(* tombstone cannot be shown to a reader.                                  *)
(***************************************************************************)
EXTENDS RecordValidator

CONSTANT ObjectHash   \* the record key, an object hash

ASSUME ObjectHashAssumption == ObjectHash \in RecordKey

VARIABLES
  held,        \* the accepted envelope, None before the first
  predecessor  \* the active envelope a tombstone withdraws, None otherwise

providerVars == <<held, predecessor>>

ProviderInit == held = None /\ predecessor = None

ProviderWrite(e) ==
  /\ ProviderOverwrite(ObjectHash, e, held)
  /\ held' = e
  /\ predecessor' = IF e.payload = "withdrawn" THEN held ELSE None

ProviderNext == \E e \in Envelope : ProviderWrite(e)

ProviderSpec == ProviderInit /\ [][ProviderNext]_providerVars

-----------------------------------------------------------------------------

Tombstone(x) == x # None /\ x.payload = "withdrawn"

(* A tombstone withdraws an active record of the same form, owner and key, *)
(* with a lower seq; the record it withdraws is at hand.                   *)
WithdrawsActive ==
  Tombstone(held) =>
    /\ predecessor # None
    /\ predecessor.payload = "active"
    /\ predecessor.form = held.form
    /\ predecessor.owner = held.owner
    /\ predecessor.key = held.key
    /\ predecessor.seq < held.seq

(* Whatever was accepted can be read back, given the predecessor of a      *)
(* tombstone, except possibly after a signer replacement (see              *)
(* EveryHeadReadable).                                                     *)
HeadReadable ==
  held # None /\ held.op # "replace" => ProviderGet(ObjectHash, held, predecessor)

(* docs/multisignature-records.md, section 3: replace-signers needs        *)
(* "Threshold proofs from the current Signer Set", and the state it        *)
(* installs is an accepted state like any other, so it can be read.        *)
EveryHeadReadable ==
  held # None => ProviderGet(ObjectHash, held, predecessor)

(* After a multisignature state the record never becomes legacy again, its *)
(* epoch never goes back, and it keeps its signers within an epoch.        *)
NoDowngrade ==
  [][ held # None /\ IsMultisig(held) =>
        /\ IsMultisig(held')
        /\ held'.epoch >= held.epoch
        /\ held'.epoch = held.epoch =>
             held'.signers = held.signers /\ held'.threshold = held.threshold
    ]_providerVars

(* A multisignature state changes only with the approval of two of the     *)
(* signers it names.                                                       *)
ApprovedByCurrentSigners ==
  [][ held # None /\ IsMultisig(held) =>
        Cardinality({p.by : p \in held'.proofs} \cap held.signers) >= 2 ]_providerVars

(* The code reactivates a withdrawn multisignature record through          *)
(* replace-signers only, that is together with a new epoch.                *)
ReactivationOpensEpoch ==
  [][ Tombstone(held) /\ IsMultisig(held) /\ ~Tombstone(held') =>
        held'.epoch > held.epoch ]_providerVars

=============================================================================

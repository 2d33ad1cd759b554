---------------------------- MODULE Verification ----------------------------
(***************************************************************************)
(* The record rules of decent_registry: what a signed envelope is, when a  *)
(* multisignature envelope is a genuine successor of another, and when a   *)
(* sequence of Identity envelopes is a complete history.                   *)
(*                                                                         *)
(* Everything here is a constant-level predicate: the Python functions     *)
(* raise ValueError where the predicate is FALSE and return a validated    *)
(* state where it is TRUE.  The state that a function returns is a copy of *)
(* fields of the candidate envelope (_candidate_state), so a validated     *)
(* state is represented by its envelope, and by its history beside it.     *)
(*                                                                         *)
(* Bytes are abstracted to what the rules compare.  A record key stands    *)
(* for sha256 of an owner name (Identity) or for an object hash            *)
(* (Provider); e.update stands for sha256 of the canonical SignedUpdate    *)
(* bytes, taken to be collision free; a signer (id, public key) is its     *)
(* public key.  A proof [id, by] carries the signer id it claims (None in  *)
(* a legacy signature and in a legacy owner rotation) and the key under    *)
(* which its signature really verifies.                                    *)
(***************************************************************************)
EXTENDS Naturals, FiniteSets, Sequences

CONSTANTS
  RecordKey,   \* record keys
  PublicKey,   \* Ed25519 public keys of owners and signers
  Envelope,    \* every envelope that exists in the model
  Zero,        \* the 32 zero bytes, predecessor hash of a genesis
  None         \* Python's None

Operation == {"legacy", "genesis", "upgrade", "update", "replace", "rotate"}

Proof == [id : PublicKey \cup {None}, by : PublicKey]

(* What the decoders guarantee of an envelope before any rule looks at it: *)
(* the field types, a threshold between 1 and the size of the signer set,  *)
(* at most one proof per claimed signer id, and a payload of the record's  *)
(* kind.  A legacy envelope has no authorization map and one signature.    *)
Decoded(e) ==
  /\ e.form \in {"legacy", "multisig"}
  /\ e.kind \in {"identity", "provider"}
  /\ e.key \in RecordKey
  /\ e.owner \in PublicKey
  /\ e.seq \in Nat
  /\ e.op \in Operation
  /\ e.epoch \in Nat
  /\ e.threshold \in Nat
  /\ e.signers \in SUBSET PublicKey
  /\ e.proofs \in SUBSET Proof
  /\ e.payload \in (IF e.kind = "identity" THEN {"empty"}
                                           ELSE {"active", "withdrawn"})
  /\ e.form = "legacy" <=> e.op = "legacy"
  /\ e.form = "legacy" => \E k \in PublicKey : e.proofs = {[id |-> None, by |-> k]}
  /\ e.form = "multisig" =>
       /\ e.threshold \in 1..Cardinality(e.signers)
       /\ \A p, q \in e.proofs : p.id = q.id => p = q

ASSUME EnvelopeAssumption ==
  /\ IsFiniteSet(PublicKey)
  /\ None \notin Envelope
  /\ None \notin PublicKey
  /\ \A e \in Envelope : Decoded(e)

IsMultisig(e) == e.form = "multisig"

-----------------------------------------------------------------------------
(* Proofs.                                                                 *)

\* _decode_legacy_state: decodes, derives the record key, verifies the
\* owner's signature.
LegacyState(k, e) ==
  /\ e.form = "legacy"
  /\ e.key = k
  /\ e.proofs = {[id |-> None, by |-> e.owner]}

\* _require_complete_2_of_3
CompleteTwoOfThree(e) == e.threshold = 2 /\ Cardinality(e.signers) = 3

\* Mutant of ThresholdProofs: one proof too few is enough.
OneProofShort(e, state) ==
  /\ Cardinality(e.proofs) >= state.threshold - 1
  /\ \A p \in e.proofs : p.id \in state.signers /\ p.by = p.id

\* _validate_threshold_proofs: enough proofs, and every one of them names a
\* member of the state's signer set and verifies under that member's key.
ThresholdProofs(e, state) ==
  /\ Cardinality(e.proofs) >= state.threshold
  /\ \A p \in e.proofs : p.id \in state.signers /\ p.by = p.id

\* The single proof of the legacy owner that authorises an upgrade.
OwnerProof(e) ==
  /\ e.owner \in e.signers
  /\ e.proofs = {[id |-> e.owner, by |-> e.owner]}

-----------------------------------------------------------------------------
(* Anchors and transitions.                                                *)

\* validate_multisignature_genesis
Genesis(k, e) ==
  /\ e.op = "genesis"
  /\ e.epoch = 1
  /\ e.pred = Zero
  /\ e.key = k
  /\ CompleteTwoOfThree(e)
  /\ ThresholdProofs(e, e)

\* _validate_common_transition
CommonTransition(k, e, current) ==
  /\ e.key = k /\ current.key = k
  /\ e.kind = current.kind
  /\ e.owner = current.owner
  /\ e.seq > current.seq
  /\ e.pred = current.update
  /\ ~(current.payload = "withdrawn" /\ e.payload = "withdrawn")

\* Mutant of OrdinaryUpdate: it may reactivate a withdrawn record.
ReactivatingUpdate(k, e, current) ==
  /\ e.op = "update"
  /\ CommonTransition(k, e, current)
  /\ e.epoch = current.epoch
  /\ e.threshold = current.threshold
  /\ e.signers = current.signers
  /\ ThresholdProofs(e, current)

\* validate_multisignature_ordinary_update
OrdinaryUpdate(k, e, current) ==
  /\ e.op = "update"
  /\ CommonTransition(k, e, current)
  /\ current.payload # "withdrawn"
  /\ e.epoch = current.epoch
  /\ e.threshold = current.threshold
  /\ e.signers = current.signers
  /\ ThresholdProofs(e, current)

\* Mutants of SignerReplacement: the epoch may stay; the new signers
\* authorise their own installation.
SameEpochReplacement(k, e, current) ==
  /\ e.op = "replace"
  /\ CommonTransition(k, e, current)
  /\ e.epoch >= current.epoch
  /\ CompleteTwoOfThree(e)
  /\ e.signers # current.signers
  /\ ThresholdProofs(e, current)

SelfInstalledSigners(k, e, current) ==
  /\ e.op = "replace"
  /\ CommonTransition(k, e, current)
  /\ e.epoch > current.epoch
  /\ CompleteTwoOfThree(e)
  /\ e.signers # current.signers
  /\ ThresholdProofs(e, e)

\* validate_multisignature_signer_replacement: authorised by the CURRENT set.
SignerReplacement(k, e, current) ==
  /\ e.op = "replace"
  /\ CommonTransition(k, e, current)
  /\ e.epoch > current.epoch
  /\ CompleteTwoOfThree(e)
  /\ e.signers # current.signers
  /\ ThresholdProofs(e, current)

\* validate_multisignature_upgrade
Upgrade(k, e, legacy) ==
  /\ e.op = "upgrade"
  /\ LegacyState(k, legacy)
  /\ e.key = k
  /\ e.kind = legacy.kind
  /\ e.seq > legacy.seq
  /\ e.epoch = 1
  /\ e.pred = legacy.update
  /\ CompleteTwoOfThree(e)
  /\ e.owner = legacy.owner
  /\ OwnerProof(e)

\* _validate_owner_rotation_invariants
RotationInvariants(k, e, previous) ==
  /\ e.op = "rotate"
  /\ e.kind = "identity"
  /\ e.owner # previous.owner
  /\ e.key = k /\ previous.key = k
  /\ e.seq = previous.seq + 1
  /\ e.pred = previous.update

\* _validate_owner_rotation_from_legacy
RotationFromLegacy(k, e, legacy) ==
  /\ LegacyState(k, legacy)
  /\ legacy.kind = "identity"
  /\ RotationInvariants(k, e, legacy)
  /\ e.epoch = 1
  /\ CompleteTwoOfThree(e)
  /\ e.owner \in e.signers
  /\ e.proofs = {[id |-> None, by |-> legacy.owner]}

\* Mutant of RotationFromState: the anchor is not looked at.
RotationFromAnyAnchor(k, e, current, anchor) ==
  /\ current.kind = "identity"
  /\ RotationInvariants(k, e, current)
  /\ e.epoch = current.epoch
  /\ e.threshold = current.threshold
  /\ e.signers = current.signers
  /\ ThresholdProofs(e, current)

\* _validate_owner_rotation_from_state without the replay of the history
RotationFromState(k, e, current, anchor) ==
  /\ current.kind = "identity"
  /\ ~IsMultisig(anchor)
  /\ RotationInvariants(k, e, current)
  /\ e.epoch = current.epoch
  /\ e.threshold = current.threshold
  /\ e.signers = current.signers
  /\ ThresholdProofs(e, current)

-----------------------------------------------------------------------------
(* Histories.                                                              *)

\* First entry of a history: a signed legacy Identity, or a genesis.
Anchor(k, e) ==
  /\ e.kind = "identity"
  /\ IF IsMultisig(e) THEN Genesis(k, e) ELSE LegacyState(k, e)

\* Mutant of HistoryStep: the replay does not know replace-signers.
StepWithoutReplacement(k, anchor, d, e) ==
  IF IsMultisig(d)
  THEN RotationFromState(k, e, d, anchor) \/ OrdinaryUpdate(k, e, d)
  ELSE Upgrade(k, e, d) \/ RotationFromLegacy(k, e, d)

\* One turn of the replay loop, from entry d to entry e.
HistoryStep(k, anchor, d, e) ==
  IF IsMultisig(d)
  THEN \/ RotationFromState(k, e, d, anchor)
       \/ OrdinaryUpdate(k, e, d)
       \/ SignerReplacement(k, e, d)
  ELSE \/ Upgrade(k, e, d)
       \/ RotationFromLegacy(k, e, d)

\* validate_multisignature_history
History(k, h) ==
  /\ h # <<>>
  /\ Anchor(k, h[1])
  /\ \A i \in 2..Len(h) : HistoryStep(k, h[1], h[i - 1], h[i])
  /\ IsMultisig(h[Len(h)])

\* Mutant of SelfContained: a Provider update never stands alone.
AnchorsOnly(k, e) ==
  /\ e.key = k
  /\ \/ Genesis(k, e)
     \/ /\ e.op = "upgrade"
        /\ e.kind = "provider"
        /\ e.epoch = 1
        /\ CompleteTwoOfThree(e)
        /\ OwnerProof(e)

\* validate_multisignature_envelope: what can be said of an envelope with no
\* predecessor at hand.  A Provider successor is checked against the signer
\* set it names itself; an Identity must be a genesis.
SelfContained(k, e) ==
  /\ e.key = k
  /\ \/ Genesis(k, e)
     \/ /\ e.op = "upgrade"
        /\ e.kind = "provider"
        /\ e.epoch = 1
        /\ CompleteTwoOfThree(e)
        /\ OwnerProof(e)
     \/ /\ e.op \in {"update", "replace"}
        /\ e.kind = "provider"
        /\ ThresholdProofs(e, e)

=============================================================================

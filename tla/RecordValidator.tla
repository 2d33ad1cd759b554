--------------------------- MODULE RecordValidator --------------------------
(***************************************************************************)
(* RecordValidator: whether an envelope may overwrite the one a node holds *)
(* (validate_*_overwrite), the history the accepted state then carries,    *)
(* and whether an envelope that was read may be given to the caller        *)
(* (validate_*_get).                                                       *)
(*                                                                         *)
(* In every operator e is the candidate, x the envelope held for the same  *)
(* key (None if there is none) and chain the predecessor history the       *)
(* caller supplies.  The empty sequence stands for no history, Python's    *)
(* None: no caller passes an empty tuple.                                  *)
(***************************************************************************)
EXTENDS Verification

\* _require_history_ending_at
EndsAt(chain, e) == chain # <<>> /\ chain[Len(chain)] = e

\* How _validate_multisignature_transition rebuilds the current state of a
\* multisignature x: from the whole chain, or from x alone.
CurrentState(k, e, x, chain) ==
  IF chain # <<>>
  THEN EndsAt(chain, x) /\ History(k, chain)
  ELSE /\ e.op # "rotate"
       /\ SelfContained(k, x)
       /\ e.kind = "identity" => x.kind = "identity"

\* validate_multisignature_update, dispatched on the candidate's operation.
\* The anchor of the chain is what owner rotation looks at.
MultisigUpdate(k, e, x, chain) ==
  IF x = None THEN Genesis(k, e)
  ELSE IF IsMultisig(x)
  THEN \/ OrdinaryUpdate(k, e, x)
       \/ SignerReplacement(k, e, x)
       \/ chain # <<>> /\ RotationFromState(k, e, x, chain[1])
  ELSE Upgrade(k, e, x) \/ RotationFromLegacy(k, e, x)

\* _validate_multisignature_transition.  A withdrawal is accepted only over
\* an active multisignature state: over a legacy record it fails whatever
\* its operation, because no current multisignature state exists.
Transition(k, e, x, chain) ==
  /\ IsMultisig(e)
  /\ MultisigUpdate(k, e, x, chain)
  /\ x # None /\ IsMultisig(x) => CurrentState(k, e, x, chain)
  /\ e.payload = "withdrawn" => x # None /\ IsMultisig(x) /\ x.payload = "active"

\* validate_signed_update_overwrite: owner signature, then
\* _enforce_seq_and_owner_binding against the legacy record held before.
LegacyUpdate(k, e, x) ==
  /\ LegacyState(k, e)
  /\ x # None => e.seq > x.seq /\ e.owner = x.owner

\* validate_identity_overwrite
IdentityOverwrite(k, e, x, chain) ==
  /\ e.kind = "identity"
  /\ \/ Transition(k, e, x, chain)
     \/ /\ ~IsMultisig(e)
        /\ x # None => ~IsMultisig(x)
        /\ LegacyUpdate(k, e, x)

\* Mutants of ProviderOverwrite: a legacy write may follow a multisignature
\* state; a legacy tombstone may follow any record.
ProviderLegacyAfterMultisig(k, e, x) ==
  /\ e.kind = "provider"
  /\ \/ Transition(k, e, x, <<>>)
     \/ /\ LegacyUpdate(k, e, x)
        /\ e.payload = "withdrawn" => x # None

WithdrawAnything(k, e, x) ==
  /\ e.kind = "provider"
  /\ \/ Transition(k, e, x, <<>>)
     \/ /\ ~IsMultisig(e)
        /\ x # None => ~IsMultisig(x)
        /\ LegacyUpdate(k, e, x)

\* validate_provider_overwrite
ProviderOverwrite(k, e, x) ==
  /\ e.kind = "provider"
  /\ \/ Transition(k, e, x, <<>>)
     \/ /\ ~IsMultisig(e)
        /\ x # None => ~IsMultisig(x)
        /\ LegacyUpdate(k, e, x)
        /\ e.payload = "withdrawn" =>
             x # None /\ LegacyState(k, x) /\ x.payload = "active"

\* Mutants of AcceptedHistory: only the last predecessor is kept; a genesis
\* is taken for a successor.
LastPairOnly(e, x, chain) ==
  IF ~IsMultisig(e) THEN <<>>
  ELSE IF x = None THEN <<e>> ELSE <<x, e>>

GenesisAsSuccessor(e, x, chain) ==
  IF ~IsMultisig(e) THEN <<>>
  ELSE IF chain # <<>> THEN Append(chain, e) ELSE <<x, e>>

\* The history of the state an accepted Identity envelope yields
\* (_candidate_state, _append_history): a genesis starts one, an upgrade or
\* a rotation of a legacy record starts one at that record, a successor
\* extends the history of the state it was checked against.  A legacy
\* envelope carries none.
AcceptedHistory(e, x, chain) ==
  IF ~IsMultisig(e) THEN <<>>
  ELSE IF x = None THEN <<e>>
  ELSE IF IsMultisig(x) /\ chain # <<>> THEN Append(chain, e)
  ELSE <<x, e>>

\* validate_identity_get
IdentityGet(k, e, chain) ==
  /\ e.kind = "identity"
  /\ IF IsMultisig(e)
     THEN IF chain = <<>> THEN Genesis(k, e)
                          ELSE EndsAt(chain, e) /\ History(k, chain)
     ELSE LegacyState(k, e)

\* validate_provider_get and _validate_legacy_provider_withdrawal: a
\* tombstone is only shown with the active predecessor it withdraws.
ProviderGet(k, e, x) ==
  /\ e.kind = "provider"
  /\ IF e.payload = "active"
     THEN IF IsMultisig(e) THEN SelfContained(k, e) ELSE LegacyState(k, e)
     ELSE /\ x # None
          /\ IF IsMultisig(e)
             THEN Transition(k, e, x, <<>>)
             ELSE /\ LegacyState(k, e) /\ LegacyState(k, x)
                  /\ x.payload = "active"
                  /\ e.seq > x.seq /\ e.owner = x.owner

=============================================================================

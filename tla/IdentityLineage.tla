--------------------------- MODULE IdentityLineage --------------------------
(***************************************************************************)
(* What the record rules promise of one Identity Record: the accepted head *)
(* and its history as they evolve when one holder applies                  *)
(* RecordValidator.validate_identity_overwrite to every envelope offered   *)
(* to it, one at a time.  A holder keeps no history for a legacy head      *)
(* (chain = <<>>) and may validate a successor with or without the         *)
(* history it keeps.                                                       *)
(***************************************************************************)
EXTENDS RecordValidator

CONSTANT K   \* the record key

ASSUME KeyAssumption == K \in RecordKey

VARIABLES
  head,   \* the accepted envelope, None before the first
  chain   \* its accepted history, <<>> for a legacy head

vars == <<head, chain>>

Init == head = None /\ chain = <<>>

Overwrite(e, c) ==
  /\ IdentityOverwrite(K, e, head, c)
  /\ head' = e
  /\ chain' = AcceptedHistory(e, head, c)

Next == \E e \in Envelope, c \in {<<>>, chain} : Overwrite(e, c)

Spec == Init /\ [][Next]_vars

-----------------------------------------------------------------------------

TypeOK ==
  /\ head \in Envelope \cup {None}
  /\ chain \in Seq(Envelope)

(* The history kept beside a multisignature head is complete: it ends at   *)
(* the head and replays from its anchor.  This is what every later         *)
(* validation, every restart and every remote reader relies on.            *)
HistoryReplays ==
  /\ head = None \/ ~IsMultisig(head) => chain = <<>>
  /\ head # None /\ IsMultisig(head) =>
       EndsAt(chain, head) /\ History(K, chain)

(* Epochs never go back along a history and within one epoch the signer    *)
(* set, and its threshold, stay the same: only replace-signers installs    *)
(* signers, and it opens a new epoch.                                      *)
EpochFixesSigners ==
  \A i, j \in 1..Len(chain) :
    (i < j /\ IsMultisig(chain[i])) =>
      /\ chain[i].epoch <= chain[j].epoch
      /\ chain[i].epoch = chain[j].epoch =>
           /\ chain[i].signers = chain[j].signers
           /\ chain[i].threshold = chain[j].threshold

(* The owner of an identity born multisignature never changes: owner       *)
(* rotation needs a signed legacy anchor, however many transitions ago.    *)
GenesisOwnerPermanent ==
  chain # <<>> /\ IsMultisig(chain[1]) =>
    \A i \in 1..Len(chain) : chain[i].owner = chain[1].owner

(* Each entry was approved by those who controlled the entry before it:    *)
(* two of its signers or, over a legacy record, its owner.                 *)
ApprovedByPredecessor ==
  \A i \in 2..Len(chain) :
    LET before == chain[i - 1]
        approvers == {p.by : p \in chain[i].proofs}
    IN  IF IsMultisig(before)
        THEN Cardinality(approvers \cap before.signers) >= 2
        ELSE before.owner \in approvers

(* A holder that validates one step against the head it keeps and a reader *)
(* that replays the whole history it fetched accept the same successors.   *)
StepAgreesWithReplay ==
  head # None =>
    \A e \in Envelope :
      IsMultisig(e) =>
        ( IdentityOverwrite(K, e, head, chain) <=>
          IF IsMultisig(head)
          THEN History(K, Append(chain, e))
          ELSE History(K, <<head, e>>) )

(* An accepted history is never rewritten or shortened, and after a        *)
(* multisignature state the record never becomes legacy again.             *)
HistoryOnlyGrows ==
  [][ /\ Len(chain') >= Len(chain)
      /\ \A i \in 1..Len(chain) : chain'[i] = chain[i] ]_vars

=============================================================================

---------------------------- MODULE LineageProofs ---------------------------
(***************************************************************************)
(* Proofs about IdentityLineage and ProviderLineage, for every set of      *)
(* envelopes.                                                              *)
(*                                                                         *)
(* Identity.  The inductive invariant is IInv: types, the kind of the      *)
(* head, and HistoryReplays.  HistoryReplays alone is not inductive: the   *)
(* history of an upgrade is complete only because the legacy head below it *)
(* is an Identity, which the kind conjunct records.  The other invariants  *)
(* follow step by step once IInv is known.                                 *)
(*                                                                         *)
(* Provider.  There is no history: what can be said of a head has to be in *)
(* the head itself.  ProviderInv says that it is a record of this key,     *)
(* that a multisignature one asks for two proofs and stands on its own     *)
(* unless it replaced the signers, and that a tombstone is a valid step    *)
(* from the active record kept with it.                                    *)
(***************************************************************************)
EXTENDS IdentityLineage, ProviderLineage, RecordLemmas

HeadKind == head # None => head.kind = "identity"

IInv == TypeOK /\ HeadKind /\ HistoryReplays

-----------------------------------------------------------------------------

(* The empty holder satisfies IInv.                                        *)
LEMMA InitIInv == Init => IInv
BY EnvelopeAssumption DEF Init, IInv, TypeOK, HeadKind, HistoryReplays

(* One accepted envelope preserves IInv.                                   *)
LEMMA OverwriteIInv ==
  ASSUME IInv, NEW e \in Envelope, NEW c \in {<<>>, chain}, Overwrite(e, c)
  PROVE  IInv'
<1> USE DEF IInv
<1>1. /\ IdentityOverwrite(K, e, head, c)
      /\ head' = e /\ chain' = AcceptedHistory(e, head, c)
  BY DEF Overwrite
<1>2. e # None /\ e.kind = "identity"
  BY <1>1, EnvelopeAssumption DEF IdentityOverwrite
<1>3. chain \in Seq(Envelope) /\ head \in Envelope \cup {None}
  BY DEF TypeOK
<1>4. c \in Seq(Envelope)
  <2>1. <<>> \in Seq(Envelope)
    OBVIOUS
  <2> QED
    BY <1>3, <2>1
<1>5. /\ chain' \in Seq(Envelope)
      /\ IF IsMultisig(e) THEN EndsAt(chain', e) /\ History(K, chain')
                          ELSE chain' = <<>>
  BY <1>1, <1>3, <1>4, AcceptedIsShown
<1> QED
  BY <1>1, <1>2, <1>5 DEF TypeOK, HeadKind, HistoryReplays

(* IInv holds in every reachable state.                                    *)
THEOREM Inductive == Spec => []IInv
<1>1. IInv /\ [Next]_vars => IInv'
  <2>1. IInv /\ Next => IInv'
    BY OverwriteIInv DEF Next
  <2>2. IInv /\ UNCHANGED vars => IInv'
    BY DEF IInv, TypeOK, HeadKind, HistoryReplays, vars
  <2> QED
    BY <2>1, <2>2
<1> QED
  BY InitIInv, <1>1, PTL DEF Spec

(* The head and its history are always of their types.                     *)
THEOREM TypeCorrect == Spec => []TypeOK
<1>1. IInv => TypeOK
  BY DEF IInv
<1> QED
  BY <1>1, Inductive, PTL

(* The history kept beside a multisignature head is always complete: it    *)
(* ends at the head and replays from its anchor.                           *)
THEOREM HistoryAlwaysReplays == Spec => []HistoryReplays
<1>1. IInv => HistoryReplays
  BY DEF IInv
<1> QED
  BY <1>1, Inductive, PTL

-----------------------------------------------------------------------------

(* The three ways in which an accepted envelope changes the history: it    *)
(* stays empty under legacy heads, a multisignature head starts one, and   *)
(* from then on each envelope is appended.                                 *)
Started(e) == chain = <<>> /\ chain' = <<e>> /\ IsMultisig(e)

StartedOverLegacy(e) ==
  /\ chain = <<>> /\ head \in Envelope /\ ~IsMultisig(head)
  /\ chain' = <<head, e>> /\ IsMultisig(e) /\ HistoryStep(K, head, head, e)

Extended(e) ==
  /\ chain # <<>> /\ IsMultisig(chain[Len(chain)])
  /\ chain' = Append(chain, e) /\ IsMultisig(e)
  /\ HistoryStep(K, chain[1], chain[Len(chain)], e)

(* Every accepted envelope changes the history in one of these ways.       *)
LEMMA ChainStep ==
  ASSUME IInv, NEW e \in Envelope, NEW c \in {<<>>, chain}, Overwrite(e, c)
  PROVE  \/ chain = <<>> /\ chain' = <<>>
         \/ Started(e) \/ StartedOverLegacy(e) \/ Extended(e)
<1> USE DEF IInv
<1>1. /\ IdentityOverwrite(K, e, head, c)
      /\ head' = e /\ chain' = AcceptedHistory(e, head, c)
  BY DEF Overwrite
<1>2. chain \in Seq(Envelope) /\ head \in Envelope \cup {None}
  BY DEF TypeOK
<1>3. c \in Seq(Envelope)
  <2>1. <<>> \in Seq(Envelope)
    OBVIOUS
  <2> QED
    BY <1>2, <2>1
<1>4. CASE ~IsMultisig(e)
  <2>1. chain' = <<>>
    BY <1>1, <1>4 DEF AcceptedHistory
  <2>2. head # None => ~IsMultisig(head)
    BY <1>1, <1>4 DEF IdentityOverwrite, Transition
  <2> QED
    BY <2>1, <2>2 DEF HistoryReplays
<1>5. CASE IsMultisig(e) /\ head = None
  BY <1>1, <1>5 DEF AcceptedHistory, HistoryReplays, Started
<1>6. CASE IsMultisig(e) /\ head # None /\ ~IsMultisig(head)
  <2>1. head \in Envelope /\ head.kind = "identity"
    BY <1>2, <1>6 DEF HeadKind
  <2>2. HistoryStep(K, head, head, e)
    BY <1>1, <1>3, <1>6, <2>1, AcceptedOverLegacy
  <2> QED
    BY <1>1, <1>6, <2>1, <2>2 DEF AcceptedHistory, HistoryReplays, StartedOverLegacy
<1>7. CASE IsMultisig(e) /\ head # None /\ IsMultisig(head)
  <2>1. head \in Envelope
    BY <1>2, <1>7
  <2>2. EndsAt(chain, head) /\ History(K, chain)
    BY <1>7 DEF HistoryReplays
  <2>3. chain # <<>> /\ chain[Len(chain)] = head
    BY <2>2 DEF EndsAt
  <2>4. CASE c = chain
    <3>1. HistoryStep(K, chain[1], head, e)
      BY <1>1, <1>3, <1>7, <2>1, <2>3, <2>4, AcceptedStep
    <3>2. chain' = Append(chain, e)
      BY <1>1, <1>7, <2>3, <2>4 DEF AcceptedHistory
    <3> QED
      BY <1>7, <2>3, <3>1, <3>2 DEF Extended
  <2>5. CASE c = <<>>
    <3>1. Genesis(K, head) /\ HistoryStep(K, head, head, e)
      BY <1>1, <1>3, <1>7, <2>1, <2>5, AcceptedStep
    <3>2. Len(chain) = 1
      BY <1>2, <2>2, <2>3, <3>1, GenesisIsFirst DEF Genesis
    <3>3. chain[1] = head
      BY <2>3, <3>2
    <3>4. chain' = <<head, e>>
      BY <1>1, <1>7, <2>5 DEF AcceptedHistory
    <3>5. Append(chain, e) = <<head, e>>
      BY <1>2, <3>2, <3>3, AppendToOne
    <3> QED
      BY <1>7, <2>3, <3>1, <3>3, <3>4, <3>5 DEF Extended
  <2> QED
    BY <2>4, <2>5
<1> QED
  BY <1>4, <1>5, <1>6, <1>7

-----------------------------------------------------------------------------

(* Each of them keeps the signers of an epoch.                             *)
LEMMA EpochStep ==
  ASSUME IInv, EpochFixesSigners,
         NEW e \in Envelope, NEW c \in {<<>>, chain}, Overwrite(e, c)
  PROVE  EpochFixesSigners'
<1> USE DEF EpochFixesSigners
<1>1. CASE chain' = <<>>
  BY <1>1
<1>2. CASE Started(e)
  BY <1>2 DEF Started
<1>3. CASE StartedOverLegacy(e)
  <2>1. Len(chain') = 2 /\ chain'[1] = head /\ chain'[2] = e /\ ~IsMultisig(head)
    BY <1>3 DEF StartedOverLegacy
  <2>2. \A i, j \in 1..2 : i < j => i = 1
    OBVIOUS
  <2> QED
    BY <2>1, <2>2
<1>4. CASE Extended(e)
  <2> DEFINE n == Len(chain)
             last == chain[n]
  <2>1. chain \in Seq(Envelope)
    BY DEF IInv, TypeOK
  <2>2. /\ n \in Nat /\ n >= 1 /\ Len(chain') = n + 1 /\ chain'[n + 1] = e
        /\ \A i \in 1..n : chain'[i] = chain[i]
    BY <1>4, <2>1, AppendProperties DEF Extended
  <2>3. last \in Envelope /\ IsMultisig(last) /\ n \in 1..n
    BY <1>4, <2>1, <2>2 DEF Extended
  <2>4. /\ e.epoch >= last.epoch
        /\ e.epoch = last.epoch =>
             e.signers = last.signers /\ e.threshold = last.threshold
    BY <1>4, <2>3, StepFields DEF Extended
  <2>5. e.epoch \in Nat /\ last.epoch \in Nat
    BY <2>3, EnvelopeAssumption DEF Decoded
  <2> SUFFICES ASSUME NEW i \in 1..Len(chain'), NEW j \in 1..Len(chain'),
                      i < j, IsMultisig(chain'[i])
               PROVE  /\ chain'[i].epoch <= chain'[j].epoch
                      /\ chain'[i].epoch = chain'[j].epoch =>
                           /\ chain'[i].signers = chain'[j].signers
                           /\ chain'[i].threshold = chain'[j].threshold
    OBVIOUS
  <2>6. i \in 1..n /\ chain'[i] = chain[i] /\ chain[i] \in Envelope
    BY <2>1, <2>2
  <2>7. chain[i].epoch \in Nat
    BY <2>6, EnvelopeAssumption DEF Decoded
  <2>8. CASE j \in 1..n
    BY <2>2, <2>6, <2>8
  <2>9. CASE j = n + 1 /\ i = n
    BY <2>2, <2>4, <2>5, <2>6, <2>9
  <2>10. CASE j = n + 1 /\ i < n
    <3>1. /\ chain[i].epoch <= last.epoch
          /\ chain[i].epoch = last.epoch =>
               chain[i].signers = last.signers /\ chain[i].threshold = last.threshold
      BY <2>3, <2>6, <2>10
    <3> QED
      BY <2>2, <2>4, <2>5, <2>6, <2>7, <2>10, <3>1
  <2> QED
    BY <2>2, <2>6, <2>8, <2>9, <2>10
<1> QED
  BY <1>1, <1>2, <1>3, <1>4, ChainStep

(* Within one epoch an identity has one signer set and one threshold, and  *)
(* epochs never go back along the history: signers change only through     *)
(* replace-signers.                                                        *)
THEOREM EpochsFixSigners == Spec => []EpochFixesSigners
<1>1. Init => EpochFixesSigners
  BY DEF Init, EpochFixesSigners
<1>2. IInv /\ EpochFixesSigners /\ [Next]_vars => EpochFixesSigners'
  <2>1. IInv /\ EpochFixesSigners /\ Next => EpochFixesSigners'
    BY EpochStep DEF Next
  <2>2. EpochFixesSigners /\ UNCHANGED vars => EpochFixesSigners'
    BY DEF EpochFixesSigners, vars
  <2> QED
    BY <2>1, <2>2
<1> QED
  BY <1>1, <1>2, Inductive, PTL DEF Spec

-----------------------------------------------------------------------------

(* Each of them keeps the owner of an identity born multisignature.        *)
LEMMA OwnerStep ==
  ASSUME IInv, GenesisOwnerPermanent,
         NEW e \in Envelope, NEW c \in {<<>>, chain}, Overwrite(e, c)
  PROVE  GenesisOwnerPermanent'
<1> USE DEF GenesisOwnerPermanent
<1>1. CASE chain' = <<>>
  BY <1>1
<1>2. CASE Started(e)
  <2>1. \A i \in 1..Len(chain') : i = 1
    BY <1>2 DEF Started
  <2> QED
    BY <2>1
<1>3. CASE StartedOverLegacy(e)
  BY <1>3 DEF StartedOverLegacy
<1>4. CASE Extended(e)
  <2> DEFINE n == Len(chain)
             last == chain[n]
  <2>1. chain \in Seq(Envelope)
    BY DEF IInv, TypeOK
  <2>2. /\ n \in Nat /\ n >= 1 /\ Len(chain') = n + 1 /\ chain'[n + 1] = e
        /\ \A i \in 1..n : chain'[i] = chain[i]
    BY <1>4, <2>1, AppendProperties DEF Extended
  <2>3. last \in Envelope /\ IsMultisig(last) /\ n \in 1..n /\ chain'[1] = chain[1]
    BY <1>4, <2>1, <2>2 DEF Extended
  <2>4. IsMultisig(chain[1]) => e.owner = last.owner
    BY <1>4, <2>3, StepFields DEF Extended
  <2> SUFFICES ASSUME IsMultisig(chain'[1]), NEW i \in 1..Len(chain')
               PROVE  chain'[i].owner = chain'[1].owner
    BY DEF GenesisOwnerPermanent
  <2>5. last.owner = chain[1].owner
    BY <1>4, <2>3 DEF Extended
  <2>6. CASE i \in 1..n
    BY <1>4, <2>2, <2>3, <2>6 DEF Extended
  <2>7. CASE i = n + 1
    BY <2>2, <2>3, <2>4, <2>5, <2>7
  <2> QED
    BY <2>2, <2>6, <2>7
<1> QED
  BY <1>1, <1>2, <1>3, <1>4, ChainStep

(* The owner of an identity that was born multisignature never changes.    *)
THEOREM GenesisOwnerNeverChanges == Spec => []GenesisOwnerPermanent
<1>1. Init => GenesisOwnerPermanent
  BY DEF Init, GenesisOwnerPermanent
<1>2. IInv /\ GenesisOwnerPermanent /\ [Next]_vars => GenesisOwnerPermanent'
  <2>1. IInv /\ GenesisOwnerPermanent /\ Next => GenesisOwnerPermanent'
    BY OwnerStep DEF Next
  <2>2. GenesisOwnerPermanent /\ UNCHANGED vars => GenesisOwnerPermanent'
    BY DEF GenesisOwnerPermanent, vars
  <2> QED
    BY <2>1, <2>2
<1> QED
  BY <1>1, <1>2, Inductive, PTL DEF Spec

-----------------------------------------------------------------------------

(* An accepted history is never rewritten or shortened, and it never gives *)
(* way to a legacy head.                                                   *)
THEOREM HistoryNeverShrinks == Spec => HistoryOnlyGrows
<1> DEFINE Grows == /\ Len(chain') >= Len(chain)
                    /\ \A i \in 1..Len(chain) : chain'[i] = chain[i]
<1>1. IInv /\ Next => Grows
  <2> SUFFICES ASSUME IInv, NEW e \in Envelope, NEW c \in {<<>>, chain},
                      Overwrite(e, c)
               PROVE  Grows
    BY DEF Next
  <2>1. chain \in Seq(Envelope)
    BY DEF IInv, TypeOK
  <2>2. CASE chain = <<>> /\ chain' = <<>>
    BY <2>2
  <2>3. CASE Started(e)
    BY <2>3 DEF Started
  <2>4. CASE StartedOverLegacy(e)
    BY <2>4 DEF StartedOverLegacy
  <2>5. CASE Extended(e)
    <3>1. /\ Len(chain') = Len(chain) + 1
          /\ \A i \in 1..Len(chain) : chain'[i] = chain[i]
      BY <2>1, <2>5, AppendProperties DEF Extended
    <3>2. Len(chain) \in Nat
      BY <2>1
    <3> QED
      BY <3>1, <3>2
  <2> QED
    BY <2>2, <2>3, <2>4, <2>5, ChainStep
<1>2. IInv /\ [Next]_vars => [Grows]_vars
  BY <1>1
<1> QED
  BY <1>2, Inductive, PTL DEF Spec, HistoryOnlyGrows

-----------------------------------------------------------------------------

(* Validating one step against the head that is kept, and replaying the    *)
(* whole history of the successor, accept the same successors.             *)
LEMMA StepIsReplay ==
  ASSUME IInv, head # None, NEW e \in Envelope, IsMultisig(e)
  PROVE  IdentityOverwrite(K, e, head, chain) <=>
           IF IsMultisig(head) THEN History(K, Append(chain, e))
                               ELSE History(K, <<head, e>>)
<1> USE DEF IInv
<1>1. head \in Envelope /\ chain \in Seq(Envelope) /\ head.kind = "identity"
  BY DEF TypeOK, HeadKind
<1>2. Decoded(e) /\ Decoded(head)
  BY <1>1, EnvelopeAssumption
<1>3. CASE IsMultisig(head)
  <2>1. EndsAt(chain, head) /\ History(K, chain)
    BY <1>3 DEF HistoryReplays
  <2>2. chain # <<>> /\ chain[Len(chain)] = head
    BY <2>1 DEF EndsAt
  <2>3. ASSUME IdentityOverwrite(K, e, head, chain)
        PROVE  History(K, Append(chain, e))
    <3>1. HistoryStep(K, chain[1], head, e)
      BY <1>1, <1>3, <2>2, <2>3, AcceptedStep
    <3> QED
      BY <1>1, <2>1, <2>2, <3>1, HistoryExtends
  <2>4. ASSUME History(K, Append(chain, e))
        PROVE  IdentityOverwrite(K, e, head, chain)
    <3> DEFINE n == Len(chain)
               g == Append(chain, e)
    <3>1. /\ n \in Nat /\ n >= 1 /\ Len(g) = n + 1 /\ g[n + 1] = e
          /\ g[n] = head /\ g[1] = chain[1]
      BY <1>1, <2>2, AppendProperties
    <3>2. HistoryStep(K, g[1], g[(n + 1) - 1], g[n + 1])
      <4>1. n + 1 \in 2..Len(g)
        BY <3>1
      <4> QED
        BY <2>4, <4>1 DEF History
    <3>3. HistoryStep(K, chain[1], head, e)
      <4>1. (n + 1) - 1 = n
        BY <3>1
      <4> QED
        BY <3>1, <3>2, <4>1
    <3>4. \/ OrdinaryUpdate(K, e, head)
          \/ SignerReplacement(K, e, head)
          \/ RotationFromState(K, e, head, chain[1])
      BY <1>3, <3>3 DEF HistoryStep
    <3>5. e.kind = "identity"
      BY <1>1, <3>4 DEF OrdinaryUpdate, SignerReplacement, CommonTransition,
                        RotationFromState, RotationInvariants
    <3>6. e.payload # "withdrawn"
      BY <1>2, <3>5 DEF Decoded
    <3>7. MultisigUpdate(K, e, head, chain) /\ CurrentState(K, e, head, chain)
      BY <1>3, <2>1, <2>2, <3>4 DEF MultisigUpdate, CurrentState
    <3> QED
      BY <3>5, <3>6, <3>7 DEF IdentityOverwrite, Transition
  <2> QED
    BY <1>3, <2>3, <2>4
<1>4. CASE ~IsMultisig(head)
  <2>1. ASSUME IdentityOverwrite(K, e, head, chain)
        PROVE  History(K, <<head, e>>)
    <3>1. Anchor(K, head) /\ HistoryStep(K, head, head, e)
      BY <1>1, <1>4, <2>1, AcceptedOverLegacy
    <3> QED
      BY <1>1, <3>1, PairHistory
  <2>2. ASSUME History(K, <<head, e>>)
        PROVE  IdentityOverwrite(K, e, head, chain)
    <3>1. HistoryStep(K, head, head, e)
      <4> DEFINE g == <<head, e>>
      <4>1. Len(g) = 2 /\ g[1] = head /\ g[2] = e /\ 2 - 1 = 1 /\ 2 \in 2..Len(g)
        OBVIOUS
      <4>2. HistoryStep(K, g[1], g[2 - 1], g[2])
        BY <2>2, <4>1 DEF History
      <4> QED
        BY <4>1, <4>2
    <3>2. Upgrade(K, e, head) \/ RotationFromLegacy(K, e, head)
      BY <1>4, <3>1 DEF HistoryStep
    <3>3. e.kind = "identity"
      BY <1>1, <3>2 DEF Upgrade, RotationFromLegacy, RotationInvariants
    <3>4. e.payload # "withdrawn"
      BY <1>2, <3>3 DEF Decoded
    <3>5. MultisigUpdate(K, e, head, chain)
      BY <1>4, <3>2 DEF MultisigUpdate
    <3> QED
      BY <1>4, <3>3, <3>4, <3>5 DEF IdentityOverwrite, Transition
  <2> QED
    BY <1>4, <2>1, <2>2
<1> QED
  BY <1>3, <1>4

(* Local validation and remote replay always agree on the next envelope.   *)
THEOREM LocalAndRemoteAgree == Spec => []StepAgreesWithReplay
<1>1. IInv => StepAgreesWithReplay
  BY StepIsReplay DEF StepAgreesWithReplay
<1> QED
  BY <1>1, Inductive, PTL

-----------------------------------------------------------------------------

(* Every multisignature entry of a history asks for two proofs.            *)
ThresholdIsTwo ==
  \A i \in 1..Len(chain) : IsMultisig(chain[i]) => chain[i].threshold = 2

(* Each step of a history either keeps the threshold or sets it to two.    *)
LEMMA StepThreshold ==
  ASSUME NEW k, NEW a, NEW x \in Envelope, NEW e \in Envelope,
         HistoryStep(k, a, x, e), IsMultisig(x) => x.threshold = 2
  PROVE  e.threshold = 2
BY DEF HistoryStep, RotationFromState, OrdinaryUpdate, SignerReplacement, Upgrade,
       RotationFromLegacy, CompleteTwoOfThree

(* A step of a history was approved by those in control before it.         *)
LEMMA StepApproved ==
  ASSUME NEW k, NEW a, NEW x \in Envelope, NEW e \in Envelope,
         HistoryStep(k, a, x, e), IsMultisig(x) => x.threshold = 2
  PROVE  IF IsMultisig(x)
         THEN Cardinality({p.by : p \in e.proofs} \cap x.signers) >= 2
         ELSE x.owner \in {p.by : p \in e.proofs}
<1>1. CASE IsMultisig(x)
  <2>1. ThresholdProofs(e, x) /\ e.op \in {"rotate", "update", "replace"}
    BY <1>1 DEF HistoryStep, RotationFromState, RotationInvariants, OrdinaryUpdate,
                SignerReplacement
  <2>2. IsMultisig(e)
    BY <2>1, EnvelopeAssumption DEF Decoded, IsMultisig
  <2> QED
    BY <1>1, <2>1, <2>2, ThresholdApprovers
<1>2. CASE ~IsMultisig(x)
  BY <1>2 DEF HistoryStep, Upgrade, OwnerProof, RotationFromLegacy
<1> QED
  BY <1>1, <1>2

(* Each accepted envelope keeps the threshold.                             *)
LEMMA ThresholdStep ==
  ASSUME IInv, ThresholdIsTwo,
         NEW e \in Envelope, NEW c \in {<<>>, chain}, Overwrite(e, c)
  PROVE  ThresholdIsTwo'
<1> USE DEF ThresholdIsTwo
<1>1. CASE chain' = <<>>
  BY <1>1
<1>2. CASE Started(e)
  <2>1. chain' = <<e>> /\ IsMultisig(e) /\ head' = e
    BY <1>2 DEF Started, Overwrite
  <2>2. HistoryReplays' /\ e # None
    BY OverwriteIInv, EnvelopeAssumption DEF IInv
  <2>3. History(K, <<e>>)
    BY <2>1, <2>2 DEF HistoryReplays
  <2>4. e.threshold = 2
    BY <2>1, <2>3 DEF History, Anchor, Genesis, CompleteTwoOfThree
  <2> QED
    BY <2>1, <2>4
<1>3. CASE StartedOverLegacy(e)
  <2>1. /\ Len(chain') = 2 /\ chain'[1] = head /\ chain'[2] = e /\ ~IsMultisig(head)
        /\ head \in Envelope /\ HistoryStep(K, head, head, e)
    BY <1>3 DEF StartedOverLegacy
  <2>2. e.threshold = 2
    BY <2>1, StepThreshold
  <2>3. \A i \in 1..2 : i = 1 \/ i = 2
    OBVIOUS
  <2> QED
    BY <2>1, <2>2, <2>3
<1>4. CASE Extended(e)
  <2> DEFINE n == Len(chain)
             last == chain[n]
  <2>1. chain \in Seq(Envelope)
    BY DEF IInv, TypeOK
  <2>2. /\ n \in Nat /\ n >= 1 /\ Len(chain') = n + 1 /\ chain'[n + 1] = e
        /\ \A i \in 1..n : chain'[i] = chain[i]
    BY <1>4, <2>1, AppendProperties DEF Extended
  <2>3. last \in Envelope /\ last.threshold = 2 /\ HistoryStep(K, chain[1], last, e)
    BY <1>4, <2>1, <2>2 DEF Extended
  <2>4. e.threshold = 2
    BY <2>3, StepThreshold
  <2>5. \A i \in 1..(n + 1) : i \in 1..n \/ i = n + 1
    BY <2>2
  <2> QED
    BY <2>2, <2>4, <2>5
<1> QED
  BY <1>1, <1>2, <1>3, <1>4, ChainStep

(* Every entry of an accepted history was approved by those who controlled *)
(* the entry before it, however long the history is.                       *)
THEOREM AlwaysApprovedByPredecessor == Spec => []ApprovedByPredecessor
<1>1. Init => ThresholdIsTwo
  BY DEF Init, ThresholdIsTwo
<1>2. IInv /\ ThresholdIsTwo /\ [Next]_vars => ThresholdIsTwo'
  <2>1. IInv /\ ThresholdIsTwo /\ Next => ThresholdIsTwo'
    BY ThresholdStep DEF Next
  <2>2. ThresholdIsTwo /\ UNCHANGED vars => ThresholdIsTwo'
    BY DEF ThresholdIsTwo, vars
  <2> QED
    BY <2>1, <2>2
<1>3. IInv /\ ThresholdIsTwo => ApprovedByPredecessor
  <2> SUFFICES ASSUME IInv, ThresholdIsTwo, NEW i \in 2..Len(chain)
               PROVE  LET before == chain[i - 1]
                          approvers == {p.by : p \in chain[i].proofs}
                      IN  IF IsMultisig(before)
                          THEN Cardinality(approvers \cap before.signers) >= 2
                          ELSE before.owner \in approvers
    BY DEF ApprovedByPredecessor
  <2>1. chain \in Seq(Envelope) /\ Len(chain) \in Nat
    BY DEF IInv, TypeOK
  <2>2. /\ i - 1 \in 1..Len(chain) /\ i \in 1..Len(chain) /\ chain # <<>>
        /\ chain[i - 1] \in Envelope /\ chain[i] \in Envelope
    BY <2>1
  <2>3. HistoryStep(K, chain[1], chain[i - 1], chain[i])
    BY <2>2 DEF IInv, TypeOK, HistoryReplays, History
  <2>4. IsMultisig(chain[i - 1]) => chain[i - 1].threshold = 2
    BY <2>2 DEF ThresholdIsTwo
  <2> QED
    BY <2>2, <2>3, <2>4, StepApproved
<1> QED
  BY <1>1, <1>2, <1>3, Inductive, PTL DEF Spec

-----------------------------------------------------------------------------
(* Provider Records.                                                       *)

ProviderTypeOK ==
  /\ held \in Envelope \cup {None}
  /\ predecessor \in Envelope \cup {None}

\* What a head tells of itself.
HeldRecord ==
  held # None =>
    /\ held.key = ObjectHash
    /\ ~IsMultisig(held) => LegacyState(ObjectHash, held)
    /\ IsMultisig(held) =>
         /\ held.threshold = 2
         /\ held.op # "replace" => SelfContained(ObjectHash, held)

\* What the record kept with a tombstone is to it.
HeldTombstone ==
  Tombstone(held) =>
    predecessor # None /\ ProviderOverwrite(ObjectHash, held, predecessor)

ProviderInv ==
  /\ ProviderTypeOK /\ HeldRecord /\ HeldTombstone /\ WithdrawsActive
  /\ held # None => held.kind = "provider"

(* The empty holder satisfies ProviderInv.                                 *)
LEMMA ProviderInitInv == ProviderInit => ProviderInv
BY DEF ProviderInit, ProviderInv, ProviderTypeOK, HeldRecord, HeldTombstone,
       WithdrawsActive, Tombstone

(* One accepted envelope preserves ProviderInv.                            *)
LEMMA ProviderWriteInv ==
  ASSUME ProviderInv, NEW e \in Envelope, ProviderWrite(e)
  PROVE  ProviderInv'
<1>1. /\ ProviderOverwrite(ObjectHash, e, held) /\ held' = e
      /\ predecessor' = IF e.payload = "withdrawn" THEN held ELSE None
  BY DEF ProviderWrite
<1>2. held \in Envelope \cup {None} BY DEF ProviderInv, ProviderTypeOK
<1>3. /\ e # None /\ e.kind = "provider" /\ e.key = ObjectHash
      /\ ~IsMultisig(e) => LegacyState(ObjectHash, e)
      /\ e.payload = "withdrawn" =>
           /\ held # None /\ held.payload = "active" /\ held.form = e.form
           /\ held.owner = e.owner /\ held.key = e.key /\ held.seq < e.seq
  BY <1>1, <1>2, ProviderStep
<1>4. IsMultisig(e) => /\ e.threshold = 2
                       /\ e.op # "replace" => SelfContained(ObjectHash, e)
  <2> SUFFICES ASSUME IsMultisig(e)
               PROVE  /\ e.threshold = 2
                      /\ e.op # "replace" => SelfContained(ObjectHash, e)
    OBVIOUS
  <2>1. CASE held = None \/ ~IsMultisig(held)
    <3>1. Genesis(ObjectHash, e) \/ Upgrade(ObjectHash, e, held)
      BY <1>1, <1>2, <2>1, ProviderStep
    <3> QED BY <1>3, <3>1 DEF Genesis, Upgrade, CompleteTwoOfThree, SelfContained
  <2>2. CASE held # None /\ IsMultisig(held)
    <3>1. OrdinaryUpdate(ObjectHash, e, held) \/ SignerReplacement(ObjectHash, e, held)
      BY <1>1, <1>2, <2>2, ProviderStep
    <3>2. held.threshold = 2 BY <2>2 DEF ProviderInv, HeldRecord
    <3>3. CASE OrdinaryUpdate(ObjectHash, e, held)
      BY <1>3, <3>2, <3>3 DEF OrdinaryUpdate, ThresholdProofs, SelfContained
    <3>4. CASE SignerReplacement(ObjectHash, e, held)
      BY <3>4 DEF SignerReplacement, CompleteTwoOfThree
    <3> QED BY <3>1, <3>3, <3>4
  <2> QED BY <2>1, <2>2
<1>5. ProviderTypeOK' BY <1>1, <1>2 DEF ProviderTypeOK
<1>6. HeldRecord' BY <1>1, <1>3, <1>4 DEF HeldRecord
<1>7. HeldTombstone' BY <1>1, <1>3 DEF HeldTombstone, Tombstone
<1>8. WithdrawsActive' BY <1>1, <1>3 DEF WithdrawsActive, Tombstone
<1> QED BY <1>1, <1>3, <1>5, <1>6, <1>7, <1>8 DEF ProviderInv

(* ProviderInv holds in every reachable state.                             *)
THEOREM ProviderInductive == ProviderSpec => []ProviderInv
<1>1. ProviderInv /\ [ProviderNext]_providerVars => ProviderInv'
  <2>1. ProviderInv /\ ProviderNext => ProviderInv'
    BY ProviderWriteInv DEF ProviderNext
  <2>2. ProviderInv /\ UNCHANGED providerVars => ProviderInv'
    BY DEF ProviderInv, ProviderTypeOK, HeldRecord, HeldTombstone, WithdrawsActive,
           Tombstone, providerVars
  <2> QED BY <2>1, <2>2
<1> QED BY ProviderInitInv, <1>1, PTL DEF ProviderSpec

(* A tombstone always withdraws an older active record of the same form,   *)
(* owner and key, and that record is at hand.                              *)
THEOREM AlwaysWithdrawsActive == ProviderSpec => []WithdrawsActive
<1>1. ProviderInv => WithdrawsActive BY DEF ProviderInv
<1> QED BY <1>1, ProviderInductive, PTL

(* Whatever was accepted can be read back, save after a replacement.       *)
THEOREM HeadAlwaysReadable == ProviderSpec => []HeadReadable
<1>1. ProviderInv => HeadReadable
  <2> SUFFICES ASSUME ProviderInv, held # None, held.op # "replace"
               PROVE  ProviderGet(ObjectHash, held, predecessor)
    BY DEF HeadReadable
  <2>1. /\ held \in Envelope /\ predecessor \in Envelope \cup {None}
        /\ held.kind = "provider"
    BY DEF ProviderInv, ProviderTypeOK
  <2>2. held.payload \in {"active", "withdrawn"}
    BY <2>1, EnvelopeAssumption DEF Decoded
  <2>3. CASE held.payload = "active"
    BY <2>1, <2>3 DEF ProviderInv, HeldRecord, ProviderGet
  <2>4. CASE held.payload = "withdrawn"
    BY <2>1, <2>4, OverwriteShows DEF ProviderInv, HeldTombstone, Tombstone
  <2> QED BY <2>2, <2>3, <2>4
<1> QED BY <1>1, ProviderInductive, PTL

(* What a step from a multisignature head is.                              *)
LEMMA HeldMultisigStep ==
  ASSUME ProviderInv, held # None, IsMultisig(held), ProviderNext
  PROVE  /\ held \in Envelope /\ held' \in Envelope /\ IsMultisig(held')
         /\ held.threshold = 2
         /\ \/ OrdinaryUpdate(ObjectHash, held', held)
            \/ SignerReplacement(ObjectHash, held', held)
<1>1. PICK e \in Envelope : ProviderWrite(e) BY DEF ProviderNext
<1>2. ProviderOverwrite(ObjectHash, e, held) /\ held' = e
  BY <1>1 DEF ProviderWrite
<1>3. held \in Envelope /\ held.threshold = 2
  BY DEF ProviderInv, ProviderTypeOK, HeldRecord
<1>4. /\ IsMultisig(e)
      /\ OrdinaryUpdate(ObjectHash, e, held) \/ SignerReplacement(ObjectHash, e, held)
  BY <1>2, <1>3, ProviderStep
<1> QED BY <1>2, <1>3, <1>4

(* A multisignature record never becomes legacy again, its epoch never     *)
(* goes back, and within an epoch its signers stay the same.               *)
THEOREM NeverDowngraded == ProviderSpec => NoDowngrade
<1> DEFINE Keeps ==
      held # None /\ IsMultisig(held) =>
        /\ IsMultisig(held')
        /\ held'.epoch >= held.epoch
        /\ held'.epoch = held.epoch =>
             held'.signers = held.signers /\ held'.threshold = held.threshold
<1>1. ProviderInv /\ ProviderNext => Keeps
  <2> SUFFICES ASSUME ProviderInv, ProviderNext, held # None, IsMultisig(held)
               PROVE  Keeps
    OBVIOUS
  <2>1. held \in Envelope /\ held' \in Envelope /\ IsMultisig(held')
    BY HeldMultisigStep
  <2>2. held.epoch \in Nat /\ held'.epoch \in Nat
    BY <2>1, EnvelopeAssumption DEF Decoded
  <2>3. CASE OrdinaryUpdate(ObjectHash, held', held)
    BY <2>1, <2>2, <2>3 DEF OrdinaryUpdate
  <2>4. CASE SignerReplacement(ObjectHash, held', held)
    BY <2>1, <2>2, <2>4 DEF SignerReplacement
  <2> QED BY <2>3, <2>4, HeldMultisigStep
<1>2. ProviderInv /\ [ProviderNext]_providerVars => [Keeps]_providerVars
  BY <1>1
<1> QED BY <1>2, ProviderInductive, PTL DEF ProviderSpec, NoDowngrade

(* Two of the signers a multisignature state names approve whatever        *)
(* replaces it.                                                            *)
THEOREM AlwaysApprovedByCurrentSigners == ProviderSpec => ApprovedByCurrentSigners
<1> DEFINE Approved ==
      held # None /\ IsMultisig(held) =>
        Cardinality({p.by : p \in held'.proofs} \cap held.signers) >= 2
<1>1. ProviderInv /\ ProviderNext => Approved
  <2> SUFFICES ASSUME ProviderInv, ProviderNext, held # None, IsMultisig(held)
               PROVE  Approved
    OBVIOUS
  <2>1. /\ held \in Envelope /\ held' \in Envelope /\ IsMultisig(held')
        /\ held.threshold = 2
    BY HeldMultisigStep
  <2>2. ThresholdProofs(held', held)
    BY HeldMultisigStep DEF OrdinaryUpdate, SignerReplacement
  <2> QED BY <2>1, <2>2, ThresholdApprovers
<1>2. ProviderInv /\ [ProviderNext]_providerVars => [Approved]_providerVars
  BY <1>1
<1> QED BY <1>2, ProviderInductive, PTL DEF ProviderSpec, ApprovedByCurrentSigners

(* A withdrawn multisignature record comes back only with a new epoch.     *)
THEOREM ReactivationAlwaysOpensEpoch == ProviderSpec => ReactivationOpensEpoch
<1> DEFINE Opens ==
      Tombstone(held) /\ IsMultisig(held) /\ ~Tombstone(held') =>
        held'.epoch > held.epoch
<1>1. ProviderInv /\ ProviderNext => Opens
  <2> SUFFICES ASSUME ProviderInv, ProviderNext, Tombstone(held), IsMultisig(held)
               PROVE  Opens
    OBVIOUS
  <2>1. held # None /\ held.payload = "withdrawn" BY DEF Tombstone
  <2>2. SignerReplacement(ObjectHash, held', held)
    BY <2>1, HeldMultisigStep DEF OrdinaryUpdate
  <2> QED BY <2>2 DEF SignerReplacement
<1>2. ProviderInv /\ [ProviderNext]_providerVars => [Opens]_providerVars
  BY <1>1
<1> QED BY <1>2, ProviderInductive, PTL DEF ProviderSpec, ReactivationOpensEpoch

=============================================================================

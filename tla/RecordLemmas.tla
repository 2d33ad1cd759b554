----------------------------- MODULE RecordLemmas ---------------------------
(***************************************************************************)
(* Lemmas about the record rules: what an accepted Identity envelope is a  *)
(* step from, and how histories grow.  They hold for every envelope set    *)
(* that meets EnvelopeAssumption.                                          *)
(***************************************************************************)
EXTENDS RecordValidator, FiniteSetTheorems, SequenceTheorems, TLAPS

(* Keys are finitely many, so the proofs of an envelope are.               *)
LEMMA ProofsFinite ==
  ASSUME NEW e \in Envelope
  PROVE  IsFiniteSet(e.proofs) /\ Cardinality(e.proofs) \in Nat
<1>1. e.proofs \subseteq Proof BY EnvelopeAssumption DEF Decoded
<1>2. IsFiniteSet(PublicKey \cup {None})
  BY EnvelopeAssumption, FS_AddElement
<1>3. IsFiniteSet((PublicKey \cup {None}) \X PublicKey)
  BY <1>2, EnvelopeAssumption, FS_Product
<1> DEFINE f == [t \in (PublicKey \cup {None}) \X PublicKey |->
                  [id |-> t[1], by |-> t[2]]]
<1>4. f \in Surjection((PublicKey \cup {None}) \X PublicKey, Proof)
  <2>1. f \in [(PublicKey \cup {None}) \X PublicKey -> Proof] BY DEF Proof
  <2>2. \A p \in Proof : \E t \in (PublicKey \cup {None}) \X PublicKey : f[t] = p
    <3> SUFFICES ASSUME NEW p \in Proof
                 PROVE  \E t \in (PublicKey \cup {None}) \X PublicKey : f[t] = p
      OBVIOUS
    <3>1. <<p.id, p.by>> \in (PublicKey \cup {None}) \X PublicKey BY DEF Proof
    <3>2. f[<<p.id, p.by>>] = p BY <3>1 DEF Proof
    <3> QED BY <3>1, <3>2
  <2> QED BY <2>1, <2>2 DEF Surjection
<1>5. IsFiniteSet(Proof) BY <1>3, <1>4, FS_Surjection
<1> QED BY <1>1, <1>5, FS_Subset, FS_CardinalityType

(* Where every proof verifies under the key it claims, as many keys have    *)
(* signed as there are proofs.                                             *)
LEMMA OneKeyPerProof ==
  ASSUME NEW e \in Envelope, IsMultisig(e), \A p \in e.proofs : p.by = p.id
  PROVE  Cardinality({p.by : p \in e.proofs}) = Cardinality(e.proofs)
<1> DEFINE S == {p.by : p \in e.proofs}
           f == [p \in e.proofs |-> p.by]
<1>1. \A p, q \in e.proofs : p.by = q.by => p = q
  <2>1. \A p, q \in e.proofs : p.id = q.id => p = q
    BY EnvelopeAssumption DEF IsMultisig, Decoded
  <2> QED BY <2>1
<1>2. f \in Surjection(e.proofs, S) /\ f \in Injection(e.proofs, S)
  BY <1>1 DEF Surjection, Injection, IsInjective
<1> QED BY <1>2, ProofsFinite, FS_Surjection

(* A complete history stays complete when a valid step is appended to it.  *)
LEMMA HistoryExtends ==
  ASSUME NEW k, NEW h \in Seq(Envelope), NEW e \in Envelope,
         History(k, h), IsMultisig(e),
         HistoryStep(k, h[1], h[Len(h)], e)
  PROVE  History(k, Append(h, e))
<1> DEFINE g == Append(h, e)
<1>1. /\ h # <<>> /\ Len(h) \in Nat /\ Len(h) >= 1
      /\ g \in Seq(Envelope) /\ Len(g) = Len(h) + 1
      /\ g[Len(h) + 1] = e
      /\ \A i \in 1..Len(h) : g[i] = h[i]
  BY DEF History
<1>2. g # <<>> /\ g[1] = h[1] /\ g[Len(g)] = e
  BY <1>1
<1>3. ASSUME NEW i \in 2..Len(g)
      PROVE  HistoryStep(k, g[1], g[i - 1], g[i])
  <2>1. CASE i \in 2..Len(h)
    <3>1. i - 1 \in 1..Len(h) /\ i \in 1..Len(h)
      BY <1>1, <2>1
    <3>2. HistoryStep(k, h[1], h[i - 1], h[i])
      BY <2>1 DEF History
    <3> QED
      BY <1>1, <1>2, <3>1, <3>2
  <2>2. CASE i = Len(h) + 1
    <3>1. i - 1 = Len(h) /\ Len(h) \in 1..Len(h)
      BY <1>1, <2>2
    <3> QED
      BY <1>1, <1>2, <2>2, <3>1
  <2> QED
    BY <1>1, <2>1, <2>2
<1>4. Anchor(k, g[1])
  BY <1>2 DEF History
<1> QED
  BY <1>2, <1>3, <1>4 DEF History

(* The last entry of a complete history with more than one entry is not a  *)
(* genesis: every step names another operation.                            *)
LEMMA GenesisIsFirst ==
  ASSUME NEW k, NEW h \in Seq(Envelope),
         History(k, h), h[Len(h)].op = "genesis"
  PROVE  Len(h) = 1
<1>1. Len(h) \in Nat /\ Len(h) >= 1
  BY DEF History
<1>2. ~(Len(h) >= 2)
  <2> SUFFICES ASSUME Len(h) >= 2 PROVE FALSE
    OBVIOUS
  <2>1. HistoryStep(k, h[1], h[Len(h) - 1], h[Len(h)])
    BY <1>1 DEF History
  <2> QED
    BY <2>1 DEF HistoryStep, Upgrade, RotationFromLegacy, RotationFromState,
                RotationInvariants, OrdinaryUpdate, SignerReplacement
<1>3. \A n \in Nat : n >= 1 /\ ~(n >= 2) => n = 1
  OBVIOUS
<1> QED
  BY <1>1, <1>2, <1>3

(* What an accepted multisignature Identity is a step from.                *)
LEMMA AcceptedStep ==
  ASSUME NEW k, NEW e \in Envelope, NEW x \in Envelope, NEW c \in Seq(Envelope),
         IdentityOverwrite(k, e, x, c), IsMultisig(e), IsMultisig(x)
  PROVE  /\ c # <<>> => EndsAt(c, x) /\ History(k, c) /\ HistoryStep(k, c[1], x, e)
         /\ c = <<>> => Anchor(k, x) /\ Genesis(k, x) /\ HistoryStep(k, x, x, e)
<1>1. Transition(k, e, x, c) /\ e.kind = "identity"
  BY DEF IdentityOverwrite
<1>2. x # None /\ x.form # "legacy"
  BY EnvelopeAssumption DEF IsMultisig
<1>3. \/ OrdinaryUpdate(k, e, x)
      \/ SignerReplacement(k, e, x)
      \/ c # <<>> /\ RotationFromState(k, e, x, c[1])
  BY <1>1, <1>2 DEF Transition, MultisigUpdate
<1>4. CurrentState(k, e, x, c)
  BY <1>1, <1>2 DEF Transition
<1>5. CASE c # <<>>
  BY <1>3, <1>4, <1>5 DEF CurrentState, HistoryStep
<1>6. CASE c = <<>>
  <2>1. SelfContained(k, x) /\ x.kind = "identity"
    BY <1>1, <1>4, <1>6 DEF CurrentState
  <2>2. Genesis(k, x)
    BY <2>1 DEF SelfContained
  <2> QED
    BY <1>3, <1>6, <2>1, <2>2 DEF Anchor, HistoryStep
<1> QED
  BY <1>5, <1>6

(* An accepted multisignature Identity over a legacy one.                  *)
LEMMA AcceptedOverLegacy ==
  ASSUME NEW k, NEW e \in Envelope, NEW x \in Envelope, NEW c \in Seq(Envelope),
         IdentityOverwrite(k, e, x, c), IsMultisig(e), ~IsMultisig(x)
  PROVE  Anchor(k, x) /\ HistoryStep(k, x, x, e)
<1>1. Transition(k, e, x, c) /\ e.kind = "identity"
  BY DEF IdentityOverwrite
<1>2. x # None /\ x.form = "legacy"
  BY EnvelopeAssumption DEF IsMultisig, Decoded
<1>3. Upgrade(k, e, x) \/ RotationFromLegacy(k, e, x)
  BY <1>1, <1>2 DEF Transition, MultisigUpdate
<1>4. LegacyState(k, x) /\ x.kind = "identity"
  BY <1>1, <1>3 DEF Upgrade, RotationFromLegacy
<1> QED
  BY <1>3, <1>4 DEF Anchor, HistoryStep

(* A history of one entry becomes the pair of it and the appended entry.   *)
LEMMA AppendToOne ==
  ASSUME NEW h \in Seq(Envelope), NEW e \in Envelope, Len(h) = 1
  PROVE  Append(h, e) = <<h[1], e>>
<1>1. h[1] \in Envelope
  BY ElementOfSeq
<1>2. <<h[1], e>> \in Seq(Envelope) /\ Len(<<h[1], e>>) = 2
  BY <1>1
<1>3. /\ Append(h, e) \in Seq(Envelope) /\ Len(Append(h, e)) = 2
      /\ Append(h, e)[1] = h[1] /\ Append(h, e)[2] = e
  <2>1. Len(h) + 1 = 2 /\ 1 \in 1..Len(h)
    BY SMT
  <2>2. /\ Append(h, e) \in Seq(Envelope)
        /\ Len(Append(h, e)) = Len(h) + 1
        /\ Append(h, e)[Len(h) + 1] = e
        /\ \A i \in 1..Len(h) : Append(h, e)[i] = h[i]
    <3>1. Append(h, e) \in Seq(Envelope)
      OBVIOUS
    <3>2. Len(Append(h, e)) = Len(h) + 1
      OBVIOUS
    <3>3. Append(h, e)[Len(h) + 1] = e
      BY AppendProperties
    <3>4. \A i \in 1..Len(h) : Append(h, e)[i] = h[i]
      BY AppendProperties
    <3> QED
      BY <3>1, <3>2, <3>3, <3>4
  <2>3. Append(h, e)[1] = h[1]
    BY <2>1, <2>2, Zenon
  <2>4. Len(Append(h, e)) = 2
    BY <2>1, <2>2, Zenon
  <2>5. Append(h, e)[2] = e
    BY <2>1, <2>2, Zenon
  <2> QED
    BY <2>2, <2>3, <2>4, <2>5, Zenon
<1>4. \A i \in 1..2 : Append(h, e)[i] = <<h[1], e>>[i]
  <2>1. \A i \in 1..2 : i = 1 \/ i = 2
    OBVIOUS
  <2> QED
    BY <1>3, <2>1
<1> QED
  BY <1>2, <1>3, <1>4, SeqEqual

(* What one step of a history changes, seen from the entry before it.      *)
LEMMA StepFields ==
  ASSUME NEW k, NEW anchor, NEW x \in Envelope, NEW e \in Envelope,
         IsMultisig(x), HistoryStep(k, anchor, x, e)
  PROVE  /\ e.epoch >= x.epoch
         /\ e.epoch = x.epoch => e.signers = x.signers /\ e.threshold = x.threshold
         /\ IsMultisig(anchor) => e.owner = x.owner
BY EnvelopeAssumption
   DEF Decoded, HistoryStep, RotationFromState, RotationInvariants,
       OrdinaryUpdate, SignerReplacement, CommonTransition

(* The history of a head and the envelope accepted over it is complete.    *)
LEMMA PairHistory ==
  ASSUME NEW k, NEW e \in Envelope, NEW x \in Envelope,
         Anchor(k, x), HistoryStep(k, x, x, e), IsMultisig(e)
  PROVE  History(k, <<x, e>>) /\ EndsAt(<<x, e>>, e)
<1> DEFINE g == <<x, e>>
<1>1. g # <<>> /\ Len(g) = 2 /\ g[1] = x /\ g[2] = e
  OBVIOUS
<1>2. \A i \in 2..Len(g) : i = 2
  BY <1>1
<1>3. \A i \in 2..Len(g) : HistoryStep(k, g[1], g[i - 1], g[i])
  BY <1>1, <1>2
<1> QED
  BY <1>1, <1>3 DEF History, EndsAt

(* The history that an accepted envelope carries shows the envelope: the   *)
(* part of it that a later read is given passes validate_identity_get.     *)
LEMMA AcceptedIsShown ==
  ASSUME NEW k, NEW e \in Envelope, NEW x \in Envelope \cup {None},
         NEW c \in Seq(Envelope), IdentityOverwrite(k, e, x, c)
  PROVE  /\ AcceptedHistory(e, x, c) \in Seq(Envelope)
         /\ IF IsMultisig(e)
            THEN EndsAt(AcceptedHistory(e, x, c), e) /\ History(k, AcceptedHistory(e, x, c))
            ELSE AcceptedHistory(e, x, c) = <<>> /\ LegacyState(k, e)
<1>1. e # None /\ e.kind = "identity" /\ Decoded(e)
  BY EnvelopeAssumption DEF IdentityOverwrite
<1>2. CASE ~IsMultisig(e)
  <2>1. AcceptedHistory(e, x, c) = <<>> /\ <<>> \in Seq(Envelope)
    BY <1>2 DEF AcceptedHistory
  <2>2. LegacyState(k, e)
    BY <1>2 DEF IdentityOverwrite, Transition, LegacyUpdate
  <2> QED
    BY <1>2, <2>1, <2>2
<1>3. CASE IsMultisig(e) /\ x = None
  <2>1. AcceptedHistory(e, x, c) = <<e>>
    BY <1>3 DEF AcceptedHistory
  <2>2. Genesis(k, e)
    BY <1>3 DEF IdentityOverwrite, Transition, MultisigUpdate
  <2>3. History(k, <<e>>) /\ EndsAt(<<e>>, e) /\ <<e>> \in Seq(Envelope)
    BY <1>1, <1>3, <2>2 DEF History, EndsAt, Anchor
  <2> QED
    BY <1>3, <2>1, <2>3
<1>4. CASE IsMultisig(e) /\ x # None /\ ~IsMultisig(x)
  <2>1. x \in Envelope
    BY <1>4
  <2>2. AcceptedHistory(e, x, c) = <<x, e>>
    BY <1>4 DEF AcceptedHistory
  <2>3. Anchor(k, x) /\ HistoryStep(k, x, x, e)
    BY <1>4, <2>1, AcceptedOverLegacy
  <2>4. History(k, <<x, e>>) /\ EndsAt(<<x, e>>, e)
    BY <1>4, <2>1, <2>3, PairHistory
  <2>5. <<x, e>> \in Seq(Envelope)
    BY <2>1
  <2> QED
    BY <1>4, <2>2, <2>4, <2>5
<1>5. CASE IsMultisig(e) /\ x # None /\ IsMultisig(x)
  <2>1. x \in Envelope
    BY <1>5
  <2>2. /\ c # <<>> => /\ EndsAt(c, x) /\ History(k, c)
                       /\ HistoryStep(k, c[1], x, e)
        /\ c = <<>> => Anchor(k, x) /\ HistoryStep(k, x, x, e)
    BY <1>5, <2>1, AcceptedStep
  <2>3. CASE c = <<>>
    <3>1. AcceptedHistory(e, x, c) = <<x, e>>
      BY <1>5, <2>3 DEF AcceptedHistory
    <3>2. History(k, <<x, e>>) /\ EndsAt(<<x, e>>, e)
      BY <1>5, <2>1, <2>2, <2>3, PairHistory
    <3>3. <<x, e>> \in Seq(Envelope)
      BY <2>1
    <3> QED
      BY <1>5, <3>1, <3>2, <3>3
  <2>4. CASE c # <<>>
    <3>1. AcceptedHistory(e, x, c) = Append(c, e)
      BY <1>5, <2>4 DEF AcceptedHistory
    <3>2. History(k, Append(c, e))
      BY <1>5, <2>2, <2>4, HistoryExtends DEF EndsAt
    <3>3. /\ Append(c, e) \in Seq(Envelope) /\ EndsAt(Append(c, e), e)
      <4>1. Len(c) \in Nat /\ Len(Append(c, e)) = Len(c) + 1
        OBVIOUS
      <4>2. Append(c, e)[Len(c) + 1] = e /\ Append(c, e) \in Seq(Envelope)
        OBVIOUS
      <4>3. Append(c, e) # <<>>
        BY <4>1
      <4> QED
        BY <4>1, <4>2, <4>3 DEF EndsAt
    <3> QED
      BY <1>5, <3>1, <3>2, <3>3
  <2> QED
    BY <2>3, <2>4
<1> QED
  BY <1>2, <1>3, <1>4, <1>5

(* As many keys have signed as there are proofs, all of them signers.      *)
LEMMA ThresholdApprovers ==
  ASSUME NEW e \in Envelope, NEW x \in Envelope, IsMultisig(e),
         ThresholdProofs(e, x), x.threshold = 2
  PROVE  Cardinality({p.by : p \in e.proofs} \cap x.signers) >= 2
<1> DEFINE S == {p.by : p \in e.proofs}
<1>1. \A p \in e.proofs : p.by = p.id /\ p.id \in x.signers
  BY DEF ThresholdProofs
<1>2. S \cap x.signers = S
  BY <1>1
<1>3. Cardinality(S) = Cardinality(e.proofs)
  BY <1>1, OneKeyPerProof
<1> QED
  BY <1>2, <1>3 DEF ThresholdProofs

(* What an accepted Provider envelope is a step from.                      *)
LEMMA ProviderStep ==
  ASSUME NEW k, NEW e \in Envelope, NEW x \in Envelope \cup {None},
         ProviderOverwrite(k, e, x)
  PROVE  /\ e # None /\ e.kind = "provider" /\ e.key = k
         /\ x # None => e.seq > x.seq /\ e.owner = x.owner
         /\ ~IsMultisig(e) => LegacyState(k, e) /\ (x # None => ~IsMultisig(x))
         /\ IsMultisig(e) /\ x = None => Genesis(k, e)
         /\ IsMultisig(e) /\ x # None /\ ~IsMultisig(x) => Upgrade(k, e, x)
         /\ x # None /\ IsMultisig(x) =>
              /\ IsMultisig(e)
              /\ OrdinaryUpdate(k, e, x) \/ SignerReplacement(k, e, x)
         /\ e.payload = "withdrawn" =>
              /\ x # None /\ x.payload = "active" /\ x.form = e.form
              /\ x.owner = e.owner /\ x.key = e.key /\ x.seq < e.seq
<1>1. e # None /\ e.kind = "provider" /\ Decoded(e)
  BY EnvelopeAssumption DEF ProviderOverwrite
<1>2. x # None => Decoded(x) /\ x.seq \in Nat /\ e.seq \in Nat
  BY <1>1, EnvelopeAssumption DEF Decoded
<1>3. CASE Transition(k, e, x, <<>>)
  <2>1. IsMultisig(e) /\ MultisigUpdate(k, e, x, <<>>)
    BY <1>3 DEF Transition
  <2>2. CASE x = None
    <3>1. Genesis(k, e)
      BY <2>1, <2>2 DEF MultisigUpdate
    <3>2. e.payload # "withdrawn"
      BY <1>3, <2>2 DEF Transition
    <3> QED
      BY <1>1, <2>1, <2>2, <3>1, <3>2 DEF Genesis
  <2>3. CASE x # None /\ IsMultisig(x)
    <3>1. OrdinaryUpdate(k, e, x) \/ SignerReplacement(k, e, x)
      BY <2>1, <2>3 DEF MultisigUpdate
    <3>2. CommonTransition(k, e, x)
      BY <3>1 DEF OrdinaryUpdate, SignerReplacement
    <3>3. e.payload = "withdrawn" => x.payload = "active"
      BY <1>3 DEF Transition
    <3> QED
      BY <1>1, <1>2, <2>1, <2>3, <3>1, <3>2, <3>3 DEF CommonTransition, IsMultisig
  <2>4. CASE x # None /\ ~IsMultisig(x)
    <3>1. Upgrade(k, e, x)
      BY <1>1, <2>1, <2>4
         DEF MultisigUpdate, RotationFromLegacy, RotationInvariants
    <3>2. e.payload # "withdrawn"
      BY <1>3, <2>4 DEF Transition
    <3> QED
      BY <1>1, <1>2, <2>1, <2>4, <3>1, <3>2 DEF Upgrade
  <2> QED
    BY <2>2, <2>3, <2>4
<1>4. CASE /\ ~IsMultisig(e)
           /\ x # None => ~IsMultisig(x)
           /\ LegacyUpdate(k, e, x)
           /\ e.payload = "withdrawn" =>
                x # None /\ LegacyState(k, x) /\ x.payload = "active"
  <2>1. LegacyState(k, e) /\ (x # None => e.seq > x.seq /\ e.owner = x.owner)
    BY <1>4 DEF LegacyUpdate
  <2>2. e.key = k /\ e.form = "legacy"
    BY <2>1 DEF LegacyState
  <2>3. e.payload = "withdrawn" => x.key = k /\ x.form = "legacy"
    BY <1>4 DEF LegacyState
  <2> QED
    BY <1>1, <1>2, <1>4, <2>1, <2>2, <2>3
<1> QED
  BY <1>3, <1>4 DEF ProviderOverwrite

(* A tombstone that was accepted over a record can be shown with it.       *)
LEMMA OverwriteShows ==
  ASSUME NEW k, NEW e \in Envelope, NEW x \in Envelope \cup {None},
         ProviderOverwrite(k, e, x), e.payload = "withdrawn"
  PROVE  ProviderGet(k, e, x)
<1>1. e.kind = "provider" /\ x # None
  BY DEF ProviderOverwrite, Transition
<1>2. CASE Transition(k, e, x, <<>>)
  BY <1>1, <1>2 DEF ProviderGet, Transition
<1>3. CASE /\ ~IsMultisig(e)
           /\ LegacyUpdate(k, e, x)
           /\ LegacyState(k, x) /\ x.payload = "active"
  BY <1>1, <1>3 DEF ProviderGet, LegacyUpdate
<1> QED
  BY <1>2, <1>3 DEF ProviderOverwrite

=============================================================================

----------------------- MODULE SigningCeremonyProofs ------------------------
(***************************************************************************)
(* Type correctness of SigningCeremony and FinalizedIsAuthorised, for any  *)
(* ceremony, any number of processes, files and received bundles.          *)
(*                                                                         *)
(* finalize_bundle counts signers and checks each proof by itself; the     *)
(* record rules count proofs.  The two agree because a finalized bundle    *)
(* has at most one proof of each signer.                                   *)
(***************************************************************************)
EXTENDS SigningCeremony, RecordLemmas, FiniteSetTheorems, TLAPS

Sound(q) ==
  /\ Finalizing(q) => proc[q].bundle \in Envelope /\ Finalizable(proc[q].bundle)
  /\ proc[q].pc = "merge" => proc[q].cmd = "merge"

IInv ==
  /\ TypeOK
  /\ \A q \in Process : Sound(q)

-----------------------------------------------------------------------------
\* There are at least as many proofs as signers.
LEMMA SignersAtMostProofs ==
  ASSUME NEW e \in Envelope
  PROVE  /\ Cardinality(Signers(e)) \in Nat
         /\ Cardinality(Signers(e)) <= Cardinality(e.proofs)
<1> DEFINE f == [p \in e.proofs |-> p.id]
<1>1. f \in Surjection(e.proofs, Signers(e)) BY DEF Signers, Surjection
<1> QED BY <1>1, ProofsFinite, FS_Surjection, FS_CardinalityType

\* The rule of the bundle implies the rule of the record.
LEMMA FinalizableIsAuthorised ==
  ASSUME NEW e \in Envelope, Finalizable(e)
  PROVE  IF e.op = "upgrade" THEN OwnerProof(e) ELSE ThresholdProofs(e, e)
<1>1. \A p \in e.proofs : ValidProof(e, p) BY DEF Finalizable
<1>2. CASE e.op = "upgrade"
  <2>1. Cardinality(Signers(e)) = 1 /\ \A p \in e.proofs : p.id = e.owner
    BY <1>2 DEF Finalizable
  <2>2. e.proofs # {}
    BY <2>1, FS_EmptySet DEF Signers
  <2>3. e.proofs \subseteq Proof
    BY EnvelopeAssumption DEF Decoded
  <2>4. \A p \in e.proofs : p = [id |-> e.owner, by |-> e.owner]
    BY <1>1, <2>1, <2>3 DEF Proof, ValidProof
  <2> QED BY <1>1, <1>2, <2>1, <2>2, <2>4 DEF OwnerProof, ValidProof
<1>3. CASE e.op # "upgrade"
  <2>1. Cardinality(Signers(e)) >= e.threshold BY <1>3 DEF Finalizable
  <2>2. e.threshold \in Nat BY EnvelopeAssumption DEF Decoded
  <2>3. Cardinality(e.proofs) >= e.threshold
    BY <2>1, <2>2, SignersAtMostProofs, ProofsFinite
  <2> QED BY <1>1, <1>3, <2>3 DEF ThresholdProofs, ValidProof
<1> QED BY <1>2, <1>3

-----------------------------------------------------------------------------
(* Every prepared ceremony satisfies the invariant.                        *)
LEMMA InitIInv == Init => IInv
<1> SUFFICES ASSUME Init PROVE IInv OBVIOUS
<1> USE CeremonyAssumption DEF Init
<1>1. PICK c \in Ceremony :
        /\ draft = c.draft /\ held = c.held
        /\ chain = IF c.held = None \/ ~IsMultisig(c.held) THEN <<>> ELSE <<c.held>>
        /\ \E r \in Received(c.draft) \cup {Absent} :
             file = [p \in Path |-> IF p = Inbox THEN r ELSE Absent]
  OBVIOUS
<1>2. draft \in Envelope /\ held \in Envelope \cup {None} BY <1>1
<1>3. file \in [Path -> Envelope \cup {Absent, Torn}] BY <1>1
<1>4. chain \in Seq(Envelope)
  <2>1. CASE c.held = None \/ ~IsMultisig(c.held) BY <1>1, <2>1
  <2>2. CASE ~(c.held = None \/ ~IsMultisig(c.held)) BY <1>1, <2>2
  <2> QED BY <2>1, <2>2
<1>5. Idle \in [pc : {"idle", "merge", "truncate", "write", "put"}, cmd : Command,
                out : Path, bundle : Envelope \cup {None}, proofs : Seq(Path)]
  BY DEF Idle, Command
<1>6. proc = [p \in Process |-> Idle] OBVIOUS
<1>7. TypeOK BY <1>2, <1>3, <1>4, <1>5, <1>6 DEF TypeOK, Idle
<1>8. \A q \in Process : ~Finalizing(q) /\ proc[q].pc # "merge"
  BY <1>6 DEF Finalizing, Idle
<1> QED BY <1>7, <1>8 DEF IInv, Sound

ProcType == [pc : {"idle", "merge", "truncate", "write", "put"}, cmd : Command,
             out : Path, bundle : Envelope \cup {None}, proofs : Seq(Path)]

\* A process takes up a command whose bundle is an envelope, and finalizable
\* if the command is finalize; nothing else changes.
LEMMA Begins ==
  ASSUME IInv, NEW q \in Process, NEW r \in ProcType,
         r.bundle \in Envelope, r.cmd = "finalize" => Finalizable(r.bundle),
         r.pc = "merge" => r.cmd = "merge",
         proc' = [proc EXCEPT ![q] = r], UNCHANGED <<file, draft, held, chain>>
  PROVE  IInv'
<1>1. TypeOK' BY DEF IInv, TypeOK, ProcType
<1>2. \A p \in Process : Sound(p)'
  BY DEF IInv, TypeOK, ProcType, Sound, Finalizing
<1> QED BY <1>1, <1>2 DEF IInv

\* A process ends.
LEMMA Ends ==
  ASSUME IInv, NEW q \in Process, proc' = [proc EXCEPT ![q] = Idle],
         file' \in [Path -> Envelope \cup {Absent, Torn}],
         held' \in Envelope \cup {None}, chain' \in Seq(Envelope), draft' = draft
  PROVE  IInv'
<1>1. Idle \in ProcType
  BY CeremonyAssumption DEF Idle, ProcType, Command
<1>2. TypeOK' BY <1>1 DEF IInv, TypeOK, ProcType, Idle
<1>3. \A p \in Process : Sound(p)'
  BY DEF IInv, TypeOK, Sound, Idle, Finalizing
<1> QED BY <1>2, <1>3 DEF IInv

\* A command goes on with the same bundle.
LEMMA GoesOn ==
  ASSUME IInv, NEW q \in Process, NEW pc \in {"truncate", "write"},
         proc[q].pc # "idle", proc' = [proc EXCEPT ![q].pc = pc],
         file' \in [Path -> Envelope \cup {Absent, Torn}],
         UNCHANGED <<draft, held, chain>>
  PROVE  IInv'
<1>1. TypeOK' BY DEF IInv, TypeOK
<1>2. \A p \in Process : Sound(p)'
  BY DEF IInv, TypeOK, Sound, Finalizing
<1> QED BY <1>1, <1>2 DEF IInv

(* Every command, crash and store preserves the invariant.                 *)
LEMMA Step == IInv /\ [Next]_vars => IInv'
<1> SUFFICES ASSUME IInv, [Next]_vars PROVE IInv' OBVIOUS
<1>0. TypeOK BY DEF IInv
<1>1. CASE UNCHANGED vars
  BY <1>1 DEF vars, IInv, TypeOK, Sound, Finalizing
<1>2. ASSUME NEW q \in Process, NEW out \in Path, Draft(q, out) PROVE IInv'
  <2> DEFINE r == Writes("draft", out, draft)
  <2>1. r \in ProcType /\ r.bundle = draft /\ r.cmd = "draft" /\ r.pc # "merge"
    BY <1>0 DEF TypeOK, Writes, ProcType, Command
  <2> HIDE DEF r
  <2>2. proc' = [proc EXCEPT ![q] = r] /\ UNCHANGED <<file, draft, held, chain>>
    BY <1>2 DEF Draft, Begin, r
  <2>3. draft \in Envelope BY <1>0 DEF TypeOK
  <2> QED BY <2>1, <2>2, <2>3, Begins
<1>3. ASSUME NEW q \in Process, NEW in \in Path, NEW s \in SignerKey, NEW out \in Path,
             Sign(q, in, s, out)
      PROVE  IInv'
  <2> DEFINE e == WithProofs(file[in], {[id |-> s, by |-> s]})
             r == Writes("sign", out, e)
  <2>0. file[in] \in Envelope /\ file[in].proofs = {} /\ s \in file[in].signers
    BY <1>0, <1>3 DEF Sign, Decodes, TypeOK
  <2>1. e \in Envelope BY <2>0, ProofsAssumption
  <2> HIDE DEF e
  <2>2. r \in ProcType /\ r.bundle = e /\ r.cmd = "sign" /\ r.pc # "merge"
    BY <2>1 DEF Writes, ProcType, Command
  <2> HIDE DEF r
  <2>3. proc' = [proc EXCEPT ![q] = r] /\ UNCHANGED <<file, draft, held, chain>>
    BY <1>3 DEF Sign, Begin, r, e
  <2> QED BY <2>1, <2>2, <2>3, Begins
<1>4. ASSUME NEW q \in Process, NEW in \in Path, NEW more \in Path, NEW out \in Path,
             Merge(q, in, <<more>>, out)
      PROVE  IInv'
  <2> DEFINE r == [pc |-> "merge", cmd |-> "merge", out |-> out,
                   bundle |-> file[in], proofs |-> <<more>>]
  <2>0. file[in] \in Envelope BY <1>0, <1>4 DEF Merge, Decodes, TypeOK
  <2>1. r \in ProcType /\ r.bundle = file[in] /\ r.cmd = "merge"
    BY <2>0 DEF ProcType, Command
  <2>2. proc' = [proc EXCEPT ![q] = r] /\ UNCHANGED <<file, draft, held, chain>>
    BY <1>4 DEF Merge, Begin
  <2> HIDE DEF r
  <2> QED BY <2>0, <2>1, <2>2, Begins
<1>5. ASSUME NEW q \in Process, NEW in \in Path, NEW out \in Path, Finalize(q, in, out)
      PROVE  IInv'
  <2> DEFINE r == Writes("finalize", out, file[in])
  <2>0. file[in] \in Envelope /\ Finalizable(file[in])
    BY <1>0, <1>5 DEF Finalize, Decodes, TypeOK
  <2>1. r \in ProcType /\ r.bundle = file[in] /\ r.pc # "merge"
    BY <2>0 DEF Writes, ProcType, Command
  <2> HIDE DEF r
  <2>2. proc' = [proc EXCEPT ![q] = r] /\ UNCHANGED <<file, draft, held, chain>>
    BY <1>5 DEF Finalize, Begin, r
  <2> QED BY <2>0, <2>1, <2>2, Begins
<1>6. ASSUME NEW q \in Process, NEW in \in Path, Put(q, in) PROVE IInv'
  <2> DEFINE r == [pc |-> "put", cmd |-> "put", out |-> in, bundle |-> file[in],
                   proofs |-> <<>>]
  <2>0. file[in] \in Envelope BY <1>0, <1>6 DEF Put, Decodes, TypeOK
  <2>1. r \in ProcType /\ r.bundle = file[in] /\ r.cmd = "put" /\ r.pc # "merge"
    BY <2>0 DEF ProcType, Command
  <2>2. proc' = [proc EXCEPT ![q] = r] /\ UNCHANGED <<file, draft, held, chain>>
    BY <1>6 DEF Put, Begin
  <2> HIDE DEF r
  <2> QED BY <2>0, <2>1, <2>2, Begins
<1>7. ASSUME NEW q \in Process, MergeNext(q) PROVE IInv'
  <2> DEFINE e == proc[q].bundle
             in == Head(proc[q].proofs)
             f == WithProofs(e, file[in].proofs)
             r == [proc[q] EXCEPT !.bundle = f, !.proofs = Tail(@)]
  <2>0. /\ proc[q] \in ProcType /\ proc[q].pc = "merge" /\ proc[q].proofs # <<>>
        /\ e \in Envelope /\ in \in Path
    BY <1>0, <1>7 DEF TypeOK, ProcType, MergeNext
  <2>1. /\ file[in] \in Envelope
        /\ file[in].update = e.update
        /\ \A p \in file[in].proofs : Mergeable(e, p)
    BY <1>0, <1>7, <2>0 DEF TypeOK, MergeNext, Decodes
  <2>2. f \in Envelope BY <2>0, <2>1, ProofsAssumption
  <2>3. proc' = [proc EXCEPT ![q] = r] /\ UNCHANGED <<file, draft, held, chain>>
    BY <1>0, <1>7 DEF MergeNext, TypeOK
  <2>4. Tail(proc[q].proofs) \in Seq(Path) BY <2>0 DEF ProcType
  <2> HIDE DEF f
  <2>5. r \in ProcType /\ r.bundle = f /\ r.cmd = proc[q].cmd
    BY <2>0, <2>2, <2>4 DEF ProcType
  <2>6. proc[q].cmd = "merge" BY <2>0 DEF IInv, Sound
  <2> HIDE DEF r
  <2> QED BY <2>2, <2>3, <2>5, <2>6, Begins
<1>8. ASSUME NEW q \in Process, MergeRead(q) PROVE IInv'
  <2>1. /\ proc[q].pc = "merge" /\ proc' = [proc EXCEPT ![q].pc = "truncate"]
        /\ UNCHANGED <<file, draft, held, chain>>
    BY <1>8 DEF MergeRead
  <2>2. file' \in [Path -> Envelope \cup {Absent, Torn}]
    BY <1>0, <2>1 DEF TypeOK
  <2> QED BY <2>1, <2>2, GoesOn
<1>9. ASSUME NEW q \in Process, Truncate(q) PROVE IInv'
  <2>1. /\ proc[q].pc = "truncate" /\ proc' = [proc EXCEPT ![q].pc = "write"]
        /\ UNCHANGED <<draft, held, chain>>
    BY <1>9 DEF Truncate
  <2>2. file' \in [Path -> Envelope \cup {Absent, Torn}]
    BY <1>0, <1>9 DEF Truncate, TypeOK
  <2> QED BY <2>1, <2>2, GoesOn
<1>10. ASSUME NEW q \in Process, Write(q) PROVE IInv'
  <2>1. proc[q].bundle \in Envelope BY <1>0, <1>10 DEF Write, TypeOK
  <2>2. file' \in [Path -> Envelope \cup {Absent, Torn}]
    BY <1>0, <1>10, <2>1 DEF Write, TypeOK
  <2> QED BY <1>0, <1>10, <2>2, Ends DEF Write, TypeOK
<1>11. ASSUME NEW q \in Process, Abandon(q) PROVE IInv'
  BY <1>0, <1>11, Ends DEF Abandon, TypeOK
<1>12. ASSUME NEW q \in Process, Arrive(q) PROVE IInv'
  <2>1. proc[q].bundle \in Envelope BY <1>0, <1>12 DEF Arrive, TypeOK
  <2>2. held' \in Envelope \cup {None} BY <1>0, <1>12, <2>1 DEF Arrive, TypeOK
  <2>3. chain' \in Seq(Envelope)
    <3> DEFINE e == proc[q].bundle
    <3>1. CASE Accepts(e, held) /\ e.kind = "identity"
      <4>1. IdentityOverwrite(e.key, e, held, chain) BY <3>1 DEF Accepts
      <4>2. AcceptedHistory(e, held, chain) \in Seq(Envelope)
        BY <1>0, <2>1, <4>1, AcceptedIsShown DEF TypeOK
      <4> QED BY <1>12, <3>1, <4>2 DEF Arrive
    <3>2. CASE Accepts(e, held) /\ e.kind # "identity"
      <4>1. chain' = <<e>> BY <1>12, <3>2 DEF Arrive
      <4> QED BY <2>1, <4>1
    <3>3. CASE ~Accepts(e, held)
      BY <1>0, <1>12, <3>3 DEF Arrive, TypeOK
    <3> QED BY <3>1, <3>2, <3>3
  <2> QED BY <1>0, <1>12, <2>2, <2>3, Ends DEF Arrive, TypeOK
<1> QED BY <1>1, <1>2, <1>3, <1>4, <1>5, <1>6, <1>7, <1>8, <1>9, <1>10, <1>11,
           <1>12 DEF Next

(* The invariant holds in every reachable state.                           *)
LEMMA Inductive == Spec => []IInv
BY InitIInv, Step, PTL DEF Spec

-----------------------------------------------------------------------------
(* Files, commands and the holder's state are well typed: whatever is read *)
(* back is an envelope of the ceremony, or refused as torn.                *)
THEOREM TypeCorrect == Spec => []TypeOK
<1>1. IInv => TypeOK BY DEF IInv
<1> QED BY <1>1, Inductive, PTL

(* What finalize writes carries the authorisation its own update asks for, *)
(* in any ceremony and whatever was received, merged or torn before.       *)
THEOREM FinalizedAlwaysAuthorised == Spec => []FinalizedIsAuthorised
<1>1. IInv => FinalizedIsAuthorised
  <2> SUFFICES ASSUME IInv, NEW q \in Process, Finalizing(q)
               PROVE  LET e == proc[q].bundle IN
                      IF e.op = "upgrade" THEN OwnerProof(e) ELSE ThresholdProofs(e, e)
    BY DEF FinalizedIsAuthorised
  <2>1. Finalizable(proc[q].bundle) BY DEF IInv, Sound
  <2>2. proc[q].bundle \in Envelope BY DEF IInv, Sound
  <2> QED BY <2>1, <2>2, FinalizableIsAuthorised
<1> QED BY <1>1, Inductive, PTL

-----------------------------------------------------------------------------
\* What the holder compares does not depend on the proofs, and the proofs of
\* a finalized bundle satisfy the rule of every operation but replace-signers.
LEMMA AcceptsWithOwnProofs ==
  ASSUME NEW e \in Envelope, Finalizable(e), e.op # "replace", NEW x,
         NEW ps \in SUBSET {[id |-> k, by |-> k] : k \in PublicKey},
         Accepts([e EXCEPT !.proofs = ps], x)
  PROVE  Accepts(e, x)
<1> DEFINE g == [e EXCEPT !.proofs = ps]
<1>1. /\ g.form = e.form /\ g.kind = e.kind /\ g.key = e.key /\ g.owner = e.owner
      /\ g.seq = e.seq /\ g.payload = e.payload /\ g.op = e.op /\ g.epoch = e.epoch
      /\ g.threshold = e.threshold /\ g.signers = e.signers /\ g.pred = e.pred
      /\ g.proofs = ps
  BY FieldAssumption DEF Field
<1>2. Accepts(g, x) OBVIOUS
<1> HIDE DEF g
<1>3. e.form = "multisig" /\ e.signers \subseteq PublicKey
  <2>1. e.signers \subseteq PublicKey /\ e.form \in {"legacy", "multisig"}
    BY EnvelopeAssumption DEF Decoded
  <2>2. ASSUME e.form = "legacy" PROVE FALSE
    <3>1. PICK k \in PublicKey : e.proofs = {[id |-> None, by |-> k]}
      BY <2>2, EnvelopeAssumption DEF Decoded
    <3>2. None \in e.signers BY <3>1 DEF Finalizable, ValidProof
    <3> QED BY <2>1, <3>2, EnvelopeAssumption
  <2> QED BY <2>1, <2>2
<1>4. IF e.op = "upgrade" THEN OwnerProof(e) ELSE ThresholdProofs(e, e)
  BY FinalizableIsAuthorised
<1>5. ASSUME NEW k PROVE Genesis(k, g) => Genesis(k, e)
  BY <1>1, <1>4 DEF Genesis, CompleteTwoOfThree
<1>6. ASSUME NEW k, NEW y, OrdinaryUpdate(k, g, y) PROVE OrdinaryUpdate(k, e, y)
  BY <1>1, <1>4, <1>6 DEF OrdinaryUpdate, CommonTransition, ThresholdProofs
<1>7. ASSUME NEW k, NEW y, NEW anchor, RotationFromState(k, g, y, anchor)
      PROVE  RotationFromState(k, e, y, anchor)
  BY <1>1, <1>4, <1>7 DEF RotationFromState, RotationInvariants, ThresholdProofs
<1>8. ASSUME NEW k, NEW y, Upgrade(k, g, y) PROVE Upgrade(k, e, y)
  BY <1>1, <1>4, <1>8 DEF Upgrade, CompleteTwoOfThree
<1>9. ASSUME NEW k, NEW y PROVE ~SignerReplacement(k, g, y) /\ ~RotationFromLegacy(k, g, y)
  <2>1. ~SignerReplacement(k, g, y) BY <1>1 DEF SignerReplacement
  <2>2. [id |-> None, by |-> y.owner] \notin ps
    BY EnvelopeAssumption
  <2>3. ~RotationFromLegacy(k, g, y) BY <1>1, <2>2 DEF RotationFromLegacy
  <2> QED BY <2>1, <2>3
<1>10. ASSUME NEW k, NEW c, Transition(k, g, x, c) PROVE Transition(k, e, x, c)
  <2>1. MultisigUpdate(k, e, x, c)
    BY <1>5, <1>6, <1>7, <1>8, <1>9, <1>10 DEF Transition, MultisigUpdate
  <2>2. x # None /\ IsMultisig(x) => CurrentState(k, e, x, c)
    BY <1>1, <1>10 DEF Transition, CurrentState
  <2> QED BY <1>1, <1>3, <1>10, <2>1, <2>2 DEF Transition, IsMultisig
<1>11. CASE e.kind = "identity"
  BY <1>1, <1>2, <1>3, <1>10, <1>11 DEF Accepts, IdentityOverwrite, IsMultisig
<1>12. CASE e.kind # "identity"
  BY <1>1, <1>2, <1>3, <1>10, <1>12 DEF Accepts, ProviderOverwrite, IsMultisig
<1> QED BY <1>11, <1>12

(* For every operation but replace-signers, a bundle that finalize writes  *)
(* is accepted by a holder that any proofs could make accept its update.   *)
THEOREM FinalizedAlwaysAcceptable == Spec => []FinalizedIsAcceptable
<1>1. IInv => FinalizedIsAcceptable
  <2> SUFFICES ASSUME IInv, NEW q \in Process, Finalizing(q),
                      proc[q].bundle.op # "replace",
                      NEW ps \in SUBSET {[id |-> k, by |-> k] : k \in PublicKey},
                      Accepts([proc[q].bundle EXCEPT !.proofs = ps], held)
               PROVE  Accepts(proc[q].bundle, held)
    BY DEF FinalizedIsAcceptable
  <2>1. proc[q].bundle \in Envelope /\ Finalizable(proc[q].bundle)
    BY DEF IInv, Sound
  <2> QED BY <2>1, AcceptsWithOwnProofs
<1> QED BY <1>1, Inductive, PTL

-----------------------------------------------------------------------------
\* What the holder has asks for two proofs.
HeldAsksForTwo == held # None /\ IsMultisig(held) => held.threshold = 2

\* A transition over a state that asks for two proofs is signed by the keys it
\* asks for, and asks for two itself.
LEMMA AcceptedIsComplete ==
  ASSUME NEW e \in Envelope, NEW x \in Envelope \cup {None}, NEW k, NEW c,
         Transition(k, e, x, c), x # None /\ IsMultisig(x) => x.threshold = 2
  PROVE  e.threshold = 2 /\ (e.op \in Drafted => Complete(e))
<1>1. IsMultisig(e) BY DEF Transition
<1>2. ASSUME NEW y \in Envelope, ThresholdProofs(e, y), y.threshold = 2,
             e.threshold = 2, e.op # "upgrade"
      PROVE  Complete(e)
  BY <1>1, <1>2, OneKeyPerProof DEF ThresholdProofs, Complete
<1>3. CASE x = None
  <2>1. Genesis(k, e) BY <1>3 DEF Transition, MultisigUpdate
  <2> QED BY <1>2, <2>1 DEF Genesis, CompleteTwoOfThree
<1>4. CASE x # None /\ IsMultisig(x)
  <2>1. x \in Envelope /\ x.threshold = 2 BY <1>4
  <2>2. OrdinaryUpdate(k, e, x) \/ SignerReplacement(k, e, x)
        \/ RotationFromState(k, e, x, c[1])
    BY <1>4 DEF Transition, MultisigUpdate
  <2>3. e.threshold = 2
    BY <2>1, <2>2 DEF OrdinaryUpdate, SignerReplacement, RotationFromState,
       CompleteTwoOfThree
  <2>4. ThresholdProofs(e, x) /\ e.op # "upgrade"
    BY <2>2 DEF OrdinaryUpdate, SignerReplacement, RotationFromState,
       RotationInvariants
  <2> QED BY <1>2, <2>1, <2>3, <2>4
<1>5. CASE x # None /\ ~IsMultisig(x)
  <2>1. Upgrade(k, e, x) \/ RotationFromLegacy(k, e, x)
    BY <1>5 DEF Transition, MultisigUpdate
  <2>2. e.threshold = 2
    BY <2>1 DEF Upgrade, RotationFromLegacy, CompleteTwoOfThree
  <2>3. e.op = "rotate" \/ (e.op = "upgrade" /\ OwnerProof(e))
    BY <2>1 DEF Upgrade, RotationFromLegacy, RotationInvariants
  <2> QED BY <2>2, <2>3 DEF Drafted, Complete
<1> QED BY <1>3, <1>4, <1>5

(* What the holder accepts asks for two signers of three again, and a      *)
(* drafted state it takes is complete.                                     *)
LEMMA HeldStep ==
  ASSUME IInv, HeldAsksForTwo, Next
  PROVE  /\ HeldAsksForTwo'
         /\ held' # held /\ held'.op \in Drafted => Complete(held')
<1>1. CASE held' = held
  BY <1>1 DEF HeldAsksForTwo
<1>2. CASE held' # held
  <2>1. PICK q \in Process : Arrive(q)
    BY <1>2 DEF Next, Draft, Sign, Merge, Finalize, Put, Begin, MergeNext,
       MergeRead, Abandon, Truncate, Write
  <2> DEFINE e == proc[q].bundle
  <2>2. e \in Envelope /\ held \in Envelope \cup {None}
    BY <2>1 DEF IInv, TypeOK, Arrive
  <2>3. held' = e /\ Accepts(e, held)
    BY <1>2, <2>1 DEF Arrive
  <2>4. Transition(e.key, e, held, chain) \/ Transition(e.key, e, held, <<>>)
        \/ ~IsMultisig(e)
    BY <2>3 DEF Accepts, IdentityOverwrite, ProviderOverwrite
  <2>5. IsMultisig(e) => e.threshold = 2 /\ (e.op \in Drafted => Complete(e))
    BY <2>2, <2>4, AcceptedIsComplete DEF HeldAsksForTwo
  <2>6. ~IsMultisig(e) => e.op \notin Drafted
    BY <2>2, EnvelopeAssumption DEF Decoded, IsMultisig, Drafted
  <2> QED BY <2>3, <2>5, <2>6 DEF HeldAsksForTwo
<1> QED BY <1>1, <1>2

(* Whatever file is submitted, a holder accepts an update only with the    *)
(* signatures of as many keys as it asks for, or of its legacy owner.      *)
THEOREM PartialAlwaysRejected == Spec => PartialNeverAccepted
<1>1. Init => HeldAsksForTwo
  BY CeremonyAssumption DEF Init, HeldAsksForTwo
<1>2. IInv /\ HeldAsksForTwo /\ [Next]_vars => HeldAsksForTwo'
  <2>1. HeldAsksForTwo /\ UNCHANGED vars => HeldAsksForTwo'
    BY DEF HeldAsksForTwo, vars
  <2> QED BY <2>1, HeldStep
<1>3. IInv /\ HeldAsksForTwo /\ [Next]_vars =>
        [held' # held /\ held'.op \in Drafted => Complete(held')]_vars
  BY HeldStep
<1> QED BY <1>1, <1>2, <1>3, Inductive, PTL DEF Spec, PartialNeverAccepted

=============================================================================

-------------------------- MODULE SigningCeremony ---------------------------
(***************************************************************************)
(* Multisignature Bundles on disk: the bundle draft, sign, merge and       *)
(* finalize commands that signers run against shared files, each a process *)
(* of its own, and the submission of a file's content to a holder of the   *)
(* record, which decides as RecordValidator does.                          *)
(*                                                                         *)
(* A bundle file and a finalized envelope have the same encoding, an       *)
(* envelope of the draft's update with the proofs collected so far, so the *)
(* content of a file is an envelope.  A file is written by truncating it   *)
(* and then writing it; in between, after a crash there, and where two     *)
(* writes overlay each other it is Torn, which no decoder accepts.         *)
(***************************************************************************)
EXTENDS RecordValidator

CONSTANTS
  Process,    \* CLI processes that run at the same time
  Path,       \* the files of the ceremony
  Inbox,      \* one of them, which may hold a bundle received from elsewhere
  SignerKey,  \* the private keys at hand
  Ceremony,   \* [held, draft]: a record at a holder and the update to sign
  Received(_),\* the bundles that may have been received, for a draft
  Absent,
  Torn

(* Every state a holder can have accepted asks for two proofs, because its *)
(* anchor does (_require_complete_2_of_3) and its successors keep that.    *)
ASSUME CeremonyAssumption ==
  /\ Inbox \in Path
  /\ SignerKey \subseteq PublicKey
  /\ Absent \notin Envelope /\ Torn \notin Envelope /\ Absent # Torn
  /\ \A c \in Ceremony :
       /\ c.draft \in Envelope /\ c.held \in Envelope \cup {None}
       /\ Received(c.draft) \subseteq Envelope
       /\ c.held # None /\ IsMultisig(c.held) => c.held.threshold = 2

VARIABLES
  file,   \* the content of each path
  proc,   \* what each process is doing
  draft,  \* the unsigned bundle of the ceremony
  held,   \* the envelope the holder has of the record, None if it has none
  chain   \* its history, for an Identity Record

vars == <<file, proc, draft, held, chain>>

\* cmd is the command, out its --output, bundle the content it has read or
\* made, proofs the --proof files that merge has yet to read.
Idle == [pc |-> "idle", cmd |-> "draft", out |-> Inbox, bundle |-> None,
         proofs |-> <<>>]

Init ==
  /\ \E c \in Ceremony :
       /\ draft = c.draft /\ held = c.held
       /\ chain = IF c.held = None \/ ~IsMultisig(c.held) THEN <<>> ELSE <<c.held>>
       /\ \E r \in Received(c.draft) \cup {Absent} :
            file = [p \in Path |-> IF p = Inbox THEN r ELSE Absent]
  /\ proc = [p \in Process |-> Idle]

-----------------------------------------------------------------------------
(* Bundles.                                                                *)

\* _validate_proof
ValidProof(e, p) == p.id \in e.signers /\ p.by = p.id

\* merge_proof takes p into bundle e
Mergeable(e, p) ==
  /\ \A q \in e.proofs : q.id # p.id
  /\ ValidProof(e, p)

WithProofs(e, ps) == [e EXCEPT !.proofs = @ \cup ps]

\* An envelope is a record with these fields, and every bundle that sign and
\* merge can put together is an envelope.
Field == {"form", "kind", "key", "owner", "seq", "payload", "op", "epoch",
          "threshold", "signers", "pred", "proofs", "update"}

ASSUME FieldAssumption == \A e \in Envelope : DOMAIN e = Field

ASSUME ProofsAssumption ==
  \A e \in Envelope :
    /\ \A s \in SignerKey \cap e.signers :
         e.proofs = {} => WithProofs(e, {[id |-> s, by |-> s]}) \in Envelope
    /\ \A f \in Envelope :
         f.update = e.update /\ (\A p \in f.proofs : Mergeable(e, p)) =>
           WithProofs(e, f.proofs) \in Envelope

Signers(e) == {p.id : p \in e.proofs}

\* Mutants of Finalizable: merged proofs are believed to be valid; an upgrade
\* is finalized like any other update.
FinalizableUnverified(e) ==
  IF e.op = "upgrade" THEN Signers(e) = {e.owner} /\ e.owner \in e.signers
  ELSE Cardinality(Signers(e)) >= e.threshold

FinalizableByThreshold(e) ==
  /\ \A p \in e.proofs : ValidProof(e, p)
  /\ Cardinality(Signers(e)) >= e.threshold

\* finalize_bundle; that no signer occurs twice is part of Decoded
Finalizable(e) ==
  /\ \A p \in e.proofs : ValidProof(e, p)
  /\ IF e.op = "upgrade"
     THEN Cardinality(Signers(e)) = 1 /\ \A p \in e.proofs : p.id = e.owner
     ELSE Cardinality(Signers(e)) >= e.threshold

-----------------------------------------------------------------------------
(* Commands.                                                               *)

Decodes(p) == file[p] \notin {Absent, Torn}

Begin(q, r) ==
  /\ proc[q] = Idle
  /\ proc' = [proc EXCEPT ![q] = r]
  /\ UNCHANGED <<file, draft, held, chain>>

Writes(cmd, out, e) ==
  [pc |-> "truncate", cmd |-> cmd, out |-> out, bundle |-> e, proofs |-> <<>>]

\* _bundle_draft_command
Draft(q, out) == Begin(q, Writes("draft", out, draft))

\* _bundle_sign_command, with private key s; it fails on a bundle that is not
\* decodable or not unsigned, and if s is not of its own signer set
Sign(q, in, s, out) ==
  /\ Decodes(in)
  /\ file[in].proofs = {}
  /\ s \in file[in].signers
  /\ Begin(q, Writes("sign", out, WithProofs(file[in], {[id |-> s, by |-> s]})))

\* _bundle_merge_command reads its --input ...
Merge(q, in, proofs, out) ==
  /\ Decodes(in)
  /\ Begin(q, [pc |-> "merge", cmd |-> "merge", out |-> out,
               bundle |-> file[in], proofs |-> proofs])

\* ... and then one --proof file after the other.
MergeNext(q) ==
  /\ proc[q].pc = "merge" /\ proc[q].proofs # <<>>
  /\ LET e == proc[q].bundle
         in == Head(proc[q].proofs)
     IN  /\ Decodes(in)
         /\ file[in].proofs # {}
         /\ file[in].update = e.update
         /\ \A p \in file[in].proofs : Mergeable(e, p)
         /\ proc' = [proc EXCEPT ![q].bundle = WithProofs(e, file[in].proofs),
                                 ![q].proofs = Tail(@)]
  /\ UNCHANGED <<file, draft, held, chain>>

MergeRead(q) ==
  /\ proc[q].pc = "merge" /\ proc[q].proofs = <<>>
  /\ proc' = [proc EXCEPT ![q].pc = "truncate"]
  /\ UNCHANGED <<file, draft, held, chain>>

\* _bundle_finalize_command
Finalize(q, in, out) ==
  /\ Decodes(in)
  /\ Finalizable(file[in])
  /\ Begin(q, Writes("finalize", out, file[in]))

\* A merge meets a file it must refuse, or a process is killed: nothing of
\* what it has read is written.
Abandon(q) ==
  /\ proc[q] # Idle
  /\ proc' = [proc EXCEPT ![q] = Idle]
  /\ UNCHANGED <<file, draft, held, chain>>

\* _write_cli_bytes opens the file, which empties it, ...
Truncate(q) ==
  /\ proc[q].pc = "truncate"
  /\ file' = [file EXCEPT ![proc[q].out] = Torn]
  /\ proc' = [proc EXCEPT ![q].pc = "write"]
  /\ UNCHANGED <<draft, held, chain>>

\* ... and writes it.  What another process wrote in between may show behind
\* a shorter content.
Write(q) ==
  /\ proc[q].pc = "write"
  /\ \/ file' = [file EXCEPT ![proc[q].out] = proc[q].bundle]
     \/ /\ file[proc[q].out] # Torn
        /\ file' = [file EXCEPT ![proc[q].out] = Torn]
  /\ proc' = [proc EXCEPT ![q] = Idle]
  /\ UNCHANGED <<draft, held, chain>>

\* put --finalized-envelope: any file may be named.
Put(q, in) ==
  /\ Decodes(in)
  /\ Begin(q, [pc |-> "put", cmd |-> "put", out |-> in, bundle |-> file[in],
               proofs |-> <<>>])

\* What a holder with envelope x decides.
Accepts(e, x) ==
  IF e.kind = "identity" THEN IdentityOverwrite(e.key, e, x, chain)
  ELSE ProviderOverwrite(e.key, e, x)

\* The submitted envelope reaches the holder.
Arrive(q) ==
  /\ proc[q].pc = "put"
  /\ LET e == proc[q].bundle IN
     IF Accepts(e, held)
     THEN held' = e /\ chain' = (IF e.kind = "identity"
                                 THEN AcceptedHistory(e, held, chain) ELSE <<e>>)
     ELSE UNCHANGED <<held, chain>>
  /\ proc' = [proc EXCEPT ![q] = Idle]
  /\ UNCHANGED <<file, draft>>

Next ==
  \E q \in Process :
    \/ \E out \in Path :
         \/ Draft(q, out)
         \/ \E in \in Path :
              \/ \E s \in SignerKey : Sign(q, in, s, out)
              \/ \E more \in Path : Merge(q, in, <<more>>, out)
              \/ Finalize(q, in, out)
    \/ \E in \in Path : Put(q, in)
    \/ MergeNext(q) \/ MergeRead(q) \/ Abandon(q)
    \/ Truncate(q) \/ Write(q) \/ Arrive(q)

Spec == Init /\ [][Next]_vars

-----------------------------------------------------------------------------
Command == {"draft", "sign", "merge", "finalize", "put"}

TypeOK ==
  /\ file \in [Path -> Envelope \cup {Absent, Torn}]
  /\ proc \in [Process ->
       [pc : {"idle", "merge", "truncate", "write", "put"}, cmd : Command,
        out : Path, bundle : Envelope \cup {None}, proofs : Seq(Path)]]
  /\ \A q \in Process : proc[q].pc # "idle" => proc[q].bundle \in Envelope
  /\ draft \in Envelope
  /\ held \in Envelope \cup {None}
  /\ chain \in Seq(Envelope)

Finalizing(q) == proc[q].cmd = "finalize"

\* Whatever the finalize command writes carries exactly the authorisation its
\* own update asks for, the proofs being re-checked even though sign and merge
\* have checked theirs: files are edited and exchanged in between
\* (docs: "finalize emits ... only when the required proof rule is met").
FinalizedIsAuthorised ==
  \A q \in Process : Finalizing(q) =>
    LET e == proc[q].bundle IN
    IF e.op = "upgrade" THEN OwnerProof(e) ELSE ThresholdProofs(e, e)

\* The operations the bundle commands can draft (_OPERATION_NAMES).
Drafted == {"genesis", "upgrade", "update", "replace"}

Complete(e) ==
  IF e.op = "upgrade" THEN OwnerProof(e)
  ELSE Cardinality({p.by : p \in e.proofs}) >= e.threshold

\* A partial bundle is never accepted as Registry state, although put takes
\* any file and a forged proof counts until it is verified: as many different
\* keys as the update asks for have signed what the holder accepts
\* (docs: "Partial bundles are never valid Registry state").
PartialNeverAccepted ==
  [][held' # held /\ held'.op \in Drafted => Complete(held')]_vars

\* Finalizing and accepting are implemented twice, in multisig_bundle and in
\* verification.  For anything but replace-signers they agree: if some proofs
\* would make the holder accept the update, those of the finalized bundle do.
FinalizedIsAcceptable ==
  \A q \in Process : Finalizing(q) =>
    LET e == proc[q].bundle
        Acceptable == \E ps \in SUBSET {[id |-> k, by |-> k] : k \in PublicKey} :
                        Accepts([e EXCEPT !.proofs = ps], held)
    IN  e.op # "replace" /\ Acceptable => Accepts(e, held)

=============================================================================

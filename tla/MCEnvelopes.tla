----------------------------- MODULE MCEnvelopes ----------------------------
(***************************************************************************)
(* Pools of envelopes for TLC.  A signed update is its own hash, so hashes *)
(* are collision free by construction.  A pool holds, around every valid   *)
(* envelope, its systematic variations: each field off by one choice from  *)
(* what the rules ask for.                                                 *)
(***************************************************************************)
EXTENDS Naturals, FiniteSets, TLC

CONSTANTS a, b, c, d, o, Zero, None, key, other

Keys == {a, b, c, d, o}
SignersOld == {a, b, c}
SignersNew == {b, c, d}

Proved(id, by) == [id |-> id, by |-> by]
Proofs(S) == {Proved(k, k) : k \in S}

\* The envelope of update u carrying the proofs ps.
Seal(u, ps) ==
  [form |-> u.form, kind |-> u.kind, key |-> u.key, owner |-> u.owner,
   seq |-> u.seq, payload |-> u.payload, op |-> u.op, epoch |-> u.epoch,
   threshold |-> u.threshold, signers |-> u.signers, pred |-> u.pred,
   update |-> u, proofs |-> ps]

\* The update inside envelope e.
Fields(e) == e.update

LegacyUpdateOf(kind, k, owner, seq, payload) ==
  [form |-> "legacy", kind |-> kind, key |-> k, owner |-> owner, seq |-> seq,
   payload |-> payload, op |-> "legacy", epoch |-> 0, threshold |-> 0,
   signers |-> {}, pred |-> Zero]

Legacy(kind, k, owner, seq, payload) ==
  Seal(LegacyUpdateOf(kind, k, owner, seq, payload), {Proved(None, owner)})

GenesisUpdate(kind, k, owner, payload) ==
  [form |-> "multisig", kind |-> kind, key |-> k, owner |-> owner, seq |-> 1,
   payload |-> payload, op |-> "genesis", epoch |-> 1, threshold |-> 2,
   signers |-> SignersOld, pred |-> Zero]

\* A multisignature update over envelope p.
UpdateOver(p, op, seq, owner, epoch, signers, payload) ==
  [form |-> "multisig", kind |-> p.kind, key |-> p.key, owner |-> owner,
   seq |-> seq, payload |-> payload, op |-> op, epoch |-> epoch,
   threshold |-> 2, signers |-> signers, pred |-> p.update]

\* Off-by-one variations of update u made over envelope p.
Variations(u, p) ==
  {u} \cup
  {[u EXCEPT !.seq = s] : s \in {p.seq, p.seq + 2}} \cup
  {[u EXCEPT !.epoch = n] : n \in {p.epoch, p.epoch + 1}} \cup
  {[u EXCEPT !.owner = w] : w \in {a, d}} \cup
  {[u EXCEPT !.signers = S] : S \in {SignersOld, SignersNew}} \cup
  {[u EXCEPT !.signers = {a, b}],
   [u EXCEPT !.threshold = 1],
   [u EXCEPT !.key = other],
   [u EXCEPT !.op = "genesis"],
   [u EXCEPT !.pred = p.pred]}

\* The proof sets that may come with an update by its owner over p.
ProofChoices(owner) ==
  { Proofs({a, b}), Proofs({b, c}), Proofs({c, d}), Proofs({b}),
    Proofs({owner}), {Proved(None, a)}, {Proved(None, d)},
    {Proved(a, a), Proved(b, d)} }

\* What may be offered after p, and the part of it that is worth extending.
Successors(p, ops, payloads) ==
  UNION { LET u == UpdateOver(p, op, p.seq + 1, w,
                              IF op \in {"replace", "upgrade"} THEN p.epoch + 1
                              ELSE IF p.epoch = 0 THEN 1 ELSE p.epoch,
                              S, payload)
          IN  {Seal(v, ps) : v \in Variations(u, p), ps \in ProofChoices(w)}
        : op \in ops, w \in {a, d}, payload \in payloads,
          S \in {SignersOld, SignersNew} }

=============================================================================

-------------------------- MODULE MCProviderLineage -------------------------
(***************************************************************************)
(* ProviderLineage over a pool with legacy records, tombstones and         *)
(* reactivations of two owners, a genesis, and three levels of             *)
(* multisignature successors.                                              *)
(***************************************************************************)
EXTENDS ProviderLineage, TLC

CONSTANTS a, b, c, d, o, key, other

E == INSTANCE MCEnvelopes

MCPublicKey == E!Keys
MCRecordKey == {key, other}

States == {"active", "withdrawn"}

LegacyPool ==
  { E!Legacy("provider", key, w, s, p) : w \in {a, d}, s \in 1..4, p \in States }
  \cup { E!Seal(E!LegacyUpdateOf("provider", key, a, 2, p), {E!Proved(None, b)}) :
           p \in States }

GenesisPool ==
  { E!Seal(E!GenesisUpdate("provider", key, a, p), ps) :
      p \in States, ps \in E!ProofChoices(a) }

Roots == { E!Legacy("provider", key, a, 1, "active"),
           E!Legacy("provider", key, a, 2, "withdrawn"),
           E!Seal(E!GenesisUpdate("provider", key, a, "active"), E!Proofs({a, b})) }

Level1 == UNION {E!Successors(p, {"upgrade", "update", "replace", "rotate"}, States)
                   : p \in Roots}

\* Well-formed successors of p signed by the signers that stay.
Straight(p, ops) ==
  { E!Seal(E!UpdateOver(p, op, p.seq + 1, p.owner,
                        IF op \in {"upgrade", "replace"} THEN p.epoch + 1 ELSE p.epoch,
                        S, payload),
           IF op = "upgrade" THEN E!Proofs({p.owner}) ELSE ps) :
      op \in ops, payload \in States, S \in {E!SignersOld, E!SignersNew},
      ps \in {E!Proofs({a, b}), E!Proofs({b, c}), E!Proofs({c, d})} }

Grow(ps, ops) == UNION {Straight(p, ops) : p \in ps}

Line1 == Straight(E!Legacy("provider", key, a, 1, "active"), {"upgrade"})
         \cup {E!Seal(E!GenesisUpdate("provider", key, a, "active"), E!Proofs({a, b}))}

Kept(ps) == {p \in ps : p.payload = "active" \/ p.op = "update"}

Level2 == Grow(Kept(Line1), {"update", "replace"})
Level3 == Grow({p \in Level2 : p.proofs = E!Proofs({b, c})}, {"update", "replace"})

MCEnvelope == LegacyPool \cup GenesisPool \cup Level1 \cup Level2 \cup Level3

=============================================================================

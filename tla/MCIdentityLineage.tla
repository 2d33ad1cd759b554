-------------------------- MODULE MCIdentityLineage -------------------------
(***************************************************************************)
(* IdentityLineage over a pool with a legacy and a genesis anchor, two     *)
(* levels of successors with all their variations, and a third level of    *)
(* well-formed successors.                                                 *)
(***************************************************************************)
EXTENDS IdentityLineage, TLC

CONSTANTS a, b, c, d, o, key, other

E == INSTANCE MCEnvelopes

MCPublicKey == E!Keys
MCRecordKey == {key, other}

Operations == {"upgrade", "update", "replace", "rotate"}

Anchors ==
  { E!Legacy("identity", key, a, 1, "empty"),
    E!Legacy("identity", other, a, 1, "empty"),
    E!Seal(E!LegacyUpdateOf("identity", key, a, 1, "empty"), {E!Proved(None, b)}),
    E!Legacy("identity", key, a, 2, "empty"),
    E!Legacy("identity", key, d, 3, "empty") }
  \cup {E!Seal(E!GenesisUpdate("identity", key, a, "empty"), ps) :
          ps \in E!ProofChoices(a)}

\* The anchors and successors the rules accept, from which the pool grows.
Roots == { E!Legacy("identity", key, a, 1, "empty"),
           E!Seal(E!GenesisUpdate("identity", key, a, "empty"), E!Proofs({a, b})) }

Level1 == UNION {E!Successors(p, Operations, {"empty"}) : p \in Roots}

Good(p, e) ==
  /\ e.seq = p.seq + 1 /\ e.threshold = 2 /\ e.key = key /\ e.pred = p.update
  /\ \/ HistoryStep(key, E!Legacy("identity", key, a, 1, "empty"), p, e)

Level2 ==
  UNION {UNION {E!Successors(e, Operations \ {"upgrade"}, {"empty"}) :
                  e \in {f \in E!Successors(p, Operations, {"empty"}) : Good(p, f)}} :
           p \in Roots}

Pool == Anchors \cup Level1 \cup Level2

MCEnvelope == Pool

=============================================================================

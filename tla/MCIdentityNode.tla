---------------------------- MODULE MCIdentityNode --------------------------
(***************************************************************************)
(* IdentityNode over a small named pool: a legacy record, its upgrade,     *)
(* successors of the upgrade with two proof sets and with a skipped seq, a *)
(* rotation, and envelopes that do not belong to that line: an update with *)
(* too few proofs, a genesis and a legacy record of higher seq.            *)
(***************************************************************************)
EXTENDS IdentityNode, TLC

CONSTANTS a, b, c, d, o, key, other

E == INSTANCE MCEnvelopes

MCPublicKey == E!Keys
MCRecordKey == {key, other}

TwoOfThree(p, kind, seq, owner, signers, ps) ==
  E!Seal(E!UpdateOver(p, kind, seq, owner, 1, signers, "empty"), ps)

legacy  == E!Legacy("identity", key, a, 2, "empty")
upgrade == TwoOfThree(legacy, "upgrade", 3, a, E!SignersOld, E!Proofs({a}))
update  == TwoOfThree(upgrade, "update", 4, a, E!SignersOld, E!Proofs({a, b}))
variant == TwoOfThree(upgrade, "update", 4, a, E!SignersOld, E!Proofs({b, c}))
rival   == TwoOfThree(upgrade, "update", 5, a, E!SignersOld, E!Proofs({a, b}))
rotation == TwoOfThree(update, "rotate", 5, d, E!SignersOld, E!Proofs({a, b}))
weak    == TwoOfThree(update, "update", 6, a, E!SignersOld, E!Proofs({b}))
genesis == E!Seal([E!GenesisUpdate("identity", key, a, "empty") EXCEPT !.seq = 6],
                  E!Proofs({a, b}))
late    == E!Legacy("identity", key, a, 7, "empty")

Pool == {legacy, upgrade, update, variant, rival, rotation, weak,
               genesis, late}

MCEnvelope == Pool

=============================================================================

---------------------------- MODULE MCProviderNode --------------------------
(***************************************************************************)
(* ProviderNode over a small named pool: legacy active records, tombstones *)
(* and a reactivation of one owner, the upgrade of the first record, its   *)
(* withdrawal with two proof sets, the reactivation of that by new         *)
(* signers, and an ordinary update that forks from the withdrawal.         *)
(***************************************************************************)
EXTENDS ProviderNode, TLC

CONSTANTS a, b, c, d, o, key, other

E == INSTANCE MCEnvelopes

MCPublicKey == E!Keys
MCRecordKey == {key, other}

Single(seq, payload) == E!Legacy("provider", key, a, seq, payload)

TwoOfThree(p, kind, seq, epoch, signers, payload, ps) ==
  E!Seal(E!UpdateOver(p, kind, seq, a, epoch, signers, payload), ps)

active1 == Single(1, "active")
gone2   == Single(2, "withdrawn")
back3   == Single(3, "active")
gone4   == Single(4, "withdrawn")
upgrade == TwoOfThree(active1, "upgrade", 2, 1, E!SignersOld, "active", E!Proofs({a}))
gone3   == TwoOfThree(upgrade, "update", 3, 1, E!SignersOld, "withdrawn", E!Proofs({a, b}))
variant == TwoOfThree(upgrade, "update", 3, 1, E!SignersOld, "withdrawn", E!Proofs({b, c}))
fork4   == TwoOfThree(upgrade, "update", 4, 1, E!SignersOld, "active", E!Proofs({a, b}))
back5   == TwoOfThree(gone3, "replace", 5, 2, E!SignersNew, "active", E!Proofs({b, c}))

Pool == {active1, gone2, back3, gone4, upgrade, gone3, variant,
               fork4, back5}

MCEnvelope == Pool

=============================================================================

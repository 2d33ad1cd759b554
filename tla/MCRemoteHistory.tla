--------------------------- MODULE MCRemoteHistory --------------------------
(***************************************************************************)
(* RemoteHistory over two lines: a legacy record with its upgrade, a       *)
(* rotation with two proof sets and an update, one entry longer than a     *)
(* walk may be; and a genesis with two proof sets and a replacement.       *)
(***************************************************************************)
EXTENDS RemoteHistory, TLC

CONSTANTS a, b, c, d, o, key, other, p1, p2

E == INSTANCE MCEnvelopes

MCPublicKey == E!Keys
MCRecordKey == {key, other}
MCOrder == <<p1, p2>>

Over(p, kind, seq, owner, epoch, signers, ps) ==
  E!Seal(E!UpdateOver(p, kind, seq, owner, epoch, signers, "empty"), E!Proofs(ps))

legacy   == E!Legacy("identity", key, a, 1, "empty")
upgrade  == Over(legacy, "upgrade", 2, a, 1, E!SignersOld, {a})
rotation == Over(upgrade, "rotate", 3, d, 1, E!SignersOld, {a, b})
variant  == Over(upgrade, "rotate", 3, d, 1, E!SignersOld, {b, c})
update   == Over(rotation, "update", 4, d, 1, E!SignersOld, {a, c})
late     == E!Legacy("identity", key, a, 5, "empty")
genesis  == E!Seal(E!GenesisUpdate("identity", key, a, "empty"), E!Proofs({a, b}))
genesis2 == E!Seal(E!GenesisUpdate("identity", key, a, "empty"), E!Proofs({b, c}))
replace  == Over(genesis, "replace", 2, a, 2, E!SignersNew, {a, b})
follow   == Over(replace, "update", 3, a, 2, E!SignersNew, {b, d})

Pool == {legacy, upgrade, rotation, variant, update, late, genesis, genesis2,
         replace, follow}

MCEnvelope == Pool

=============================================================================

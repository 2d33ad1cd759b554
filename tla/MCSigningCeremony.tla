-------------------------- MODULE MCSigningCeremony -------------------------
(***************************************************************************)
(* SigningCeremony for one update of each kind: the genesis of an Identity *)
(* Record, the upgrade of a legacy Provider Record, and an update, a       *)
(* withdrawal and a signer replacement of a multisignature Provider        *)
(* Record.  One more draft asks for a single signature.  A received bundle *)
(* carries a forged proof, or those of two signers, or belongs to another  *)
(* update.                                                                 *)
(***************************************************************************)
EXTENDS SigningCeremony, TLC

CONSTANTS a, b, c, d, o, key, other

E == INSTANCE MCEnvelopes

MCPublicKey == E!Keys
MCRecordKey == {key, other}

Over(p, op, seq, epoch, signers, payload) ==
  E!UpdateOver(p, op, seq, a, epoch, signers, payload)

genesis  == E!GenesisUpdate("identity", key, a, "empty")
single   == [genesis EXCEPT !.threshold = 1]
legacy   == E!Legacy("provider", key, a, 1, "active")
upgrade  == Over(legacy, "upgrade", 2, 1, E!SignersOld, "active")
current  == E!Seal(E!GenesisUpdate("provider", key, a, "active"), E!Proofs({a, b}))
update   == Over(current, "update", 2, 1, E!SignersOld, "active")
withdraw == Over(current, "update", 2, 1, E!SignersOld, "withdrawn")
replace  == Over(current, "replace", 2, 2, E!SignersNew, "active")
stranger == [genesis EXCEPT !.owner = d]

Updates == {genesis, single, upgrade, update, withdraw, replace}

MCSignerKey == {a, b, d}

Forged == E!Proved(a, d)

MCCeremony ==
  {[held |-> None, draft |-> E!Seal(u, {})] : u \in {genesis, single}}
  \cup {[held |-> legacy, draft |-> E!Seal(upgrade, {})]}
  \cup {[held |-> current, draft |-> E!Seal(u, {})] : u \in {update, withdraw, replace}}

ForeignBundle == E!Seal(stranger, E!Proofs({a}))

MCReceived(e) ==
  {[e EXCEPT !.proofs = {Forged}], [e EXCEPT !.proofs = E!Proofs({a, b})], ForeignBundle}

Pool ==
  {legacy, current, ForeignBundle}
  \cup {E!Seal(stranger, E!Proofs(S)) : S \in SUBSET MCSignerKey}
  \cup {E!Seal(u, E!Proofs(S)) : u \in Updates, S \in SUBSET MCSignerKey}
  \cup {E!Seal(u, E!Proofs(S) \cup {Forged}) :
          u \in Updates, S \in SUBSET (MCSignerKey \ {a})}

MCEnvelope == Pool

ProcessSymmetry == Permutations(Process)

=============================================================================

------------------------ MODULE MCServingEligibility ------------------------
(***************************************************************************)
(* ServingEligibility with one peer more than the cache holds.             *)
(***************************************************************************)
EXTENDS ServingEligibility, TLC

PeerSymmetry == Permutations(Peer)

=============================================================================

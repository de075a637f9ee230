----------------------------- MODULE MCEndpoint -----------------------------
(***************************************************************************)
(* The symmetries of Endpoint, for its safety runs: no slot differs from   *)
(* another, and no player.                                                 *)
(***************************************************************************)
EXTENDS Endpoint

EndpointSymmetry == Permutations(Slots) \cup Permutations(Players)

=============================================================================

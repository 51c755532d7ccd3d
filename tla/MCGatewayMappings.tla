------------------------- MODULE MCGatewayMappings -------------------------
(* A small instance of the gateway manager whose tasks overlap, for TLC. *)
EXTENDS GatewayMappings, TLC

\* Client ids are interchangeable (drawn at random).
Symmetry == Permutations(ClientIds)
=============================================================================

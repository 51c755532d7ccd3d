-------------------------- MODULE MCGatewayManager --------------------------
(* Small instances of the gateway manager for TLC. *)
EXTENDS GatewayManagerProperties, TLC

\* Followers are interchangeable, and so are client ids (drawn at random).
Symmetry == Permutations(Followers) \cup Permutations(ClientIds)
=============================================================================

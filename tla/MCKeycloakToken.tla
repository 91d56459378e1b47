--------------------------- MODULE MCKeycloakToken ---------------------------
(* Finite instances of KeycloakToken for TLC. *)
EXTENDS KeycloakToken, TLC

\* Calls are interchangeable (safety runs only).
Symmetry == Permutations(Calls)
==============================================================================

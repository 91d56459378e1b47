-------------------------- MODULE MCKeycloakConnector --------------------------
(* Finite instances of KeycloakConnector for TLC. *)
EXTENDS KeycloakConnector, TLC

CONSTANTS admin, app, web

\* A client that was there before, registered by an administrator.
MCPreexisting == {[uid |-> admin, name |-> app]}

\* Requests are interchangeable (safety runs only).
Symmetry == Permutations(Requests)
==============================================================================

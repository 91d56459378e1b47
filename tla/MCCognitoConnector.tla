-------------------------- MODULE MCCognitoConnector --------------------------
(* Finite instances of CognitoConnector for TLC. *)
EXTENDS CognitoConnector, TLC

CONSTANTS console, app

\* A client that was created in the AWS console.
MCPreexisting == {[uid |-> console, name |-> app]}

\* Requests are interchangeable (safety runs only).
Symmetry == Permutations(Requests)
==============================================================================

---------------------------- MODULE MCOktaConnector ----------------------------
(* Finite instances of OktaConnector for TLC. *)
EXTENDS OktaConnector, TLC

CONSTANTS admin, saml, app

\* An application an administrator created, and one that is not OpenID Connect.
MCPreexisting == {[uid |-> admin, label |-> app], [uid |-> saml, label |-> app]}

\* Requests are interchangeable (safety runs only).
Symmetry == Permutations(Requests)
==============================================================================

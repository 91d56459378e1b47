------------------------------- MODULE MCService -------------------------------
(* Finite instances of Service for TLC. *)
EXTENDS Service

CONSTANTS x, y, z, k1

\* One client was there before; a create registers y or z.
MCNameOf == [c \in {x, y, z} |-> k1]
MCKeysOf == [c \in {x, y, z} |-> {k1}]

Command(connector, given) == [connector |-> connector, given |-> given]

\* Each connector with its options, Okta's token being in the environment;
\* Keycloak without an issuer, and without the management client.
MCDeployments ==
  {Command("keycloak", {"issuer", "client-id", "client-secret"}),
   Command("keycloak", {"client-id", "client-secret"}),
   Command("keycloak", {"issuer"}),
   Command("okta", {"okta-domain"}),
   Command("cognito", {"user-pool-id", "resource-server"})}

\* All is well; the issuer publishes no token endpoint, and the SDK's
\* configuration and the token are missing.
All == {"policy_endpoint", "resource_registration_endpoint", "token_endpoint",
        "OKTA_API_TOKEN", "sdk-config", "port"}
MCWorlds == {All, All \ {"token_endpoint", "sdk-config"}, All \ {"OKTA_API_TOKEN", "port"}}
==============================================================================

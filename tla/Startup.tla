-------------------------------- MODULE Startup --------------------------------
(***************************************************************************)
(* The life of a connector's process: the command line names a connector   *)
(* and its options, the connector validates them, the Keycloak connector   *)
(* asks its issuer for the UMA endpoints, the others set up their SDK, and *)
(* the server listens.  Any failure ends the process (log.Fatal), and      *)
(* Kubernetes starts it again.                                             *)
(*                                                                         *)
(* The world is what the process finds around it: the endpoints its issuer *)
(* publishes (none, when it does not answer, or not with a JSON success),  *)
(* the API token in the environment, an SDK configuration that can be      *)
(* loaded, a port to listen on.  It changes at any time, and the process   *)
(* looks once.                                                             *)
(***************************************************************************)
EXTENDS Naturals

CONSTANTS
  Deployments,  \* commands, as [connector |-> ..., given |-> options on the command line]
  Worlds,       \* what the process may find around it
  MaxKills      \* how often it is ended from outside

Endpoints == {"policy_endpoint", "resource_registration_endpoint", "token_endpoint"}

\* The options that Options.Validate insists on.  Those of Keycloak do not
\* include the id and secret of the management client, which the chart's values
\* call "(Required)": without them the process serves, and every call it makes
\* to Keycloak is answered 500.
Insisted == [keycloak |-> {"issuer"},
             okta |-> {"okta-domain", "api-token"},
             cognito |-> {"user-pool-id", "resource-server"}]

VARIABLES
  deployment,  \* the command that is run
  world,       \* what is around it now
  phase,       \* where ListenAndServe is
  options,     \* the process's Options that are not empty
  endpoints,   \* the process's DiscoveredEndpoints that are not empty
  kills        \* how often the process was ended from outside

vars == <<deployment, world, phase, options, endpoints, kills>>

Running(connector) == deployment.connector = connector
Exit == phase' = "down"

Init ==
  /\ deployment \in Deployments
  /\ world \in Worlds
  /\ phase = "down"
  /\ options = {}
  /\ endpoints = {}
  /\ kills = 0

------------------------------------------------------------------------------
(* Mutant: a process that failed is not started again. *)
LaunchOnce ==
  /\ phase = "down" /\ options = {}
  /\ phase' = "validate"
  /\ options' = deployment.given
  /\ endpoints' = {}
  /\ UNCHANGED <<deployment, world, kills>>

(* The process starts and parses its command line. *)
Launch ==
  /\ phase = "down"
  /\ phase' = "validate"
  /\ options' = deployment.given
  /\ endpoints' = {}
  /\ UNCHANGED <<deployment, world, kills>>

(* Options.Validate; the token of the Okta connector may come from the       *)
(* environment, and is looked for there when the domain is given.            *)
Validate ==
  /\ phase = "validate"
  /\ options' = IF Running("okta") /\ {"okta-domain", "OKTA_API_TOKEN"} \subseteq options \cup world
                THEN options \cup {"api-token"} ELSE options
  /\ \/ ~ Insisted[deployment.connector] \subseteq options' /\ Exit
     \/ /\ Insisted[deployment.connector] \subseteq options'
        /\ phase' = IF Running("keycloak") THEN "discover" ELSE "configure"
  /\ UNCHANGED <<deployment, world, endpoints, kills>>

(* Mutant: the third endpoint is not looked at. *)
DiscoverTwo ==
  /\ phase = "discover"
  /\ endpoints' = Endpoints \cap world
  /\ \/ ~ (Endpoints \ {"token_endpoint"}) \subseteq world /\ Exit
     \/ (Endpoints \ {"token_endpoint"}) \subseteq world /\ phase' = "listen"
  /\ UNCHANGED <<deployment, world, options, kills>>

(* GET /.well-known/uma2-configuration, once. *)
Discover ==
  /\ phase = "discover"
  /\ endpoints' = Endpoints \cap world
  /\ \/ ~ Endpoints \subseteq world /\ Exit
     \/ Endpoints \subseteq world /\ phase' = "listen"
  /\ UNCHANGED <<deployment, world, options, kills>>

(* okta.NewConfiguration, config.LoadDefaultConfig *)
Configure ==
  /\ phase = "configure"
  /\ \/ "sdk-config" \notin world /\ Exit
     \/ "sdk-config" \in world /\ phase' = "listen"
  /\ UNCHANGED <<deployment, world, options, endpoints, kills>>

(* http.Server.ListenAndServe returns at once when it cannot listen. *)
Listen ==
  /\ phase = "listen"
  /\ \/ "port" \notin world /\ Exit
     \/ "port" \in world /\ phase' = "serving"
  /\ UNCHANGED <<deployment, world, options, endpoints, kills>>

(* The process is ended from outside; it handles no signal. *)
Kill ==
  /\ phase # "down"
  /\ kills < MaxKills
  /\ kills' = kills + 1
  /\ Exit
  /\ UNCHANGED <<deployment, world, options, endpoints>>

WorldChanges ==
  /\ world' \in Worlds
  /\ UNCHANGED <<deployment, phase, options, endpoints, kills>>

Advance == Launch \/ Validate \/ Discover \/ Configure \/ Listen

------------------------------------------------------------------------------
(* Whatever process serves has itself found what is not on its command line: *)
(* for Keycloak all three endpoints of the issuer, for Okta the token.  What *)
(* an earlier process found, or the world held when an earlier start failed, *)
(* does not count.                                                           *)
ServesConfigured ==
  phase = "serving" =>
    /\ Running("keycloak") => endpoints = Endpoints
    /\ Running("okta") => "api-token" \in options

\* The command and the world have what this connector needs to start.
Startable ==
  /\ Insisted[deployment.connector] \subseteq
       deployment.given \cup (IF "OKTA_API_TOKEN" \in world THEN {"api-token"} ELSE {})
  /\ (IF Running("keycloak") THEN Endpoints ELSE {"sdk-config"}) \cup {"port"} \subseteq world

(* However often the start failed before: once the world stays in order the  *)
(* service comes up, and stays up.                                           *)
EventuallyServes == <>[]Startable => <>[](phase = "serving")
==============================================================================

----------------------------- MODULE AgentSpec -----------------------------
(***************************************************************************)
(* The spec of a ClusterAgent on its way from a user's manifest to the     *)
(* agent: the schema of the CRD, the admission webhook                     *)
(* (pkg/webhook/clusteragent/webhook.go) and the checks the agent makes    *)
(* when it starts (pkg/agent/config/config.go).                            *)
(*                                                                         *)
(* A field that is absent from the JSON is Unset.  For a Go field tagged   *)
(* omitempty the zero value is absent as well, so the empty string is      *)
(* Unset too.  A DhcpServerConfig is named for what is wrong with it:      *)
(*   complete     nothing                                                  *)
(*   noInterface  dhcpServerInterface is empty                             *)
(*   malformed    subnet, ipRange, gateway or selfIp fails its pattern     *)
(*   otherMask    the masks of selfIp and subnet differ                    *)
(*   blank        every string is empty (what Default fills in)            *)
(*   noLink       the node has no interface of that name                   *)
(*   badOctet     matches the patterns but is no address (300.0.0.0/24)    *)
(***************************************************************************)
EXTENDS Integers

CONSTANT Unset

Ports == 1 .. 65535
Configs == {"complete", "noInterface", "malformed", "otherMask", "blank",
            "noLink", "badOctet"}

Secrets == {Unset, "present", "absent"}

\* ClusterAgentSpec as a user may write it.
Manifest ==
    [underlay : {Unset, "net"}, image : {Unset, "own"}, replicas : Int \cup {Unset},
     endpoint : [port : Int \cup {Unset}, https : BOOLEAN \cup {Unset},
                 secret : Secrets] \cup {Unset},
     feature : [dhcp : BOOLEAN \cup {Unset}, config : Configs \cup {Unset}]
                 \cup {Unset}]

\* ClusterAgentSpec as the API server stores it: the schema has filled in what
\* it has a default for.
AgentSpecs ==
    [underlay : {Unset, "net"}, image : {Unset, "own"}, replicas : Nat,
     endpoint : [port : Ports, https : BOOLEAN, secret : Secrets] \cup {Unset},
     feature : [dhcp : BOOLEAN, config : Configs \cup {Unset}] \cup {Unset}]

\* An absent section is not a section.
ASSUME UnsetAssumption ==
    /\ Unset \notin [port : Int \cup {Unset}, https : BOOLEAN \cup {Unset},
                     secret : Secrets]
    /\ Unset \notin [dhcp : BOOLEAN \cup {Unset}, config : Configs \cup {Unset}]

Or(x, default) == IF x = Unset THEN default ELSE x

-----------------------------------------------------------------------------
(* The API server: structural defaults of the CRD, which it applies to     *)
(* every request and again to what a mutating webhook returns.             *)

SchemaEndpoint(e) == [port |-> Or(e.port, 443), https |-> Or(e.https, TRUE),
                      secret |-> e.secret]
SchemaFeature(f) == [dhcp |-> Or(f.dhcp, TRUE), config |-> f.config]

SchemaDefaults(s) ==
    [underlay |-> s.underlay, image |-> s.image, replicas |-> Or(s.replicas, 1),
     endpoint |-> IF s.endpoint = Unset THEN Unset ELSE SchemaEndpoint(s.endpoint),
     feature |-> IF s.feature = Unset THEN Unset ELSE SchemaFeature(s.feature)]

\* Minimum of replicas and port, Pattern of the DHCP strings.
SchemaValid(s) ==
    /\ s.replicas >= 0
    /\ s.endpoint = Unset \/ s.endpoint.port \in Ports
    /\ s.feature = Unset \/ s.feature.config \notin {"blank", "malformed"}

-----------------------------------------------------------------------------
(* The webhook.                                                            *)

\* Mutant: a missing feature section is left alone.
DefaultNoFeature(s) ==
    [s EXCEPT !.replicas = Or(@, 0),
              !.endpoint = Or(@, [port |-> 0, https |-> FALSE,
                                  secret |-> Unset])]

DefaultFeature(f) ==
    [dhcp |-> f.dhcp,
     config |-> IF f.dhcp = TRUE THEN Or(f.config, "blank") ELSE f.config]

\* ClusterAgentWebhook.Default.
Default(s) ==
    [underlay |-> s.underlay, image |-> s.image, replicas |-> Or(s.replicas, 0),
     endpoint |-> Or(s.endpoint, [port |-> 0, https |-> FALSE, secret |-> Unset]),
     feature |-> DefaultFeature(Or(s.feature, [dhcp |-> FALSE, config |-> Unset]))]

\* json.Marshal leaves out a zero value tagged omitempty.
OmitZero(x, zero) == IF x = zero THEN Unset ELSE x
MarshalEndpoint(e) == [port |-> OmitZero(e.port, 0),
                       https |-> OmitZero(e.https, FALSE), secret |-> e.secret]
MarshalFeature(f) == [dhcp |-> OmitZero(f.dhcp, FALSE), config |-> f.config]

\* What the webhook's patch makes of the object: it removes what json.Marshal
\* leaves out.
Marshal(s) ==
    [underlay |-> s.underlay, image |-> s.image, replicas |-> s.replicas,
     endpoint |-> IF s.endpoint = Unset THEN Unset ELSE MarshalEndpoint(s.endpoint),
     feature |-> IF s.feature = Unset THEN Unset ELSE MarshalFeature(s.feature)]

\* validateClusterAgent, for a valid name.
validateClusterAgent(s) ==
    /\ s.underlay # Unset
    /\ (s.feature # Unset /\ s.feature.dhcp = TRUE) =>
         s.feature.config \notin
           {Unset, "noInterface", "malformed", "otherMask", "blank"}
    /\ s.replicas >= 0

\* Mutant: the patch of the webhook is stored as it is.
AdmitPatched(s) == Marshal(Default(SchemaDefaults(s)))

\* The object the API server stores for a manifest, if it accepts it.
Admit(s) == SchemaDefaults(Marshal(Default(SchemaDefaults(s))))
Admitted(s) == SchemaValid(Admit(s)) /\ validateClusterAgent(Admit(s))

-----------------------------------------------------------------------------
(* The agent.                                                              *)

ValidateEndpointConfig(s) ==
    /\ s.endpoint # Unset
    /\ s.endpoint.port \in Ports
    /\ s.endpoint.secret # "absent"

ValidateFeatureConfig(s) ==
    /\ s.feature # Unset
    /\ s.feature.dhcp = TRUE =>
         s.feature.config \notin {Unset, "noInterface", "blank", "noLink"}

\* LoadAgentConfig returns a configuration; main exits otherwise.
LoadAgentConfig(s) == ValidateEndpointConfig(s) /\ ValidateFeatureConfig(s)

\* dhcpServer.Start parses ipRange and subnet; main exits when it fails.
DhcpConfigParses(s) ==
    s.feature.dhcp = TRUE => s.feature.config # "badOctet"

\* The part of LoadAgentConfig that depends on the spec alone: all of it but
\* the Secret in the cluster and the interface of the node.
SpecLoads(s) ==
    /\ s.endpoint # Unset /\ s.endpoint.port \in Ports
    /\ s.feature # Unset
    /\ s.feature.dhcp = TRUE => s.feature.config \notin
                                  {Unset, "noInterface", "blank"}
=============================================================================

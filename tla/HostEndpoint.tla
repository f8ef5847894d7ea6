---------------------------- MODULE HostEndpoint ----------------------------
(***************************************************************************)
(* HostEndpoints, the static hosts a user declares: the admission webhook  *)
(* (pkg/webhook/hostendpoint/webhook.go, in the controller process) and    *)
(* the controller in the agent that makes a HostStatus for each of them    *)
(* (pkg/agent/hostendpoint/controller.go).                                 *)
(*                                                                         *)
(* The webhook looks for an address that is taken in lists of its informer *)
(* cache, which may miss what was stored last.  The controller makes a     *)
(* HostStatus with two calls, Create and Status().Update, and watches      *)
(* HostEndpoints only: a HostStatus that goes is noticed at a resync.      *)
(***************************************************************************)
EXTENDS BasicInfo

CONSTANTS
    Endpoints,   \* names of HostEndpoints; the HostStatus has the same name
    Leases,      \* names of HostStatus objects made by DHCP discovery
    LeaseIP,     \* the address each of those is named after
    Unset,       \* a field that is not given
    Garbage,     \* what is not an address
    Self,        \* the ClusterAgent of this agent
    AgentSets,   \* the ClusterAgents there may be
    Requests,    \* the specs users write
    MaxWrites,   \* bound: HostEndpoints created, leases new or changed
    MaxTroubles  \* bound: failed calls, restarts, deletions of a HostStatus

Request ==
    [ip : IPs \cup {Garbage}, agent : STRING \cup {Unset},
     secret : {Unset, "own", "nowhere", "incomplete", "half"}]

ASSUME EndpointAssumption ==
    /\ Endpoints \cap Leases = {} /\ LeaseIP \in [Leases -> IPs]
    /\ Garbage \notin IPs
    /\ \A A \in AgentSets : Self \in A /\ A \subseteq STRING
    /\ Self \in STRING /\ Unset \notin STRING
    /\ Requests \subseteq Request
    /\ MaxWrites \in Nat /\ MaxTroubles \in Nat

VARIABLES
    agents,    \* the ClusterAgents
    endpoint,  \* per name: the HostEndpoint
    created,   \* HostEndpoints created so far: the last uid
    status,    \* per name: the HostStatus
    queued,    \* the work queue of the controller
    pc,        \* where handleHostEndpoint is
    cur,       \* the HostEndpoint it handles, with its name
    budget,    \* what is left of the bounds
    raced,     \* history: admitted while the webhook missed a holder of the address
    cut        \* history: status update failed or was never made after a Create

endpointVars == <<agents, endpoint, created, status, queued, pc, cur,
                  budget, raced, cut>>

AllNames == Endpoints \cup Leases

\* A stored HostEndpoint: the webhook has filled in agent and secret.
Stored == [uid : Nat, ip : IPs, agent : STRING, secret : {"own", "agents"}]

\* owner is the uid of the HostEndpoint, 0 for none; basic is None until the
\* status is written.
Status == [owner : Nat, basic : Basic \cup {None}]

EndpointTypeOK ==
    /\ agents \in AgentSets
    /\ endpoint \in [Endpoints -> Stored \cup {None}]
    /\ created \in Nat
    /\ status \in [AllNames -> Status \cup {None}]
    /\ queued \subseteq Endpoints
    /\ pc \in {"idle", "create", "fill"}
    /\ cur \in [name : Endpoints, ep : Stored] \cup {None}
    /\ budget \in [{"write", "trouble"} -> Nat]
    /\ raced \subseteq Endpoints /\ cut \subseteq Endpoints

EndpointInit ==
    /\ agents \in AgentSets
    /\ endpoint = [n \in Endpoints |-> None]
    /\ created = 0
    /\ status = [n \in AllNames |-> None]
    /\ queued = {}
    /\ pc = "idle" /\ cur = None
    /\ budget = [write |-> MaxWrites, trouble |-> MaxTroubles]
    /\ raced = {} /\ cut = {}

Spend(b) == budget[b] > 0 /\ budget' = [budget EXCEPT ![b] = @ - 1]

-----------------------------------------------------------------------------
(* The webhook.                                                            *)

EndpointHas(n, ip) == IF endpoint[n] = None THEN FALSE ELSE endpoint[n].ip = ip
Filled(n) == IF status[n] = None THEN FALSE ELSE status[n].basic # None
StatusHas(n, ip) == IF Filled(n) THEN status[n].basic.ip = ip ELSE FALSE

\* Mutant: the Secret of the ClusterAgent is not filled in.
DefaultNoSecret(r) ==
    [r EXCEPT !.agent = IF @ = Unset /\ agents = {Self} THEN Self ELSE @]

\* HostEndpointWebhook.Default: the only ClusterAgent and its Secret.
Default(r) ==
    IF r.agent = Unset /\ agents = {Self}
      THEN [r EXCEPT !.agent = Self,
                     !.secret = IF @ = Unset THEN "agents" ELSE @]
      ELSE r

\* With a ClusterAgent that is given, or none to choose, and no Secret,
\* Default asks the client to Get into a nil object: always an error.
DefaultFails(r) == r.secret = Unset /\ ~(r.agent = Unset /\ agents = {Self})

\* Mutant: only HostStatuses are looked at.
StatusHolders(n, ip) ==
    {<<"HostStatus", m>> : m \in {m \in AllNames : StatusHas(m, ip)}}

\* The HostEndpoints and HostStatuses that have the address, but for a
\* HostEndpoint of the name itself.
Holders(n, ip) ==
    {<<"HostEndpoint", m>> : m \in {m \in Endpoints \ {n} : EndpointHas(m, ip)}}
    \cup {<<"HostStatus", m>> : m \in {m \in AllNames : StatusHas(m, ip)}}

\* Those of them the webhook's cache does not hold yet.  An informer may lag
\* for any time, so it can miss any of them.
Missed(n, r) == SUBSET Holders(n, r.ip)

validateHostEndpoint(n, r, missed) ==
    /\ r.agent \in agents
    /\ r.ip \in IPs
    /\ Holders(n, r.ip) \subseteq missed
    /\ r.secret \notin {"nowhere", "incomplete", "half"}

\* What the API server stores for an admitted HostEndpoint.
Store(n, r, uid, missed) ==
    /\ Spend("write")
    /\ created' = created + 1
    /\ endpoint' = [endpoint EXCEPT ![n] =
         [uid |-> uid, ip |-> r.ip, agent |-> r.agent, secret |-> r.secret]]
    /\ queued' = queued \cup {n}
    /\ raced' = IF missed = {} THEN raced \ {n} ELSE raced \cup {n}
    /\ cut' = cut \ {n}
    /\ UNCHANGED <<agents, status, pc, cur>>

\* Mutant: ValidateUpdate accepts a change of the spec.
CreateOrEdit(n, r, missed) ==
    /\ ~DefaultFails(r)
    /\ validateHostEndpoint(n, Default(r), missed)
    /\ Store(n, Default(r),
             IF endpoint[n] = None THEN created + 1 ELSE endpoint[n].uid, missed)

\* A user creates a HostEndpoint; ValidateUpdate refuses every update.
CreateEndpoint(n, r, missed) ==
    /\ endpoint[n] = None
    /\ ~DefaultFails(r)
    /\ validateHostEndpoint(n, Default(r), missed)
    /\ Store(n, Default(r), created + 1, missed)

\* ValidateDelete accepts every deletion; Reconcile finds nothing to do for a
\* name that is gone.
DeleteEndpoint(n) ==
    /\ endpoint[n] # None
    /\ endpoint' = [endpoint EXCEPT ![n] = None]
    /\ queued' = queued \ {n}
    /\ raced' = raced \ {n} /\ cut' = cut \ {n}
    /\ UNCHANGED <<agents, created, status, pc, cur, budget>>

-----------------------------------------------------------------------------
(* The cluster.                                                            *)

StatusGone(n) == status' = [status EXCEPT ![n] = None]

\* The HostEndpoint that owns the HostStatus does not exist.
Orphan(n) ==
    /\ status[n] # None
    /\ IF endpoint[n] = None THEN TRUE ELSE endpoint[n].uid # status[n].owner

GarbageCollect(n) ==
    /\ Orphan(n)
    /\ StatusGone(n)
    /\ UNCHANGED <<agents, endpoint, created, queued, pc, cur, budget, raced, cut>>

\* An operator deletes a HostStatus (doc/usage/dhcp.md).
StatusDeleted(n) ==
    /\ status[n] # None
    /\ Spend("trouble")
    /\ StatusGone(n)
    /\ UNCHANGED <<agents, endpoint, created, queued, pc, cur, raced, cut>>

\* DHCP discovery makes, changes or deletes the HostStatus of a lease; how is
\* the subject of DhcpDiscovery.
Discovery(n) ==
    /\ \/ \E mac \in Macs \cup {NoMac} :
            LET new == [owner |-> 0, basic |-> [ip |-> LeaseIP[n], mac |-> mac,
                                                dhcp |-> TRUE]]
            IN  /\ status[n] # new
                /\ status' = [status EXCEPT ![n] = new]
                /\ Spend("write")
       \/ status[n] # None /\ StatusGone(n) /\ UNCHANGED budget
    /\ UNCHANGED <<agents, endpoint, created, queued, pc, cur, raced, cut>>

-----------------------------------------------------------------------------
(* The controller: one worker, one request at a time.                      *)

\* The HostEndpoint exists and is of this agent.
Mine(n) == IF endpoint[n] = None THEN FALSE ELSE endpoint[n].agent = Self

\* Reconcile up to the first call that matters.  For a HostStatus that exists
\* handleHostEndpoint either has nothing to do (specEqual) or writes the new
\* BasicInfo with Update, which does not reach the status subresource: the API
\* server keeps the old one.
Reconcile(n) ==
    /\ pc = "idle"
    /\ n \in queued
    /\ queued' = queued \ {n}
    /\ IF Mine(n) /\ status[n] = None
         THEN pc' = "create" /\ cur' = [name |-> n, ep |-> endpoint[n]]
         ELSE UNCHANGED <<pc, cur>>
    /\ UNCHANGED <<agents, endpoint, created, status, budget, raced, cut>>

\* Mutant: the HostStatus has no owner reference.
CreateUnowned ==
    /\ pc = "create"
    /\ status[cur.name] = None
    /\ status' = [status EXCEPT ![cur.name] = [owner |-> 0, basic |-> None]]
    /\ pc' = "fill"
    /\ UNCHANGED <<agents, endpoint, created, queued, cur, budget,
                   raced, cut>>

CreateStatus ==
    /\ pc = "create"
    /\ status[cur.name] = None
    /\ status' = [status EXCEPT ![cur.name] = [owner |-> cur.ep.uid, basic |-> None]]
    /\ pc' = "fill"
    /\ UNCHANGED <<agents, endpoint, created, queued, cur, budget,
                   raced, cut>>

\* Status().Update of the HostStatus just made.
FillStatus ==
    /\ pc = "fill"
    /\ status[cur.name] # None
    /\ status' = [status EXCEPT ![cur.name].basic =
                    [ip |-> cur.ep.ip, mac |-> NoMac, dhcp |-> FALSE]]
    /\ pc' = "idle" /\ cur' = None
    /\ UNCHANGED <<agents, endpoint, created, queued, budget, raced, cut>>

\* The request is put back; it is for nothing once the HostEndpoint is gone.
Requeue == queued' = queued \cup {n \in {cur.name} : endpoint[n] # None}

\* The HostStatus has been deleted since it was made.
FillGone ==
    /\ pc = "fill"
    /\ status[cur.name] = None
    /\ Requeue
    /\ pc' = "idle" /\ cur' = None
    /\ UNCHANGED <<agents, endpoint, created, status, budget, raced, cut>>

\* The HostEndpoint whose HostStatus stays blank if the worker stops here.
LeftBlank == IF pc # "fill" THEN {}
             ELSE {n \in {cur.name} : endpoint[n] = cur.ep}

\* A call fails: the request is put back.
ReconcileFails ==
    /\ pc # "idle"
    /\ Spend("trouble")
    /\ Requeue
    /\ pc' = "idle" /\ cur' = None
    /\ cut' = cut \cup LeftBlank
    /\ UNCHANGED <<agents, endpoint, created, status, raced>>

Existing == {n \in Endpoints : endpoint[n] # None}

\* The informer replays every object every ten hours; Reconcile finds nothing
\* to do for one of another agent or one that has a HostStatus.
Resync(n) ==
    /\ Mine(n) /\ status[n] = None
    /\ n \notin queued
    /\ queued' = queued \cup {n}
    /\ UNCHANGED <<agents, endpoint, created, status, pc, cur, budget, raced, cut>>

\* The agent is started again: it lists the HostEndpoints.
EndpointRestart ==
    /\ Spend("trouble")
    /\ queued' = Existing
    /\ pc' = "idle" /\ cur' = None
    /\ cut' = cut \cup LeftBlank
    /\ UNCHANGED <<agents, endpoint, created, status, raced>>

Worker == CreateStatus \/ FillStatus \/ FillGone \/ ReconcileFails
=============================================================================

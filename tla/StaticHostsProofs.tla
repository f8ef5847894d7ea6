-------------------------- MODULE StaticHostsProofs --------------------------
(***************************************************************************)
(* Proofs about StaticHosts: its types, what a HostStatus shows of its     *)
(* HostEndpoint, which addresses are held twice, and that the monitor      *)
(* implements BindingSpec.                                                 *)
(***************************************************************************)
EXTENDS StaticHosts, LeaseFileProofs, TLAPS

-----------------------------------------------------------------------------
(* Types.                                                                  *)

\* The empty map is one.
LEMMA NoBindingsType == NoBindings \in Bindings
  BY DEF NoBindings, Bindings

\* The loops of generateConfig make maps from addresses to hardware addresses.
LEMMA PartTypes ==
    ASSUME hosts \in [Hosts -> Basic \cup {None}]
    PROVE  DhcpPart \in Bindings /\ StaticPart \in Bindings
<1>1. NoBindings \in Bindings
  BY NoBindingsType
<1>2. IPsOf(TRUE) \in SUBSET IPs /\ IPsOf(FALSE) \in SUBSET IPs
  BY DEF IPsOf, Clients, Basic
<1>3. ASSUME NEW ip \in IPsOf(TRUE)
      PROVE  hosts[CHOOSE n \in Clients(TRUE) : hosts[n].ip = ip].mac \in AllMacs
  <2> DEFINE m == CHOOSE n \in Clients(TRUE) : hosts[n].ip = ip
  <2>1. m \in Clients(TRUE)
    BY <1>3 DEF IPsOf
  <2>2. hosts[m] \in Basic
    BY <2>1 DEF Clients
  <2> QED
    BY <2>2 DEF Basic, AllMacs
<1>4. ASSUME bind.static PROVE DhcpPart \in [IPsOf(TRUE) -> AllMacs]
  BY <1>3, <1>4 DEF DhcpPart
<1>5. ASSUME bind.static PROVE StaticPart \in [IPsOf(FALSE) -> AllMacs]
  BY <1>5 DEF StaticPart, AllMacs
<1>6. ASSUME ~bind.static PROVE DhcpPart = NoBindings /\ StaticPart = NoBindings
  BY <1>6 DEF DhcpPart, StaticPart
<1> QED
  BY <1>1, <1>2, <1>4, <1>5, <1>6 DEF Bindings

\* Two maps written into one.
LEMMA MergeType ==
    ASSUME NEW d \in Bindings, NEW f \in Bindings
    PROVE  Merge(d, f) \in Bindings
<1>1. PICK S \in SUBSET IPs : d \in [S -> AllMacs]
  BY DEF Bindings
<1>2. PICK T \in SUBSET IPs : f \in [T -> AllMacs]
  BY DEF Bindings
<1>3. Merge(d, f) \in [S \cup T -> AllMacs]
  BY <1>1, <1>2 DEF Merge
<1> QED
  BY <1>3 DEF Bindings

\* The part of a map that is in the subnet is such a map.
LEMMA InSubnetType ==
    ASSUME NEW f \in Bindings
    PROVE  InSubnet(f) \in Bindings
<1>1. PICK S \in SUBSET IPs : f \in [S -> AllMacs]
  BY DEF Bindings
<1>2. DOMAIN f \cap Subnet \in SUBSET IPs
  BY <1>1
<1>3. InSubnet(f) \in [DOMAIN f \cap Subnet -> AllMacs]
  BY <1>1 DEF InSubnet
<1> QED
  BY <1>2, <1>3 DEF Bindings

\* Every step on the bindings keeps their types.
LEMMA BindingTypeStep ==
    ASSUME BindingTypeOK,
           \/ UNCHANGED bindingVars \/ Monitor \/ GenerateFails \/ WriteFails
           \/ DhcpdExits \/ BindingRestart
    PROVE  BindingTypeOK'
<1> USE DEF BindingTypeOK, bindingVars
<1> DEFINE f == Merge(half, StaticPart)
<1>1. DhcpPart \in Bindings /\ f \in Bindings /\ InSubnet(f) \in Bindings
  BY PartTypes, MergeType, InSubnetType
<1>2. NoBindings \in Bindings
  BY NoBindingsType
<1>3. CASE UNCHANGED bindingVars
  BY <1>3
<1>4. CASE Check \/ Compare
  BY <1>1, <1>2, <1>4 DEF Check, Compare
<1>5. CASE Generate
  BY <1>5, <1>1 DEF Generate
<1>w. CASE WriteConfig \/ WriteFails
  <2>1. lastBoundIPList' = f /\ conf' \in {InSubnet(f), Spoilt} /\ half' = NoBindings
    BY <1>w DEF WriteConfig, WriteFails
  <2> QED
    BY <1>w, <1>1, <1>2, <2>1 DEF WriteConfig, WriteFails
<1>6. CASE Launch
  BY <1>6 DEF Launch, Loads
<1>7. CASE GenerateFails
  BY <1>7 DEF GenerateFails
<1>8. CASE DhcpdExits
  BY <1>8 DEF DhcpdExits
<1>9. CASE BindingRestart
  BY <1>9, <1>2 DEF BindingRestart
<1> QED
  BY <1>3, <1>4, <1>5, <1>w, <1>6, <1>7, <1>8, <1>9 DEF Monitor

\* An admitted HostEndpoint is complete: it has an agent and a Secret.
LEMMA AdmittedType ==
    ASSUME EndpointTypeOK, NEW n \in Endpoints, NEW r \in Requests, NEW missed,
           NEW uid \in Nat,
           ~DefaultFails(r), validateHostEndpoint(n, Default(r), missed)
    PROVE  [uid |-> uid, ip |-> Default(r).ip, agent |-> Default(r).agent,
            secret |-> Default(r).secret] \in Stored
<1> DEFINE d == Default(r)
<1>1. r \in Request
  BY EndpointAssumption
<1>2. d.ip \in IPs /\ d.agent \in STRING
  BY EndpointAssumption DEF validateHostEndpoint, EndpointTypeOK
<1>3. d.secret \in {"own", "agents"}
  <2>1. CASE r.agent = Unset /\ agents = {Self}
    BY <2>1, <1>1 DEF Default, Request, validateHostEndpoint
  <2>2. CASE ~(r.agent = Unset /\ agents = {Self})
    BY <2>2, <1>1 DEF Default, DefaultFails, Request, validateHostEndpoint
  <2> QED
    BY <2>1, <2>2
<1> QED
  BY <1>2, <1>3 DEF Stored

\* A spent budget is a budget.
LEMMA SpendType ==
    ASSUME budget \in [{"write", "trouble"} -> Nat], NEW b \in {"write", "trouble"},
           Spend(b)
    PROVE  budget' \in [{"write", "trouble"} -> Nat]
  BY DEF Spend

\* What the steps of users and of the cluster do to the types.
LEMMA OutsideTypeStep ==
    ASSUME EndpointTypeOK, Outside
    PROVE  EndpointTypeOK'
<1> USE DEF EndpointTypeOK
<1>1. ASSUME NEW n \in Endpoints, NEW r \in Requests, NEW missed,
             CreateEndpoint(n, r, missed)
      PROVE  EndpointTypeOK'
  <2>1. [uid |-> created + 1, ip |-> Default(r).ip, agent |-> Default(r).agent,
         secret |-> Default(r).secret] \in Stored
    BY <1>1, AdmittedType DEF CreateEndpoint
  <2> QED
    BY <1>1, <2>1, SpendType DEF CreateEndpoint, Store
<1>2. ASSUME NEW n \in Endpoints, DeleteEndpoint(n) PROVE EndpointTypeOK'
  BY <1>2 DEF DeleteEndpoint
<1>3. ASSUME NEW n \in Endpoints, GarbageCollect(n) PROVE EndpointTypeOK'
  BY <1>3 DEF GarbageCollect, StatusGone
<1>4. ASSUME NEW n \in AllNames, StatusDeleted(n) PROVE EndpointTypeOK'
  BY <1>4, SpendType DEF StatusDeleted, StatusGone
<1>5. ASSUME NEW n \in Leases, Discovery(n) PROVE EndpointTypeOK'
  <2>1. n \in AllNames
    BY DEF AllNames
  <2>2. \A mac \in Macs \cup {NoMac} :
          [owner |-> 0, basic |-> [ip |-> LeaseIP[n], mac |-> mac, dhcp |-> TRUE]]
            \in Status
    BY EndpointAssumption DEF Status, Basic
  <2>3. budget' \in [{"write", "trouble"} -> Nat]
    BY <1>5, SpendType DEF Discovery
  <2>4. status' \in [AllNames -> Status \cup {None}]
    BY <1>5, <2>1, <2>2 DEF Discovery, StatusGone
  <2> QED
    BY <1>5, <2>3, <2>4 DEF Discovery
<1> QED
  BY <1>1, <1>2, <1>3, <1>4, <1>5 DEF Outside

\* The worker holds a HostEndpoint while it is between two calls.
Busy == pc # "idle" => cur \in [name : Endpoints, ep : Stored]

\* What the steps of the controller do to the types.
LEMMA ControllerTypeStep ==
    ASSUME EndpointTypeOK, Busy, EndpointController \/ EndpointRestart
    PROVE  EndpointTypeOK'
<1> USE DEF EndpointTypeOK, Busy
<1>0. ASSUME pc # "idle" PROVE cur.name \in AllNames /\ cur.name \in Endpoints
  BY <1>0 DEF AllNames
<1>1. ASSUME NEW n \in Endpoints, Reconcile(n) PROVE EndpointTypeOK'
  <2>1. Mine(n) => endpoint[n] \in Stored
    BY DEF Mine
  <2> QED
    BY <1>1, <2>1 DEF Reconcile
<1>2. ASSUME NEW n \in Endpoints, Resync(n) PROVE EndpointTypeOK'
  BY <1>2 DEF Resync
<1>3. CASE CreateStatus
  <2>1. [owner |-> cur.ep.uid, basic |-> None] \in Status
    BY <1>3 DEF CreateStatus, Status, Stored
  <2> QED
    BY <1>0, <1>3, <2>1 DEF CreateStatus
<1>4. CASE FillStatus
  <2>1. [ip |-> cur.ep.ip, mac |-> NoMac, dhcp |-> FALSE] \in Basic
    BY <1>4 DEF FillStatus, Basic, Stored
  <2>2. status[cur.name] \in Status
    BY <1>0, <1>4 DEF FillStatus
  <2>3. status' \in [AllNames -> Status \cup {None}]
    BY <1>0, <1>4, <2>1, <2>2 DEF FillStatus, Status
  <2> QED
    BY <1>4, <2>3 DEF FillStatus
<1>5. CASE FillGone
  BY <1>0, <1>5 DEF FillGone, Requeue
<1>6. LeftBlank \subseteq Endpoints
  BY <1>0 DEF LeftBlank
<1>7. CASE ReconcileFails
  BY <1>0, <1>6, <1>7, SpendType DEF ReconcileFails, Requeue
<1>8. CASE EndpointRestart
  BY <1>6, <1>8, SpendType DEF EndpointRestart, Existing
<1> QED
  BY <1>1, <1>2, <1>3, <1>4, <1>5, <1>7, <1>8 DEF EndpointController, Worker

-----------------------------------------------------------------------------
(* The inductive invariant.                                                *)

\* No uid in use is above the last one given out.
UidsGiven ==
    /\ \A n \in Endpoints :
         /\ endpoint[n] # None => endpoint[n].uid <= created
         /\ status[n] # None => status[n].owner <= created
    /\ pc # "idle" => cur.ep.uid <= created

\* The worker's copy agrees with the HostEndpoint it was taken from, and the
\* HostStatus it is about to fill in is the one it has made.
CopyAgrees ==
    /\ (pc # "idle" /\ endpoint[cur.name] # None) =>
         (endpoint[cur.name].uid = cur.ep.uid => endpoint[cur.name].ip = cur.ep.ip)
    /\ (pc = "fill" /\ status[cur.name] # None) =>
         status[cur.name].owner = cur.ep.uid

\* HostEndpoints with the same address: one was admitted behind lagging lists.
EndpointsApart ==
    \A m, n \in Endpoints :
      (m # n /\ endpoint[m] # None /\ endpoint[n] # None
         /\ endpoint[m].ip = endpoint[n].ip) => {m, n} \cap raced # {}

\* dhcpd does not run while its configuration is written, nor when it is about to
\* be launched.
LaunchFromDown == Writing \/ mon = "launch" => dhcpd = Down

EndpointInv ==
    /\ EndpointTypeOK /\ Busy /\ UidsGiven /\ CopyAgrees
    /\ StatusShowsEndpoint /\ EndpointsApart

IInv == EndpointInv /\ BindingTypeOK /\ LaunchFromDown

\* The initial states satisfy it.
LEMMA InitInv == Init => IInv
<1> SUFFICES ASSUME Init PROVE IInv
  OBVIOUS
<1> USE DEF Init, EndpointInit
<1>1. EndpointTypeOK
  BY EndpointAssumption DEF EndpointTypeOK
<1>2. Busy /\ UidsGiven /\ CopyAgrees /\ EndpointsApart
  BY DEF Busy, UidsGiven, CopyAgrees, EndpointsApart, AllNames
<1>3. StatusShowsEndpoint
  BY DEF StatusShowsEndpoint, Shown
<1>4. BindingTypeOK /\ LaunchFromDown
  BY NoBindingsType DEF BindingInit, BindingTypeOK, LaunchFromDown, Writing
<1> QED
  BY <1>1, <1>2, <1>3, <1>4 DEF IInv, EndpointInv

\* Creating a HostEndpoint gives it a uid nothing refers to yet.
LEMMA CreateStep ==
    ASSUME EndpointInv, NEW n \in Endpoints, NEW r \in Requests,
           NEW missed \in Missed(n, r), CreateEndpoint(n, r, missed)
    PROVE  UidsGiven' /\ CopyAgrees' /\ StatusShowsEndpoint' /\ EndpointsApart'
<1> DEFINE d == Default(r)
           new == [uid |-> created + 1, ip |-> d.ip, agent |-> d.agent,
                   secret |-> d.secret]
<1> USE DEF EndpointInv, EndpointTypeOK
<1>1. endpoint' = [endpoint EXCEPT ![n] = new]
  BY DEF CreateEndpoint, Store
<1>2. /\ created' = created + 1 /\ status' = status /\ pc' = pc /\ cur' = cur
      /\ raced' = IF missed = {} THEN raced \ {n} ELSE raced \cup {n}
  BY DEF CreateEndpoint, Store
<1>3. \A m \in Endpoints : m # n => endpoint'[m] = endpoint[m]
  BY <1>1
<1>4. endpoint'[n] = new
  BY <1>1
<1>5. new.uid = created + 1 /\ new.ip = d.ip
  OBVIOUS
<1> HIDE DEF new
<1>6. \A m \in Endpoints : status[m] # None => status[m].owner \in Nat
  BY DEF AllNames, Status
<1>7. \A m \in Endpoints : endpoint[m] # None => endpoint[m].uid \in Nat
  BY DEF Stored
<1>8. pc # "idle" => cur.ep.uid \in Nat /\ cur.name \in Endpoints
  BY DEF Busy, Stored
<1>9. UidsGiven'
  BY <1>2, <1>3, <1>4, <1>5, <1>6, <1>7, <1>8 DEF UidsGiven
<1>10. CopyAgrees'
  BY <1>2, <1>3, <1>4, <1>5, <1>8 DEF CopyAgrees, UidsGiven
<1>11. StatusShowsEndpoint'
  <2> SUFFICES ASSUME NEW m \in Endpoints, Shown(m)'
               PROVE  status'[m].basic.ip = endpoint'[m].ip
    BY DEF StatusShowsEndpoint
  <2>1. m # n
    BY <1>2, <1>4, <1>5, <1>6 DEF Shown, Filled, UidsGiven
  <2>2. Shown(m)
    BY <1>2, <1>3, <2>1 DEF Shown, Filled
  <2> QED
    BY <1>2, <1>3, <2>1, <2>2 DEF StatusShowsEndpoint
<1>12. EndpointsApart'
  <2>1. CASE missed = {}
    <3>1. Holders(n, d.ip) = {}
      BY <2>1 DEF CreateEndpoint, validateHostEndpoint
    <3>2. ASSUME NEW m \in Endpoints, m # n, EndpointHas(m, d.ip) PROVE FALSE
      <4>1. <<"HostEndpoint", m>> \in Holders(n, d.ip)
        <5>1. m \in {x \in Endpoints \ {n} : EndpointHas(x, d.ip)}
          BY <3>2
        <5> HIDE DEF d
        <5> QED
          BY <5>1, Zenon DEF Holders
      <4> QED
        BY <3>1, <4>1
    <3>3. \A m \in Endpoints : (m # n /\ endpoint[m] # None) => endpoint[m].ip # d.ip
      BY <3>2 DEF EndpointHas
    <3> QED
      BY <1>2, <1>3, <1>4, <1>5, <2>1, <3>3 DEF EndpointsApart
  <2>2. CASE missed # {}
    <3> SUFFICES ASSUME NEW m1 \in Endpoints, NEW m2 \in Endpoints, m1 # m2,
                        endpoint'[m1] # None, endpoint'[m2] # None,
                        endpoint'[m1].ip = endpoint'[m2].ip
                 PROVE  {m1, m2} \cap raced' # {}
      BY DEF EndpointsApart
    <3>1. raced' = raced \cup {n}
      BY <1>2, <2>2
    <3>2. CASE n \in {m1, m2}
      BY <3>1, <3>2
    <3>3. CASE n \notin {m1, m2}
      <4>1. {m1, m2} \cap raced # {}
        BY <1>3, <3>3 DEF EndpointsApart
      <4> QED
        BY <3>1, <4>1
    <3> QED
      BY <3>2, <3>3
  <2> QED
    BY <2>1, <2>2
<1> QED
  BY <1>9, <1>10, <1>11, <1>12

\* A step that at most takes away HostEndpoints and HostStatuses.
LEMMA RemovalStep ==
    ASSUME EndpointInv,
           \A m \in Endpoints : endpoint'[m] \in {endpoint[m], None},
           \A m \in Endpoints : status'[m] \in {status[m], None},
           \A m \in Endpoints : endpoint'[m] # None => (m \in raced' <=> m \in raced),
           UNCHANGED <<created, pc, cur>>
    PROVE  UidsGiven' /\ CopyAgrees' /\ StatusShowsEndpoint' /\ EndpointsApart'
<1> USE DEF EndpointInv, EndpointTypeOK
<1>1. pc # "idle" => cur.name \in Endpoints
  BY DEF Busy
<1>2. UidsGiven'
  BY DEF UidsGiven
<1>3. CopyAgrees'
  BY <1>1 DEF CopyAgrees
<1>4. StatusShowsEndpoint'
  BY DEF StatusShowsEndpoint, Shown, Filled
<1>5. EndpointsApart'
  <2> SUFFICES ASSUME NEW m \in Endpoints, NEW n \in Endpoints, m # n,
                      endpoint'[m] # None, endpoint'[n] # None,
                      endpoint'[m].ip = endpoint'[n].ip
               PROVE  {m, n} \cap raced' # {}
    BY DEF EndpointsApart
  <2>1. {m, n} \cap raced # {}
    BY DEF EndpointsApart
  <2> QED
    BY <2>1
<1> QED
  BY <1>2, <1>3, <1>4, <1>5

\* The invariant under the steps of users and of the cluster.
LEMMA OutsideStep ==
    ASSUME EndpointInv, Outside
    PROVE  EndpointInv'
<1>1. EndpointTypeOK'
  BY OutsideTypeStep DEF EndpointInv
<1>2. UNCHANGED <<pc, cur>>
  BY DEF Outside, CreateEndpoint, Store, DeleteEndpoint, GarbageCollect,
         StatusDeleted, Discovery
<1>3. Busy'
  BY <1>2 DEF EndpointInv, Busy
<1> DEFINE Rest == UidsGiven' /\ CopyAgrees' /\ StatusShowsEndpoint' /\ EndpointsApart'
<1>4. ASSUME NEW n \in Endpoints, NEW r \in Requests, NEW missed \in Missed(n, r),
             CreateEndpoint(n, r, missed)
      PROVE  Rest
  BY <1>4, CreateStep
<1> USE DEF EndpointInv, EndpointTypeOK
<1>5. ASSUME NEW n \in Endpoints, DeleteEndpoint(n) PROVE Rest
  <2>1. /\ \A m \in Endpoints : endpoint'[m] \in {endpoint[m], None}
        /\ \A m \in Endpoints : endpoint'[m] # None => (m \in raced' <=> m \in raced)
        /\ UNCHANGED <<created, status, pc, cur>>
    BY <1>5 DEF DeleteEndpoint
  <2> QED
    BY <2>1, RemovalStep
<1>6. ASSUME NEW n \in AllNames, StatusGone(n),
             UNCHANGED <<endpoint, created, pc, cur, raced>>
      PROVE  Rest
  <2>1. \A m \in Endpoints : status'[m] \in {status[m], None}
    BY <1>6 DEF StatusGone, AllNames
  <2> QED
    BY <1>6, <2>1, RemovalStep
<1>7. ASSUME NEW n \in Endpoints, GarbageCollect(n) PROVE Rest
  BY <1>6, <1>7 DEF GarbageCollect, AllNames
<1>8. ASSUME NEW n \in AllNames, StatusDeleted(n) PROVE Rest
  BY <1>6, <1>8 DEF StatusDeleted
<1>9. ASSUME NEW n \in Leases, Discovery(n) PROVE Rest
  <2>1. \A m \in Endpoints : m # n /\ m \in AllNames
    BY EndpointAssumption DEF AllNames
  <2>2. \A m \in Endpoints : status'[m] = status[m]
    BY <1>9, <2>1 DEF Discovery, StatusGone
  <2>3. UNCHANGED <<endpoint, created, pc, cur, raced>>
    BY <1>9 DEF Discovery
  <2> QED
    BY <2>2, <2>3, RemovalStep
<1> QED
  BY <1>1, <1>3, <1>4, <1>5, <1>7, <1>8, <1>9 DEF Outside

\* The invariant under the steps of the controller and a restart of the agent.
LEMMA ControllerStep ==
    ASSUME EndpointInv, EndpointController \/ EndpointRestart
    PROVE  EndpointInv'
<1>1. EndpointTypeOK'
  BY ControllerTypeStep DEF EndpointInv
<1> USE DEF EndpointInv, EndpointTypeOK
<1>2. UNCHANGED <<endpoint, created, raced>>
  BY DEF EndpointController, EndpointRestart, Reconcile, Resync, Worker, CreateStatus,
         FillStatus, FillGone, ReconcileFails
<1>3. EndpointsApart'
  BY <1>2 DEF EndpointsApart
<1> DEFINE Rest == Busy' /\ UidsGiven' /\ CopyAgrees' /\ StatusShowsEndpoint'
<1>4. ASSUME UNCHANGED status, UNCHANGED <<pc, cur>> \/ pc' = "idle" PROVE Rest
  <2>1. Busy' /\ UidsGiven' /\ CopyAgrees'
    BY <1>2, <1>4 DEF Busy, UidsGiven, CopyAgrees
  <2>2. StatusShowsEndpoint'
    BY <1>2, <1>4 DEF StatusShowsEndpoint, Shown, Filled
  <2> QED
    BY <2>1, <2>2
<1>5. ASSUME NEW n \in Endpoints, Reconcile(n) PROVE Rest
  <2>1. CASE Mine(n) /\ status[n] = None
    <3>1. /\ UNCHANGED status
          /\ pc' = "create" /\ cur' = [name |-> n, ep |-> endpoint[n]]
      BY <1>5, <2>1 DEF Reconcile
    <3>2. endpoint[n] \in Stored /\ endpoint[n] # None
      BY <2>1 DEF Mine
    <3>3. Busy' /\ UidsGiven' /\ CopyAgrees'
      BY <1>2, <3>1, <3>2 DEF Busy, UidsGiven, CopyAgrees
    <3>4. StatusShowsEndpoint'
      BY <1>2, <3>1 DEF StatusShowsEndpoint, Shown, Filled
    <3> QED
      BY <3>3, <3>4
  <2>2. CASE ~(Mine(n) /\ status[n] = None)
    BY <1>4, <1>5, <2>2 DEF Reconcile
  <2> QED
    BY <2>1, <2>2
<1>6. ASSUME NEW n \in Endpoints, Resync(n) PROVE Rest
  BY <1>4, <1>6 DEF Resync
<1>7. ASSUME CreateStatus PROVE Rest
  <2> DEFINE new == [owner |-> cur.ep.uid, basic |-> None]
  <2>1. cur.name \in Endpoints /\ cur.name \in AllNames
    BY <1>7 DEF CreateStatus, Busy, AllNames
  <2>2. status' = [status EXCEPT ![cur.name] = new] /\ pc' = "fill" /\ cur' = cur
    BY <1>7 DEF CreateStatus
  <2>3. status'[cur.name] = new /\ new.owner = cur.ep.uid /\ new.basic = None
    BY <2>1, <2>2
  <2>4. \A m \in Endpoints : m # cur.name => status'[m] = status[m]
    BY <2>2 DEF AllNames
  <2>5. pc = "create"
    BY <1>7 DEF CreateStatus
  <2> HIDE DEF new
  <2>6. Busy' /\ UidsGiven' /\ CopyAgrees'
    BY <1>2, <2>1, <2>2, <2>3, <2>4, <2>5 DEF Busy, UidsGiven, CopyAgrees
  <2>7. StatusShowsEndpoint'
    BY <1>2, <2>3, <2>4 DEF StatusShowsEndpoint, Shown, Filled
  <2> QED
    BY <2>6, <2>7
<1>8. ASSUME FillStatus PROVE Rest
  <2> DEFINE basic == [ip |-> cur.ep.ip, mac |-> NoMac, dhcp |-> FALSE]
  <2>1. cur.name \in Endpoints /\ cur.name \in AllNames /\ pc = "fill"
    BY <1>8 DEF FillStatus, Busy, AllNames
  <2>2. status[cur.name] \in Status /\ status[cur.name] # None
    BY <1>8, <2>1 DEF FillStatus
  <2>3. /\ status' = [status EXCEPT ![cur.name].basic = basic]
        /\ pc' = "idle"
    BY <1>8 DEF FillStatus
  <2>4. /\ status'[cur.name].owner = status[cur.name].owner
        /\ status'[cur.name].basic = basic
    BY <2>1, <2>2, <2>3 DEF Status
  <2>5. basic.ip = cur.ep.ip
    OBVIOUS
  <2>6. \A m \in Endpoints : m # cur.name => status'[m] = status[m]
    BY <2>3 DEF AllNames
  <2> HIDE DEF basic
  <2>7. status[cur.name].owner = cur.ep.uid
    BY <2>1, <2>2 DEF CopyAgrees
  <2>8. Busy' /\ UidsGiven' /\ CopyAgrees'
    BY <1>2, <2>1, <2>2, <2>3, <2>4, <2>6 DEF Busy, UidsGiven, CopyAgrees
  <2>9. StatusShowsEndpoint'
    <3> SUFFICES ASSUME NEW m \in Endpoints, Shown(m)'
                 PROVE  status'[m].basic.ip = endpoint[m].ip
      BY <1>2 DEF StatusShowsEndpoint
    <3>1. CASE m = cur.name
      BY <1>2, <2>1, <2>4, <2>5, <2>7, <3>1 DEF Shown, CopyAgrees
    <3>2. CASE m # cur.name
      BY <1>2, <2>6, <3>2 DEF Shown, Filled, StatusShowsEndpoint
    <3> QED
      BY <3>1, <3>2
  <2> QED
    BY <2>8, <2>9
<1>9. ASSUME FillGone \/ ReconcileFails \/ EndpointRestart PROVE Rest
  BY <1>4, <1>9 DEF FillGone, ReconcileFails, EndpointRestart
<1> QED
  BY <1>1, <1>3, <1>5, <1>6, <1>7, <1>8, <1>9 DEF EndpointController, Worker

\* The bindings' part of the invariant under every step.
LEMMA BindingStep ==
    ASSUME BindingTypeOK, LaunchFromDown, EndpointTypeOK, [Next]_vars
    PROVE  BindingTypeOK' /\ LaunchFromDown'
<1> DEFINE Moves == \/ UNCHANGED bindingVars \/ Monitor \/ GenerateFails
                    \/ WriteFails \/ DhcpdExits \/ BindingRestart
<1>1. ASSUME Moves PROVE BindingTypeOK'
  BY <1>1, BindingTypeStep
<1>2. ASSUME Moves PROVE LaunchFromDown'
  BY <1>2 DEF LaunchFromDown, Writing, bindingVars, Monitor, Check, Compare,
              Generate, WriteConfig, Launch, GenerateFails, WriteFails, DhcpdExits,
              BindingRestart
<1>3. ASSUME NEW n \in AllNames, CacheHost(n)
      PROVE  BindingTypeOK' /\ LaunchFromDown'
  <2>1. n \in Hosts
    BY StaticHostsAssumption
  <2>2. CachedAs(n) \in Basic \cup {None}
    BY <2>1 DEF CachedAs, EndpointTypeOK, BindingTypeOK, Status
  <2> QED
    BY <1>3, <2>1, <2>2 DEF CacheHost, BindingTypeOK, LaunchFromDown, Writing
<1>4. CASE Outside \/ EndpointController \/ UNCHANGED vars
  BY <1>1, <1>2, <1>4 DEF Outside, EndpointController, vars
<1>5. CASE Monitor \/ Faults \/ BindingRestart
  BY <1>1, <1>2, <1>5 DEF Faults
<1> QED
  BY <1>3, <1>4, <1>5 DEF Next

\* Faults of dhcpd leave everything about HostEndpoints alone.
LEMMA AloneStep ==
    ASSUME EndpointInv,
           UNCHANGED <<agents, endpoint, created, status, queued, pc, cur, raced, cut>>,
           budget' \in [{"write", "trouble"} -> Nat]
    PROVE  EndpointInv'
<1>1. EndpointTypeOK' /\ Busy' /\ UidsGiven' /\ CopyAgrees' /\ EndpointsApart'
  BY DEF EndpointInv, EndpointTypeOK, Busy, UidsGiven, CopyAgrees, EndpointsApart
<1>2. StatusShowsEndpoint'
  BY DEF EndpointInv, StatusShowsEndpoint, Shown, Filled
<1> QED
  BY <1>1, <1>2 DEF EndpointInv

\* The invariant is inductive.
LEMMA NextInv == IInv /\ [Next]_vars => IInv'
<1> SUFFICES ASSUME IInv, [Next]_vars PROVE IInv'
  OBVIOUS
<1>0. EndpointInv /\ EndpointTypeOK
  BY DEF IInv, EndpointInv
<1>1. BindingTypeOK' /\ LaunchFromDown'
  BY <1>0, BindingStep DEF IInv
<1>2. CASE Outside
  BY <1>0, <1>1, <1>2, OutsideStep DEF IInv
<1>3. CASE EndpointController \/ EndpointRestart
  BY <1>0, <1>1, <1>3, ControllerStep DEF IInv
<1>4. CASE UNCHANGED endpointVars
  <2>1. budget' \in [{"write", "trouble"} -> Nat]
    BY <1>0, <1>4 DEF EndpointTypeOK, endpointVars
  <2> QED
    BY <1>0, <1>1, <1>4, <2>1, AloneStep DEF IInv, endpointVars
<1>5. CASE Faults /\ UNCHANGED <<agents, endpoint, created, status, queued,
                             pc, cur, raced, cut>>
  <2>1. budget' \in [{"write", "trouble"} -> Nat]
    BY <1>0, <1>5, SpendType DEF EndpointTypeOK, Faults
  <2> QED
    BY <1>0, <1>1, <1>5, <2>1, AloneStep DEF IInv
<1> QED
  BY <1>2, <1>3, <1>4, <1>5 DEF Next, CacheHost, vars

-----------------------------------------------------------------------------
(* The theorems.                                                           *)

\* The invariant holds in every reachable state.
LEMMA AlwaysInv == Spec => []IInv
  BY InitInv, NextInv, PTL DEF Spec

\* Types: in particular every stored HostEndpoint has an agent and a Secret, so
\* the pointers handleHostEndpoint dereferences are never nil.
THEOREM TypesHold == Spec => []TypeOK
<1>1. IInv => TypeOK
  BY DEF IInv, EndpointInv, TypeOK
<1> QED
  BY <1>1, AlwaysInv, PTL

\* For any number of HostEndpoints, addresses and faults, a HostStatus shows
\* the address of the HostEndpoint it was made for.
THEOREM StatusIsTrue == Spec => []StatusShowsEndpoint
<1>1. IInv => StatusShowsEndpoint
  BY DEF IInv, EndpointInv
<1> QED
  BY <1>1, AlwaysInv, PTL

\* Two live static hosts share an address only by a lagging list of the webhook.
THEOREM OneHolder == Spec => []AddressHeldOnce
<1>1. IInv => AddressHeldOnce
  BY DEF IInv, EndpointInv, AddressHeldOnce, EndpointsApart, StatusShowsEndpoint,
         Shown
<1> QED
  BY <1>1, AlwaysInv, PTL

\* The monitor, generateConfig and the launch of dhcpd implement BindingSpec:
\* every step is a step of it or leaves its variables alone.
THEOREM BindingsRefine == Spec => ImplementsBindings
<1> DEFINE dynamic == InSubnet(DhcpPart)
           static == InSubnet(StaticPart)
           taken == IF Writing THEN {InSubnet(half)} ELSE {}
           Map == B!Next \/ UNCHANGED <<dynamic, static, taken, conf, dhcpd>>
<1>1. Init => B!Init
  BY DEF Init, BindingInit, B!Init, Writing
<1>2. ASSUME UNCHANGED <<bind, hosts>>
      PROVE  dynamic' = dynamic /\ static' = static
  <2>1. DhcpPart' = DhcpPart /\ StaticPart' = StaticPart
    BY <1>2 DEF DhcpPart, StaticPart, Clients, IPsOf
  <2> QED
    BY <2>1 DEF InSubnet
<1>3. ASSUME UNCHANGED <<mon, half>> PROVE taken' = taken
  BY <1>3 DEF Writing, InSubnet
<1>4. ASSUME IInv, [Next]_vars PROVE Map
  <2>1. CASE UNCHANGED bindingVars
    BY <1>2, <1>3, <2>1 DEF bindingVars
  <2>2. ASSUME NEW n \in AllNames, CacheHost(n) PROVE Map
    <3>1. UNCHANGED <<mon, half, conf, dhcpd>>
      BY <2>2 DEF CacheHost
    <3>2. taken' = taken
      BY <1>3, <3>1
    <3> QED
      BY <3>1, <3>2 DEF B!Next, B!Change
  <2>3. CASE Check \/ Compare
    <3>1. UNCHANGED <<bind, hosts, conf, dhcpd>> /\ ~Writing /\ ~Writing'
      BY <2>3 DEF Check, Compare, Writing
    <3>2. taken' = taken
      BY <3>1
    <3> QED
      BY <1>2, <3>1, <3>2
  <2>4. CASE Generate
    <3>1. /\ dhcpd' = Down /\ conf' = Spoilt /\ half' = DhcpPart /\ Writing'
          /\ UNCHANGED <<bind, hosts>>
      BY <2>4 DEF Generate, Writing
    <3>2. taken' = {dynamic}
      BY <3>1 DEF InSubnet
    <3> QED
      BY <1>2, <3>1, <3>2 DEF B!Next, B!Begin
  <2>5. CASE WriteConfig \/ WriteFails
    <3>1. /\ Writing /\ ~Writing' /\ UNCHANGED <<bind, hosts, dhcpd>> /\ dhcpd = Down
          /\ conf' \in {InSubnet(Merge(half, StaticPart)), Spoilt}
      BY <1>4, <2>5 DEF WriteConfig, WriteFails, Writing, IInv, LaunchFromDown
    <3>2. taken = {InSubnet(half)} /\ taken' = {}
      BY <3>1
    <3>3. InSubnet(Merge(half, StaticPart)) = B!Both(InSubnet(half), static)
      BY DEF InSubnet, Merge, B!Both
    <3> HIDE DEF dynamic, static, taken
    <3>4. \E d \in taken : conf' \in {B!Both(d, static), Spoilt}
      BY <3>1, <3>2, <3>3
    <3>5. dynamic' = dynamic /\ static' = static
      BY <1>2, <3>1
    <3> QED
      BY <3>1, <3>2, <3>4, <3>5 DEF B!Next, B!Write, dynamic, static, taken
  <2>6. CASE Launch
    <3>1. /\ ~Writing /\ ~Writing' /\ UNCHANGED <<bind, hosts, conf>> /\ dhcpd = Down
          /\ dhcpd' = IF Loads(conf) THEN conf ELSE Down
      BY <1>4, <2>6 DEF Launch, Writing, IInv, LaunchFromDown
    <3>2. taken = {} /\ taken' = {}
      BY <3>1
    <3> QED
      BY <1>2, <3>1, <3>2 DEF B!Next, B!Serve
  <2>7. CASE DhcpdExits \/ GenerateFails \/ BindingRestart
    <3>1. dhcpd' = Down /\ UNCHANGED conf
          /\ (UNCHANGED <<mon, half>> \/ ~Writing')
      BY <2>7 DEF DhcpdExits, GenerateFails, BindingRestart, Writing
    <3>2. taken' \in {taken, {}}
      BY <1>3, <3>1
    <3> QED
      BY <3>1, <3>2 DEF B!Next, B!Halt
  <2>8. CASE Outside \/ EndpointController \/ UNCHANGED vars
    BY <2>1, <2>8 DEF Outside, EndpointController, vars
  <2> QED
    BY <1>4, <2>2, <2>3, <2>4, <2>5, <2>6, <2>7, <2>8 DEF Next, Monitor, Faults
<1> QED
  BY <1>1, <1>4, AlwaysInv, PTL DEF Spec, ImplementsBindings, B!Spec

-----------------------------------------------------------------------------
(* What a running dhcpd serves.                                            *)

\* lastBoundIPList describes the file dhcpd is about to read and what a running
\* dhcpd has read, and is empty while nothing is to be bound.
Remembered ==
    /\ mon = "launch" => conf = InSubnet(lastBoundIPList)
    /\ dhcpd # Down => dhcpd = InSubnet(lastBoundIPList)
    /\ ~bind.static => lastBoundIPList = NoBindings /\ half = NoBindings

\* Nothing is bound without EnableBindStaticIP.
LEMMA NothingBound ==
    ~bind.static => DhcpPart = NoBindings /\ Merge(NoBindings, StaticPart) = NoBindings
<1> SUFFICES ASSUME ~bind.static
             PROVE  DhcpPart = NoBindings /\ Merge(NoBindings, StaticPart) = NoBindings
  OBVIOUS
<1>1. DhcpPart = NoBindings /\ StaticPart = NoBindings
  BY DEF DhcpPart, StaticPart
<1>2. Merge(NoBindings, NoBindings) = NoBindings
  BY DEF Merge, NoBindings
<1> QED
  BY <1>1, <1>2

LEMMA RememberedStep == IInv /\ Remembered /\ [Next]_vars => Remembered'
<1> SUFFICES ASSUME IInv, Remembered, [Next]_vars PROVE Remembered'
  OBVIOUS
<1>1. CASE Check \/ Compare \/ Generate
  BY <1>1, NothingBound DEF Check, Compare, Generate, Remembered
<1>2. CASE WriteConfig \/ WriteFails
  <2>1. /\ lastBoundIPList' = Merge(half, StaticPart) /\ half' = NoBindings
        /\ dhcpd = Down /\ UNCHANGED <<bind, dhcpd>>
        /\ mon' = "launch" => conf' = InSubnet(lastBoundIPList)'
    BY <1>2 DEF WriteConfig, WriteFails, IInv, LaunchFromDown, Writing, InSubnet
  <2> QED
    BY <2>1, NothingBound DEF Remembered
<1>3. CASE GenerateFails
  BY <1>3 DEF GenerateFails, Remembered
<1>4. CASE Launch
  BY <1>4 DEF Launch, Remembered
<1>5. CASE DhcpdExits \/ BindingRestart
  BY <1>5 DEF DhcpdExits, BindingRestart, Remembered
<1>6. CASE UNCHANGED <<bind, lastBoundIPList, conf, dhcpd, mon, half>>
  BY <1>6 DEF Remembered
<1> QED
  BY <1>1, <1>2, <1>3, <1>4, <1>5, <1>6
     DEF Next, Outside, EndpointController, CacheHost, Monitor, Faults, vars,
         bindingVars

\* A running dhcpd that serves other reservations than the code makes of the
\* cached hosts is always noticed by the next check of the monitor, for any hosts,
\* addresses and configurations and whatever failed on the way.
THEOREM NeverSilentlyStale == Spec => []StaleIsNoticed
<1>1. Init => Remembered
  BY DEF Init, BindingInit, Remembered
<1>2. Remembered => StaleIsNoticed
  <2> SUFFICES ASSUME Remembered, mon = "idle", dhcpd # Down
               PROVE  /\ dhcpd = InSubnet(lastBoundIPList)
                      /\ dhcpd # InSubnet(fixedIPs) => Compares /\ Differs(fixedIPs)
    BY DEF StaleIsNoticed
  <2>1. ~bind.static => fixedIPs = NoBindings
    BY NothingBound DEF fixedIPs
  <2> QED
    BY <2>1 DEF Remembered, Compares, Differs
<1>3. Spec => []Remembered
  BY <1>1, AlwaysInv, RememberedStep, PTL DEF Spec
<1> QED
  BY <1>2, <1>3, PTL

-----------------------------------------------------------------------------
(* The lease file.                                                         *)

\* The agent finds the leased addresses in every lease file (LeasesRead), for
\* files of any length and any blocks: EveryFileIsRead of LeaseFileProofs.
THEOREM LeasesAlwaysRead == Spec => []LeasesRead
<1>1. LeasesRead
  <2>1. \A blocks \in Files : blocks \in Seq(Blocks)
    BY LeaseFileAssumption
  <2> QED BY <2>1, EveryFileIsRead DEF LeasesRead
<1> QED BY <1>1, PTL
=============================================================================

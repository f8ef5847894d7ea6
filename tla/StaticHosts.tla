---------------------------- MODULE StaticHosts ----------------------------
(***************************************************************************)
(* From a HostEndpoint to the address dhcpd reserves for it:               *)
(*                                                                         *)
(*   HostEndpoint --controller--> HostStatus --Reconcile--> hosts          *)
(*       --generateConfig--> dhcpd.conf --> dhcpd                          *)
(*                                                                         *)
(* The composition of HostEndpoint and DhcpBindings.  They share the       *)
(* process of the agent, which restarts as a whole, and the step of        *)
(* hostStatusController.Reconcile that carries a HostStatus into           *)
(* HostCacheDatabase.                                                      *)
(***************************************************************************)
EXTENDS HostEndpoint, DhcpBindings, LeaseFile

ASSUME StaticHostsAssumption == Hosts = AllNames

vars == <<endpointVars, bindingVars>>

TypeOK == EndpointTypeOK /\ BindingTypeOK

Init == EndpointInit /\ BindingInit

\* Mutant: a HostStatus that is gone keeps its entry.
CachedForEver(n) ==
    IF status[n] = None THEN hosts[n]
    ELSE IF status[n].basic = None THEN hosts[n]
    ELSE status[n].basic

\* What the cache holds of a HostStatus once it is reconciled: a HostStatus
\* without a status is passed over, and so is an entry of its name.
CachedAs(n) ==
    IF status[n] = None THEN None
    ELSE IF status[n].basic = None THEN hosts[n]
    ELSE status[n].basic

\* hostStatusController.Reconcile.
CacheHost(n) ==
    /\ ManagerRuns
    /\ CachedAs(n) # hosts[n]
    /\ hosts' = [hosts EXCEPT ![n] = CachedAs(n)]
    /\ UNCHANGED <<bind, lastBoundIPList, conf, dhcpd, mon, half>>
    /\ UNCHANGED endpointVars

\* The cluster and its users; the agent need not run.
Outside ==
    /\ \/ \E n \in Endpoints, r \in Requests :
            \E missed \in Missed(n, r) : CreateEndpoint(n, r, missed)
       \/ \E n \in Endpoints : DeleteEndpoint(n) \/ GarbageCollect(n)
       \/ \E n \in AllNames : StatusDeleted(n)
       \/ \E n \in Leases : Discovery(n)
    /\ UNCHANGED bindingVars

EndpointController ==
    /\ ManagerRuns
    /\ \/ \E n \in Endpoints : Reconcile(n) \/ Resync(n)
       \/ Worker
    /\ UNCHANGED bindingVars

Faults ==
    \/ GenerateFails /\ Spend("trouble")
    \/ WriteFails /\ Spend("trouble")
    \/ DhcpdExits /\ Spend("trouble")

Next ==
    \/ Outside
    \/ EndpointController
    \/ \E n \in AllNames : CacheHost(n)
    \/ Monitor /\ UNCHANGED endpointVars
    \/ Faults /\ UNCHANGED <<agents, endpoint, created, status, queued,
                             pc, cur, raced, cut>>
    \/ EndpointRestart /\ BindingRestart

\* Fair: the garbage collector, the worker of each controller, the resync of
\* their informers, the monitor and the launch of dhcpd.
Fairness ==
    /\ WF_vars((\E n \in Endpoints : GarbageCollect(n)) /\ UNCHANGED bindingVars)
    /\ WF_vars(EndpointController)
    /\ WF_vars(\E n \in AllNames : CacheHost(n))
    /\ WF_vars(Monitor /\ UNCHANGED endpointVars)

Spec == Init /\ [][Next]_vars /\ Fairness

-----------------------------------------------------------------------------
(* What holds of the static hosts.                                         *)

\* The HostStatus was made for the HostEndpoint that exists, and is filled in.
Shown(n) ==
    IF endpoint[n] # None /\ Filled(n) THEN status[n].owner = endpoint[n].uid
    ELSE FALSE

\* A HostStatus shows the address of the HostEndpoint it was made for, however
\* often that name is deleted and declared again: the controller cannot change
\* a status (its Update is dropped), and the webhook refuses every edit.
StatusShowsEndpoint ==
    \A n \in Endpoints : Shown(n) => status[n].basic.ip = endpoint[n].ip

\* Two live HostStatuses of static hosts have the same address only if the
\* webhook's lists lagged when one of them was admitted.
AddressHeldOnce ==
    \A m, n \in Endpoints :
      (m # n /\ Shown(m) /\ Shown(n) /\ status[m].basic.ip = status[n].basic.ip)
        => {m, n} \cap raced # {}

\* The agent has just come up.
Fresh == mon = "boot" /\ created = 0 /\ status = [n \in AllNames |-> None]

\* Whatever dhcpd has left in its lease file when the agent starts, and wherever
\* in its next block, or in a line of it, the file ends: the agent finds every
\* leased address with its hardware address and none that dhcpd never wrote
\* (tools.go:277, monitor.go:81).
LeasesRead ==
    Fresh =>
      \A blocks \in Files, next \in Blocks :
        \A lines \in 0 .. Len(BlockLines(next)) - 1 :
          \A end \in Torn(BlockLines(next)[lines + 1]) :
            ReadsLeases(blocks, next, lines, end)

\* However the hosts change between the two reads of the check, those of
\* generateConfig and the launch, and whichever of these fails: a dhcpd that runs
\* while the monitor is idle serves what lastBoundIPList says, and if that is no
\* longer what the code makes of the hosts, the next check notices.
StaleIsNoticed ==
    (mon = "idle" /\ dhcpd # Down) =>
        /\ dhcpd = InSubnet(lastBoundIPList)
        /\ dhcpd # InSubnet(fixedIPs) => Compares /\ Differs(fixedIPs)

Writing == mon \in {"bootWrite", "write"}

B == INSTANCE BindingSpec WITH
       dynamic <- InSubnet(DhcpPart), static <- InSubnet(StaticPart),
       taken <- IF Writing THEN {InSubnet(half)} ELSE {}, have <- dhcpd

\* The monitor and generateConfig implement BindingSpec: dhcpd never serves a
\* file that is half written or written while it ran, nor one whose two parts
\* come from different writings.
ImplementsBindings == B!Spec

\* What doc/usage/dhcp.md says is bound (lines 20-21 and 29): with
\* EnableBindStaticIP the address of a static host, under the virtual hardware
\* address, with EnableBindDhcpIP that of every DHCP client; line 15: without it
\* none of the latter.
BoundStatic(ip) ==
    bind.static /\ \E n \in Hosts : hosts[n] # None /\ ~hosts[n].dhcp /\ hosts[n].ip = ip
BoundDhcp(ip, mac) ==
    bind.dhcp /\ \E n \in Hosts : hosts[n] = [ip |-> ip, mac |-> mac, dhcp |-> TRUE]
Documented(ip, mac) ==
    IF BoundStatic(ip) THEN mac = virtualMac ELSE BoundDhcp(ip, mac)

\* dhcpd can load all that is to be bound in the subnet.
Loadable == \A ip \in Subnet : ~Documented(ip, NoMac)

\* dhcpd serves exactly what is documented of the hosts that are cached.
Served ==
    /\ dhcpd # Down
    /\ \A ip \in Subnet, mac \in AllMacs :
         Documented(ip, mac) <=> ip \in DOMAIN dhcpd /\ dhcpd[ip] = mac

\* Whatever changes between the reads of the check, those of generateConfig and
\* the launch, dhcpd comes to serve the documented reservations once the cached
\* hosts stay the same and none of those has no hardware address, which dhcpd
\* refuses.  The two options have to agree: with one of them alone the code does
\* not do what is documented (DhcpIsBound).
Converges ==
    (<>[][FALSE]_hosts /\ <>[](Loadable /\ bind.static = bind.dhcp)) => <>[]Served

\* doc/usage/dhcp.md:20-21: with EnableBindDhcpIP the address of a DHCP client
\* is bound to its hardware address.
DhcpIsBound ==
    \A ip \in Subnet, mac \in Macs :
      (<>[](Loadable /\ Documented(ip, mac)))
        => <>(IF dhcpd = Down \/ ip \notin DOMAIN dhcpd THEN FALSE ELSE dhcpd[ip] = mac)

\* A HostEndpoint of this agent that stays gets a HostStatus of its own with
\* its address, although the controller does not watch HostStatuses: the resync
\* repairs what a deletion or a race with the garbage collector took away.  The
\* exception is a HostStatus whose status update failed once: it stays blank.
FollowsEndpoint ==
    \A n \in Endpoints :
      (<>[](Mine(n) /\ n \notin cut)) => <>[](Mine(n) /\ Shown(n))

Reserved(n) ==
    IF dhcpd = Down \/ ~Mine(n) THEN FALSE
    ELSE endpoint[n].ip \in DOMAIN dhcpd /\ dhcpd[endpoint[n].ip] = virtualMac

Reservable(n) ==
    /\ bind.static
    /\ IF Mine(n) THEN endpoint[n].ip \in Subnet ELSE FALSE
    /\ n \notin cut
    /\ Loads(InSubnet(fixedIPs))

\* With EnableBindStaticIP the address of a static host in the subnet ends up
\* reserved under the virtual hardware address, even if a DHCP client holds it.
StaticIsReserved ==
    \A n \in Endpoints : (<>[]Reservable(n)) => <>[]Reserved(n)

\* No HostStatus has the address, and none is blank: a blank one may hide a
\* stale entry of HostCacheDatabase.
Released(ip) ==
    \A n \in AllNames : status[n] # None => Filled(n) /\ ~StatusHas(n, ip)

\* An address no HostStatus has any more is not reserved for ever.
ReleasedIsFree ==
    \A ip \in IPs :
      (<>[](Released(ip) /\ Loads(InSubnet(fixedIPs))))
         => <>[](dhcpd # Down /\ ip \notin DOMAIN dhcpd)
=============================================================================

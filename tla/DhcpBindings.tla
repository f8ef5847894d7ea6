---------------------------- MODULE DhcpBindings ----------------------------
(***************************************************************************)
(* The reserved addresses of dhcpd (pkg/dhcpserver): generateConfig writes *)
(* dhcpd.conf from the hosts in HostCacheDatabase, the monitor restarts    *)
(* dhcpd when those have changed since (checkHostStatusForFixedIPs).  Both *)
(* read the DHCP clients and the static hosts under two separate locks, so *)
(* the hosts may change in between.                                        *)
(*                                                                         *)
(* The goroutine that launches dhcpd is never late here: what happens when *)
(* a monitor tick overtakes it is the subject of DhcpServer.               *)
(***************************************************************************)
EXTENDS BasicInfo

CONSTANTS
    Hosts,       \* names of HostStatus objects
    BindConfigs, \* values of EnableBindStaticIP and EnableBindDhcpIP
    Subnet,      \* those in the subnet of the DHCP server
    virtualMac,  \* 00:00:00:00:00:00
    Down,        \* dhcpd does not run
    Spoilt       \* dhcpd.conf was truncated and not written

ASSUME BindingsAssumption ==
    /\ Subnet \subseteq IPs
    /\ BindConfigs \subseteq [static : BOOLEAN, dhcp : BOOLEAN]
    /\ virtualMac \notin Macs /\ NoMac \notin Macs /\ virtualMac # NoMac

VARIABLES
    bind,    \* EnableBindStaticIP and EnableBindDhcpIP
    hosts,   \* HostCacheDatabase: per name, its BasicInfo
    lastBoundIPList,
    conf,    \* the reservations in dhcpd.conf
    dhcpd,   \* the reservations dhcpd has loaded, or Down
    mon,     \* where main, before the manager starts, and then the monitor is
    half     \* the reservations of the DHCP clients, read before the static hosts

bindingVars == <<bind, hosts, lastBoundIPList, conf, dhcpd, mon, half>>

AllMacs == Macs \cup {virtualMac, NoMac}

\* A map from addresses to hardware addresses.
Bindings == UNION {[S -> AllMacs] : S \in SUBSET IPs}
NoBindings == [ip \in {} |-> NoMac]

BindingTypeOK ==
    /\ bind \in BindConfigs
    /\ hosts \in [Hosts -> Basic \cup {None}]
    /\ lastBoundIPList \in Bindings
    /\ conf \in Bindings \cup {Spoilt}
    /\ dhcpd \in Bindings \cup {Down}
    /\ mon \in {"boot", "bootWrite", "idle", "compare", "restart", "write", "launch"}
    /\ half \in Bindings

\* NewDhcpServer; main starts dhcpd before the controllers that fill the cache.
BindingInit ==
    /\ bind \in BindConfigs
    /\ hosts = [n \in Hosts |-> None]
    /\ lastBoundIPList = NoBindings
    /\ conf = NoBindings
    /\ dhcpd = Down
    /\ mon = "boot"
    /\ half = NoBindings

-----------------------------------------------------------------------------

\* The controllers of the agent run.
ManagerRuns == mon \notin {"boot", "bootWrite"}

\* GetDhcpClientInfo and GetStaticClientInfo.
Clients(dhcp) == {n \in Hosts : hosts[n] # None /\ hosts[n].dhcp = dhcp}
IPsOf(dhcp) == {hosts[n].ip : n \in Clients(dhcp)}

\* The first loop of generateConfig and of checkHostStatusForFixedIPs.  It is
\* guarded by EnableBindStaticIP.  A DHCP client is named after its address, so no
\* two share one.
DhcpPart ==
    IF ~bind.static THEN NoBindings
    ELSE [ip \in IPsOf(TRUE) |-> hosts[CHOOSE n \in Clients(TRUE) : hosts[n].ip = ip].mac]

\* The second loop.
StaticPart ==
    IF ~bind.static THEN NoBindings ELSE [ip \in IPsOf(FALSE) |-> virtualMac]

\* Mutant: a static host does not override a DHCP client.
DhcpFirst(d, s) ==
    [ip \in DOMAIN d \cup DOMAIN s |-> IF ip \in DOMAIN d THEN d[ip] ELSE s[ip]]

\* Both loops write into the same map, the static hosts last.
Merge(d, s) ==
    [ip \in DOMAIN d \cup DOMAIN s |-> IF ip \in DOMAIN s THEN s[ip] ELSE d[ip]]

\* What both loops make of the hosts as they are now.
fixedIPs == Merge(DhcpPart, StaticPart)

\* generateConfig leaves out an address that is not in the subnet.
InSubnet(f) == [ip \in DOMAIN f \cap Subnet |-> f[ip]]

\* dhcpd does not start with a host declaration that has no hardware address.
Loads(f) == f # Spoilt /\ \A ip \in DOMAIN f : f[ip] # NoMac

\* Mutant: the hosts are compared only if DHCP clients are bound.
CompareIfDhcp == bind.dhcp

\* checkHostStatusForFixedIPs does nothing when no option is set.
Compares == bind.dhcp \/ bind.static

-----------------------------------------------------------------------------
(* The monitor.                                                            *)

\* A tick of the monitor that finds dhcpd dead, or the first read of
\* checkHostStatusForFixedIPs.
Check ==
    /\ mon = "idle"
    /\ \/ dhcpd = Down /\ mon' = "restart" /\ UNCHANGED half
       \/ dhcpd # Down /\ Compares /\ mon' = "compare" /\ half' = DhcpPart
    /\ UNCHANGED <<bind, hosts, lastBoundIPList, conf, dhcpd>>

\* Mutant: only an address that is new asks for a restart.
NewOnly(f) == ~(DOMAIN f \subseteq DOMAIN lastBoundIPList)

\* The comparison with the reservations of the last boot.
Differs(f) == f # lastBoundIPList

\* The second read and the comparison.
Compare ==
    /\ mon = "compare"
    /\ mon' = IF Differs(Merge(half, StaticPart)) THEN "restart" ELSE "idle"
    /\ half' = NoBindings
    /\ UNCHANGED <<bind, hosts, lastBoundIPList, conf, dhcpd>>

\* Mutant: the configuration is written under a running dhcpd.
GenerateUnderDhcpd ==
    /\ mon \in {"boot", "restart"}
    /\ conf' = Spoilt
    /\ half' = DhcpPart
    /\ mon' = IF mon = "boot" THEN "bootWrite" ELSE "write"
    /\ UNCHANGED <<bind, hosts, lastBoundIPList, dhcpd>>

\* Stop, Start and generateConfig up to its first read: the file is truncated.
\* The hosts are read again: they may have changed since the check.
Generate ==
    /\ mon \in {"boot", "restart"}
    /\ dhcpd' = Down
    /\ conf' = Spoilt
    /\ half' = DhcpPart
    /\ mon' = IF mon = "boot" THEN "bootWrite" ELSE "write"
    /\ UNCHANGED <<bind, hosts, lastBoundIPList>>

\* The second read, the record in lastBoundIPList and the file.
WriteConfig ==
    /\ mon \in {"bootWrite", "write"}
    /\ lastBoundIPList' = Merge(half, StaticPart)
    /\ conf' = InSubnet(lastBoundIPList')
    /\ mon' = "launch"
    /\ half' = NoBindings
    /\ UNCHANGED <<bind, hosts, dhcpd>>

\* Start fails before generateConfig has opened the file; main then exits, the
\* monitor tries again at its next tick.
GenerateFails ==
    /\ mon \in {"boot", "restart"}
    /\ dhcpd' = Down
    /\ mon' = IF mon = "boot" THEN "boot" ELSE "idle"
    /\ UNCHANGED <<bind, hosts, lastBoundIPList, conf, half>>

\* The file is not written, or cannot be read back; the hosts are recorded.
WriteFails ==
    /\ mon \in {"bootWrite", "write"}
    /\ lastBoundIPList' = Merge(half, StaticPart)
    /\ conf' \in {InSubnet(lastBoundIPList'), Spoilt}
    /\ mon' = IF mon = "bootWrite" THEN "boot" ELSE "idle"
    /\ half' = NoBindings
    /\ UNCHANGED <<bind, hosts, dhcpd>>

\* The goroutine of Start runs dhcpd, which reads dhcpd.conf.
Launch ==
    /\ mon = "launch"
    /\ dhcpd' = IF Loads(conf) THEN conf ELSE Down
    /\ mon' = "idle"
    /\ UNCHANGED <<bind, hosts, lastBoundIPList, conf, half>>

DhcpdExits ==
    /\ dhcpd # Down
    /\ dhcpd' = Down
    /\ UNCHANGED <<bind, hosts, lastBoundIPList, conf, mon, half>>

\* The agent is started again: its memory and dhcpd are gone.
BindingRestart ==
    /\ hosts' = [n \in Hosts |-> None]
    /\ lastBoundIPList' = NoBindings
    /\ dhcpd' = Down
    /\ mon' = "boot"
    /\ half' = NoBindings
    /\ UNCHANGED <<bind, conf>>

Monitor == Check \/ Compare \/ Generate \/ WriteConfig \/ Launch
=============================================================================

--------------------------- MODULE DhcpDiscovery ---------------------------
(***************************************************************************)
(* DHCP discovery: how a lease of dhcpd becomes a HostStatus object.       *)
(*                                                                         *)
(*   lease file --updateStats--> addChan / deleteChan                      *)
(*       --processDHCPEvents--> API server --watch--> informer cache       *)
(*                                                                         *)
(* pkg/dhcpserver/monitor.go (updateStats) compares the leases of this     *)
(* poll with those of the last one and sends one event per difference on   *)
(* unbuffered channels.  pkg/agent/hoststatus/dhcp.go takes one event at a *)
(* time; its reads come from the informer cache, its writes go to the API  *)
(* server, which refuses a write whose resourceVersion is not the current  *)
(* one.  A retryable failure is sent again on the same channel by a        *)
(* goroutine that first sleeps; any other failure is dropped.              *)
(*                                                                         *)
(* Leases are what GetDhcpClients returns, as a function from IP to MAC.   *)
(* The objects are those of this agent, one name per IP.                   *)
(* EnableDhcpDiscovery is on; without it every event is ignored (dhcp.go   *)
(* 64-68 and 180-184).                                                     *)
(***************************************************************************)
EXTENDS Naturals, FiniteSets

CONSTANTS
    IPs, MACs, NoMac,
    MaxLeaseChanges,  \* bound: changes of the lease file
    MaxErrors,        \* bound: transient errors of the API server
    Errors,           \* which of {"retryable", "fatal"} they are
    MaxTouches,       \* bound: status writes of the other goroutines
    MaxRestarts       \* bound: restarts of the agent

ASSUME DhcpDiscoveryAssumption ==
    /\ NoMac \notin MACs
    /\ MaxLeaseChanges \in Nat /\ MaxErrors \in Nat
    /\ MaxTouches \in Nat /\ MaxRestarts \in Nat
    /\ Errors \subseteq {"retryable", "fatal"}

VARIABLES
    bind,     \* DhcpServerConfig.EnableBindDhcpIP, fixed when the agent starts
    lease,    \* the lease file
    prev,     \* s.previousClients
    polled,   \* the clients of the updateStats under way
    adds, dels,  \* its events not sent yet
    mon,      \* the monitor: "idle" or in updateStats ("send")
    obj,      \* the HostStatus objects in the API server
    cached,   \* the HostStatus objects in the informer cache
    h,        \* processDHCPEvents: the event it handles and what it has read
    retries,  \* events held by retry goroutines
    budget,   \* what is left of the bounds
    suspect   \* history: the IPs whose event met an error or a stale read

vars == <<bind, lease, prev, polled, adds, dels, mon, obj, cached, h, retries,
          budget, suspect>>

Leases == [IPs -> MACs \cup {NoMac}]
NoLease == [ip \in IPs |-> NoMac]

\* filled: the full status has been written (clusterAgent, basic, info);
\* label: the dhcp-ip-active label; active: status.basic.activeDhcpClient;
\* ver: resourceVersion, which a deleted name keeps so that it only grows.
Object == [exists : BOOLEAN, mac : MACs \cup {NoMac}, filled : BOOLEAN,
           label : BOOLEAN, active : BOOLEAN, ver : Nat]
Absent(v) == [exists |-> FALSE, mac |-> NoMac, filled |-> FALSE,
              label |-> FALSE, active |-> FALSE, ver |-> v]

Event == [op : {"add", "del"}, ip : IPs, mac : MACs]
IdleHandler == [pc |-> "idle"]
Handler == [pc : {"setmac", "create", "fill", "label", "delete"}, event : Event,
            seen : Object]

TypeOK ==
    /\ bind \in BOOLEAN
    /\ lease \in Leases /\ prev \in Leases /\ polled \in Leases
    /\ adds \subseteq IPs /\ dels \subseteq IPs
    /\ mon \in {"idle", "send"}
    /\ obj \in [IPs -> Object] /\ cached \in [IPs -> Object]
    /\ h \in Handler \cup {IdleHandler}
    /\ retries \subseteq Event
    /\ budget \in [{"lease", "error", "touch", "restart"} -> Nat]
    /\ suspect \subseteq IPs

Init ==
    /\ bind \in BOOLEAN
    /\ lease = NoLease /\ prev = NoLease /\ polled = NoLease
    /\ adds = {} /\ dels = {}
    /\ mon = "idle"
    /\ obj = [ip \in IPs |-> Absent(0)] /\ cached = obj
    /\ h = IdleHandler
    /\ retries = {}
    /\ budget = [lease |-> MaxLeaseChanges, error |-> MaxErrors,
                 touch |-> MaxTouches, restart |-> MaxRestarts]
    /\ suspect = {}

Spend(b) == budget[b] > 0 /\ budget' = [budget EXCEPT ![b] = @ - 1]

-----------------------------------------------------------------------------
(* The environment: dhcpd, the watch of the informer, the other goroutines *)
(* of the agent that write the status, the operator, a crash.              *)

\* dhcpd grants the address to a client, to another client, or drops it.
LeaseChange(ip, m) ==
    /\ lease[ip] # m
    /\ Spend("lease")
    /\ lease' = [lease EXCEPT ![ip] = m]
    /\ UNCHANGED <<bind, prev, polled, adds, dels, mon, obj, cached, h,
                   retries, suspect>>

\* The watch brings the informer cache up to date for one object.
InformerSync(ip) ==
    /\ cached[ip] # obj[ip]
    /\ cached' = [cached EXCEPT ![ip] = obj[ip]]
    /\ UNCHANGED <<bind, lease, prev, polled, adds, dels, mon, obj, h,
                   retries, budget, suspect>>

\* UpdateHostStatusInfo writes healthy and info of an object that has its
\* status; the fields of this module stay, the resourceVersion moves.
Touch(ip) ==
    /\ obj[ip].filled /\ cached[ip] = obj[ip]
    /\ Spend("touch")
    /\ obj' = [obj EXCEPT ![ip].ver = @ + 1]
    /\ UNCHANGED <<bind, lease, prev, polled, adds, dels, mon, cached, h,
                   retries, suspect>>

\* With bound IPs the operator deletes the object of a released address
\* (doc/usage/dhcp.md:25), possibly before the agent has seen the release.
OperatorDelete(ip) ==
    /\ bind /\ obj[ip].exists /\ lease[ip] = NoMac
    /\ obj' = [obj EXCEPT ![ip] = Absent(obj[ip].ver + 1)]
    /\ suspect' = IF prev[ip] = NoMac /\ (mon = "send" => polled[ip] = NoMac)
                   THEN suspect ELSE suspect \cup {ip}
    /\ UNCHANGED <<bind, lease, prev, polled, adds, dels, mon, cached, h,
                   retries, budget>>

\* The agent restarts: all of its memory is lost, the lease file (on a
\* persistent volume) and the objects stay.
Restart ==
    /\ Spend("restart")
    /\ prev' = NoLease /\ polled' = NoLease
    /\ adds' = {} /\ dels' = {}
    /\ mon' = "idle"
    /\ cached' = obj
    /\ h' = IdleHandler
    /\ retries' = {}
    /\ suspect' = {ip \in IPs : obj[ip].exists}
    /\ UNCHANGED <<bind, lease, obj>>

-----------------------------------------------------------------------------
(* dhcpServer.updateStats, under s.mutex.                                  *)

\* Mutant: a lease that changed hands is not reported.
NewLeases(old, new) == {ip \in IPs : new[ip] # NoMac /\ old[ip] = NoMac}

\* New clients and changed MACs, then the removed ones.
Changed(old, new) == {ip \in IPs : new[ip] # NoMac /\ old[ip] # new[ip]}
Removed(old, new) == {ip \in IPs : new[ip] = NoMac /\ old[ip] # NoMac}

Poll ==
    /\ mon = "idle"
    /\ lease # prev
    /\ polled' = lease
    /\ adds' = Changed(prev, lease)
    /\ dels' = Removed(prev, lease)
    /\ mon' = "send"
    /\ UNCHANGED <<bind, lease, prev, obj, cached, h, retries, budget, suspect>>

\* The leases are those of the last poll: nothing changes.
PollUnchanged ==
    /\ mon = "idle"
    /\ lease = prev
    /\ UNCHANGED vars

PollDone ==
    /\ mon = "send"
    /\ adds = {} /\ dels = {}
    /\ prev' = polled
    /\ mon' = "idle"
    /\ UNCHANGED <<bind, lease, polled, adds, dels, obj, cached, h, retries,
                   budget, suspect>>

-----------------------------------------------------------------------------
(* processDHCPEvents: one event at a time.  An event is received, and the  *)
(* informer cache read, in one step; each write to the API server is       *)
(* another step.                                                           *)

AddEvent(ip, m) == [op |-> "add", ip |-> ip, mac |-> m]
DelEvent(ip, m) == [op |-> "del", ip |-> ip, mac |-> m]

At(l, e, s) == h' = [pc |-> l, event |-> e, seen |-> s]

\* handleDHCPAdd up to its first write.
StartAdd(e) ==
    LET c == cached[e.ip] IN
    IF c.exists
      THEN IF c.mac = e.mac THEN h' = IdleHandler ELSE At("setmac", e, c)
      ELSE At("create", e, c)

\* handleDHCPDelete up to its write.
StartDelete(e) ==
    LET c == cached[e.ip] IN
    IF ~bind THEN At("delete", e, c)
    ELSE IF c.exists THEN At("label", e, c) ELSE h' = IdleHandler

Receive(e) ==
    /\ h = IdleHandler
    /\ IF e.op = "add" THEN StartAdd(e) ELSE StartDelete(e)
    /\ suspect' = IF cached[e.ip] = obj[e.ip] THEN suspect
                                              ELSE suspect \cup {e.ip}

\* Mutant: the event carries the client of this poll.
CurrentClient(ip) == polled[ip]

\* The client of a removed address is the one of the last poll.
ReleasedClient(ip) == prev[ip]

\* The monitor sends the adds, in the order of a map iteration, then the dels.
ReceiveFromMonitor ==
    /\ mon = "send"
    /\ \/ \E ip \in adds : /\ Receive(AddEvent(ip, polled[ip]))
                           /\ adds' = adds \ {ip}
                           /\ UNCHANGED dels
       \/ \E ip \in dels : /\ adds = {}
                           /\ Receive(DelEvent(ip, ReleasedClient(ip)))
                           /\ dels' = dels \ {ip}
                           /\ UNCHANGED adds
    /\ UNCHANGED <<bind, lease, prev, polled, mon, obj, cached, retries, budget>>

\* A retry goroutine has slept and its send is received.
ReceiveRetry(e) ==
    /\ e \in retries
    /\ Receive(e)
    /\ retries' = retries \ {e}
    /\ UNCHANGED <<bind, lease, prev, polled, adds, dels, mon, obj, cached,
                   budget>>

-----------------------------------------------------------------------------
(* The writes.                                                             *)

\* Mutant: the failed event is sent again by the consumer itself, on a
\* channel that only the consumer reads.
RetryInline == UNCHANGED <<h, retries>>

\* shouldRetry holds: a goroutine takes the event, the consumer goes on.
RetryLater ==
    /\ retries' = retries \cup {h.event}
    /\ h' = IdleHandler

\* Any other error: the event is dropped.
Drop == h' = IdleHandler /\ UNCHANGED retries

Done(o) ==
    /\ obj' = [obj EXCEPT ![h.event.ip] = o]
    /\ h' = IdleHandler
    /\ UNCHANGED <<retries, budget, suspect>>

\* The call fails; the object is as it was.
Failed(retryable) ==
    /\ suspect' = suspect \cup {h.event.ip}
    /\ UNCHANGED obj
    /\ IF retryable THEN RetryLater ELSE Drop

\* A transient error of the API server, of a kind shouldRetry knows or not.
TransientError ==
    /\ Spend("error")
    /\ \E k \in Errors : Failed(k = "retryable")

\* Mutant: an update is accepted whatever its resourceVersion.
LastWriteWins(o) == FALSE

\* The API server refuses an update made from another version.
Conflicting(o) == h.seen.ver # o.ver

\* An update of the object that was read: NotFound, Conflict or the write w.
UpdateObject(w) ==
    LET o == obj[h.event.ip] IN
    \/ TransientError
    \/ ~o.exists /\ Failed(FALSE) /\ UNCHANGED budget
    \/ o.exists /\ Conflicting(o) /\ Failed(TRUE) /\ UNCHANGED budget
    \/ o.exists /\ ~Conflicting(o) /\ Done([w EXCEPT !.ver = o.ver + 1])

HandlerStep(l) ==
    /\ h.pc = l
    /\ UNCHANGED <<bind, lease, prev, polled, adds, dels, mon, cached>>

\* Lines 79-99: only mac changes.  The API server may refuse the status of an
\* object that never got one: its required field info is null.
SetMac ==
    /\ HandlerStep("setmac")
    /\ \/ UpdateObject([h.seen EXCEPT !.mac = h.event.mac])
       \/ ~h.seen.filled /\ Failed(FALSE) /\ UNCHANGED budget

\* Lines 107-129: the object with its labels and no status.
Create ==
    /\ HandlerStep("create")
    /\ \/ TransientError
       \/ obj[h.event.ip].exists /\ Failed(FALSE) /\ UNCHANGED budget
       \/ LET o == [Absent(obj[h.event.ip].ver + 1) EXCEPT !.exists = TRUE,
                                                           !.label = TRUE]
          IN /\ ~obj[h.event.ip].exists
             /\ obj' = [obj EXCEPT ![h.event.ip] = o]
             /\ At("fill", h.event, o)
             /\ UNCHANGED <<retries, budget, suspect>>

\* Lines 137-168: the status of the object just created.
Fill ==
    /\ HandlerStep("fill")
    /\ UpdateObject([h.seen EXCEPT !.mac = h.event.mac, !.filled = TRUE,
                                   !.active = TRUE])

\* Lines 201-214: Update, not Status().Update: the API server takes the label
\* and ignores the change of the status.
Label ==
    /\ HandlerStep("label")
    /\ UpdateObject([h.seen EXCEPT !.label = FALSE])

\* Lines 220-232; NotFound is a success.
Delete ==
    LET o == obj[h.event.ip] IN
    /\ HandlerStep("delete")
    /\ \/ TransientError
       \/ Done(IF o.exists THEN Absent(o.ver + 1) ELSE o)

Handle == SetMac \/ Create \/ Fill \/ Label \/ Delete

Next ==
    \/ \E ip \in IPs, m \in MACs \cup {NoMac} : LeaseChange(ip, m)
    \/ \E ip \in IPs : InformerSync(ip) \/ Touch(ip) \/ OperatorDelete(ip)
    \/ Restart
    \/ Poll
    \/ PollUnchanged
    \/ PollDone
    \/ ReceiveFromMonitor
    \/ \E e \in retries : ReceiveRetry(e)
    \/ Handle

Spec == Init /\ [][Next]_vars

\* The ticker, the consumer, the retry goroutines and the watch make progress;
\* a sender blocked on a channel is served in turn (Go queues the senders).
Fairness ==
    /\ \A ip \in IPs : WF_vars(InformerSync(ip))
    /\ WF_vars(Poll) /\ WF_vars(PollDone) /\ WF_vars(Handle)
    /\ SF_vars(ReceiveFromMonitor)
    /\ \A e \in Event : SF_vars(ReceiveRetry(e))

FairSpec == Spec /\ Fairness

-----------------------------------------------------------------------------
(* Properties.                                                             *)

\* No event about ip is waiting anywhere between the lease file and the API.
Quiet(ip) ==
    /\ lease[ip] = prev[ip]
    /\ mon = "send" => polled[ip] = prev[ip]
    /\ h = IdleHandler \/ h.event.ip # ip
    /\ \A e \in retries : e.ip # ip

Matches(ip) ==
    IF lease[ip] # NoMac
      THEN obj[ip].exists /\ obj[ip].filled /\ obj[ip].mac = lease[ip]
      ELSE obj[ip].exists => bind /\ ~obj[ip].label

\* Once its events are handled, an address whose events met neither an API
\* error nor a stale cache has the HostStatus its lease asks for (with its MAC,
\* absent or labelled inactive when released), whatever else happens meanwhile.
NoSilentDivergence == \A ip \in IPs : Quiet(ip) /\ ip \notin suspect => Matches(ip)

\* A HostStatus that has its status never becomes a blank one again: the
\* optimistic concurrency of the API server protects it from stale copies.
FilledStays ==
    [][\A ip \in IPs : obj[ip].filled /\ obj'[ip].exists => obj'[ip].filled]_vars

\* updateStats, which holds s.mutex while it sends, and every retry end.
EventsDrain == <>[](mon = "idle" /\ h = IdleHandler /\ retries = {})

\* What dhcp.go:74 says of the branch for an existing object ("... or if failed
\* to update status after creating"): the status is written in the end.
BlankIsHealed ==
    <>[](\A ip \in IPs : obj[ip].exists /\ lease[ip] # NoMac => obj[ip].filled)

\* What doc/usage/dhcp.md:18 says without bound IPs: the HostStatus of a
\* released address is deleted.
ReleasedIsDeleted ==
    <>[](\A ip \in IPs : ~bind /\ lease[ip] = NoMac => ~obj[ip].exists)

=============================================================================

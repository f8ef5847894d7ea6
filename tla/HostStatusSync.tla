--------------------------- MODULE HostStatusSync ---------------------------
(***************************************************************************)
(* Credentials and health of the hosts of one agent                        *)
(* (pkg/agent/hoststatus/HostStatusReconcile.go, manager.go, tools.go,     *)
(* data/cache.go, pkg/agent/secret/controller.go).                         *)
(*                                                                         *)
(* Three goroutines probe the BMCs and write the status of HostStatus      *)
(* objects, one at a time under hostStatusLock:                            *)
(*   - "rec", the worker of the HostStatus controller, which also copies   *)
(*     the credentials of a host into HostCacheDatabase;                   *)
(*   - "sec", the worker of the Secret controller, which pushes a changed  *)
(*     Secret into the agent configuration and into HostCacheDatabase;     *)
(*   - "tick", the periodic update of all the hosts in HostCacheDatabase.  *)
(*                                                                         *)
(* There is one Secret, its versions are numbers, and one of them is what  *)
(* the BMCs accept.  UpdateSecet changes the entries of HostCacheDatabase  *)
(* in place under a read lock, and UpdateSecret the configuration under    *)
(* none: a concurrent reader gets the old value, the new one or a mixture, *)
(* Torn.  The objects are those with a complete status of this agent.      *)
(***************************************************************************)
EXTENDS Naturals, FiniteSets

CONSTANTS
    Hosts,
    MaxSecret,      \* bound: changes of the Secret
    BmcVersion,     \* the version of the Secret the BMCs accept
    MaxEvents,      \* bound: calls of the API server or a BMC that fail,
                    \* HostStatus objects made or deleted, BMCs that come or go
    Torn, None      \* a mixture of two credentials; no entry

ASSUME HostStatusSyncAssumption ==
    /\ MaxSecret \in Nat /\ MaxEvents \in Nat
    /\ BmcVersion \in 0 .. MaxSecret
    /\ Torn # None /\ Torn \notin Nat /\ None \notin Nat

VARIABLES
    default,    \* the Secret is the one of the agent's own endpoint
    secret,     \* the Secret in the API server
    seenSecret, \* the Secret in the informer cache
    config,     \* config.Username and config.Password
    up,         \* the hosts whose BMC is reachable
    obj,        \* the HostStatus objects in the API server
    cached,     \* the same in the informer cache
    behind,     \* the hosts whose resourceVersion there is not the current one
    entry,      \* HostCacheDatabase
    lock,       \* hostStatusLock
    held,       \* what its holder has found out
    want,       \* per goroutine: the probe it makes or waits to make
    hostQueue, secretQueue,  \* the work queues of the two controllers
    rec, sec, tick,  \* what the goroutines do between probes
    events,     \* how much of MaxEvents is used
    raced       \* history: hosts whose entry was written over a newer one

vars == <<default, secret, seenSecret, config, up, obj, cached, behind, entry,
          lock, held, want, hostQueue, secretQueue, rec, sec, tick, events, raced>>

Versions == 0 .. MaxSecret
Creds == Versions \cup {Torn}
Threads == {"rec", "sec", "tick"}

\* info: status.info is not empty.
Object == [exists : BOOLEAN, healthy : BOOLEAN, info : BOOLEAN]
Absent == [exists |-> FALSE, healthy |-> FALSE, info |-> FALSE]
Created == [Absent EXCEPT !.exists = TRUE]

Idle == [pc |-> "idle"]
NoProbe == [host |-> None]
NotHeld == [pc |-> "none"]

TypeOK ==
    /\ default \in BOOLEAN
    /\ secret \in Versions /\ seenSecret \in Versions /\ config \in Versions
    /\ up \subseteq Hosts
    /\ obj \in [Hosts -> Object] /\ cached \in [Hosts -> Object]
    /\ behind \subseteq Hosts
    /\ entry \in [Hosts -> Creds \cup {None}]
    /\ lock \in Threads \cup {"free"}
    /\ held \in {NotHeld} \cup [pc : {"read"}, conn : BOOLEAN]
                          \cup [pc : {"write"}, fresh : BOOLEAN, new : Object]
    /\ want \in [Threads -> {NoProbe} \cup [host : Hosts, creds : Creds]]
    /\ hostQueue \subseteq Hosts /\ secretQueue \in BOOLEAN
    /\ rec \in {Idle} \cup [pc : {"creds", "get"}, host : Hosts, first : BOOLEAN]
          \cup [pc : {"add"}, host : Hosts, first : BOOLEAN, creds : Creds]
    /\ sec \in {Idle} \cup [pc : {"config", "apply"}, val : Versions]
                      \cup [pc : {"hosts"}, todo : SUBSET Hosts]
    /\ tick \in {Idle} \cup [pc : {"hosts"}, todo : SUBSET Hosts,
                             snap : [Hosts -> Creds \cup {None}]]
    /\ events \in 0 .. MaxEvents
    /\ raced \subseteq Hosts

\* The agent has just started: the configuration holds the Secret, the informers
\* have listed the objects that exist, HostCacheDatabase is empty.
Init ==
    /\ default \in BOOLEAN
    /\ secret = 0 /\ seenSecret = 0 /\ config = 0
    /\ up = Hosts
    /\ obj \in [Hosts -> {Absent, Created}] /\ cached = obj
    /\ behind = {}
    /\ entry = [h \in Hosts |-> None]
    /\ lock = "free" /\ held = NotHeld
    /\ want = [t \in Threads |-> NoProbe]
    /\ hostQueue = {h \in Hosts : obj[h].exists} /\ secretQueue = TRUE
    /\ rec = Idle /\ sec = Idle /\ tick = Idle
    /\ events = 0
    /\ raced = {}

Event == events < MaxEvents /\ events' = events + 1

-----------------------------------------------------------------------------
(* The environment: the user, the watches, the other controllers, BMCs.    *)

World == <<default, secret, seenSecret, up>>
Agent == <<config, entry, lock, held, want, rec, sec, tick, raced>>

SecretChange ==
    /\ secret < MaxSecret
    /\ secret' = secret + 1
    /\ UNCHANGED <<default, seenSecret, up, obj, cached, behind, hostQueue,
                   secretQueue, events, Agent>>

SecretSync ==
    /\ seenSecret # secret
    /\ seenSecret' = secret
    /\ secretQueue' = TRUE
    /\ UNCHANGED <<default, secret, up, obj, cached, behind, hostQueue, events, Agent>>

\* DHCP discovery or a HostEndpoint makes the object with its first status, or
\* the object is deleted.
HostChange(h) ==
    /\ Event
    /\ obj' = [obj EXCEPT ![h] = IF @.exists THEN Absent ELSE Created]
    /\ behind' = behind \cup {h}
    /\ held' = IF held.pc = "write" /\ want[lock].host = h
                 THEN [held EXCEPT !.fresh = FALSE] ELSE held
    /\ UNCHANGED <<World, config, cached, entry, lock, want, hostQueue,
                   secretQueue, rec, sec, tick, raced>>

HostSync(h) ==
    /\ h \in behind
    /\ behind' = behind \ {h}
    /\ cached' = [cached EXCEPT ![h] = obj[h]]
    /\ hostQueue' = hostQueue \cup {h}
    /\ UNCHANGED <<default, secret, seenSecret, up, obj, secretQueue,
                   events, Agent>>

UpChange(h) ==
    /\ Event
    /\ up' = IF h \in up THEN up \ {h} ELSE up \cup {h}
    /\ UNCHANGED <<default, secret, seenSecret, obj, cached, behind, hostQueue,
                   secretQueue, Agent>>

-----------------------------------------------------------------------------
(* HostCacheDatabase and the configuration, as a concurrent reader sees    *)
(* them.                                                                   *)

ConfigRead ==
    IF sec.pc = "config" /\ config # sec.val
      THEN {config, sec.val, Torn} ELSE {config}

EntryRead(h) ==
    IF sec.pc = "apply" /\ entry[h] \notin {None, sec.val}
      THEN {entry[h], sec.val, Torn} ELSE {entry[h]}

\* Mutant: the result of HostCacheDatabase.Get is not checked for nil.
NoNilCheck(c) == TRUE

\* UpdateHostStatusInfoWrapper, lines 195-202: the host has an entry.
HasEntry(c) == c # None

\* UpdateHostStatusInfoWrapper(name): Get, and a probe if there is an entry.
ProbeNamed(t, h) ==
    \E c \in EntryRead(h) :
        want' = IF HasEntry(c) THEN [want EXCEPT ![t] = [host |-> h, creds |-> c]]
                               ELSE want

-----------------------------------------------------------------------------
(* UpdateHostStatusInfo, under hostStatusLock.                             *)

Probe(t) ==
    /\ want[t] # NoProbe
    /\ UNCHANGED <<World, cached, config, entry, hostQueue, secretQueue, rec, sec,
                   tick, raced>>

\* The lock is taken and NewClient connects, or not.
Connect(t) ==
    /\ Probe(t)
    /\ lock = "free"
    /\ lock' = t
    /\ \/ /\ held' = [pc |-> "read",
                      conn |-> want[t].host \in up /\ want[t].creds = BmcVersion]
          /\ UNCHANGED events
       \/ held' = [pc |-> "read", conn |-> FALSE] /\ Event
    /\ UNCHANGED <<obj, behind, want>>

Release(t) ==
    /\ lock' = "free"
    /\ held' = NotHeld
    /\ want' = [want EXCEPT ![t] = NoProbe]

\* Mutant: a host that cannot be reached keeps its status.
OnlyImproves(o, n) == n.info /\ ~o.info

\* compareHostStatus: the status has changed.
Differs(o, n) == o.healthy # n.healthy \/ o.info # n.info

\* The object is read from the informer cache, GetInfo asks the BMC.  When it
\* fails status.healthy stays true and status.info becomes empty.
Read(t) ==
    LET o == cached[want[t].host]
        Found(info) ==
            LET n == [exists |-> o.exists, healthy |-> held.conn,
                      info |-> held.conn /\ info]
            IN IF o.exists /\ Differs(o, n)
                 THEN /\ held' = [pc |-> "write", fresh |-> want[t].host \notin behind,
                                  new |-> n]
                      /\ UNCHANGED <<lock, want>>
                 ELSE Release(t)
    IN /\ Probe(t)
       /\ lock = t /\ held.pc = "read"
       /\ \/ Found(want[t].host \in up) /\ UNCHANGED events
          \/ Found(FALSE) /\ Event
       /\ UNCHANGED <<obj, behind>>

\* Status().Update; NotFound, a conflict and other errors are logged.
Write(t) ==
    LET h == want[t].host IN
    /\ Probe(t)
    /\ lock = t /\ held.pc = "write"
    /\ \/ /\ held.fresh
          /\ obj' = [obj EXCEPT ![h] = held.new]
          /\ behind' = behind \cup {h}
          /\ UNCHANGED events
       \/ ~held.fresh /\ UNCHANGED <<obj, behind, events>>
       \/ Event /\ UNCHANGED <<obj, behind>>
    /\ Release(t)

-----------------------------------------------------------------------------
(* The worker of the HostStatus controller: Reconcile, processHostStatus.  *)

RecStep ==
    /\ want["rec"] = NoProbe
    /\ UNCHANGED <<World, config, obj, cached, behind, lock, held, secretQueue, sec, tick>>

\* Mutant: the entry of a deleted object stays.
KeepEntry(h) == entry

\* Lines 301-305: the entry of an object that is gone is deleted.
ForgetEntry(h) == [entry EXCEPT ![h] = None]

\* UpdateSecet holds the read lock of HostCacheDatabase while it writes.
CanLockCache == sec.pc # "apply"

RecStart(h) ==
    /\ RecStep
    /\ rec = Idle /\ h \in hostQueue
    /\ hostQueue' = hostQueue \ {h}
    /\ IF cached[h].exists
         THEN /\ rec' = [pc |-> "creds", host |-> h, first |-> ~cached[h].info]
              /\ UNCHANGED entry
         ELSE CanLockCache /\ entry' = ForgetEntry(h) /\ UNCHANGED rec
    /\ UNCHANGED <<want, events, raced>>

\* Mutant: the error of getSecretData is only logged.
DropHost(h) == hostQueue

\* Reconcile, lines 325-331: an error queues the host again.
RequeueHost(h) == hostQueue \cup {h}

\* getSecretData: the configuration for the default Secret, a GET otherwise.
RecCreds ==
    /\ RecStep
    /\ rec.pc = "creds"
    /\ \/ /\ \E c \in (IF default THEN ConfigRead ELSE {secret}) :
                rec' = [pc |-> "add", host |-> rec.host, first |-> rec.first, creds |-> c]
          /\ raced' = raced \ {rec.host}
          /\ UNCHANGED <<hostQueue, events>>
       \/ /\ ~default /\ Event
          /\ rec' = Idle
          /\ hostQueue' = RequeueHost(rec.host)
          /\ UNCHANGED raced
    /\ UNCHANGED <<entry, want>>

\* HostCacheDatabase.Add; a host without info is probed at once.
RecAdd ==
    /\ RecStep
    /\ rec.pc = "add" /\ CanLockCache
    /\ entry' = [entry EXCEPT ![rec.host] = rec.creds]
    /\ rec' = IF rec.first
                THEN [pc |-> "get", host |-> rec.host, first |-> TRUE] ELSE Idle
    /\ UNCHANGED <<want, hostQueue, events, raced>>

RecGet ==
    /\ RecStep
    /\ rec.pc = "get"
    /\ ProbeNamed("rec", rec.host)
    /\ rec' = Idle
    /\ UNCHANGED <<entry, hostQueue, events, raced>>

-----------------------------------------------------------------------------
(* The worker of the Secret controller: Reconcile, UpdateSecret.           *)

SecStep ==
    /\ want["sec"] = NoProbe
    /\ UNCHANGED <<World, obj, cached, behind, lock, held, hostQueue, rec, tick, events>>

SecStart ==
    /\ SecStep
    /\ sec = Idle /\ secretQueue
    /\ secretQueue' = FALSE
    /\ sec' = [pc |-> IF default THEN "config" ELSE "apply", val |-> seenSecret]
    /\ UNCHANGED <<config, entry, want, raced>>

\* Mutant: the configuration keeps the credentials of the start of the agent.
KeepConfig == UNCHANGED config

\* manager.go 86-91: the default Secret is copied into the configuration.
SetConfig == config' = sec.val

SecConfig ==
    /\ SecStep
    /\ sec.pc = "config"
    /\ SetConfig
    /\ sec' = [sec EXCEPT !.pc = "apply"]
    /\ UNCHANGED <<entry, want, secretQueue, raced>>

\* UpdateSecet: every entry gets the new credentials; those that differed are
\* probed next.
SecApply ==
    LET changed == {h \in Hosts : entry[h] \notin {None, sec.val}} IN
    /\ SecStep
    /\ sec.pc = "apply"
    /\ entry' = [h \in Hosts |-> IF h \in changed THEN sec.val ELSE entry[h]]
    /\ sec' = IF changed = {} THEN Idle ELSE [pc |-> "hosts", todo |-> changed]
    /\ raced' = IF rec.pc = "add" THEN {rec.host} ELSE {}
    /\ UNCHANGED <<config, want, secretQueue>>

Next1(s, h) == IF s.todo = {h} THEN Idle ELSE [s EXCEPT !.todo = @ \ {h}]

SecHost(h) ==
    /\ SecStep
    /\ sec.pc = "hosts" /\ h \in sec.todo
    /\ ProbeNamed("sec", h)
    /\ sec' = Next1(sec, h)
    /\ UNCHANGED <<config, entry, secretQueue, raced>>

-----------------------------------------------------------------------------
(* UpdateHostStatusAtInterval.                                             *)

TickStep ==
    /\ want["tick"] = NoProbe
    /\ UNCHANGED <<World, config, obj, cached, behind, entry, lock, held, hostQueue,
                   secretQueue, rec, sec, events, raced>>

\* A tick: GetAll copies the entries.
TickStart ==
    LET all == {h \in Hosts : entry[h] # None} IN
    /\ TickStep
    /\ tick = Idle
    /\ all # {}
    /\ \E s \in [Hosts -> Creds \cup {None}] :
        /\ \A x \in Hosts : s[x] \in EntryRead(x)
        /\ tick' = [pc |-> "hosts", todo |-> all, snap |-> s]
    /\ UNCHANGED want

\* Lines 191-193: there is no entry.
TickNothing ==
    /\ tick = Idle /\ want["tick"] = NoProbe
    /\ \A h \in Hosts : entry[h] = None
    /\ UNCHANGED vars

\* The copied entries are probed one after the other.
TickHost(h) ==
    /\ TickStep
    /\ tick.pc = "hosts" /\ h \in tick.todo
    /\ want' = [want EXCEPT !["tick"] = [host |-> h, creds |-> tick.snap[h]]]
    /\ tick' = Next1(tick, h)

-----------------------------------------------------------------------------

ProbeStep(t) == Connect(t) \/ Read(t) \/ Write(t)

Rec == (\E h \in Hosts : RecStart(h)) \/ RecCreds \/ RecAdd \/ RecGet
Sec == SecStart \/ SecConfig \/ SecApply \/ (\E h \in Hosts : SecHost(h))
Tick == TickStart \/ TickNothing \/ (\E h \in Hosts : TickHost(h))

Next ==
    \/ SecretChange
    \/ SecretSync
    \/ \E h \in Hosts : HostChange(h) \/ HostSync(h) \/ UpChange(h)
    \/ \E t \in Threads : ProbeStep(t)
    \/ Rec
    \/ Sec
    \/ Tick

Spec == Init /\ [][Next]_vars

\* The watches, the workers and the ticker make progress; waiting for a mutex
\* needs strong fairness, which sync.Mutex gives.
Fairness ==
    /\ WF_vars(SecretSync)
    /\ \A h \in Hosts : WF_vars(HostSync(h)) /\ SF_vars(RecStart(h))
                        /\ WF_vars(TickHost(h))
    /\ \A t \in Threads : SF_vars(ProbeStep(t))
    /\ SF_vars(Rec) /\ WF_vars(Sec) /\ WF_vars(Tick)

FairSpec == Spec /\ Fairness

-----------------------------------------------------------------------------
(* Properties.                                                             *)

\* No change of the Secret is on its way to the entry of h.
Settled(h) ==
    /\ seenSecret = secret /\ ~secretQueue
    /\ sec.pc \notin {"config", "apply"}
    /\ rec.pc \in {"creds", "add"} => rec.host # h

\* A changed Secret reaches every entry of HostCacheDatabase, whichever of the
\* informer, the configuration and a direct GET is ahead of the others, except
\* when UpdateSecret runs between getSecretData and Add of the same host.
SecretsApplied ==
    \A h \in Hosts :
        entry[h] # None /\ Settled(h) /\ h \notin raced => entry[h] = secret

\* HostCacheDatabase is never out of step with the objects unnoticed: a host
\* with an entry and no object, or an object and no entry, is on its way to the
\* HostStatus worker by the watch or the queue, or in its hands.
MismatchIsPending ==
    \A h \in Hosts :
        \/ h \in behind \cup hostQueue
        \/ rec.pc \in {"creds", "add"} /\ rec.host = h
        \/ obj[h].exists <=> entry[h] # None

\* The health in the API server ends up as what the credentials in use can
\* reach: the periodic update makes up for every probe or write that failed.
HealthConverges ==
    <>[](\A h \in Hosts : obj[h].exists =>
            (obj[h].healthy <=> h \in up /\ entry[h] = BmcVersion))

\* HostCacheDatabase ends up with the objects that exist, and no others.
EntriesFollow == <>[](\A h \in Hosts : obj[h].exists <=> entry[h] # None)

\* What doc/usage/quickstart.md:286 says: an update of the Secret takes effect
\* at once, that is as soon as it has gone through the watch and the workers.
SecretTakesEffect ==
    \A h \in Hosts : entry[h] # None /\ Settled(h) => entry[h] = secret

=============================================================================

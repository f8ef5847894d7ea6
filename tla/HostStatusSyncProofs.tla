------------------------ MODULE HostStatusSyncProofs ------------------------
(***************************************************************************)
(* Proofs about HostStatusSync: its types, and that a changed Secret       *)
(* reaches every entry of HostCacheDatabase but in the one window of       *)
(* getSecretData and Add.                                                  *)
(***************************************************************************)
EXTENDS HostStatusSync, TLAPS

-----------------------------------------------------------------------------
(* Types.                                                                  *)

Held == {NotHeld} \cup [pc : {"read"}, conn : BOOLEAN]
                  \cup [pc : {"write"}, fresh : BOOLEAN, new : Object]
Want == {NoProbe} \cup [host : Hosts, creds : Creds]
RecState == {Idle} \cup [pc : {"creds", "get"}, host : Hosts, first : BOOLEAN]
              \cup [pc : {"add"}, host : Hosts, first : BOOLEAN, creds : Creds]
SecState == {Idle} \cup [pc : {"config", "apply"}, val : Versions]
                   \cup [pc : {"hosts"}, todo : SUBSET Hosts]
TickState == {Idle} \cup [pc : {"hosts"}, todo : SUBSET Hosts,
                          snap : [Hosts -> Creds \cup {None}]]

\* The conjuncts of TypeOK by what they are about: the world outside the agent,
\* the objects, the credentials, the probes and the three goroutines.
WorldOK ==
    /\ default \in BOOLEAN
    /\ secret \in Versions /\ seenSecret \in Versions /\ up \subseteq Hosts
    /\ hostQueue \subseteq Hosts /\ secretQueue \in BOOLEAN
    /\ events \in 0 .. MaxEvents /\ raced \subseteq Hosts
ObjectsOK ==
    /\ obj \in [Hosts -> Object] /\ cached \in [Hosts -> Object]
    /\ behind \subseteq Hosts
CredsOK == config \in Versions /\ entry \in [Hosts -> Creds \cup {None}]
ProbesOK ==
    /\ lock \in Threads \cup {"free"}
    /\ held \in Held
    /\ want \in [Threads -> Want]
ThreadsOK == rec \in RecState /\ sec \in SecState /\ tick \in TickState

\* What the periodic update has copied and not probed yet are entries.
Snapped == tick.pc = "hosts" => \A h \in tick.todo : tick.snap[h] # None

TInv == WorldOK /\ ObjectsOK /\ CredsOK /\ ProbesOK /\ ThreadsOK /\ Snapped

LEMMA TInvTypeOK == TInv => TypeOK
  BY DEF TInv, TypeOK, WorldOK, ObjectsOK, CredsOK, ProbesOK, ThreadsOK, Held,
         Want, RecState, SecState, TickState

\* What a goroutine reads of the configuration and of an entry.
LEMMA ConfigReadType == TInv => ConfigRead \subseteq Creds
  BY DEF TInv, CredsOK, ThreadsOK, SecState, ConfigRead, Creds, Idle

LEMMA EntryReadType ==
    ASSUME TInv, NEW h \in Hosts
    PROVE  /\ EntryRead(h) \subseteq Creds \cup {None}
           /\ entry[h] # None => None \notin EntryRead(h)
<1>1. entry[h] \in Creds \cup {None}
  BY DEF TInv, CredsOK
<1>2. sec.pc = "apply" => sec.val \in Versions
  BY DEF TInv, ThreadsOK, SecState, Idle
<1>3. Torn \in Creds /\ Versions \subseteq Creds /\ None \notin Creds
  BY HostStatusSyncAssumption DEF Creds, Versions
<1> QED
  BY <1>1, <1>2, <1>3 DEF EntryRead

LEMMA ObjectTypes ==
    /\ Absent \in Object /\ Created \in Object
    /\ \A o \in Object : o.exists \in BOOLEAN
    /\ \A e, h, i \in BOOLEAN : [exists |-> e, healthy |-> h, info |-> i] \in Object
<1>1. Absent \in Object
  BY DEF Absent, Object
<1>2. Created \in Object
  BY DEF Created, Absent, Object
<1> QED
  BY <1>1, <1>2 DEF Object

LEMMA TInit == Init => TInv
<1> SUFFICES ASSUME Init PROVE TInv
  OBVIOUS
<1>1. WorldOK
  BY HostStatusSyncAssumption DEF Init, WorldOK, Versions
<1>2. ObjectsOK
  BY ObjectTypes DEF Init, ObjectsOK
<1>3. CredsOK
  BY HostStatusSyncAssumption DEF Init, CredsOK, Versions
<1>4. ProbesOK
  BY DEF Init, ProbesOK, Held, Want
<1>5. ThreadsOK /\ Snapped
  BY DEF Init, ThreadsOK, RecState, SecState, TickState, Snapped, Idle
<1> QED
  BY <1>1, <1>2, <1>3, <1>4, <1>5 DEF TInv

LEMMA EventType == TInv /\ Event => events' \in 0 .. MaxEvents
  BY HostStatusSyncAssumption DEF TInv, WorldOK, Event

\* The other controllers, the watch of HostStatuses and the BMCs.
LEMMA TEnvironment ==
    ASSUME TInv, NEW h \in Hosts,
           \/ HostChange(h) \/ HostSync(h) \/ UpChange(h)
    PROVE  TInv'
<1>3. CASE HostChange(h)
  <2>1. held' \in Held
    <3>1. CASE held.pc = "write" /\ want[lock].host = h
      <4>1. held \in [pc : {"write"}, fresh : BOOLEAN, new : Object]
        BY <3>1 DEF TInv, ProbesOK, Held, NotHeld
      <4> QED
        BY <1>3, <3>1, <4>1 DEF HostChange, Held
    <3>2. CASE ~(held.pc = "write" /\ want[lock].host = h)
      BY <1>3, <3>2 DEF HostChange, TInv, ProbesOK
    <3> QED
      BY <3>1, <3>2
  <2>2. obj' \in [Hosts -> Object] /\ behind' \subseteq Hosts
    BY <1>3, ObjectTypes DEF HostChange, TInv, ObjectsOK
  <2>3. events' \in 0 .. MaxEvents
    BY <1>3, EventType DEF HostChange
  <2> QED
    BY <1>3, <2>1, <2>2, <2>3 DEF HostChange, World, TInv, WorldOK, ObjectsOK,
       CredsOK, ProbesOK, ThreadsOK, Snapped
<1>4. CASE HostSync(h)
  BY <1>4 DEF HostSync, Agent, TInv, WorldOK, ObjectsOK, CredsOK, ProbesOK,
     ThreadsOK, Snapped
<1>5. CASE UpChange(h)
  <2>1. events' \in 0 .. MaxEvents
    BY <1>5, EventType DEF UpChange
  <2> QED
    BY <1>5, <2>1 DEF UpChange, Agent, TInv, WorldOK, ObjectsOK, CredsOK,
       ProbesOK, ThreadsOK, Snapped
<1> QED
  BY <1>3, <1>4, <1>5

\* A probe: it reads and writes the object of a host that was asked for.
LEMMA TProbe ==
    ASSUME TInv, NEW t \in Threads, ProbeStep(t)
    PROVE  TInv'
<1>1. Probe(t)
  BY DEF ProbeStep, Connect, Read, Write
<1>2. want[t] \in [host : Hosts, creds : Creds] /\ want[t].host \in Hosts
  BY <1>1 DEF Probe, TInv, ProbesOK, Want
<1>3. CredsOK' /\ ThreadsOK' /\ Snapped'
  BY <1>1 DEF Probe, TInv, CredsOK, ThreadsOK, Snapped
<1>4. events' \in 0 .. MaxEvents
  BY EventType DEF TInv, WorldOK, ProbeStep, Connect, Read, Write
<1>5. WorldOK'
  BY <1>1, <1>4 DEF Probe, World, TInv, WorldOK
<1>6. ASSUME Release(t) PROVE ProbesOK'
  BY <1>6 DEF Release, TInv, ProbesOK, Held, Want
<1>7. CASE Connect(t)
  <2> DEFINE c == want[t].host \in up /\ want[t].creds = BmcVersion
  <2>1. \A b \in BOOLEAN : [pc |-> "read", conn |-> b] \in Held
    BY DEF Held
  <2>2. [pc |-> "read", conn |-> c] \in Held /\ [pc |-> "read", conn |-> FALSE] \in Held
    <3>1. c \in BOOLEAN
      OBVIOUS
    <3> HIDE DEF c
    <3> QED
      BY <2>1, <3>1
  <2>3. held' = [pc |-> "read", conn |-> c] \/ held' = [pc |-> "read", conn |-> FALSE]
    BY <1>7 DEF Connect
  <2>4. held' \in Held
    <3> HIDE DEF c
    <3> QED
      BY <2>2, <2>3
  <2> QED
    BY <1>1, <1>3, <1>5, <1>7, <2>4 DEF Connect, Probe, TInv, ObjectsOK, ProbesOK
<1>8. CASE Read(t)
  <2>1. ObjectsOK'
    BY <1>1, <1>8 DEF Read, Probe, TInv, ObjectsOK
  <2>2. held.conn \in BOOLEAN
    BY <1>8 DEF Read, TInv, ProbesOK, Held, NotHeld
  <2>3. cached[want[t].host].exists \in BOOLEAN
    BY <1>2, ObjectTypes DEF TInv, ObjectsOK
  <2> DEFINE o == cached[want[t].host]
             n(info) == [exists |-> o.exists, healthy |-> held.conn,
                         info |-> held.conn /\ info]
  <2>4. ASSUME NEW info \in BOOLEAN PROVE n(info) \in Object
    BY <2>2, <2>3, ObjectTypes
  <2>5. PICK info \in BOOLEAN :
          \/ /\ held' = [pc |-> "write", fresh |-> want[t].host \notin behind,
                         new |-> n(info)]
             /\ UNCHANGED <<lock, want>>
          \/ Release(t)
    BY <1>8 DEF Read
  <2>6. ProbesOK'
    <3>1. CASE Release(t)
      BY <1>6, <3>1
    <3>2. CASE ~Release(t)
      <4>1. [pc |-> "write", fresh |-> want[t].host \notin behind, new |-> n(info)]
              \in [pc : {"write"}, fresh : BOOLEAN, new : Object]
        BY <2>4
      <4> QED
        BY <2>5, <3>2, <4>1 DEF TInv, ProbesOK, Held
    <3> QED
      BY <3>1, <3>2
  <2> QED
    BY <1>3, <1>5, <2>1, <2>6 DEF TInv
<1>9. CASE Write(t)
  <2>1. held.new \in Object
    BY <1>9 DEF Write, TInv, ProbesOK, Held, NotHeld
  <2>2. ObjectsOK'
    BY <1>1, <1>2, <1>9, <2>1 DEF Write, Probe, TInv, ObjectsOK
  <2>3. ProbesOK'
    BY <1>6, <1>9 DEF Write
  <2> QED
    BY <1>3, <1>5, <2>2, <2>3 DEF TInv
<1> QED
  BY <1>7, <1>8, <1>9 DEF ProbeStep

LEMMA ProbeNamedType ==
    ASSUME TInv, NEW t \in Threads, NEW h \in Hosts, ProbeNamed(t, h)
    PROVE  want' \in [Threads -> Want]
<1>1. PICK c \in EntryRead(h) :
        want' = IF HasEntry(c) THEN [want EXCEPT ![t] = [host |-> h, creds |-> c]]
                               ELSE want
  BY DEF ProbeNamed
<1>2. c # None => c \in Creds
  BY <1>1, EntryReadType
<1> QED
  BY <1>1, <1>2 DEF HasEntry, TInv, ProbesOK, Want

\* The worker of the HostStatus controller.
LEMMA TRec ==
    ASSUME TInv, Rec
    PROVE  TInv'
<1>1. RecStep
  BY DEF Rec, RecStart, RecCreds, RecAdd, RecGet
<1>2. ObjectsOK'
  BY <1>1 DEF RecStep, TInv, ObjectsOK
<1>3. config' = config /\ lock' = lock /\ held' = held /\ sec' = sec /\ tick' = tick
      /\ default' = default /\ secret' = secret /\ seenSecret' = seenSecret /\ up' = up
      /\ secretQueue' = secretQueue
  BY <1>1 DEF RecStep, World
<1> USE <1>3 DEF TInv, WorldOK, CredsOK, ProbesOK, ThreadsOK, Snapped
<1>4. ASSUME NEW h \in Hosts, RecStart(h) PROVE TInv'
  <2>1. cached[h] \in Object
    BY DEF ObjectsOK
  <2> DEFINE f == ~cached[h].info
  <2>2. f \in BOOLEAN
    OBVIOUS
  <2>3. [pc |-> "creds", host |-> h, first |-> f] \in RecState
    <3> HIDE DEF f
    <3> QED
      BY <2>2 DEF RecState
  <2>4. rec' = [pc |-> "creds", host |-> h, first |-> f] \/ rec' = rec
    BY <1>4 DEF RecStart
  <2>5. rec' \in RecState
    <3> HIDE DEF f
    <3> QED
      BY <2>3, <2>4
  <2>6. entry' \in [Hosts -> Creds \cup {None}]
    BY <1>4 DEF RecStart, ForgetEntry
  <2> QED
    BY <1>2, <1>4, <2>5, <2>6 DEF RecStart
<1>5. CASE RecCreds
  <2>1. rec.host \in Hosts /\ rec.first \in BOOLEAN
    BY <1>5 DEF RecCreds, RecState, Idle
  <2>2. ASSUME NEW c \in (IF default THEN ConfigRead ELSE {secret}) PROVE c \in Creds
    BY <2>2, ConfigReadType DEF Creds
  <2>3. rec' \in RecState
    BY <1>5, <2>1, <2>2 DEF RecCreds, RecState
  <2>4. events' \in 0 .. MaxEvents
    BY <1>5, EventType DEF RecCreds
  <2> QED
    BY <1>2, <1>5, <2>1, <2>3, <2>4 DEF RecCreds, RequeueHost
<1>6. CASE RecAdd
  <2>1. rec.host \in Hosts /\ rec.creds \in Creds
    BY <1>6 DEF RecAdd, RecState, Idle
  <2>2. rec' \in RecState
    BY <1>6, <2>1 DEF RecAdd, RecState
  <2> QED
    BY <1>2, <1>6, <2>1, <2>2 DEF RecAdd
<1>7. CASE RecGet
  <2>1. rec.host \in Hosts
    BY <1>7 DEF RecGet, RecState, Idle
  <2>2. want' \in [Threads -> Want]
    BY <1>7, <2>1, ProbeNamedType DEF RecGet, Threads
  <2>3. rec' \in RecState
    BY <1>7 DEF RecGet, RecState
  <2> QED
    BY <1>2, <1>7, <2>2, <2>3 DEF RecGet
<1> QED
  BY <1>4, <1>5, <1>6, <1>7 DEF Rec

\* The worker of the Secret controller.
LEMMA TSec ==
    ASSUME TInv, Sec
    PROVE  TInv'
<1>1. SecStep
  BY DEF Sec, SecStart, SecConfig, SecApply, SecHost
<1>2. ObjectsOK'
  BY <1>1 DEF SecStep, TInv, ObjectsOK
<1>3. lock' = lock /\ held' = held /\ rec' = rec /\ tick' = tick
      /\ default' = default /\ secret' = secret /\ seenSecret' = seenSecret /\ up' = up
      /\ hostQueue' = hostQueue /\ events' = events
  BY <1>1 DEF SecStep, World
<1> USE <1>3 DEF TInv, WorldOK, CredsOK, ProbesOK, ThreadsOK, Snapped
<1>4. CASE SecStart
  <2>1. sec' \in SecState
    BY <1>4 DEF SecStart, SecState
  <2> QED
    BY <1>2, <1>4, <2>1 DEF SecStart
<1>5. CASE SecConfig
  <2>1. sec \in [pc : {"config", "apply"}, val : Versions]
    BY <1>5 DEF SecConfig, SecState, Idle
  <2>2. sec' \in SecState
    BY <1>5, <2>1 DEF SecConfig, SecState
  <2> QED
    BY <1>2, <1>5, <2>1, <2>2 DEF SecConfig, SetConfig
<1>6. CASE SecApply
  <2>1. sec.val \in Versions
    BY <1>6 DEF SecApply, SecState, Idle
  <2>2. entry' \in [Hosts -> Creds \cup {None}]
    BY <1>6, <2>1 DEF SecApply, Creds
  <2>3. sec' \in SecState
    BY <1>6 DEF SecApply, SecState
  <2>4. raced' \subseteq Hosts
    BY <1>6 DEF SecApply, RecState, Idle
  <2> QED
    BY <1>2, <1>6, <2>2, <2>3, <2>4 DEF SecApply
<1>7. ASSUME NEW h \in Hosts, SecHost(h) PROVE TInv'
  <2>1. sec \in [pc : {"hosts"}, todo : SUBSET Hosts]
    BY <1>7 DEF SecHost, SecState, Idle
  <2>2. sec' \in SecState
    BY <1>7, <2>1 DEF SecHost, Next1, SecState
  <2>3. want' \in [Threads -> Want]
    BY <1>7, ProbeNamedType DEF SecHost, Threads
  <2> QED
    BY <1>2, <1>7, <2>2, <2>3 DEF SecHost
<1> QED
  BY <1>4, <1>5, <1>6, <1>7 DEF Sec

\* The periodic update probes what it has copied, and that are entries.
LEMMA TTick ==
    ASSUME TInv, Tick
    PROVE  TInv'
<1>1. CASE TickNothing
  BY <1>1 DEF TickNothing, vars, TInv, WorldOK, ObjectsOK, CredsOK, ProbesOK,
     ThreadsOK, Snapped
<1>2. ASSUME TickStep, tick' \in TickState, Snapped', want' \in [Threads -> Want]
      PROVE  TInv'
  BY <1>2 DEF TickStep, World, TInv, WorldOK, ObjectsOK, CredsOK, ProbesOK, ThreadsOK
<1>3. CASE TickStart
  <2> DEFINE all == {h \in Hosts : entry[h] # None}
  <2>1. PICK s \in [Hosts -> Creds \cup {None}] :
          /\ \A x \in Hosts : s[x] \in EntryRead(x)
          /\ tick' = [pc |-> "hosts", todo |-> all, snap |-> s]
    BY <1>3 DEF TickStart
  <2>2. \A h \in all : s[h] # None
    BY <2>1, EntryReadType
  <2>3. tick' \in TickState /\ Snapped'
    BY <2>1, <2>2 DEF TickState, Snapped
  <2> QED
    BY <1>2, <1>3, <2>3 DEF TickStart, TInv, ProbesOK
<1>4. ASSUME NEW h \in Hosts, TickHost(h) PROVE TInv'
  <2>1. tick \in [pc : {"hosts"}, todo : SUBSET Hosts,
                  snap : [Hosts -> Creds \cup {None}]]
    BY <1>4 DEF TickHost, TInv, ThreadsOK, TickState, Idle
  <2>2. tick.snap[h] \in Creds
    BY <1>4, <2>1 DEF TickHost, TInv, Snapped
  <2>3. want' \in [Threads -> Want]
    BY <1>4, <2>2 DEF TickHost, TInv, ProbesOK, Want, Threads
  <2>4. tick' \in TickState /\ Snapped'
    BY <1>4, <2>1 DEF TickHost, Next1, TInv, TickState, Snapped, Idle
  <2> QED
    BY <1>2, <1>4, <2>3, <2>4 DEF TickHost
<1> QED
  BY <1>1, <1>3, <1>4 DEF Tick

LEMMA TStep == TInv /\ [Next]_vars => TInv'
<1> SUFFICES ASSUME TInv, [Next]_vars PROVE TInv'
  OBVIOUS
<1>1. CASE UNCHANGED vars
  BY <1>1 DEF vars, TInv, WorldOK, ObjectsOK, CredsOK, ProbesOK, ThreadsOK, Snapped
<1>2. CASE SecretChange \/ SecretSync
  <2>1. CASE SecretChange
    <3>1. secret' \in Versions
      BY <2>1, HostStatusSyncAssumption DEF TInv, WorldOK, SecretChange, Versions
    <3> QED
      BY <2>1, <3>1 DEF SecretChange, Agent, TInv, WorldOK, ObjectsOK, CredsOK,
         ProbesOK, ThreadsOK, Snapped
  <2>2. CASE SecretSync
    BY <2>2 DEF SecretSync, Agent, TInv, WorldOK, ObjectsOK, CredsOK, ProbesOK,
       ThreadsOK, Snapped
  <2> QED
    BY <1>2, <2>1, <2>2
<1>3. CASE \E h \in Hosts : HostChange(h) \/ HostSync(h) \/ UpChange(h)
  BY <1>3, TEnvironment
<1>4. CASE \E t \in Threads : ProbeStep(t)
  BY <1>4, TProbe
<1> QED
  BY <1>1, <1>2, <1>3, <1>4, TRec, TSec, TTick DEF Next

\* The variables keep their types, for every number of hosts and events.
THEOREM TypesHold == Spec => []TypeOK
<1>1. Spec => []TInv
  BY TInit, TStep, PTL DEF Spec
<1> QED
  BY <1>1, TInvTypeOK, PTL

-----------------------------------------------------------------------------
(* Where a changed Secret is.  It goes from the API server to the informer *)
(* and the work queue, from there into sec.val and the configuration, and  *)
(* from there into every entry; a worker that has read the credentials of  *)
(* a host before that is marked in raced.                                  *)

\* The informer is not ahead of the API server.
Behind == seenSecret <= secret

\* The Secret worker has taken up what the informer holds.
TakenUp == sec.pc \in {"config", "apply"} /\ ~secretQueue => sec.val = seenSecret

\* It has then copied the default Secret into the configuration.
ConfigSet == default /\ ~secretQueue /\ sec.pc # "config" => config = seenSecret

\* No change of the Secret is on its way to the entries.
Arrived == seenSecret = secret /\ ~secretQueue /\ sec.pc \notin {"config", "apply"}

\* What the HostStatus worker is about to store is then the Secret,
InHand == Arrived /\ rec.pc = "add" /\ rec.host \notin raced => rec.creds = secret

\* and so are the entries it is not about to overwrite.
Adding(h) == rec.pc = "add" /\ rec.host = h
Applied ==
    \A h \in Hosts :
      Arrived /\ entry[h] # None /\ h \notin raced /\ ~Adding(h) => entry[h] = secret

SInv == Behind /\ TakenUp /\ ConfigSet /\ InHand /\ Applied

LEMMA SInit == Init => SInv
  BY HostStatusSyncAssumption DEF Init, SInv, Behind, TakenUp, ConfigSet, InHand,
     Applied, Arrived, Adding, Idle

\* A step that touches neither the Secret nor its copies changes nothing here.
SecretVars == <<default, secret, seenSecret, config, entry, secretQueue, rec, sec, raced>>

LEMMA SOthers == ASSUME SInv, UNCHANGED SecretVars PROVE SInv'
  BY DEF SecretVars, SInv, Behind, TakenUp, ConfigSet, InHand, Applied, Arrived,
     Adding

\* The Secret changes, or the watch delivers it: nothing has arrived then.
LEMMA SSecret ==
    ASSUME TInv, SInv, SecretChange \/ SecretSync
    PROVE  SInv'
<1>1. secret \in Nat /\ seenSecret \in Nat
  BY HostStatusSyncAssumption DEF TInv, WorldOK, Versions
<1>2. CASE SecretChange
  <2>1. ~Arrived' /\ Behind'
    BY <1>1, <1>2 DEF SecretChange, SInv, Behind, Arrived
  <2> QED
    BY <1>2, <2>1 DEF SecretChange, Agent, SInv, TakenUp, ConfigSet, InHand, Applied
<1>3. CASE SecretSync
  <2>1. secretQueue' /\ Behind'
    BY <1>1, <1>3 DEF SecretSync, SInv, Behind
  <2> QED
    BY <1>3, <2>1 DEF SecretSync, SInv, TakenUp, ConfigSet, InHand, Applied, Arrived
<1> QED
  BY <1>2, <1>3

\* The HostStatus worker: what it reads when nothing is on its way is the
\* Secret itself, and it stores it before UpdateSecret has run again or is
\* marked.
LEMMA SRec ==
    ASSUME TInv, SInv, Rec
    PROVE  SInv'
<1>1. RecStep
  BY DEF Rec, RecStart, RecCreds, RecAdd, RecGet
<1>2. UNCHANGED <<default, secret, seenSecret, config, secretQueue, sec>>
  BY <1>1 DEF RecStep, World
<1>3. Behind' /\ TakenUp' /\ ConfigSet' /\ Arrived' = Arrived
  BY <1>2 DEF SInv, Behind, TakenUp, ConfigSet, Arrived
<1>4. entry \in [Hosts -> Creds \cup {None}] /\ rec \in RecState
  BY DEF TInv, CredsOK, ThreadsOK
<1>5. ASSUME NEW h \in Hosts, RecStart(h) PROVE SInv'
  <2>1. InHand'
    BY <1>2, <1>3, <1>5 DEF RecStart, SInv, InHand, Idle
  <2>2. Applied'
    BY <1>2, <1>3, <1>4, <1>5 DEF RecStart, ForgetEntry, SInv, Applied, Adding, Idle
  <2> QED
    BY <1>3, <2>1, <2>2 DEF SInv
<1>6. CASE RecCreds
  <2>1. ASSUME Arrived, NEW c \in (IF default THEN ConfigRead ELSE {secret})
        PROVE  c = secret
    BY <2>1 DEF ConfigRead, Arrived, SInv, ConfigSet
  <2>2. InHand'
    BY <1>2, <1>3, <1>6, <2>1 DEF RecCreds, InHand, Idle
  <2>3. Applied'
    BY <1>2, <1>3, <1>6 DEF RecCreds, SInv, Applied, Adding, Idle
  <2> QED
    BY <1>3, <2>2, <2>3 DEF SInv
<1>7. CASE RecAdd
  <2>1. InHand'
    BY <1>7 DEF RecAdd, InHand, Idle
  <2>2. rec.host \in Hosts
    BY <1>4, <1>7 DEF RecAdd, RecState, Idle
  <2>3. Applied'
    BY <1>2, <1>3, <1>4, <1>7, <2>2 DEF RecAdd, SInv, InHand, Applied, Adding, Idle
  <2> QED
    BY <1>3, <2>1, <2>3 DEF SInv
<1>8. CASE RecGet
  <2>1. InHand' /\ Applied'
    BY <1>2, <1>3, <1>8 DEF RecGet, SInv, InHand, Applied, Adding, Idle
  <2> QED
    BY <1>3, <2>1 DEF SInv
<1> QED
  BY <1>5, <1>6, <1>7, <1>8 DEF Rec

\* The Secret worker: UpdateSecet overwrites every entry.
LEMMA SSec ==
    ASSUME TInv, SInv, Sec
    PROVE  SInv'
<1>1. SecStep
  BY DEF Sec, SecStart, SecConfig, SecApply, SecHost
<1>2. UNCHANGED <<default, secret, seenSecret, rec>>
  BY <1>1 DEF SecStep, World
<1>3. Behind'
  BY <1>2 DEF SInv, Behind
<1>4. CASE SecStart
  <2>1. ~Arrived'
    BY <1>4 DEF SecStart, Arrived
  <2>2. TakenUp' /\ ConfigSet'
    BY <1>2, <1>4 DEF SecStart, TakenUp, ConfigSet
  <2> QED
    BY <1>3, <2>1, <2>2 DEF SInv, InHand, Applied
<1>5. CASE SecConfig
  <2>1. sec \in [pc : {"config", "apply"}, val : Versions]
    BY <1>5 DEF SecConfig, TInv, ThreadsOK, SecState, Idle
  <2>2. sec' = [pc |-> "apply", val |-> sec.val]
    BY <1>5, <2>1 DEF SecConfig
  <2>3. ~Arrived'
    BY <2>2 DEF Arrived
  <2>4. TakenUp' /\ ConfigSet'
    BY <1>2, <1>5, <2>2 DEF SecConfig, SetConfig, SInv, TakenUp, ConfigSet
  <2> QED
    BY <1>3, <2>3, <2>4 DEF SInv, InHand, Applied
<1>6. CASE SecApply
  <2>1. TakenUp' /\ ConfigSet'
    BY <1>2, <1>6 DEF SecApply, SInv, TakenUp, ConfigSet, Idle
  <2>2. InHand'
    BY <1>2, <1>6 DEF SecApply, InHand
  <2>3. ASSUME Arrived' PROVE sec.val = secret
    BY <1>2, <1>6, <2>3 DEF SecApply, SInv, TakenUp, Arrived
  <2>4. Applied'
    BY <1>2, <1>6, <2>3 DEF SecApply, Applied
  <2> QED
    BY <1>3, <2>1, <2>2, <2>4 DEF SInv
<1>7. ASSUME NEW h \in Hosts, SecHost(h) PROVE SInv'
  <2>1. sec \in [pc : {"hosts"}, todo : SUBSET Hosts]
    BY <1>7 DEF SecHost, TInv, ThreadsOK, SecState, Idle
  <2>2. sec'.pc \in {"hosts", "idle"}
    BY <1>7, <2>1 DEF SecHost, Next1, Idle
  <2> QED
    BY <1>2, <1>3, <1>7, <2>1, <2>2 DEF SecHost, SInv, TakenUp, ConfigSet, InHand,
       Applied, Arrived, Adding
<1> QED
  BY <1>4, <1>5, <1>6, <1>7 DEF Sec

LEMMA SStep == TInv /\ SInv /\ [Next]_vars => SInv'
<1> SUFFICES ASSUME TInv, SInv, [Next]_vars PROVE SInv'
  OBVIOUS
<1>1. CASE UNCHANGED vars
  BY <1>1, SOthers DEF vars, SecretVars
<1>2. ASSUME NEW h \in Hosts, HostChange(h) \/ HostSync(h) \/ UpChange(h) PROVE SInv'
  <2>1. UNCHANGED SecretVars
    BY <1>2 DEF HostChange, HostSync, UpChange, World, Agent, SecretVars
  <2> QED
    BY <2>1, SOthers
<1>3. ASSUME NEW t \in Threads, ProbeStep(t) PROVE SInv'
  <2>1. UNCHANGED SecretVars
    BY <1>3 DEF ProbeStep, Connect, Read, Write, Probe, World, SecretVars
  <2> QED
    BY <2>1, SOthers
<1>4. CASE Tick
  <2>1. UNCHANGED SecretVars
    BY <1>4 DEF Tick, TickStart, TickNothing, TickHost, TickStep, World, vars, SecretVars
  <2> QED
    BY <2>1, SOthers
<1> QED
  BY <1>1, <1>2, <1>3, <1>4, SSecret, SRec, SSec DEF Next

LEMMA SInvApplied == SInv => SecretsApplied
  BY DEF SInv, Applied, Arrived, Adding, SecretsApplied, Settled

\* A changed Secret reaches every entry of HostCacheDatabase, for every number
\* of hosts and of changes, whatever the workers and the ticker do meanwhile,
\* but for a host whose credentials getSecretData had read and Add had not stored
\* when UpdateSecret ran.
THEOREM SecretsReachHosts == Spec => []SecretsApplied
<1>1. Spec => [](TInv /\ SInv)
  BY TInit, TStep, SInit, SStep, PTL DEF Spec
<1> QED
  BY <1>1, SInvApplied, PTL

-----------------------------------------------------------------------------
(* The entries and the objects.                                            *)

Handling(h) == rec.pc \in {"creds", "add"} /\ rec.host = h
Pending(h) == h \in behind \/ h \in hostQueue

\* The informer cache is current for a host that is not behind; the worker has
\* in hand a host that exists, and the entry of any other host is right, unless
\* the host is to be looked at again.
EInv ==
    \A h \in Hosts :
        /\ h \notin behind => cached[h] = obj[h]
        /\ ~Pending(h) /\ Handling(h) => obj[h].exists
        /\ ~Pending(h) /\ ~Handling(h) => (obj[h].exists <=> entry[h] # None)

LEMMA EInit == Init => EInv
<1> SUFFICES ASSUME Init, NEW h \in Hosts, h \notin hostQueue
             PROVE  cached[h] = obj[h] /\ ~obj[h].exists /\ entry[h] = None /\ ~Handling(h)
  BY DEF Init, EInv, Pending, Handling, Idle
<1>1. ~obj[h].exists /\ entry[h] = None /\ cached[h] = obj[h]
  BY DEF Init
<1>2. ~Handling(h)
  BY DEF Init, Handling, Idle
<1> QED
  BY <1>1, <1>2

\* A step that leaves the objects, their copies, the entries and the worker.
LEMMA EStay ==
    ASSUME EInv, UNCHANGED <<obj, cached, behind, entry, hostQueue, rec>>
    PROVE  EInv'
  BY DEF EInv, Pending, Handling

\* A host whose object changes is behind, one that is synchronised is queued.
LEMMA EHost ==
    ASSUME TInv, EInv, NEW h \in Hosts, HostChange(h) \/ HostSync(h)
    PROVE  EInv'
<1>1. obj \in [Hosts -> Object] /\ cached \in [Hosts -> Object]
  BY DEF TInv, ObjectsOK
<1>2. UNCHANGED <<entry, rec>>
  BY DEF HostChange, HostSync, Agent
<1>3. CASE HostChange(h)
  <2>1. /\ behind' = behind \cup {h} /\ UNCHANGED <<cached, hostQueue>>
        /\ \A g \in Hosts : g # h => obj'[g] = obj[g]
    BY <1>1, <1>3 DEF HostChange
  <2> QED
    BY <1>2, <2>1 DEF EInv, Pending, Handling
<1>4. CASE HostSync(h)
  <2>1. /\ behind' = behind \ {h} /\ hostQueue' = hostQueue \cup {h} /\ obj' = obj
        /\ cached'[h] = obj[h] /\ \A g \in Hosts : g # h => cached'[g] = cached[g]
    BY <1>1, <1>4 DEF HostSync
  <2> QED
    BY <1>2, <2>1 DEF EInv, Pending, Handling
<1> QED
  BY <1>3, <1>4

\* A probe changes an object only by a write, which leaves it behind.
LEMMA EProbe ==
    ASSUME TInv, EInv, NEW t \in Threads, ProbeStep(t)
    PROVE  EInv'
<1>1. UNCHANGED <<cached, entry, hostQueue, rec>>
  BY DEF ProbeStep, Connect, Read, Write, Probe
<1>2. CASE UNCHANGED <<obj, behind>>
  BY <1>1, <1>2, EStay
<1>3. ASSUME NEW h, NEW o, obj' = [obj EXCEPT ![h] = o], behind' = behind \cup {h}
      PROVE  EInv'
  <2>1. obj \in [Hosts -> Object]
    BY DEF TInv, ObjectsOK
  <2> QED
    BY <1>1, <1>3, <2>1 DEF EInv, Pending, Handling
<1> QED
  BY <1>2, <1>3 DEF ProbeStep, Connect, Read, Write

\* The worker takes a host from the queue and leaves it with the right entry,
\* or puts it back.
LEMMA ERec ==
    ASSUME TInv, EInv, Rec
    PROVE  EInv'
<1>1. UNCHANGED <<obj, cached, behind>>
  BY DEF Rec, RecStart, RecCreds, RecAdd, RecGet, RecStep
<1>2. entry \in [Hosts -> Creds \cup {None}] /\ rec \in RecState /\ None \notin Creds
  BY HostStatusSyncAssumption DEF TInv, CredsOK, ThreadsOK, Creds, Versions
<1>3. ASSUME NEW h \in Hosts, RecStart(h) PROVE EInv'
  <2>1. /\ rec = Idle /\ hostQueue' = hostQueue \ {h} /\ h \in hostQueue
        /\ \A g \in Hosts : ~Handling(g)
    BY <1>3 DEF RecStart, Handling, Idle
  <2>2. CASE cached[h].exists
    <3>1. /\ rec'.pc = "creds" /\ rec'.host = h /\ entry' = entry
      BY <1>3, <2>2 DEF RecStart
    <3> QED
      BY <1>1, <2>1, <2>2, <3>1 DEF EInv, Pending, Handling
  <2>3. CASE ~cached[h].exists
    <3>1. rec' = rec /\ entry' = [entry EXCEPT ![h] = None]
      BY <1>3, <2>3 DEF RecStart, ForgetEntry
    <3> QED
      BY <1>1, <1>2, <2>1, <2>3, <3>1 DEF EInv, Pending, Handling
  <2> QED
    BY <2>2, <2>3
<1>4. CASE RecCreds
  <2>1. rec.pc = "creds" /\ rec.host \in Hosts /\ entry' = entry
    BY <1>2, <1>4 DEF RecCreds, RecState, Idle
  <2>2. \/ rec'.pc = "add" /\ rec'.host = rec.host /\ hostQueue' = hostQueue
        \/ rec'.pc = "idle" /\ hostQueue' = hostQueue \cup {rec.host}
    BY <1>4 DEF RecCreds, RequeueHost, Idle
  <2> QED
    BY <1>1, <2>1, <2>2 DEF EInv, Pending, Handling
<1>5. CASE RecAdd
  <2>1. /\ rec.pc = "add" /\ rec.host \in Hosts /\ rec.creds # None
        /\ hostQueue' = hostQueue
        /\ entry' = [entry EXCEPT ![rec.host] = rec.creds]
        /\ rec'.pc \in {"get", "idle"}
    BY <1>2, <1>5 DEF RecAdd, RecState, Idle
  <2> QED
    BY <1>1, <1>2, <2>1 DEF EInv, Pending, Handling
<1>6. CASE RecGet
  <2>1. rec.pc = "get" /\ rec'.pc = "idle" /\ UNCHANGED <<entry, hostQueue>>
    BY <1>6 DEF RecGet, Idle
  <2> QED
    BY <1>1, <2>1 DEF EInv, Pending, Handling
<1> QED
  BY <1>3, <1>4, <1>5, <1>6 DEF Rec

\* The Secret worker changes entries and neither makes nor deletes one.
LEMMA ESec ==
    ASSUME TInv, EInv, Sec
    PROVE  EInv'
<1>1. UNCHANGED <<obj, cached, behind, hostQueue, rec>>
  BY DEF Sec, SecStart, SecConfig, SecApply, SecHost, SecStep
<1>2. CASE SecApply
  <2>1. sec.val # None
    BY <1>2, HostStatusSyncAssumption
       DEF SecApply, TInv, ThreadsOK, SecState, Idle, Versions
  <2>2. \A h \in Hosts : entry'[h] # None <=> entry[h] # None
    BY <1>2, <2>1 DEF SecApply
  <2> QED
    BY <1>1, <2>2 DEF EInv, Pending, Handling
<1>3. CASE entry' = entry
  BY <1>1, <1>3, EStay
<1> QED
  BY <1>2, <1>3 DEF Sec, SecStart, SecConfig, SecHost

LEMMA EStep == TInv /\ EInv /\ [Next]_vars => EInv'
<1> SUFFICES ASSUME TInv, EInv, [Next]_vars PROVE EInv'
  OBVIOUS
<1>1. CASE SecretChange \/ SecretSync \/ (\E h \in Hosts : UpChange(h)) \/ Tick
           \/ UNCHANGED vars
  <2>1. UNCHANGED <<obj, cached, behind, entry, hostQueue, rec>>
    BY <1>1 DEF SecretChange, SecretSync, UpChange, Agent, Tick, TickStart,
                TickNothing, TickHost, TickStep, vars
  <2> QED
    BY <2>1, EStay
<1> QED
  BY <1>1, EHost, EProbe, ERec, ESec DEF Next

\* For any hosts, events and changes of the Secret: an entry without an object,
\* or an object without an entry, is always still to be handled.
THEOREM MismatchAlwaysPending == Spec => []MismatchIsPending
<1>1. EInv => MismatchIsPending
  BY DEF EInv, Pending, Handling, MismatchIsPending
<1> QED
  BY <1>1, TInit, TStep, EInit, EStep, PTL DEF Spec
=============================================================================

------------------------ MODULE DhcpDiscoveryProofs ------------------------
(***************************************************************************)
(* Proofs about DhcpDiscovery, for any sets of addresses and MACs and any  *)
(* number of lease changes, errors, foreign writes and restarts.           *)
(***************************************************************************)
EXTENDS DhcpDiscovery, TLAPS

USE DhcpDiscoveryAssumption

-----------------------------------------------------------------------------
(* The type invariant.                                                     *)

\* The handler that has an event in hand.
LEMMA HandlerType ==
    ASSUME TypeOK, h.pc # "idle"
    PROVE  h \in Handler /\ h.event \in Event /\ h.seen \in Object
           /\ h.event.ip \in IPs /\ h.event.mac \in MACs
<1>1. h \in Handler
  BY DEF TypeOK, IdleHandler
<1>2. h.event \in Event /\ h.seen \in Object
  BY <1>1 DEF Handler
<1> QED
  BY <1>1, <1>2 DEF Event

\* A handler is not idle.
LEMMA BusyHandler == \A v \in Handler : v # IdleHandler
<1> SUFFICES ASSUME NEW v \in Handler PROVE v # IdleHandler
  OBVIOUS
<1>1. v.pc \in {"setmac", "create", "fill", "label", "delete"} /\ IdleHandler.pc = "idle"
  BY DEF Handler, IdleHandler
<1> QED
  BY <1>1

LEMMA AbsentOK ==
    ASSUME NEW v \in Nat
    PROVE  /\ Absent(v) \in Object /\ Absent(v).ver = v
           /\ ~Absent(v).exists /\ ~Absent(v).filled
BY DEF Absent, Object

\* The counters of the bounds.
LEMMA SpendOK ==
    ASSUME TypeOK, NEW b \in {"lease", "error", "touch", "restart"}, Spend(b)
    PROVE  budget' \in [{"lease", "error", "touch", "restart"} -> Nat]
BY DEF TypeOK, Spend

\* What the consumer holds after it has received an event: nothing, or the event
\* with what the informer cache shows.
LEMMA ReceiveOK ==
    ASSUME TypeOK, NEW e \in Event, Receive(e)
    PROVE  /\ e.ip \in IPs
           /\ \/ h' = IdleHandler
              \/ /\ h' \in Handler /\ h'.event = e /\ h'.seen = cached[e.ip]
                 /\ h'.pc \in {"create", "delete"} \/ cached[e.ip].exists
           /\ suspect' \subseteq IPs
<1>1. e.ip \in IPs
  BY DEF Event
<1>2. cached[e.ip] \in Object
  BY <1>1 DEF TypeOK
<1>3. \/ h' = IdleHandler
      \/ \E l \in {"setmac", "create", "label", "delete"} :
            /\ At(l, e, cached[e.ip])
            /\ l \in {"create", "delete"} \/ cached[e.ip].exists
  BY DEF Receive, StartAdd, StartDelete
<1>4. ASSUME NEW l \in {"setmac", "create", "label", "delete"}, At(l, e, cached[e.ip])
      PROVE  h' \in Handler /\ h'.event = e /\ h'.seen = cached[e.ip] /\ h'.pc = l
  BY <1>2, <1>4 DEF At, Handler
<1>5. suspect' \subseteq IPs
  BY <1>1 DEF Receive, TypeOK
<1> QED
  BY <1>1, <1>3, <1>4, <1>5

\* A failed call leaves the object and the consumer idle.
LEMMA FailedOK ==
    ASSUME TypeOK, h \in Handler, h.event \in Event, h.event.ip \in IPs,
           NEW r \in BOOLEAN, Failed(r)
    PROVE  /\ obj' = obj /\ h' = IdleHandler
           /\ retries' \subseteq Event /\ suspect' \subseteq IPs
BY DEF Failed, RetryLater, Drop, TypeOK

LEMMA TransientOK ==
    ASSUME TypeOK, h \in Handler, h.event \in Event, h.event.ip \in IPs, TransientError
    PROVE  /\ obj' = obj /\ h' = IdleHandler
           /\ retries' \subseteq Event /\ suspect' \subseteq IPs
           /\ budget' \in [{"lease", "error", "touch", "restart"} -> Nat]
<1>1. \E r \in BOOLEAN : Failed(r)
  BY DEF TransientError
<1>2. budget' \in [{"lease", "error", "touch", "restart"} -> Nat]
  BY SpendOK DEF TransientError
<1> QED
  BY <1>1, <1>2, FailedOK

\* What a handler may do to the object: nothing, or replace it by a later version.
\* seen is the version the write was made from.
Outcome ==
    /\ h \in Handler /\ h.event.ip \in IPs
    /\ UNCHANGED <<bind, lease, prev, polled, adds, dels, mon, cached>>
    /\ retries' \subseteq Event /\ suspect' \subseteq IPs
    /\ budget' \in [{"lease", "error", "touch", "restart"} -> Nat]
    /\ LET o == obj[h.event.ip]
           n == obj'[h.event.ip]
       IN \/ obj' = obj /\ h' = IdleHandler
          \/ /\ obj' = [obj EXCEPT ![h.event.ip] = n]
             /\ n \in Object /\ n.ver = o.ver + 1
             /\ ~n.exists => ~n.filled
             /\ \/ h' = IdleHandler
                \/ /\ h' \in Handler /\ h'.event = h.event /\ h'.seen = n
                   /\ n.exists
             /\ \/ ~n.exists
                \/ ~o.exists
                \/ h.seen.ver = o.ver /\ o.exists /\ (h.seen.filled => n.filled)

\* An update of the object that was read: refused, or the write w made from the
\* current version.
LEMMA UpdateOutcome ==
    ASSUME TypeOK, h \in Handler, h.event \in Event, h.event.ip \in IPs,
           UNCHANGED <<bind, lease, prev, polled, adds, dels, mon, cached>>,
           NEW w \in Object, w.exists, h.seen.filled => w.filled, UpdateObject(w)
    PROVE  Outcome
<1> DEFINE o == obj[h.event.ip]
<1>t. /\ o \in Object /\ obj \in [IPs -> Object] /\ h.seen \in Object
      /\ retries \subseteq Event /\ suspect \subseteq IPs
      /\ budget \in [{"lease", "error", "touch", "restart"} -> Nat]
  BY DEF TypeOK, Handler
<1>1. CASE TransientError
  BY <1>1, TransientOK DEF Outcome
<1>2. CASE (\E r \in BOOLEAN : Failed(r)) /\ UNCHANGED budget
  BY <1>2, <1>t, FailedOK DEF Outcome
<1>3. CASE o.exists /\ ~Conflicting(o) /\ Done([w EXCEPT !.ver = o.ver + 1])
  <2> DEFINE n == [w EXCEPT !.ver = o.ver + 1]
  <2>0. o.ver + 1 \in Nat
    BY <1>t DEF Object
  <2>1. /\ n \in Object /\ n.ver = o.ver + 1 /\ n.exists = w.exists
        /\ n.filled = w.filled
    BY <2>0 DEF Object
  <2>2. /\ obj' = [obj EXCEPT ![h.event.ip] = n] /\ h' = IdleHandler
        /\ UNCHANGED <<retries, budget, suspect>>
    BY <1>3 DEF Done
  <2>3. obj'[h.event.ip] = n
    BY <1>t, <2>2
  <2>4. h.seen.ver = o.ver
    BY <1>3 DEF Conflicting
  <2>5. (~n.exists => ~n.filled) /\ (h.seen.filled => n.filled)
    BY <2>1
  <2> HIDE DEF n
  <2> QED
    BY <1>t, <1>3, <2>1, <2>2, <2>3, <2>4, <2>5 DEF Outcome
<1> QED
  BY <1>1, <1>2, <1>3 DEF UpdateObject

\* The writes of the handler, each with one of the outcomes above.
LEMMA HandleOutcome ==
    ASSUME TypeOK, Handle,
           h.pc \in {"setmac", "fill", "label"} => h.seen.exists
    PROVE  Outcome
<1>1. h.pc \in {"setmac", "create", "fill", "label", "delete"}
  BY DEF Handle, HandlerStep, SetMac, Create, Fill, Label, Delete
<1>2. /\ h \in Handler /\ h.event \in Event /\ h.seen \in Object
      /\ h.event.ip \in IPs /\ h.event.mac \in MACs
  BY <1>1, HandlerType
<1>3. UNCHANGED <<bind, lease, prev, polled, adds, dels, mon, cached>>
  BY DEF Handle, HandlerStep, SetMac, Create, Fill, Label, Delete
<1>t. /\ obj \in [IPs -> Object] /\ obj[h.event.ip] \in Object
      /\ retries \subseteq Event /\ suspect \subseteq IPs
      /\ budget \in [{"lease", "error", "touch", "restart"} -> Nat]
  BY <1>2 DEF TypeOK
<1>f. ASSUME NEW r \in BOOLEAN, Failed(r), UNCHANGED budget PROVE Outcome
  BY <1>2, <1>3, <1>t, <1>f, FailedOK DEF Outcome
<1>4. CASE SetMac
  <2>1. h.seen.exists
    BY <1>4 DEF SetMac, HandlerStep
  <2>2. CASE UpdateObject([h.seen EXCEPT !.mac = h.event.mac])
    <3> DEFINE v == [h.seen EXCEPT !.mac = h.event.mac]
    <3>1. v \in Object /\ v.exists = h.seen.exists /\ v.filled = h.seen.filled
      BY <1>2 DEF Object
    <3>2. UpdateObject(v)
      BY <2>2
    <3> HIDE DEF v
    <3> QED
      BY <1>2, <1>3, <2>1, <3>1, <3>2, UpdateOutcome
  <2>3. CASE Failed(FALSE) /\ UNCHANGED budget
    BY <1>f, <2>3
  <2> QED
    BY <1>4, <2>2, <2>3 DEF SetMac
<1>5. CASE Create
  <2> DEFINE o == [Absent(obj[h.event.ip].ver + 1) EXCEPT !.exists = TRUE,
                                                          !.label = TRUE]
  <2>1. CASE TransientError
    BY <1>2, <1>3, <2>1, TransientOK DEF Outcome
  <2>2. CASE Failed(FALSE) /\ UNCHANGED budget
    BY <1>f, <2>2
  <2>3. CASE /\ ~obj[h.event.ip].exists
             /\ obj' = [obj EXCEPT ![h.event.ip] = o]
             /\ At("fill", h.event, o)
             /\ UNCHANGED <<retries, budget, suspect>>
    <3>0. obj[h.event.ip].ver + 1 \in Nat
      BY <1>t DEF Object
    <3>1. o \in Object /\ o.ver = obj[h.event.ip].ver + 1 /\ o.exists
      <4> DEFINE a == Absent(obj[h.event.ip].ver + 1)
      <4>1. a \in Object /\ a.ver = obj[h.event.ip].ver + 1
        BY <3>0, AbsentOK
      <4>2. ASSUME NEW r \in Object
            PROVE  LET v == [r EXCEPT !.exists = TRUE, !.label = TRUE]
                   IN  v \in Object /\ v.ver = r.ver /\ v.exists
        BY DEF Object
      <4> QED
        BY <4>1, <4>2
    <3>2. obj'[h.event.ip] = o
      BY <1>2, <1>t, <2>3
    <3>3. h' \in Handler /\ h'.event = h.event /\ h'.seen = o
      BY <1>2, <2>3, <3>1 DEF At, Handler
    <3> HIDE DEF o
    <3> QED
      BY <1>2, <1>3, <1>t, <2>3, <3>1, <3>2, <3>3 DEF Outcome
  <2> QED
    BY <1>5, <2>1, <2>2, <2>3 DEF Create
<1>6. CASE Fill
  <2> DEFINE v == [h.seen EXCEPT !.mac = h.event.mac, !.filled = TRUE, !.active = TRUE]
  <2>1. h.seen.exists /\ UpdateObject(v)
    BY <1>6 DEF Fill, HandlerStep
  <2>2. v \in Object /\ v.exists = h.seen.exists /\ v.filled
    BY <1>2 DEF Object
  <2> HIDE DEF v
  <2> QED
    BY <1>2, <1>3, <2>1, <2>2, UpdateOutcome
<1>7. CASE Label
  <2> DEFINE v == [h.seen EXCEPT !.label = FALSE]
  <2>1. h.seen.exists /\ UpdateObject(v)
    BY <1>7 DEF Label, HandlerStep
  <2>2. v \in Object /\ v.exists = h.seen.exists /\ v.filled = h.seen.filled
    BY <1>2 DEF Object
  <2> HIDE DEF v
  <2> QED
    BY <1>2, <1>3, <2>1, <2>2, UpdateOutcome
<1>8. CASE Delete
  <2> DEFINE o == obj[h.event.ip]
  <2>1. CASE TransientError
    BY <1>2, <1>3, <2>1, TransientOK DEF Outcome
  <2>2. CASE Done(IF o.exists THEN Absent(o.ver + 1) ELSE o)
    <3>1. h' = IdleHandler /\ UNCHANGED <<retries, budget, suspect>>
      BY <2>2 DEF Done
    <3>2. CASE ~o.exists
      <4>1. obj' = obj
        BY <1>2, <1>t, <2>2, <3>2 DEF Done
      <4> QED
        BY <1>2, <1>3, <1>t, <3>1, <4>1 DEF Outcome
    <3>3. CASE o.exists
      <4> DEFINE n == Absent(o.ver + 1)
      <4>1. n \in Object /\ n.ver = o.ver + 1 /\ ~n.exists /\ ~n.filled
        <5>1. o.ver + 1 \in Nat
          BY <1>t DEF Object
        <5> QED
          BY <5>1, AbsentOK
      <4>2. obj' = [obj EXCEPT ![h.event.ip] = n]
        BY <2>2, <3>3 DEF Done
      <4> HIDE DEF n
      <4>3. obj'[h.event.ip] = n
        BY <1>2, <1>t, <4>2
      <4> QED
        BY <1>2, <1>3, <1>t, <3>1, <4>1, <4>2, <4>3 DEF Outcome
    <3> QED
      BY <3>2, <3>3
  <2> QED
    BY <1>8, <2>1, <2>2 DEF Delete
<1> QED
  BY <1>4, <1>5, <1>6, <1>7, <1>8 DEF Handle

-----------------------------------------------------------------------------
(* The inductive invariant: copies of an object are as old as their        *)
(* resourceVersion says.                                                   *)

\* v is the object of ip as it is, or an older version of it.
Copy(v, ip) ==
    /\ v.ver <= obj[ip].ver
    /\ v.ver = obj[ip].ver => v = obj[ip]

Copies ==
    /\ \A ip \in IPs : Copy(cached[ip], ip)
    /\ h # IdleHandler => Copy(h.seen, h.event.ip)

\* A name without an object has no status.
NoStatus == \A ip \in IPs : ~obj[ip].exists => ~obj[ip].filled

\* An update is made from an object.
SeenExists == h.pc \in {"setmac", "fill", "label"} => h.seen.exists

\* The events of a poll have a client: added ones in this poll, removed ones in
\* the last.
Pending ==
    /\ \A ip \in adds : polled[ip] # NoMac
    /\ \A ip \in dels : prev[ip] # NoMac

IInv ==
    /\ TypeOK
    /\ Pending
    /\ Copies
    /\ NoStatus
    /\ SeenExists

\* An object may only be replaced by a later version, and one that has its status
\* by one that has it or by none.
Replaced ==
    \A ip \in IPs :
        \/ obj'[ip] = obj[ip]
        \/ /\ obj'[ip] \in Object /\ obj'[ip].ver > obj[ip].ver
           /\ ~obj'[ip].exists => ~obj'[ip].filled
           /\ obj[ip].filled /\ obj'[ip].exists => obj'[ip].filled

\* Later versions keep the copies in order.
LEMMA CopyKept ==
    ASSUME TypeOK, Replaced, NEW ip \in IPs, NEW v \in Object, Copy(v, ip)
    PROVE  Copy(v, ip)'
<1>1. v.ver \in Nat /\ obj[ip].ver \in Nat
  BY DEF TypeOK, Object
<1>2. CASE obj'[ip] = obj[ip]
  BY <1>2 DEF Copy
<1>3. CASE obj'[ip] \in Object /\ obj'[ip].ver > obj[ip].ver
  <2>1. obj'[ip].ver \in Nat
    BY <1>3 DEF Object
  <2>2. v.ver < obj'[ip].ver
    BY <1>1, <1>3, <2>1 DEF Copy
  <2> QED
    BY <1>1, <2>1, <2>2 DEF Copy
<1> QED
  BY <1>2, <1>3 DEF Replaced

\* The steps that only replace objects and leave the copies alone.
LEMMA ReplaceKeeps ==
    ASSUME IInv, Replaced, UNCHANGED <<cached, h>>
    PROVE  Copies' /\ NoStatus' /\ SeenExists'
<1>1. Copies'
  <2>1. \A ip \in IPs : Copy(cached[ip], ip)'
    BY CopyKept DEF IInv, TypeOK, Copies
  <2>2. h # IdleHandler => Copy(h.seen, h.event.ip)'
    <3> SUFFICES ASSUME h # IdleHandler PROVE Copy(h.seen, h.event.ip)'
      OBVIOUS
    <3>1. h \in Handler
      BY DEF IInv, TypeOK
    <3>2. h.seen \in Object /\ h.event \in Event
      BY <3>1 DEF Handler
    <3>3. h.event.ip \in IPs
      BY <3>2 DEF Event
    <3> QED
      BY <3>2, <3>3, CopyKept DEF IInv, Copies
  <2> QED
    BY <2>1, <2>2 DEF Copies, Copy
<1>2. NoStatus'
  BY DEF IInv, NoStatus, Replaced
<1>3. SeenExists'
  BY DEF IInv, SeenExists
<1> QED
  BY <1>1, <1>2, <1>3

LEMMA InvInit == Init => IInv
<1> SUFFICES ASSUME Init PROVE IInv
  OBVIOUS
<1>1. Absent(0) \in Object /\ Absent(0).ver = 0 /\ ~Absent(0).exists /\ ~Absent(0).filled
  BY AbsentOK
<1>2. obj \in [IPs -> Object] /\ cached = obj /\ \A ip \in IPs : obj[ip] = Absent(0)
  BY <1>1 DEF Init
<1>3. TypeOK
  BY <1>2 DEF Init, TypeOK, Leases, NoLease
<1>4. Pending
  BY DEF Init, Pending
<1>5. Copies
  BY <1>1, <1>2 DEF Init, Copies, Copy
<1>6. NoStatus /\ SeenExists
  BY <1>1, <1>2 DEF Init, NoStatus, SeenExists, IdleHandler
<1> QED
  BY <1>3, <1>4, <1>5, <1>6 DEF IInv

\* The environment replaces an object: a foreign write or a deletion.
LEMMA InvReplace ==
    ASSUME IInv, NEW ip \in IPs, Touch(ip) \/ OperatorDelete(ip)
    PROVE  IInv' /\ Replaced
<1>1. UNCHANGED <<bind, lease, prev, polled, adds, dels, mon, cached, h, retries>>
  BY DEF Touch, OperatorDelete
<1>2. obj \in [IPs -> Object] /\ obj[ip] \in Object /\ obj[ip].ver \in Nat
  BY DEF IInv, TypeOK, Object
<1> DEFINE n == obj'[ip]
<1>3. /\ obj' = [obj EXCEPT ![ip] = n]
      /\ n \in Object /\ n.ver = obj[ip].ver + 1
      /\ ~n.exists => ~n.filled
      /\ obj[ip].filled /\ n.exists => n.filled
  <2>1. CASE Touch(ip)
    <3> DEFINE t == [obj[ip] EXCEPT !.ver = obj[ip].ver + 1]
    <3>1. obj' = [obj EXCEPT ![ip] = t] /\ obj[ip].filled
      BY <2>1, <1>2 DEF Touch
    <3>2. /\ t \in Object /\ t.ver = obj[ip].ver + 1
          /\ t.filled = obj[ip].filled /\ t.exists = obj[ip].exists
      BY <1>2 DEF Object
    <3>3. obj[ip].exists
      BY <3>1 DEF IInv, NoStatus
    <3> HIDE DEF t
    <3>4. n = t
      BY <1>2, <3>1
    <3> QED
      BY <3>1, <3>2, <3>3, <3>4
  <2>2. CASE OperatorDelete(ip)
    <3> DEFINE t == Absent(obj[ip].ver + 1)
    <3>1. obj' = [obj EXCEPT ![ip] = t]
      BY <2>2 DEF OperatorDelete
    <3>2. t \in Object /\ t.ver = obj[ip].ver + 1 /\ ~t.exists /\ ~t.filled
      <4>1. obj[ip].ver + 1 \in Nat
        BY <1>2
      <4> QED
        BY <4>1, AbsentOK
    <3> HIDE DEF t
    <3> QED
      BY <1>2, <3>1, <3>2
  <2> QED
    BY <2>1, <2>2
<1> HIDE DEF n
<1>4. Replaced
  <2> SUFFICES ASSUME NEW i \in IPs, i # ip PROVE obj'[i] = obj[i]
    BY <1>2, <1>3 DEF Replaced, n
  <2> QED
    BY <1>2, <1>3
<1>5. TypeOK'
  <2>1. obj' \in [IPs -> Object]
    BY <1>2, <1>3
  <2>2. suspect' \subseteq IPs
    BY DEF Touch, OperatorDelete, IInv, TypeOK
  <2>3. budget' \in [{"lease", "error", "touch", "restart"} -> Nat]
    BY SpendOK DEF Touch, OperatorDelete, IInv, TypeOK
  <2> QED
    BY <1>1, <2>1, <2>2, <2>3 DEF IInv, TypeOK
<1>6. Pending'
  BY <1>1 DEF IInv, Pending
<1> QED
  BY <1>1, <1>4, <1>5, <1>6, ReplaceKeeps DEF IInv

\* The lease file and the monitor leave objects, cache and handler alone.
LEMMA InvLeases ==
    ASSUME IInv, TypeOK', Pending', UNCHANGED <<obj, cached, h>>
    PROVE  IInv' /\ Replaced
<1>1. Replaced
  BY DEF Replaced
<1> QED
  BY <1>1, ReplaceKeeps DEF IInv

LEMMA InvMonitor ==
    ASSUME IInv,
           \/ \E ip \in IPs, m \in MACs \cup {NoMac} : LeaseChange(ip, m)
           \/ Poll \/ PollUnchanged \/ PollDone
    PROVE  IInv' /\ Replaced
<1>1. ASSUME NEW ip \in IPs, NEW m \in MACs \cup {NoMac}, LeaseChange(ip, m)
      PROVE  TypeOK' /\ Pending' /\ UNCHANGED <<obj, cached, h>>
  <2>1. UNCHANGED <<bind, prev, polled, adds, dels, mon, obj, cached, h, retries, suspect>>
    BY <1>1 DEF LeaseChange
  <2>2. lease' \in Leases
    BY <1>1 DEF LeaseChange, IInv, TypeOK, Leases
  <2>3. budget' \in [{"lease", "error", "touch", "restart"} -> Nat]
    BY <1>1, SpendOK DEF LeaseChange, IInv
  <2> QED
    BY <2>1, <2>2, <2>3 DEF IInv, TypeOK, Pending
<1>2. ASSUME Poll PROVE TypeOK' /\ Pending' /\ UNCHANGED <<obj, cached, h>>
  BY <1>2 DEF Poll, Changed, Removed, IInv, TypeOK, Pending
<1>3. ASSUME PollUnchanged PROVE TypeOK' /\ Pending' /\ UNCHANGED <<obj, cached, h>>
  BY <1>3 DEF PollUnchanged, vars, IInv, TypeOK, Pending
<1>4. ASSUME PollDone PROVE TypeOK' /\ Pending' /\ UNCHANGED <<obj, cached, h>>
  BY <1>4 DEF PollDone, IInv, TypeOK, Pending
<1> QED
  BY <1>1, <1>2, <1>3, <1>4, InvLeases

\* The watch and a restart bring the cache up to date.
LEMMA InvSync ==
    ASSUME IInv, (\E ip \in IPs : InformerSync(ip)) \/ Restart
    PROVE  IInv' /\ Replaced
<1>1. obj' = obj
  BY DEF InformerSync, Restart
<1>t. obj \in [IPs -> Object] /\ cached \in [IPs -> Object]
      /\ \A ip \in IPs : obj[ip].ver \in Nat
  BY DEF IInv, TypeOK, Object
<1>2. Replaced
  BY <1>1 DEF Replaced
<1>3. CASE Restart
  <2>1. h' = IdleHandler /\ cached' = obj /\ adds' = {} /\ dels' = {}
    BY <1>3 DEF Restart
  <2>2. TypeOK'
    <3>1. budget' \in [{"lease", "error", "touch", "restart"} -> Nat]
      BY <1>3, SpendOK DEF Restart, IInv
    <3> QED
      BY <1>3, <3>1 DEF Restart, IInv, TypeOK, Leases, NoLease
  <2>3. Copies'
    BY <1>1, <1>t, <2>1 DEF Copies, Copy
  <2>4. NoStatus' /\ SeenExists' /\ Pending'
    BY <1>1, <2>1 DEF IInv, NoStatus, SeenExists, Pending, IdleHandler
  <2> QED
    BY <1>2, <2>2, <2>3, <2>4 DEF IInv
<1>4. ASSUME NEW ip \in IPs, InformerSync(ip) PROVE IInv'
  <2>1. /\ cached' = [cached EXCEPT ![ip] = obj[ip]]
        /\ UNCHANGED <<bind, lease, prev, polled, adds, dels, mon, obj, h, retries,
                       budget, suspect>>
    BY <1>4 DEF InformerSync
  <2>2. TypeOK'
    BY <1>t, <2>1 DEF IInv, TypeOK
  <2>3. \A i \in IPs : Copy(cached[i], i)'
    <3> SUFFICES ASSUME NEW i \in IPs PROVE Copy(cached[i], i)'
      OBVIOUS
    <3>1. CASE i = ip
      BY <1>t, <2>1, <3>1 DEF Copy
    <3>2. CASE i # ip
      <4>1. cached'[i] = cached[i] /\ Copy(cached[i], i)
        BY <1>t, <2>1, <3>2 DEF IInv, Copies
      <4> QED
        BY <2>1, <4>1 DEF Copy
    <3> QED
      BY <3>1, <3>2
  <2>4. Copies'
    BY <2>1, <2>3 DEF IInv, Copies, Copy
  <2>5. NoStatus' /\ SeenExists' /\ Pending'
    BY <2>1 DEF IInv, NoStatus, SeenExists, Pending
  <2> QED
    BY <2>2, <2>4, <2>5 DEF IInv
<1> QED
  BY <1>2, <1>3, <1>4

\* The consumer receives an event and reads the cache.
LEMMA InvReceive ==
    ASSUME IInv, NEW e \in Event, Receive(e), UNCHANGED <<obj, cached>>,
           NoStatus'
    PROVE  /\ Copies' /\ SeenExists'
           /\ h' \in Handler \cup {IdleHandler} /\ suspect' \subseteq IPs
<1>1. /\ e.ip \in IPs
      /\ \/ h' = IdleHandler
         \/ /\ h' \in Handler /\ h'.event = e /\ h'.seen = cached[e.ip]
            /\ h'.pc \in {"create", "delete"} \/ cached[e.ip].exists
      /\ suspect' \subseteq IPs
  BY ReceiveOK DEF IInv
<1>2. Copies'
  <2>1. \A ip \in IPs : Copy(cached[ip], ip)'
    BY DEF IInv, Copies, Copy
  <2>2. h' # IdleHandler => Copy(h.seen, h.event.ip)'
    BY <1>1, <2>1 DEF Copy
  <2> QED
    BY <2>1, <2>2 DEF Copies
<1>3. SeenExists'
  BY <1>1 DEF SeenExists, IdleHandler
<1> QED
  BY <1>1, <1>2, <1>3

LEMMA InvReceives ==
    ASSUME IInv, ReceiveFromMonitor \/ \E e \in retries : ReceiveRetry(e)
    PROVE  IInv' /\ Replaced
<1>1. UNCHANGED <<bind, lease, prev, polled, mon, obj, cached, budget>>
  BY DEF ReceiveFromMonitor, ReceiveRetry
<1>2. NoStatus' /\ Replaced
  BY <1>1 DEF IInv, NoStatus, Replaced
<1>t. /\ polled \in Leases /\ prev \in Leases /\ adds \subseteq IPs /\ dels \subseteq IPs
      /\ retries \subseteq Event
  BY DEF IInv, TypeOK
<1>3. /\ \E e \in Event : Receive(e)
      /\ adds' \subseteq adds /\ dels' \subseteq dels /\ retries' \subseteq retries
  <2>1. ASSUME NEW e \in retries, ReceiveRetry(e)
        PROVE  /\ e \in Event /\ Receive(e)
               /\ adds' \subseteq adds /\ dels' \subseteq dels
               /\ retries' \subseteq retries
    BY <1>t, <2>1 DEF ReceiveRetry
  <2>2. ASSUME ReceiveFromMonitor, NEW ip \in adds,
               Receive(AddEvent(ip, polled[ip])), adds' = adds \ {ip}, dels' = dels
        PROVE  AddEvent(ip, polled[ip]) \in Event /\ retries' = retries
    <3>1. polled[ip] \in MACs
      BY <1>t DEF IInv, Pending, Leases
    <3> QED
      BY <1>t, <2>2, <3>1 DEF AddEvent, Event, ReceiveFromMonitor
  <2>3. ASSUME ReceiveFromMonitor, NEW ip \in dels,
               Receive(DelEvent(ip, ReleasedClient(ip))), dels' = dels \ {ip}, adds' = adds
        PROVE  DelEvent(ip, ReleasedClient(ip)) \in Event /\ retries' = retries
    <3>1. prev[ip] \in MACs
      BY <1>t DEF IInv, Pending, Leases
    <3> QED
      BY <1>t, <2>3, <3>1 DEF DelEvent, ReleasedClient, Event, ReceiveFromMonitor
  <2>4. CASE ReceiveFromMonitor
    <3>1. \/ \E ip \in adds : /\ Receive(AddEvent(ip, polled[ip]))
                              /\ adds' = adds \ {ip} /\ dels' = dels
          \/ \E ip \in dels : /\ Receive(DelEvent(ip, ReleasedClient(ip)))
                              /\ dels' = dels \ {ip} /\ adds' = adds
      BY <2>4 DEF ReceiveFromMonitor
    <3> QED
      BY <2>2, <2>3, <2>4, <3>1
  <2> QED
    BY <2>1, <2>4
<1>4. /\ Copies' /\ SeenExists'
      /\ h' \in Handler \cup {IdleHandler} /\ suspect' \subseteq IPs
  BY <1>1, <1>2, <1>3, InvReceive
<1>5. TypeOK'
  BY <1>1, <1>3, <1>4 DEF IInv, TypeOK
<1>6. Pending'
  BY <1>1, <1>3 DEF IInv, Pending
<1> QED
  BY <1>2, <1>4, <1>5, <1>6 DEF IInv

\* The handler writes.  The version it read decides: an update goes through only
\* if the copy is the object itself.
LEMMA InvHandle ==
    ASSUME IInv, Handle
    PROVE  IInv' /\ Replaced
<1>1. Outcome
  BY HandleOutcome DEF IInv, SeenExists
<1> DEFINE ip == h.event.ip
           o == obj[ip]
           n == obj'[ip]
<1>2. /\ h \in Handler /\ ip \in IPs /\ h # IdleHandler
      /\ UNCHANGED <<bind, lease, prev, polled, adds, dels, mon, cached>>
      /\ retries' \subseteq Event /\ suspect' \subseteq IPs
      /\ budget' \in [{"lease", "error", "touch", "restart"} -> Nat]
  BY <1>1, BusyHandler DEF Outcome
<1>t. obj \in [IPs -> Object] /\ o \in Object /\ o.ver \in Nat /\ cached \in [IPs -> Object]
  BY <1>2 DEF IInv, TypeOK, Object
<1>3. Copy(h.seen, ip)
  BY <1>2 DEF IInv, Copies
<1>4. \/ obj' = obj /\ h' = IdleHandler
      \/ /\ obj' = [obj EXCEPT ![ip] = n]
         /\ n \in Object /\ n.ver = o.ver + 1
         /\ ~n.exists => ~n.filled
         /\ o.filled /\ n.exists => n.filled
         /\ \/ h' = IdleHandler
            \/ h' \in Handler /\ h'.event = h.event /\ h'.seen = n /\ n.exists
  <2>1. h.seen.ver = o.ver => h.seen = o
    BY <1>3 DEF Copy
  <2>2. ~o.exists => ~o.filled
    BY <1>2 DEF IInv, NoStatus
  <2> QED
    BY <1>1, <2>1, <2>2 DEF Outcome
<1>5. Replaced
  <2>1. CASE obj' = obj
    BY <2>1 DEF Replaced
  <2>2. CASE /\ obj' = [obj EXCEPT ![ip] = n]
             /\ n \in Object /\ n.ver = o.ver + 1
             /\ ~n.exists => ~n.filled
             /\ o.filled /\ n.exists => n.filled
    <3>1. \A i \in IPs : i # ip => obj'[i] = obj[i]
      BY <1>t, <2>2
    <3>2. n.ver > o.ver
      BY <1>t, <2>2
    <3> QED
      BY <2>2, <3>1, <3>2 DEF Replaced
  <2> QED
    BY <1>4, <2>1, <2>2
<1>6. TypeOK'
  <2>1. obj' \in [IPs -> Object]
    BY <1>t, <1>4
  <2>2. h' \in Handler \cup {IdleHandler}
    BY <1>4
  <2> QED
    BY <1>2, <2>1, <2>2 DEF IInv, TypeOK
<1>7. Copies'
  <2>1. \A i \in IPs : Copy(cached[i], i)'
    <3> SUFFICES ASSUME NEW i \in IPs PROVE Copy(cached[i], i)'
      OBVIOUS
    <3>1. cached[i] \in Object /\ Copy(cached[i], i)
      BY <1>t DEF IInv, Copies
    <3>2. Copy(cached[i], i)' <=> (/\ cached[i].ver <= obj'[i].ver
                                   /\ cached[i].ver = obj'[i].ver => cached[i] = obj'[i])
      BY <1>2 DEF Copy
    <3> QED
      BY <1>2, <1>5, <3>1, <3>2, CopyKept DEF IInv, Copy
  <2>2. h' # IdleHandler => Copy(h.seen, h.event.ip)'
    <3> SUFFICES ASSUME h' # IdleHandler PROVE Copy(h.seen, h.event.ip)'
      OBVIOUS
    <3>1. h'.event = h.event /\ h'.seen = n /\ n \in Object
      BY <1>4
    <3>2. n.ver \in Nat
      BY <3>1 DEF Object
    <3> QED
      BY <3>1, <3>2 DEF Copy
  <2> QED
    BY <2>1, <2>2 DEF Copies
<1>8. NoStatus'
  BY <1>5 DEF IInv, NoStatus, Replaced
<1>9. SeenExists'
  BY <1>4 DEF SeenExists, IdleHandler
<1>10. Pending'
  BY <1>2 DEF IInv, Pending
<1> QED
  BY <1>5, <1>6, <1>7, <1>8, <1>9, <1>10 DEF IInv

\* Every step keeps the invariant and replaces objects as it should.
LEMMA InvStep == IInv /\ [Next]_vars => IInv' /\ Replaced
<1> SUFFICES ASSUME IInv, [Next]_vars PROVE IInv' /\ Replaced
  OBVIOUS
<1>1. CASE UNCHANGED vars
  <2>1. TypeOK' /\ Pending' /\ UNCHANGED <<obj, cached, h>>
    BY <1>1 DEF vars, IInv, TypeOK, Pending
  <2> QED
    BY <2>1, InvLeases
<1>2. CASE Next
  BY <1>2, InvReplace, InvMonitor, InvSync, InvReceives, InvHandle DEF Next
<1> QED
  BY <1>1, <1>2

\* Copies of a HostStatus, in the informer cache and in the handlers of
\* dhcp.go, are never newer than the object and identify it by their version.
THEOREM DiscoveryInvariant == Spec => []IInv
<1>1. IInv /\ [Next]_vars => IInv'
  BY InvStep
<1> QED
  BY <1>1, InvInit, PTL DEF Spec

\* Every reachable state of DhcpDiscovery is type correct: in particular every
\* event that updateStats sends names a client.
THEOREM TypeCorrect == Spec => []TypeOK
<1>1. IInv => TypeOK
  BY DEF IInv
<1> QED
  BY <1>1, DiscoveryInvariant, PTL

\* No writer, however stale its copy, makes a HostStatus that has its status a
\* blank one again.
THEOREM FilledAlwaysStays == Spec => FilledStays
<1>1. IInv /\ [Next]_vars =>
        [\A ip \in IPs : obj[ip].filled /\ obj'[ip].exists => obj'[ip].filled]_vars
  <2> SUFFICES ASSUME IInv, [Next]_vars, NEW ip \in IPs, obj[ip].filled, obj'[ip].exists
               PROVE  obj'[ip].filled
    OBVIOUS
  <2>1. Replaced
    BY InvStep
  <2> QED
    BY <2>1 DEF Replaced
<1> QED
  BY <1>1, DiscoveryInvariant, PTL DEF Spec, FilledStays

-----------------------------------------------------------------------------
(* No silent divergence.  Of every address the events have been handled up *)
(* to one client, Handled, and unless one of them met trouble the object   *)
(* is what that client asks for, or the handler is about to make it so.    *)

\* The client of ip in the last poll whose event has been received.
Handled(ip) ==
    IF mon = "send" /\ ip \notin adds \cup dels THEN polled[ip] ELSE prev[ip]

\* The object of ip is as the client m, or none, asks for.  It has its status
\* even after a release: the next client of the address may be the same.
Fits(ip, m) ==
    IF m # NoMac THEN obj[ip].exists /\ obj[ip].filled /\ obj[ip].mac = m
    ELSE obj[ip].exists => bind /\ ~obj[ip].label /\ obj[ip].filled

Free(ip) == h = IdleHandler \/ h.event.ip # ip

Followed == \A ip \in IPs : Free(ip) /\ ip \notin suspect => Fits(ip, Handled(ip))

\* The event in hand is the last one received of its address, and an update is
\* made from a status.
InProgress ==
    h # IdleHandler /\ h.event.ip \notin suspect =>
      \/ /\ Handled(h.event.ip) = h.event.mac
         /\ h.pc \in {"create", "fill"} \/ (h.pc = "setmac" /\ h.seen.filled)
      \/ /\ Handled(h.event.ip) = NoMac
         /\ h.pc = "delete" \/ (h.pc = "label" /\ bind /\ h.seen.filled)

\* An event that is retried has met an error.
RetriesSuspect == \A e \in retries : e.ip \in suspect

\* Only addresses that have lost their client are reported as removed.
DelsGone == \A ip \in dels : polled[ip] = NoMac

DInv == Followed /\ InProgress /\ RetriesSuspect /\ DelsGone

LEMMA DInit == Init => DInv
<1> SUFFICES ASSUME Init PROVE DInv
  OBVIOUS
<1>1. h = IdleHandler /\ retries = {} /\ dels = {}
  BY DEF Init
<1>2. Followed
  <2> SUFFICES ASSUME NEW ip \in IPs PROVE Fits(ip, Handled(ip))
    BY DEF Followed
  <2>1. ~obj[ip].exists /\ Handled(ip) = NoMac
    BY DEF Init, Absent, Handled, NoLease
  <2> QED
    BY <2>1 DEF Fits
<1> QED
  BY <1>1, <1>2 DEF DInv, InProgress, RetriesSuspect, DelsGone

\* The monitor and the informer: a poll reports every address that differs, so
\* that the others are handled with it, and ends when all events are received.
LEMMA DMonitor ==
    ASSUME IInv, DInv,
           \/ \E ip \in IPs, m \in MACs \cup {NoMac} : LeaseChange(ip, m)
           \/ \E ip \in IPs : InformerSync(ip)
           \/ Poll \/ PollDone \/ UNCHANGED vars
    PROVE  DInv'
<1>1. UNCHANGED <<bind, obj, h, retries, suspect>>
  BY DEF LeaseChange, InformerSync, Poll, PollDone, vars
<1>2. \A ip \in IPs : Handled(ip)' = Handled(ip)
  <2>1. CASE Poll
    BY <2>1 DEF Poll, Changed, Removed, Handled
  <2>2. CASE PollDone
    BY <2>2 DEF PollDone, Handled
  <2> QED
    BY <2>1, <2>2 DEF LeaseChange, InformerSync, vars, Handled
<1>3. DelsGone'
  <2>1. CASE Poll
    BY <2>1 DEF Poll, Removed, DelsGone
  <2> QED
    BY <2>1 DEF LeaseChange, InformerSync, PollDone, vars, DInv, DelsGone
<1>4. Followed'
  BY <1>1, <1>2 DEF DInv, Followed, Free, Fits
<1>5. h # IdleHandler => h.event.ip \in IPs
  BY DEF IInv, TypeOK, Handler, Event
<1>6. InProgress'
  <2> SUFFICES ASSUME h # IdleHandler, h.event.ip \notin suspect PROVE InProgress'
    BY <1>1 DEF InProgress
  <2>1. Handled(h.event.ip)' = Handled(h.event.ip)
    BY <1>1, <1>2, <1>5 DEF Handled
  <2> QED
    BY <1>1, <2>1 DEF DInv, InProgress
<1> QED
  BY <1>1, <1>3, <1>4, <1>6 DEF DInv, RetriesSuspect

\* Other writers and a restart: what they take away is not asked for or is
\* suspect.
LEMMA DOthers ==
    ASSUME IInv, DInv,
           (\E ip \in IPs : Touch(ip) \/ OperatorDelete(ip)) \/ Restart
    PROVE  DInv'
<1>t. obj \in [IPs -> Object] /\ suspect \subseteq IPs
  BY DEF IInv, TypeOK
<1>1. ASSUME NEW ip \in IPs, Touch(ip) PROVE DInv'
  <2>1. UNCHANGED <<bind, prev, polled, adds, dels, mon, h, retries, suspect>>
    BY <1>1 DEF Touch
  <2>2. \A i \in IPs : /\ obj'[i].exists = obj[i].exists
                        /\ obj'[i].filled = obj[i].filled
                        /\ obj'[i].mac = obj[i].mac /\ obj'[i].label = obj[i].label
    BY <1>1, <1>t DEF Touch, Object
  <2> QED
    BY <2>1, <2>2 DEF DInv, Followed, Free, Fits, Handled, InProgress,
       RetriesSuspect, DelsGone
<1>2. ASSUME NEW ip \in IPs, OperatorDelete(ip) PROVE DInv'
  <2>1. /\ UNCHANGED <<bind, prev, polled, adds, dels, mon, h, retries>>
        /\ suspect \subseteq suspect'
    BY <1>2 DEF OperatorDelete
  <2>2. ~obj'[ip].exists /\ \A i \in IPs : i # ip => obj'[i] = obj[i]
    BY <1>2, <1>t DEF OperatorDelete, Absent
  <2>3. ip \notin suspect' => Handled(ip) = NoMac
    BY <1>2 DEF OperatorDelete, Handled
  <2>4. Followed'
    <3> SUFFICES ASSUME NEW i \in IPs, Free(i), i \notin suspect'
                 PROVE  Fits(i, Handled(i))'
      BY <2>1 DEF Followed, Free
    <3>1. CASE i = ip
      BY <2>1, <2>2, <2>3, <3>1 DEF Fits, Handled
    <3>2. CASE i # ip
      BY <2>1, <2>2, <3>2 DEF DInv, Followed, Fits, Handled
    <3> QED
      BY <3>1, <3>2
  <2> QED
    BY <2>1, <2>4 DEF DInv, Handled, InProgress, RetriesSuspect, DelsGone
<1>3. CASE Restart
  <2>1. h' = IdleHandler /\ retries' = {} /\ dels' = {}
    BY <1>3 DEF Restart
  <2>2. Followed'
    <3> SUFFICES ASSUME NEW i \in IPs, i \notin suspect' PROVE Fits(i, Handled(i))'
      BY DEF Followed
    <3>1. ~obj'[i].exists /\ Handled(i)' = NoMac
      BY <1>3 DEF Restart, Handled, NoLease
    <3> QED
      BY <3>1 DEF Fits
  <2> QED
    BY <2>1, <2>2 DEF DInv, InProgress, RetriesSuspect, DelsGone
<1> QED
  BY <1>1, <1>2, <1>3

\* An event is received: one of a suspect address, or the next one of an address
\* whose object fits its last client.
LEMMA DReceive ==
    ASSUME IInv, DInv, NEW e \in Event, Receive(e), UNCHANGED <<bind, obj>>,
           \A i \in IPs : i # e.ip => Handled(i)' = Handled(i),
           \/ e.ip \in suspect
           \/ e.op = "add" /\ Handled(e.ip)' = e.mac
           \/ e.op = "del" /\ Handled(e.ip)' = NoMac /\ Handled(e.ip) # NoMac
    PROVE  Followed' /\ InProgress' /\ suspect \subseteq suspect'
<1> DEFINE c == cached[e.ip]
<1>1. e.ip \in IPs /\ e.mac \in MACs /\ e.mac # NoMac
  BY DEF Event
<1>2. /\ h = IdleHandler /\ suspect \subseteq suspect'
      /\ e.ip \notin suspect' => c = obj[e.ip] /\ e.ip \notin suspect
  BY DEF Receive
<1>3. \A i \in IPs : i \notin suspect => Fits(i, Handled(i))
  BY <1>2 DEF DInv, Followed, Free
<1>4. \A i \in IPs : i # e.ip /\ i \notin suspect' => Fits(i, Handled(i))'
  BY <1>2, <1>3 DEF Fits
<1>5. \/ h' = IdleHandler
      \/ h' # IdleHandler /\ h'.event = e /\ h'.seen = c
  BY ReceiveOK, BusyHandler DEF IInv
<1>6. CASE e.ip \in suspect'
  BY <1>2, <1>4, <1>5, <1>6 DEF Followed, InProgress
<1>7. CASE e.ip \notin suspect'
  <2>1. c = obj[e.ip] /\ Fits(e.ip, Handled(e.ip))
    BY <1>1, <1>2, <1>3, <1>7
  <2>2. c.exists => c.filled
    BY <2>1 DEF Fits
  <2>3. CASE e.op = "add" /\ Handled(e.ip)' = e.mac
    <3>1. StartAdd(e)
      BY <2>3 DEF Receive
    <3>2. CASE c.exists /\ c.mac = e.mac
      <4>1. h' = IdleHandler
        BY <3>1, <3>2 DEF StartAdd
      <4>2. Fits(e.ip, Handled(e.ip))'
        BY <1>1, <2>1, <2>2, <2>3, <3>2 DEF Fits
      <4> QED
        BY <1>2, <1>4, <4>1, <4>2 DEF Followed, InProgress
    <3>3. CASE ~(c.exists /\ c.mac = e.mac)
      <4>1. \/ c.exists /\ h' = [pc |-> "setmac", event |-> e, seen |-> c]
            \/ h' = [pc |-> "create", event |-> e, seen |-> c]
        BY <3>1, <3>3 DEF StartAdd, At
      <4>2. /\ h'.event = e /\ h' # IdleHandler
            /\ h'.pc = "create" \/ (h'.pc = "setmac" /\ h'.seen.filled)
        BY <1>5, <2>2, <4>1 DEF IdleHandler
      <4>3. Handled(h.event.ip)' = h'.event.mac
        BY <2>3, <4>2 DEF Handled
      <4>4. InProgress'
        BY <4>2, <4>3 DEF InProgress
      <4> QED
        BY <1>2, <1>4, <4>2, <4>4 DEF Followed, Free
    <3> QED
      BY <3>2, <3>3
  <2>4. CASE e.op = "del" /\ Handled(e.ip)' = NoMac /\ Handled(e.ip) # NoMac
    <3>1. StartDelete(e)
      BY <2>4 DEF Receive
    <3>2. CASE bind /\ ~c.exists
      <4>1. h' = IdleHandler
        BY <3>1, <3>2 DEF StartDelete
      <4>2. Fits(e.ip, Handled(e.ip))'
        BY <2>1, <2>4, <3>2 DEF Fits
      <4> QED
        BY <1>2, <1>4, <4>1, <4>2 DEF Followed, InProgress
    <3>3. CASE ~(bind /\ ~c.exists)
      <4>1. \/ bind /\ c.exists /\ h' = [pc |-> "label", event |-> e, seen |-> c]
            \/ h' = [pc |-> "delete", event |-> e, seen |-> c]
        BY <3>1, <3>3 DEF StartDelete, At
      <4>2. /\ h'.event = e /\ h' # IdleHandler
            /\ h'.pc = "delete" \/ (h'.pc = "label" /\ bind' /\ h'.seen.filled)
        BY <1>5, <2>2, <4>1 DEF IdleHandler
      <4>3. Handled(h.event.ip)' = NoMac
        BY <2>4, <4>2 DEF Handled
      <4>4. InProgress'
        BY <4>2, <4>3 DEF InProgress
      <4> QED
        BY <1>2, <1>4, <4>2, <4>4 DEF Followed, Free
    <3> QED
      BY <3>2, <3>3
  <2> QED
    BY <1>2, <1>7, <2>3, <2>4
<1> QED
  BY <1>2, <1>6, <1>7

LEMMA DReceives ==
    ASSUME IInv, DInv, ReceiveFromMonitor \/ \E e \in retries : ReceiveRetry(e)
    PROVE  DInv'
<1>1. UNCHANGED <<bind, prev, polled, mon, obj>> /\ retries' \subseteq retries
      /\ dels' \subseteq dels
  BY DEF ReceiveFromMonitor, ReceiveRetry
<1>t. /\ polled \in Leases /\ prev \in Leases /\ adds \subseteq IPs /\ dels \subseteq IPs
      /\ retries \subseteq Event
  BY DEF IInv, TypeOK
<1>2. ASSUME Followed', InProgress', suspect \subseteq suspect' PROVE DInv'
  BY <1>1, <1>2 DEF DInv, RetriesSuspect, DelsGone
<1>3. ASSUME NEW e \in retries, ReceiveRetry(e) PROVE DInv'
  <2>1. e \in Event /\ Receive(e) /\ e.ip \in suspect
    BY <1>t, <1>3 DEF ReceiveRetry, DInv, RetriesSuspect
  <2>2. \A i \in IPs : Handled(i)' = Handled(i)
    BY <1>3 DEF ReceiveRetry, Handled
  <2> QED
    BY <1>1, <1>2, <2>1, <2>2, DReceive
<1>4. ASSUME ReceiveFromMonitor, NEW ip \in adds,
             Receive(AddEvent(ip, polled[ip])), adds' = adds \ {ip}, dels' = dels
      PROVE  DInv'
  <2>1. polled[ip] \in MACs
    BY <1>t DEF IInv, Pending, Leases
  <2>e. PICK e \in Event : e = AddEvent(ip, polled[ip])
    BY <1>t, <2>1 DEF AddEvent, Event
  <2>2. e.ip = ip /\ e.op = "add" /\ e.mac = polled[ip]
    BY <2>e DEF AddEvent
  <2>3. ip \notin dels
    BY <2>1 DEF DInv, DelsGone
  <2>4. Handled(ip)' = polled[ip] /\ \A i \in IPs : i # ip => Handled(i)' = Handled(i)
    BY <1>1, <1>4, <2>3 DEF ReceiveFromMonitor, Handled
  <2>5. Handled(e.ip)' = e.mac /\ \A i \in IPs : i # e.ip => Handled(i)' = Handled(i)
    BY <2>2, <2>4
  <2> QED
    BY <1>1, <1>2, <1>4, <2>e, <2>2, <2>5, DReceive
<1>5. ASSUME ReceiveFromMonitor, NEW ip \in dels, adds = {},
             Receive(DelEvent(ip, ReleasedClient(ip))), dels' = dels \ {ip}, adds' = adds
      PROVE  DInv'
  <2>1. prev[ip] \in MACs
    BY <1>t DEF IInv, Pending, Leases
  <2>e. PICK e \in Event : e = DelEvent(ip, ReleasedClient(ip))
    BY <1>t, <2>1 DEF DelEvent, ReleasedClient, Event
  <2>2. e.ip = ip /\ e.op = "del"
    BY <2>e DEF DelEvent
  <2>3. polled[ip] = NoMac
    BY DEF DInv, DelsGone
  <2>4. Handled(ip)' = NoMac /\ Handled(ip) # NoMac
        /\ \A i \in IPs : i # ip => Handled(i)' = Handled(i)
    BY <1>1, <1>5, <2>1, <2>3 DEF ReceiveFromMonitor, Handled
  <2>5. Handled(e.ip)' = NoMac /\ Handled(e.ip) # NoMac
        /\ \A i \in IPs : i # e.ip => Handled(i)' = Handled(i)
    BY <2>2, <2>4
  <2> QED
    BY <1>1, <1>2, <1>5, <2>e, <2>2, <2>5, DReceive
<1>6. CASE ReceiveFromMonitor
  <2>1. \/ \E ip \in adds : /\ Receive(AddEvent(ip, polled[ip]))
                            /\ adds' = adds \ {ip} /\ dels' = dels
        \/ \E ip \in dels : /\ adds = {}
                            /\ Receive(DelEvent(ip, ReleasedClient(ip)))
                            /\ dels' = dels \ {ip} /\ adds' = adds
    BY <1>6 DEF ReceiveFromMonitor
  <2> QED
    BY <1>4, <1>5, <1>6, <2>1
<1> QED
  BY <1>3, <1>6

\* A write that succeeds makes the object fit; one that fails makes the address
\* suspect.
LEMMA DHandle ==
    ASSUME IInv, DInv, Handle
    PROVE  DInv'
<1>1. h.pc \in {"setmac", "create", "fill", "label", "delete"}
  BY DEF Handle, HandlerStep, SetMac, Create, Fill, Label, Delete
<1>2. /\ h \in Handler /\ h.event \in Event /\ h.seen \in Object
      /\ h.event.ip \in IPs /\ h.event.mac \in MACs /\ h.event.mac # NoMac
      /\ h # IdleHandler
  BY <1>1, HandlerType, BusyHandler DEF IInv
<1>p. PICK ip \in IPs : ip = h.event.ip
  BY <1>2
<1>3. UNCHANGED <<bind, lease, prev, polled, adds, dels, mon, cached>>
  BY DEF Handle, HandlerStep, SetMac, Create, Fill, Label, Delete
<1>t. obj \in [IPs -> Object]
  BY DEF IInv, TypeOK
<1>4. \A i \in IPs : Handled(i)' = Handled(i)
  BY <1>3 DEF Handled
<1>5. DelsGone'
  BY <1>3 DEF DInv, DelsGone
<1>6. ASSUME suspect \subseteq suspect', \A i \in IPs : i # ip => obj'[i] = obj[i]
      PROVE  \A i \in IPs : i # ip /\ i \notin suspect' => Fits(i, Handled(i))'
  <2> SUFFICES ASSUME NEW i \in IPs, i # ip, i \notin suspect'
               PROVE  Fits(i, Handled(i))'
    OBVIOUS
  <2>1. Fits(i, Handled(i))
    BY <1>p, <1>6 DEF DInv, Followed, Free
  <2> QED
    BY <1>3, <1>4, <1>6, <2>1 DEF Fits
<1>7. ASSUME NEW r \in BOOLEAN, Failed(r) PROVE DInv'
  <2>1. /\ obj' = obj /\ h' = IdleHandler /\ suspect' = suspect \cup {ip}
        /\ retries' \subseteq retries \cup {h.event}
    BY <1>p, <1>7 DEF Failed, RetryLater, Drop
  <2>2. Followed'
    BY <1>6, <2>1 DEF Followed
  <2>3. RetriesSuspect'
    BY <1>p, <2>1 DEF DInv, RetriesSuspect
  <2>4. InProgress'
    BY <2>1 DEF InProgress
  <2> QED
    BY <1>5, <2>2, <2>3, <2>4 DEF DInv
<1>8. ASSUME TransientError PROVE DInv'
  BY <1>7, <1>8 DEF TransientError
<1>9. ASSUME NEW o, Done(o),
             (ip \notin suspect /\ obj'[ip] = o) => Fits(ip, Handled(ip))'
      PROVE  DInv'
  <2>1. /\ obj' = [obj EXCEPT ![ip] = o] /\ h' = IdleHandler
        /\ UNCHANGED <<retries, suspect>>
    BY <1>p, <1>9 DEF Done
  <2>2. obj'[ip] = o /\ \A i \in IPs : i # ip => obj'[i] = obj[i]
    BY <1>2, <1>t, <2>1
  <2>3. Followed'
    BY <1>6, <1>9, <2>1, <2>2 DEF Followed
  <2>4. RetriesSuspect' /\ InProgress'
    BY <2>1 DEF DInv, RetriesSuspect, InProgress
  <2> QED
    BY <1>5, <2>3, <2>4 DEF DInv
<1>10. ip \notin suspect =>
         \/ /\ Handled(ip) = h.event.mac
            /\ h.pc \in {"create", "fill"} \/ (h.pc = "setmac" /\ h.seen.filled)
         \/ /\ Handled(ip) = NoMac
            /\ h.pc = "delete" \/ (h.pc = "label" /\ bind /\ h.seen.filled)
  BY <1>p, <1>2 DEF DInv, InProgress
<1>11. ASSUME NEW w \in Object, UpdateObject(w),
              ip \notin suspect =>
                \/ Handled(ip) = h.event.mac /\ w.exists /\ w.filled /\ w.mac = h.event.mac
                \/ Handled(ip) = NoMac /\ bind /\ ~w.label /\ w.filled
       PROVE  DInv'
  <2> DEFINE o == obj[ip]
             n == [w EXCEPT !.ver = o.ver + 1]
  <2>1. CASE TransientError \/ Failed(FALSE) \/ Failed(TRUE)
    BY <1>7, <1>8, <2>1
  <2>2. CASE Done(n)
    <3>1. /\ n.exists = w.exists /\ n.filled = w.filled /\ n.mac = w.mac
          /\ n.label = w.label
      BY DEF Object
    <3>2. (ip \notin suspect /\ obj'[ip] = n) => Fits(ip, Handled(ip))'
      BY <1>2, <1>3, <1>4, <1>11, <3>1 DEF Fits
    <3> HIDE DEF n
    <3> QED
      BY <1>9, <2>2, <3>2
  <2> QED
    BY <1>p, <1>11, <2>1, <2>2 DEF UpdateObject
<1>12. CASE SetMac
  <2> DEFINE w == [h.seen EXCEPT !.mac = h.event.mac]
  <2>1. /\ w \in Object /\ w.mac = h.event.mac /\ w.exists = h.seen.exists
        /\ w.filled = h.seen.filled
    BY <1>2 DEF Object
  <2>2. h.pc = "setmac" /\ h.seen.exists
    BY <1>12 DEF SetMac, HandlerStep, IInv, SeenExists
  <2>3. UpdateObject(w) \/ Failed(FALSE)
    BY <1>12 DEF SetMac
  <2> HIDE DEF w
  <2> QED
    BY <1>7, <1>10, <1>11, <2>1, <2>2, <2>3
<1>13. CASE Fill
  <2> DEFINE w == [h.seen EXCEPT !.mac = h.event.mac, !.filled = TRUE, !.active = TRUE]
  <2>1. w \in Object /\ w.mac = h.event.mac /\ w.exists = h.seen.exists /\ w.filled
    BY <1>2 DEF Object
  <2>2. h.pc = "fill" /\ h.seen.exists
    BY <1>13 DEF Fill, HandlerStep, IInv, SeenExists
  <2>3. UpdateObject(w)
    BY <1>13 DEF Fill
  <2> HIDE DEF w
  <2> QED
    BY <1>10, <1>11, <2>1, <2>2, <2>3
<1>14. CASE Label
  <2> DEFINE w == [h.seen EXCEPT !.label = FALSE]
  <2>1. w \in Object /\ ~w.label /\ w.filled = h.seen.filled
    BY <1>2 DEF Object
  <2>2. h.pc = "label"
    BY <1>14 DEF Label, HandlerStep
  <2>3. UpdateObject(w)
    BY <1>14 DEF Label
  <2> HIDE DEF w
  <2> QED
    BY <1>10, <1>11, <2>1, <2>2, <2>3
<1>15. CASE Delete
  <2> DEFINE o == obj[ip]
             n == IF o.exists THEN Absent(o.ver + 1) ELSE o
  <2>1. h.pc = "delete" /\ (TransientError \/ Done(n))
    BY <1>p, <1>15 DEF Delete, HandlerStep
  <2>2. ~n.exists
    BY DEF Absent
  <2>3. (ip \notin suspect /\ obj'[ip] = n) => Fits(ip, Handled(ip))'
    BY <1>2, <1>4, <1>10, <2>1, <2>2 DEF Fits
  <2> HIDE DEF n
  <2> QED
    BY <1>8, <1>9, <2>1, <2>3
<1>16. CASE Create
  <2> DEFINE o == [Absent(obj[ip].ver + 1) EXCEPT !.exists = TRUE, !.label = TRUE]
  <2>1. CASE TransientError \/ Failed(FALSE)
    BY <1>7, <1>8, <2>1
  <2>2. CASE /\ obj' = [obj EXCEPT ![ip] = o]
             /\ At("fill", h.event, o)
             /\ UNCHANGED <<retries, budget, suspect>>
    <3>1. h'.event = h.event /\ h'.pc = "fill" /\ h' # IdleHandler
      BY <2>2 DEF At, IdleHandler
    <3>2. \A i \in IPs : i # ip => obj'[i] = obj[i]
      BY <1>t, <2>2
    <3>3. Followed'
      BY <1>p, <1>6, <2>2, <3>1, <3>2 DEF Followed, Free
    <3>4. h.pc = "create"
      BY <1>16 DEF Create, HandlerStep
    <3>5. Handled(h.event.ip)' = Handled(h.event.ip)
      BY <1>3, <3>1 DEF Handled
    <3>6. InProgress'
      BY <1>p, <1>10, <2>2, <3>1, <3>4, <3>5 DEF InProgress
    <3> QED
      BY <1>5, <2>2, <3>3, <3>6 DEF DInv, RetriesSuspect
  <2> QED
    BY <1>p, <1>16, <2>1, <2>2 DEF Create
<1> QED
  BY <1>12, <1>13, <1>14, <1>15, <1>16 DEF Handle

LEMMA DStep == IInv /\ DInv /\ [Next]_vars => DInv'
<1> SUFFICES ASSUME IInv, DInv, [Next]_vars PROVE DInv'
  OBVIOUS
<1>1. PollUnchanged => UNCHANGED vars
  BY DEF PollUnchanged
<1> QED
  BY <1>1, DMonitor, DOthers, DReceives, DHandle DEF Next

\* Once the events of an address are handled its HostStatus is what the lease
\* asks for, unless one of them met an error, a stale cache or a restart: for
\* every number of addresses, clients, lease changes and concurrent writers.
THEOREM NeverSilentlyDiverges == Spec => []NoSilentDivergence
<1>1. DInv => NoSilentDivergence
  <2> SUFFICES ASSUME DInv, NEW ip \in IPs, Quiet(ip), ip \notin suspect
               PROVE  Matches(ip)
    BY DEF NoSilentDivergence
  <2>1. Handled(ip) = lease[ip]
    BY DEF Quiet, Handled
  <2>2. Fits(ip, lease[ip])
    BY <2>1 DEF DInv, Followed, Free, Quiet
  <2> QED
    BY <2>2 DEF Fits, Matches
<1>2. Spec => [](IInv /\ DInv)
  <2>1. IInv /\ [Next]_vars => IInv'
    BY InvStep
  <2> QED
    BY <2>1, InvInit, DInit, DStep, PTL DEF Spec
<1> QED
  BY <1>1, <1>2, PTL

=============================================================================

--------------------------- MODULE HostOperation ---------------------------
(***************************************************************************)
(* A HostOperation from its admission to its final status:                 *)
(*   pkg/webhook/hostoperation (admission),                                *)
(*   pkg/agent/hostoperation/controller.go (Reconcile),                    *)
(*   pkg/redfish/power.go (Power, one call per computer system).           *)
(*                                                                         *)
(* The controller has one worker (MaxConcurrentReconciles is not set).  It *)
(* reads operations and hosts from informer caches, which lag behind the   *)
(* API server, the connection data of a host from HostCacheDatabase, which *)
(* the HostStatus controller fills, acts on the BMC, and only then writes  *)
(* the status.  What the worker learnt is lost when that write fails or    *)
(* the agent restarts.                                                     *)
(***************************************************************************)
EXTENDS Naturals, FiniteSets

CONSTANTS
    Ops,        \* names of HostOperation objects
    Hosts,      \* names of HostStatus objects
    Foreign,    \* the hosts that belong to another agent
    Systems,    \* the computer systems behind every BMC
    MaxFaults,  \* bound: failed calls of the BMC or the API server, restarts
    MaxChanges  \* bound: changes of the HostStatus objects

ASSUME HostOperationAssumption ==
    /\ Foreign \subseteq Hosts
    /\ IsFiniteSet(Systems) /\ Systems # {}
    /\ MaxFaults \in Nat /\ MaxChanges \in Nat

VARIABLES
    op,       \* the HostOperation objects in the API server
    cachedOp, \* the same in the agent's informer cache
    host,     \* the HostStatus objects in the API server
    cachedHost, \* the same in the agent's informer cache
    conn,     \* HostCacheDatabase: the hosts it has an entry for
    queue,    \* the controller's work queue
    w,        \* the worker: what it is doing and what it has read
    resets,   \* history: times a system was reset for an operation, up to Many
    faults,   \* faults that have happened
    changes,  \* changes of HostStatus objects that have happened
    disturbed, \* history: operations that met a fault or an untimely resync
    passed    \* history: operations dropped from the queue because their host
              \* was not shown as one of this agent, and not queued since

hostVars == <<host, cachedHost, conn, changes>>
vars == <<op, cachedOp, hostVars, queue, w, resets, faults, disturbed, passed>>

\* The status values the Go constants name; "" is an object without status.
Status == {"", "pending", "success", "failed"}
\* The values the CRD admits (kubebuilder:validation:Enum=pending;success;failure).
CRDEnum == {"", "pending", "success", "failure"}

\* More than one: a deleted operation can be repeated any number of times while
\* the informer cache still shows it.
Many == 2

\* A HostStatus is "blank" between its Create and its first Status().Update: it
\* has no status.clusterAgent yet.  The agent's name is part of the name of a
\* HostStatus, so a host that is not blank is this agent's or in Foreign.
HostState == {"absent", "blank", "unhealthy", "healthy"}
Known == {"unhealthy", "healthy"}

\* A name that is not used yet, and one whose object has been deleted.
NoOp == [exists |-> FALSE, deleted |-> FALSE]
DeletedOp == [exists |-> FALSE, deleted |-> TRUE]
Op == [exists : {TRUE}, host : Hosts, status : Status]
IdleWorker == [pc |-> "idle"]
Worker == [pc : {"connect", "power", "update"}, op : Ops, seen : Op,
           todo : SUBSET Systems, result : {"none", "success", "failed"}]

TypeOK ==
    /\ op \in [Ops -> Op \cup {NoOp, DeletedOp}]
    /\ cachedOp \in [Ops -> Op \cup {NoOp, DeletedOp}]
    /\ host \in [Hosts -> HostState]
    /\ cachedHost \in [Hosts -> HostState]
    /\ conn \subseteq Hosts
    /\ queue \subseteq Ops
    /\ w \in Worker \cup {IdleWorker}
    /\ resets \in [Ops -> [Systems -> 0 .. Many]]
    /\ faults \in 0 .. MaxFaults
    /\ changes \in 0 .. MaxChanges
    /\ disturbed \subseteq Ops
    /\ passed \subseteq Ops

\* The agent starts, with whatever hosts there are.
Init ==
    /\ op = [o \in Ops |-> NoOp]
    /\ cachedOp = op
    /\ host \in [Hosts -> HostState]
    /\ cachedHost = host
    /\ conn = {}
    /\ queue = {}
    /\ w = IdleWorker
    /\ resets = [o \in Ops |-> [s \in Systems |-> 0]]
    /\ faults = 0
    /\ changes = 0
    /\ disturbed = {}
    /\ passed = {}

Fault(o) ==
    /\ faults < MaxFaults
    /\ faults' = faults + 1
    /\ disturbed' = disturbed \cup {o}

NoFault == UNCHANGED <<faults, disturbed>>

-----------------------------------------------------------------------------
(* The user, the HostStatus controller and the informers.                  *)

\* HostOperationWebhook.ValidateCreate: the host exists and is healthy.  The
\* webhook reads it from the cache of another process; an operation it admits on
\* an old view is, to the agent, one that was created then and that the watch
\* brings late.  ValidateUpdate refuses every later change of the spec.  A name
\* stands for one object (a UID): it is not used again after a deletion.
CreateOp(o, x) ==
    /\ op[o] = NoOp
    /\ host[x] = "healthy"
    /\ op' = [op EXCEPT ![o] = [exists |-> TRUE, host |-> x, status |-> ""]]
    /\ UNCHANGED <<cachedOp, hostVars, queue, w, resets, passed>> /\ NoFault

DeleteOp(o) ==
    /\ op[o].exists
    /\ op' = [op EXCEPT ![o] = DeletedOp]
    /\ UNCHANGED <<cachedOp, hostVars, queue, w, resets, passed>> /\ NoFault

\* A HostStatus is created, gets its first status, which is never healthy, its
\* health changes, or it is deleted.
HostSteps(v) ==
    CASE v = "absent" -> {"blank"}
      [] v = "blank" -> {"unhealthy", "absent"}
      [] v = "unhealthy" -> {"healthy", "absent"}
      [] v = "healthy" -> {"unhealthy", "absent"}

HostChange(x) ==
    /\ changes < MaxChanges
    /\ \E v \in HostSteps(host[x]) : host' = [host EXCEPT ![x] = v]
    /\ changes' = changes + 1
    /\ UNCHANGED <<op, cachedOp, cachedHost, conn, queue, w, resets, passed>>
    /\ NoFault

\* The watch of the agent on the HostStatus objects; it queues no operation.
HostSync(x) ==
    /\ cachedHost[x] # host[x]
    /\ cachedHost' = [cachedHost EXCEPT ![x] = host[x]]
    /\ UNCHANGED <<op, cachedOp, host, conn, changes, queue, w, resets, passed>>
    /\ NoFault

\* The HostStatus controller adds the host its cache shows to HostCacheDatabase,
\* or removes it once the HostStatus is gone; a blank one it leaves alone.
ConnSync(x) ==
    /\ x \notin Foreign
    /\ \/ x \notin conn /\ cachedHost[x] \in Known /\ conn' = conn \cup {x}
       \/ x \in conn /\ cachedHost[x] = "absent" /\ conn' = conn \ {x}
    /\ UNCHANGED <<op, cachedOp, host, cachedHost, changes, queue, w, resets, passed>>
    /\ NoFault

\* A watch event: the cache changes and the object is queued.
InformerSync(o) ==
    /\ cachedOp[o] # op[o]
    /\ cachedOp' = [cachedOp EXCEPT ![o] = op[o]]
    /\ queue' = queue \cup {o}
    /\ passed' = passed \ {o}
    /\ UNCHANGED <<op, hostVars, w, resets>> /\ NoFault

Working(o) == w # IdleWorker /\ w.op = o

\* Every ten hours the informer hands its controllers every object of the cache
\* once more, changed or not.  It is untimely when the worker has the operation
\* in hand, or has written its status and the watch has not brought that yet.
Resync(o) ==
    /\ cachedOp[o].exists
    /\ o \notin queue
    /\ queue' = queue \cup {o}
    /\ passed' = passed \ {o}
    /\ disturbed' = IF Working(o) \/ cachedOp[o] # op[o]
                      THEN disturbed \cup {o} ELSE disturbed
    /\ UNCHANGED <<op, cachedOp, hostVars, w, resets, faults>>

\* The agent restarts: the caches are listed anew, every object is queued.
Restart ==
    /\ faults < MaxFaults
    /\ faults' = faults + 1
    /\ disturbed' = IF w = IdleWorker THEN disturbed ELSE disturbed \cup {w.op}
    /\ cachedOp' = op
    /\ cachedHost' = host
    /\ conn' = {}
    /\ queue' = {o \in Ops : op[o].exists}
    /\ w' = IdleWorker
    /\ passed' = {}
    /\ UNCHANGED <<op, host, changes, resets>>

-----------------------------------------------------------------------------
(* HostOperationController.Reconcile.                                      *)

\* Mutant: every object is processed, whatever its status.
Always(s) == TRUE

\* Mutant: an object without a status is left alone.
OnlyPending(s) == s = "pending"

\* Line 67: only an operation without a final status is processed.
Unprocessed(s) == s \in {"", "pending"}

\* Mutant: a host that is not in HostCacheDatabase ends the reconcile.
ForgetIfNoConn(o) == queue \ {o}

\* Mutant: the host is queued instead of the operation.
RequeueHost(o) == queue \cup {cachedOp[o].host}

\* Lines 79-83: a host that is not in HostCacheDatabase yet is tried again.
RequeueIfNoConn(o) == queue

\* Lines 46-84: up to the first call of the BMC.  Both objects come from the
\* informer caches.  An error (a host that is not found), or RequeueAfter, leaves
\* the operation in the queue; a host whose status.clusterAgent is not this
\* agent, the empty one of a blank host included, ends the reconcile with nil.
StartReconcile(o) ==
    LET c == cachedOp[o]
        h == cachedHost[c.host]
        mine == h # "blank" /\ c.host \notin Foreign
        skip == queue' = queue \ {o} /\ UNCHANGED w
    IN /\ w = IdleWorker
       /\ o \in queue
       /\ IF ~c.exists THEN skip /\ UNCHANGED passed
          ELSE IF h = "absent" THEN UNCHANGED <<queue, w, passed>>
          ELSE IF ~mine THEN skip /\ passed' = passed \cup {o}
          ELSE IF ~Unprocessed(c.status) THEN skip /\ UNCHANGED passed
          ELSE IF c.host \notin conn
            THEN queue' = RequeueIfNoConn(o) /\ UNCHANGED <<w, passed>>
          ELSE /\ queue' = queue \ {o}
               /\ w' = [pc |-> "connect", op |-> o, seen |-> c,
                        todo |-> Systems, result |-> "none"]
               /\ UNCHANGED passed
       /\ UNCHANGED <<op, cachedOp, hostVars, resets>> /\ NoFault

WorkerStep(l) ==
    /\ w.pc = l
    /\ UNCHANGED <<op, cachedOp, hostVars, queue, passed>>

\* Mutant: the error of NewClient is shadowed and overwritten by "success".
ConnectShadowed ==
    /\ WorkerStep("connect")
    /\ \/ w' = [w EXCEPT !.pc = "power"] /\ NoFault
       \/ w' = [w EXCEPT !.pc = "update", !.result = "success"] /\ Fault(w.op)
    /\ UNCHANGED resets

\* Lines 87-93, and Systems() of Power: the BMC answers or not.
Connect ==
    /\ WorkerStep("connect")
    /\ \/ w' = [w EXCEPT !.pc = "power"] /\ NoFault
       \/ w' = [w EXCEPT !.pc = "update", !.result = "failed"] /\ Fault(w.op)
    /\ UNCHANGED resets

\* Mutant: Power returns when the first system has been operated.
PowerFirst(s) ==
    [w EXCEPT !.todo = @ \ {s}, !.pc = "update", !.result = "success"]

\* The loop of Power goes on after system s has been operated.
PowerNext(s) ==
    LET left == w.todo \ {s} IN
    IF left = {} THEN [w EXCEPT !.todo = {}, !.pc = "update", !.result = "success"]
                 ELSE [w EXCEPT !.todo = left]

ResetSystem(s) ==
    resets' = [resets EXCEPT ![w.op][s] = IF @ = Many THEN Many ELSE @ + 1]

\* One iteration of the loop of Power.  A failure ends it, and the systems of
\* the iterations before have been operated; the failed call may have had its
\* effect on the BMC.
Power(s) ==
    /\ WorkerStep("power")
    /\ s \in w.todo
    /\ \/ w' = PowerNext(s) /\ ResetSystem(s) /\ NoFault
       \/ /\ w' = [w EXCEPT !.pc = "update", !.result = "failed"]
          /\ Fault(w.op)
          /\ ResetSystem(s) \/ UNCHANGED resets

\* Lines 114-129: Status().Update.  The API server refuses a value outside the
\* enumeration of the CRD and an object that is gone or has changed since it
\* was read; any error queues the operation again.  A transient error may hide
\* a write that took place.
UpdateStatus ==
    LET o == w.op
        accepted == op[o] = w.seen /\ w.result \in CRDEnum
        written == [op EXCEPT ![o].status = w.result]
    IN /\ w.pc = "update"
       /\ w' = IdleWorker
       /\ \/ /\ accepted
             /\ op' = written
             /\ UNCHANGED queue /\ NoFault
          \/ /\ ~accepted
             /\ queue' = queue \cup {o}
             /\ UNCHANGED op /\ NoFault
          \/ /\ Fault(o)
             /\ queue' = queue \cup {o}
             /\ IF accepted THEN op' \in {op, written} ELSE UNCHANGED op
       /\ UNCHANGED <<cachedOp, hostVars, resets, passed>>

Reconciling == Connect \/ (\E s \in Systems : Power(s)) \/ UpdateStatus

Next ==
    \/ \E o \in Ops, x \in Hosts : CreateOp(o, x)
    \/ \E o \in Ops : DeleteOp(o) \/ InformerSync(o) \/ Resync(o) \/ StartReconcile(o)
    \/ \E x \in Hosts : HostChange(x) \/ HostSync(x) \/ ConnSync(x)
    \/ Restart
    \/ Reconciling

Spec == Init /\ [][Next]_vars

\* The watches, the resync timer, the HostStatus controller and the worker make
\* progress; the work queue serves every key in turn.  Nothing is assumed of
\* users, hosts and faults.
Fairness ==
    /\ \A o \in Ops : /\ WF_vars(InformerSync(o)) /\ WF_vars(Resync(o))
                      /\ SF_vars(StartReconcile(o))
    /\ \A x \in Hosts : WF_vars(HostSync(x)) /\ WF_vars(ConnSync(x))
    /\ WF_vars(Reconciling)

FairSpec == Spec /\ Fairness

-----------------------------------------------------------------------------
(* Properties.                                                             *)

\* A status "success" is true: every system behind the BMC was operated.
SuccessIsTrue ==
    \A o \in Ops : op[o].exists =>
        (op[o].status = "success" => \A s \in Systems : resets[o][s] > 0)

\* A machine is operated again for the same HostOperation only after a failed
\* call, a restart of the agent, the deletion of the object (whose refused status
\* update queues it again while the cache still shows it), or a resync of the
\* informer while the worker had it in hand or its written status was still on
\* the way to the cache.  Lag of the cache alone, a late HostStatus and retries
\* for want of connection data never repeat an operation.
RepeatHasCause ==
    \A o \in Ops, s \in Systems :
        resets[o][s] = Many => o \in disturbed \/ ~op[o].exists

\* No operation is forgotten: one without a final status, on a host of this
\* agent, is queued, being processed, or about to arrive by the watch, unless
\* Reconcile dropped it because its HostStatus was shown without a status
\* (controller.go:61): that one waits for the next resync.
NotForgotten ==
    \A o \in Ops : op[o].exists =>
        (op[o].status = "" /\ op[o].host \notin Foreign =>
            \/ o \in queue
            \/ w # IdleWorker /\ w.op = o
            \/ cachedOp[o] # op[o]
            \/ o \in passed)

\* Every operation of this agent ends with a final status when faults cease, also
\* one that was dropped because its HostStatus had no status yet, unless it is
\* deleted or its host goes away or is never given a status.
OpsComplete ==
    \A o \in Ops :
        op[o].exists ~> \/ ~op[o].exists
                        \/ op[o].status \in {"success", "failed"}
                        \/ op[o].host \in Foreign
                        \/ host[op[o].host] \notin Known

\* The object a user sees and the systems operated for it.
Seen(o) ==
    IF op[o].exists
      THEN [stage |-> IF op[o].status = "success" THEN "done" ELSE "open",
            host |-> op[o].host]
      ELSE [stage |-> IF op[o] = NoOp THEN "free" ELSE "withdrawn"]
Operated(o) == {s \in Systems : resets[o][s] > 0}

O == INSTANCE OperationSpec WITH request <- [o \in Ops |-> Seen(o)],
                                 operated <- [o \in Ops |-> Operated(o)]

\* Admission, Reconcile and Power, with their caches, retries and restarts,
\* implement OperationSpec: nothing is operated before it is asked for or by an
\* agent the host does not belong to, and an operation is completed only when
\* every system has been operated, on the host that was asked for.
ImplementsOperations == O!Spec

\* What doc/usage/action.md:69 says: an operation that failed gets the status
\* "failed", unless it is deleted or its host goes away.
FailedIsReported ==
    \A o \in Ops :
        (IF w = IdleWorker THEN FALSE ELSE w.op = o /\ w.result = "failed")
            ~> (IF op[o].exists
                  THEN op[o].status = "failed" \/ host[op[o].host] \notin Known
                  ELSE TRUE)

=============================================================================

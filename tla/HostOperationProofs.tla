------------------------ MODULE HostOperationProofs ------------------------
(***************************************************************************)
(* Proofs about HostOperation, for any sets of operations, hosts and       *)
(* systems and any number of faults.                                       *)
(***************************************************************************)
EXTENDS HostOperation, TLAPS

USE HostOperationAssumption

-----------------------------------------------------------------------------
(* The type invariant.                                                     *)

\* The worker that has an operation in hand.
LEMMA WorkerType ==
    ASSUME TypeOK, w.pc # "idle"
    PROVE  w \in Worker /\ w.op \in Ops
BY DEF TypeOK, Worker, IdleWorker

\* One more reset of system s for the operation in hand.
LEMMA ResetOK ==
    ASSUME TypeOK, w \in Worker, NEW s \in Systems, ResetSystem(s)
    PROVE  /\ resets' \in [Ops -> [Systems -> 0 .. Many]]
           /\ \A o \in Ops : o # w.op => resets'[o] = resets[o]
           /\ \A x \in Systems : x # s => resets'[w.op][x] = resets[w.op][x]
           /\ resets'[w.op][s] = IF resets[w.op][s] = Many THEN Many
                                                          ELSE resets[w.op][s] + 1
<1>1. w.op \in Ops
  BY DEF Worker
<1>2. resets \in [Ops -> [Systems -> 0 .. Many]]
  BY DEF TypeOK
<1> DEFINE more == IF resets[w.op][s] = Many THEN Many ELSE resets[w.op][s] + 1
<1>3. resets' = [resets EXCEPT ![w.op] = [resets[w.op] EXCEPT ![s] = more]]
  BY <1>1, <1>2 DEF ResetSystem
<1>4. more \in 0 .. Many
  BY <1>1, <1>2 DEF Many
<1> QED
  BY <1>1, <1>2, <1>3, <1>4

\* The operated worker is well typed and keeps its operation.
LEMMA PowerNextOK ==
    ASSUME w \in Worker, w.pc = "power", NEW s \in w.todo
    PROVE  /\ PowerNext(s) \in Worker
           /\ PowerNext(s).op = w.op /\ PowerNext(s).seen = w.seen
           /\ PowerNext(s).todo = w.todo \ {s}
           /\ IF w.todo \ {s} = {}
                THEN PowerNext(s).pc = "update" /\ PowerNext(s).result = "success"
                ELSE PowerNext(s).pc = "power" /\ PowerNext(s).result = w.result
BY DEF PowerNext, Worker

\* A refused or failed status update leaves the objects, an accepted one writes
\* "success" into an object that was as the worker had read it.
LEMMA UpdateOK ==
    ASSUME TypeOK, w \in Worker, UpdateStatus
    PROVE  \/ op' = op
           \/ /\ op[w.op] = w.seen /\ w.seen \in Op
              /\ w.result = "success"
              /\ op' = [op EXCEPT ![w.op] = [w.seen EXCEPT !.status = "success"]]
<1>1. w.op \in Ops /\ w.seen \in Op /\ w.result \in {"none", "success", "failed"}
  BY DEF Worker
<1>2. op' = op \/ (/\ op[w.op] = w.seen /\ w.result \in CRDEnum
                   /\ op' = [op EXCEPT ![w.op].status = w.result])
  BY DEF UpdateStatus
<1>3. w.result \in CRDEnum => w.result = "success"
  BY <1>1 DEF CRDEnum
<1> QED
  BY <1>1, <1>2, <1>3

LEMMA TypeInit == Init => TypeOK
BY DEF Init, TypeOK, Many

\* A HostStatus changes into a HostStatus.
LEMMA HostStepsOK == \A v \in HostState : HostSteps(v) \subseteq HostState
BY DEF HostState, HostSteps

\* Every step keeps the types.
LEMMA TypeStep == TypeOK /\ [Next]_vars => TypeOK'
<1> SUFFICES ASSUME TypeOK, [Next]_vars PROVE TypeOK'
  OBVIOUS
<1>1. ASSUME NEW o \in Ops, NEW x \in Hosts, CreateOp(o, x) PROVE TypeOK'
  <2>1. [exists |-> TRUE, host |-> x, status |-> ""] \in Op
    BY DEF Op, Status
  <2> QED
    BY <1>1, <2>1 DEF TypeOK, CreateOp, NoFault, hostVars
<1>2. ASSUME NEW o \in Ops, DeleteOp(o) PROVE TypeOK'
  BY <1>2 DEF TypeOK, DeleteOp, NoFault, hostVars
<1>3. ASSUME NEW o \in Ops, InformerSync(o) PROVE TypeOK'
  BY <1>3 DEF TypeOK, InformerSync, NoFault, hostVars
<1>4. ASSUME NEW o \in Ops, StartReconcile(o) PROVE TypeOK'
  <2>1. queue' \subseteq Ops /\ passed' \subseteq Ops
    BY <1>4 DEF StartReconcile, TypeOK, RequeueIfNoConn
  <2>2. w' = w \/ (cachedOp[o].exists /\ w' = [pc |-> "connect", op |-> o,
                     seen |-> cachedOp[o], todo |-> Systems, result |-> "none"])
    BY <1>4 DEF StartReconcile
  <2>3. cachedOp[o].exists => cachedOp[o] \in Op
    BY DEF TypeOK, NoOp, DeletedOp
  <2>4. w' \in Worker \cup {IdleWorker}
    BY <2>2, <2>3 DEF Worker, TypeOK
  <2> QED
    BY <1>4, <2>1, <2>4 DEF StartReconcile, TypeOK, NoFault, hostVars
<1>5. ASSUME NEW x \in Hosts, HostChange(x) PROVE TypeOK'
  <2>1. PICK v \in HostSteps(host[x]) : host' = [host EXCEPT ![x] = v]
    BY <1>5 DEF HostChange
  <2>2. host' \in [Hosts -> HostState]
    BY <2>1, HostStepsOK DEF TypeOK
  <2> QED
    BY <1>5, <2>2 DEF TypeOK, HostChange, NoFault
<1>6. ASSUME NEW x \in Hosts, HostSync(x) \/ ConnSync(x) PROVE TypeOK'
  BY <1>6 DEF TypeOK, HostSync, ConnSync, NoFault
<1>r. ASSUME NEW o \in Ops, Resync(o) PROVE TypeOK'
  BY <1>r DEF TypeOK, Resync, hostVars
<1>7. CASE Restart
  <2>1. w # IdleWorker => w.op \in Ops
    BY DEF TypeOK, Worker
  <2> QED
    BY <1>7, <2>1 DEF TypeOK, Restart
<1>8. CASE Connect
  <2>1. w \in Worker /\ w.op \in Ops
    BY <1>8, WorkerType DEF Connect, WorkerStep
  <2>2. w' \in Worker
    BY <1>8, <2>1 DEF Connect, Worker
  <2>3. faults' \in 0 .. MaxFaults /\ disturbed' \subseteq Ops
    BY <1>8, <2>1 DEF Connect, NoFault, Fault, TypeOK
  <2> QED
    BY <1>8, <2>2, <2>3 DEF TypeOK, Connect, WorkerStep, hostVars
<1>9. ASSUME NEW s \in Systems, Power(s) PROVE TypeOK'
  <2>1. w \in Worker /\ w.op \in Ops /\ w.pc = "power" /\ s \in w.todo
    BY <1>9, WorkerType DEF Power, WorkerStep
  <2>2. w' \in Worker
    <3>1. w' = PowerNext(s) \/ w' = [w EXCEPT !.pc = "update", !.result = "failed"]
      BY <1>9 DEF Power
    <3>2. [w EXCEPT !.pc = "update", !.result = "failed"] \in Worker
      BY <2>1 DEF Worker
    <3> QED
      BY <2>1, <3>1, <3>2, PowerNextOK
  <2>3. faults' \in 0 .. MaxFaults /\ disturbed' \subseteq Ops
    BY <1>9, <2>1 DEF Power, NoFault, Fault, TypeOK
  <2>4. resets' \in [Ops -> [Systems -> 0 .. Many]]
    <3>1. ResetSystem(s) \/ resets' = resets
      BY <1>9 DEF Power
    <3> QED
      BY <2>1, <3>1, ResetOK DEF TypeOK
  <2> QED
    BY <1>9, <2>2, <2>3, <2>4 DEF TypeOK, Power, WorkerStep, hostVars
<1>10. CASE UpdateStatus
  <2>1. w \in Worker /\ w.op \in Ops
    BY <1>10, WorkerType DEF UpdateStatus
  <2>2. op' \in [Ops -> Op \cup {NoOp, DeletedOp}]
    <3>1. w.seen \in Op => [w.seen EXCEPT !.status = "success"] \in Op
      BY DEF Op, Status
    <3> QED
      BY <1>10, <2>1, <3>1, UpdateOK DEF TypeOK
  <2>3. faults' \in 0 .. MaxFaults /\ disturbed' \subseteq Ops /\ queue' \subseteq Ops
    BY <1>10, <2>1 DEF UpdateStatus, NoFault, Fault, TypeOK
  <2> QED
    BY <1>10, <2>2, <2>3 DEF TypeOK, UpdateStatus, hostVars
<1>11. CASE UNCHANGED vars
  BY <1>11 DEF TypeOK, vars, hostVars
<1> QED
  BY <1>1, <1>2, <1>3, <1>4, <1>5, <1>6, <1>r, <1>7, <1>8, <1>9, <1>10, <1>11
     DEF Next, Reconciling

\* Every reachable state of HostOperation is type correct.
THEOREM TypeCorrect == Spec => []TypeOK
BY TypeInit, TypeStep, PTL DEF Spec

-----------------------------------------------------------------------------
(* The inductive invariant.                                                *)

\* A name that has not been used is unknown to the agent.
Unborn ==
    \A o \in Ops : op[o] = NoOp =>
        /\ cachedOp[o] = NoOp /\ ~Working(o)
        /\ \A s \in Systems : resets[o][s] = 0

\* What the worker has done: the systems that are not left to do have been
\* operated, all of them when the result is "success".
Progress ==
    w # IdleWorker =>
        /\ w.pc = "connect" => w.todo = Systems /\ w.result = "none"
        /\ w.pc = "power" => w.result = "none"
        /\ w.pc = "power" => \A s \in Systems \ w.todo : resets[w.op][s] > 0
        /\ w.pc = "update" => w.result # "none"
        /\ w.result = "success" =>
             w.todo = {} /\ \A s \in Systems : resets[w.op][s] > 0

\* The worker, while it has operation o in hand and nothing has failed, knows
\* the object as it is and has not operated what is left to do.
InHand(o) ==
    /\ o \notin queue
    /\ w.seen = op[o] /\ cachedOp[o] = op[o]
    /\ op[o].status = ""
    /\ w.result # "failed"
    /\ \A s \in w.todo : resets[o][s] = 0

\* An operation that exists and met neither a fault nor an untimely resync is
\* operated at most once: it is queued only while the cache shows its current
\* status.
OnceAt(o) ==
    /\ \A s \in Systems : resets[o][s] <= 1
    /\ op[o].status \in {"", "success"}
    /\ o \in queue /\ cachedOp[o].exists => cachedOp[o] = op[o]
    /\ Working(o) => InHand(o)
    /\ ~Working(o) /\ op[o].status = "" => \A s \in Systems : resets[o][s] = 0

Once == \A o \in Ops : o \notin disturbed /\ op[o].exists => OnceAt(o)

IInv ==
    /\ TypeOK
    /\ Unborn
    /\ Progress
    /\ Once
    /\ SuccessIsTrue
    /\ NotForgotten

\* Objects that exist differ from names without one.
LEMMA Names ==
    /\ ~NoOp.exists /\ ~DeletedOp.exists /\ NoOp # DeletedOp
    /\ \A r \in Op : r.exists /\ r # NoOp /\ r # DeletedOp
<1>1. ~NoOp.exists /\ ~DeletedOp.exists
  BY DEF NoOp, DeletedOp
<1>2. NoOp # DeletedOp
  <2>1. NoOp.deleted = FALSE /\ DeletedOp.deleted = TRUE
    BY DEF NoOp, DeletedOp
  <2> QED
    BY <2>1
<1>3. \A r \in Op : r.exists
  BY DEF Op
<1> QED
  BY <1>1, <1>2, <1>3

LEMMA InvInit == Init => IInv
<1> SUFFICES ASSUME Init PROVE IInv
  OBVIOUS
<1>1. TypeOK
  BY TypeInit
<1>2. \A o \in Ops : ~op[o].exists
  BY DEF Init, NoOp
<1>3. w = IdleWorker
  BY DEF Init
<1>4. Unborn
  BY <1>3 DEF Init, Unborn, Working
<1> QED
  BY <1>1, <1>2, <1>3, <1>4 DEF IInv, Progress, Once, SuccessIsTrue, NotForgotten

\* The user creates or deletes an object.
LEMMA InvUser ==
    ASSUME IInv, NEW o \in Ops,
           (\E x \in Hosts : CreateOp(o, x)) \/ DeleteOp(o)
    PROVE  Unborn' /\ Progress' /\ Once' /\ SuccessIsTrue' /\ NotForgotten'
<1>1. UNCHANGED <<cachedOp, queue, w, resets, faults, disturbed, passed>>
  BY DEF CreateOp, DeleteOp, NoFault
<1>2. \A p \in Ops : p # o => op'[p] = op[p]
  BY DEF CreateOp, DeleteOp, IInv, TypeOK
<1>3. \/ op'[o] = DeletedOp
      \/ op[o] = NoOp /\ op'[o] \in Op /\ op'[o].status = ""
  <2>1. CASE DeleteOp(o)
    BY <2>1 DEF DeleteOp, IInv, TypeOK
  <2>2. ASSUME NEW x \in Hosts, CreateOp(o, x) 
        PROVE  op[o] = NoOp /\ op'[o] \in Op /\ op'[o].status = ""
    <3>1. [exists |-> TRUE, host |-> x, status |-> ""] \in Op
      BY DEF Op, Status
    <3> QED
      BY <2>2, <3>1 DEF CreateOp, IInv, TypeOK
  <2> QED
    BY <2>1, <2>2
<1>4. op'[o] # NoOp
  BY <1>3, Names
<1>5. Progress'
  BY <1>1 DEF IInv, Progress
<1>6. Unborn'
  BY <1>1, <1>2, <1>4 DEF IInv, Unborn, Working
<1>7. op'[o].exists => op[o] = NoOp /\ op'[o].status = ""
  BY <1>3, Names
<1>8. Once'
  <2> SUFFICES ASSUME NEW p \in Ops, p \notin disturbed, op'[p].exists PROVE OnceAt(p)'
    BY <1>1 DEF Once
  <2>1. CASE p = o
    <3>1. cachedOp[o] = NoOp /\ ~Working(o) /\ \A s \in Systems : resets[o][s] = 0
      BY <2>1, <1>7 DEF IInv, Unborn
    <3>2. \A s \in Systems : resets'[p][s] = 0 /\ resets'[p][s] <= 1
      BY <1>1, <2>1, <3>1
    <3>3. ~Working(p)' /\ ~cachedOp'[p].exists /\ op'[p].status = ""
      BY <1>1, <1>7, <2>1, <3>1, Names DEF Working
    <3> QED
      BY <3>2, <3>3 DEF OnceAt
  <2>2. CASE p # o
    BY <1>1, <1>2, <2>2 DEF IInv, Once, OnceAt, Working, InHand
  <2> QED
    BY <2>1, <2>2
<1>9. SuccessIsTrue'
  BY <1>1, <1>2, <1>7 DEF IInv, SuccessIsTrue
<1>10. NotForgotten'
  <2> SUFFICES ASSUME NEW p \in Ops, op'[p].exists, op'[p].status = "",
                      op'[p].host \notin Foreign
               PROVE  \/ p \in queue
                      \/ w # IdleWorker /\ w.op = p
                      \/ cachedOp[p] # op'[p]
                      \/ p \in passed
    BY <1>1 DEF NotForgotten
  <2>1. CASE p = o
    BY <1>4, <1>7, <2>1 DEF IInv, Unborn
  <2>2. CASE p # o
    BY <1>2, <2>2 DEF IInv, NotForgotten
  <2> QED
    BY <2>1, <2>2
<1> QED
  BY <1>5, <1>6, <1>8, <1>9, <1>10

\* The watch brings the cache up to date.
LEMMA InvSync ==
    ASSUME IInv, NEW o \in Ops, InformerSync(o)
    PROVE  Unborn' /\ Progress' /\ Once' /\ SuccessIsTrue' /\ NotForgotten'
<1>1. UNCHANGED <<op, w, resets, faults, disturbed>>
  BY DEF InformerSync, NoFault
<1>2. /\ cachedOp[o] # op[o] /\ cachedOp'[o] = op[o]
      /\ \A p \in Ops : p # o => cachedOp'[p] = cachedOp[p]
      /\ queue' = queue \cup {o} /\ passed' = passed \ {o}
  BY DEF InformerSync, IInv, TypeOK
<1>3. Unborn' /\ Progress' /\ SuccessIsTrue'
  BY <1>1, <1>2 DEF IInv, Unborn, Working, Progress, SuccessIsTrue
<1>4. Once'
  <2> SUFFICES ASSUME NEW p \in Ops, p \notin disturbed, op[p].exists PROVE OnceAt(p)'
    BY <1>1 DEF Once
  <2>1. OnceAt(p)
    BY DEF IInv, Once
  <2> QED
    BY <1>1, <1>2, <2>1 DEF OnceAt, Working, InHand
<1>5. NotForgotten'
  BY <1>1, <1>2 DEF IInv, NotForgotten
<1> QED
  BY <1>3, <1>4, <1>5

\* A resync that is timely queues an operation the cache shows as it is and that
\* the worker does not have in hand.
LEMMA InvResync ==
    ASSUME IInv, NEW o \in Ops, Resync(o)
    PROVE  Unborn' /\ Progress' /\ Once' /\ SuccessIsTrue' /\ NotForgotten'
<1>1. /\ UNCHANGED <<op, cachedOp, w, resets>>
      /\ queue' = queue \cup {o} /\ passed' = passed \ {o}
      /\ disturbed' = IF Working(o) \/ cachedOp[o] # op[o]
                        THEN disturbed \cup {o} ELSE disturbed
  BY DEF Resync
<1>2. Unborn' /\ Progress' /\ SuccessIsTrue' /\ NotForgotten'
  BY <1>1 DEF IInv, Unborn, Working, Progress, SuccessIsTrue, NotForgotten
<1>3. Once'
  <2> SUFFICES ASSUME NEW p \in Ops, p \notin disturbed', op[p].exists PROVE OnceAt(p)'
    BY <1>1 DEF Once
  <2>1. OnceAt(p)
    BY <1>1 DEF IInv, Once
  <2>2. p = o => ~Working(o) /\ cachedOp[o] = op[o]
    BY <1>1
  <2>3. Working(p)' = Working(p)
    BY <1>1 DEF Working
  <2> QED
    BY <1>1, <2>1, <2>2, <2>3 DEF OnceAt, InHand
<1> QED
  BY <1>2, <1>3

\* The agent restarts: the worker's operation is disturbed, the others keep what
\* has been done for them.
LEMMA InvRestart ==
    ASSUME IInv, Restart
    PROVE  Unborn' /\ Progress' /\ Once' /\ SuccessIsTrue' /\ NotForgotten'
<1>1. /\ op' = op /\ resets' = resets /\ cachedOp' = op
      /\ queue' = {o \in Ops : op[o].exists}
      /\ w' = IdleWorker
      /\ disturbed' = IF w = IdleWorker THEN disturbed ELSE disturbed \cup {w.op}
  BY DEF Restart
<1>2. Unborn' /\ Progress' /\ SuccessIsTrue' /\ NotForgotten'
  BY <1>1 DEF IInv, Unborn, Working, Progress, SuccessIsTrue, NotForgotten
<1>3. Once'
  <2> SUFFICES ASSUME NEW p \in Ops, p \notin disturbed', op[p].exists PROVE OnceAt(p)'
    BY <1>1 DEF Once
  <2>1. OnceAt(p) /\ ~Working(p)
    BY <1>1 DEF IInv, Once, Working
  <2> QED
    BY <1>1, <2>1 DEF OnceAt, Working
<1> QED
  BY <1>2, <1>3

\* The hosts and HostCacheDatabase are not part of the invariant.
LEMMA InvHosts ==
    ASSUME IInv, UNCHANGED <<op, cachedOp, queue, w, resets, disturbed, passed>>
    PROVE  Unborn' /\ Progress' /\ Once' /\ SuccessIsTrue' /\ NotForgotten'
<1>1. Unborn' /\ Progress' /\ SuccessIsTrue' /\ NotForgotten'
  BY DEF IInv, Unborn, Working, Progress, SuccessIsTrue, NotForgotten
<1>2. Once'
  <2> SUFFICES ASSUME NEW p \in Ops, p \notin disturbed, op[p].exists PROVE OnceAt(p)'
    BY DEF Once
  <2>1. OnceAt(p)
    BY DEF IInv, Once
  <2> QED
    BY <2>1 DEF OnceAt, Working, InHand
<1> QED
  BY <1>1, <1>2

\* The worker takes an operation from the queue, or leaves it alone.
LEMMA InvReconcile ==
    ASSUME IInv, NEW o \in Ops, StartReconcile(o)
    PROVE  Unborn' /\ Progress' /\ Once' /\ SuccessIsTrue' /\ NotForgotten'
<1> DEFINE c == cachedOp[o]
           taken == [pc |-> "connect", op |-> o, seen |-> c, todo |-> Systems,
                     result |-> "none"]
<1>1. /\ UNCHANGED <<op, cachedOp, resets, faults, disturbed>>
      /\ w = IdleWorker /\ o \in queue
  BY DEF StartReconcile, NoFault
<1>2. \/ w' = w /\ queue' = queue /\ passed' = passed
      \/ /\ w' = w /\ queue' = queue \ {o} /\ passed' = passed
         /\ ~c.exists \/ c.status \notin {"", "pending"}
      \/ w' = w /\ queue' = queue \ {o} /\ passed' = passed \cup {o}
      \/ /\ w' = taken /\ queue' = queue \ {o} /\ passed' = passed
         /\ c.exists /\ c.status \in {"", "pending"}
  BY DEF StartReconcile, RequeueIfNoConn, Unprocessed
<1>3. taken # IdleWorker /\ taken.op = o /\ taken.pc = "connect" /\ taken.seen = c
      /\ taken.todo = Systems /\ taken.result = "none"
  BY DEF IdleWorker
<1>4. \A p \in Ops : p # o => (p \in queue' <=> p \in queue) /\ Working(p)' = Working(p)
  BY <1>1, <1>2, <1>3 DEF Working
<1>5. CASE w' = w
  <2>1. Unborn' /\ Progress' /\ SuccessIsTrue'
    BY <1>1, <1>5 DEF IInv, Unborn, Working, Progress, SuccessIsTrue
  <2>2. Once'
    BY <1>1, <1>2, <1>3, <1>5 DEF IInv, Once, OnceAt, Working, InHand
  <2>3. NotForgotten'
    BY <1>1, <1>2, <1>3, <1>5 DEF IInv, NotForgotten
  <2> QED
    BY <2>1, <2>2, <2>3
<1>6. CASE /\ w' = taken /\ queue' = queue \ {o} /\ passed' = passed
           /\ c.exists /\ c.status \in {"", "pending"}
  <2>1. Unborn'
    BY <1>1, <1>3, <1>6, Names DEF IInv, Unborn, Working
  <2>2. Progress'
    BY <1>1, <1>3, <1>6 DEF Progress
  <2>3. SuccessIsTrue'
    BY <1>1 DEF IInv, SuccessIsTrue
  <2>4. NotForgotten'
    BY <1>1, <1>3, <1>6 DEF IInv, NotForgotten
  <2>5. Once'
    <3> SUFFICES ASSUME NEW p \in Ops, p \notin disturbed, op[p].exists PROVE OnceAt(p)'
      BY <1>1 DEF Once
    <3>1. OnceAt(p)
      BY DEF IInv, Once
    <3>2. CASE p = o
      <4>1. c = op[o] /\ c.status = "" /\ \A s \in Systems : resets[o][s] = 0
        BY <1>1, <1>6, <3>1, <3>2 DEF OnceAt, Working
      <4> QED
        BY <1>1, <1>3, <1>6, <3>1, <3>2, <4>1 DEF OnceAt, Working, InHand
    <3>3. CASE p # o
      BY <1>1, <1>3, <1>6, <3>1, <3>3 DEF OnceAt, Working
    <3> QED
      BY <3>2, <3>3
  <2> QED
    BY <2>1, <2>2, <2>3, <2>4, <2>5
<1> QED
  BY <1>2, <1>5, <1>6

\* A worker is not idle.
LEMMA BusyWorker == \A v \in Worker : v # IdleWorker
<1> SUFFICES ASSUME NEW v \in Worker PROVE v # IdleWorker
  OBVIOUS
<1>1. v.pc \in {"connect", "power", "update"} /\ IdleWorker.pc = "idle"
  BY DEF Worker, IdleWorker
<1> QED
  BY <1>1

\* A step of the worker on its operation disturbs no other operation and undoes
\* no reset.
LEMMA InvWork ==
    ASSUME IInv, w \in Worker, w' \in Worker, w'.op = w.op, w.op \in Ops,
           UNCHANGED <<op, cachedOp, queue, passed>>, disturbed \subseteq disturbed',
           \A p \in Ops : p # w.op => resets'[p] = resets[p],
           \A s \in Systems : resets[w.op][s] > 0 => resets'[w.op][s] > 0,
           w.op \notin disturbed' /\ op[w.op].exists => OnceAt(w.op)'
    PROVE  Unborn' /\ Once' /\ SuccessIsTrue' /\ NotForgotten'
<1>1. w # IdleWorker /\ w' # IdleWorker
  BY BusyWorker
<1>2. Unborn'
  <2> SUFFICES ASSUME NEW p \in Ops, op[p] = NoOp
               PROVE  /\ cachedOp[p] = NoOp /\ ~Working(p)'
                      /\ \A s \in Systems : resets'[p][s] = 0
    BY DEF Unborn
  <2>1. cachedOp[p] = NoOp /\ ~Working(p) /\ \A s \in Systems : resets[p][s] = 0
    BY DEF IInv, Unborn
  <2>2. p # w.op
    BY <1>1, <2>1 DEF Working
  <2> QED
    BY <2>1, <2>2 DEF Working
<1>3. Once'
  <2> SUFFICES ASSUME NEW p \in Ops, p \notin disturbed', op[p].exists PROVE OnceAt(p)'
    BY DEF Once
  <2>1. CASE p # w.op
    <3>1. OnceAt(p) /\ ~Working(p) /\ ~Working(p)' /\ resets'[p] = resets[p]
      BY <2>1 DEF IInv, Once, Working
    <3> QED
      BY <3>1 DEF OnceAt
  <2> QED
    BY <2>1
<1>4. SuccessIsTrue'
  <2> SUFFICES ASSUME NEW p \in Ops, op[p].exists, op[p].status = "success",
                      NEW s \in Systems
               PROVE  resets'[p][s] > 0
    BY DEF SuccessIsTrue
  <2>1. resets[p][s] > 0
    BY DEF IInv, SuccessIsTrue
  <2> QED
    BY <2>1
<1>5. NotForgotten'
  BY <1>1 DEF IInv, NotForgotten
<1> QED
  BY <1>2, <1>3, <1>4, <1>5

\* The worker connects to the BMC.
LEMMA InvConnect ==
    ASSUME IInv, Connect
    PROVE  Unborn' /\ Progress' /\ Once' /\ SuccessIsTrue' /\ NotForgotten'
<1>1. w \in Worker /\ w.op \in Ops /\ w.pc = "connect"
  BY WorkerType DEF IInv, Connect, WorkerStep
<1>2. UNCHANGED <<op, cachedOp, queue, resets, passed>>
  BY DEF Connect, WorkerStep
<1>3. w.todo = Systems /\ w.result = "none"
  BY <1>1, BusyWorker DEF IInv, Progress
<1>4. /\ w' \in Worker /\ w'.op = w.op /\ w'.seen = w.seen /\ w'.todo = w.todo
      /\ \/ w'.pc = "power" /\ w'.result = "none" /\ disturbed' = disturbed
         \/ w'.pc = "update" /\ w'.result = "failed" /\ disturbed' = disturbed \cup {w.op}
  BY <1>1, <1>3 DEF Connect, Worker, Fault, NoFault
<1>5. Progress'
  BY <1>2, <1>3, <1>4 DEF Progress
<1>6. w.op \notin disturbed' /\ op[w.op].exists => OnceAt(w.op)'
  <2> SUFFICES ASSUME w.op \notin disturbed', op[w.op].exists PROVE OnceAt(w.op)'
    OBVIOUS
  <2>1. OnceAt(w.op) /\ InHand(w.op)
    BY <1>1, <1>4, BusyWorker DEF IInv, Once, OnceAt, Working
  <2>2. InHand(w.op)'
    BY <1>2, <1>4, <2>1 DEF InHand
  <2> QED
    BY <1>1, <1>2, <1>4, <2>1, <2>2, BusyWorker DEF OnceAt, Working
<1>7. disturbed \subseteq disturbed'
  BY <1>4
<1> QED
  BY <1>1, <1>2, <1>4, <1>5, <1>6, <1>7, InvWork

\* The worker operates one system.
LEMMA InvPower ==
    ASSUME IInv, NEW s \in Systems, Power(s)
    PROVE  Unborn' /\ Progress' /\ Once' /\ SuccessIsTrue' /\ NotForgotten'
<1>1. w \in Worker /\ w.op \in Ops /\ w.pc = "power" /\ s \in w.todo
  BY WorkerType DEF IInv, Power, WorkerStep
<1>2. UNCHANGED <<op, cachedOp, queue, passed>>
  BY DEF Power, WorkerStep
<1>3. /\ w.result = "none"
      /\ \A x \in Systems \ w.todo : resets[w.op][x] > 0
  BY <1>1, BusyWorker DEF IInv, Progress
<1>t. resets \in [Ops -> [Systems -> 0 .. Many]] /\ w.todo \subseteq Systems
  BY <1>1 DEF IInv, TypeOK, Worker
<1>4. CASE w' = PowerNext(s) /\ ResetSystem(s) /\ NoFault
  <2>1. /\ w' \in Worker /\ w'.op = w.op /\ w'.seen = w.seen
        /\ w'.todo = w.todo \ {s}
        /\ IF w.todo \ {s} = {} THEN w'.pc = "update" /\ w'.result = "success"
                                ELSE w'.pc = "power" /\ w'.result = "none"
    BY <1>1, <1>3, <1>4, PowerNextOK
  <2>2. disturbed' = disturbed
    BY <1>4 DEF NoFault
  <2>3. /\ \A o \in Ops : o # w.op => resets'[o] = resets[o]
        /\ \A x \in Systems : x # s => resets'[w.op][x] = resets[w.op][x]
        /\ resets'[w.op][s] = IF resets[w.op][s] = Many THEN Many
                                                       ELSE resets[w.op][s] + 1
    BY <1>1, <1>4, ResetOK DEF IInv
  <2>4. resets'[w.op][s] > 0
    BY <1>1, <1>t, <2>3 DEF Many
  <2>5. \A x \in Systems : resets[w.op][x] > 0 => resets'[w.op][x] > 0
    BY <2>3, <2>4
  <2>6. \A x \in Systems \ w'.todo : resets'[w.op][x] > 0
    BY <1>3, <2>1, <2>4, <2>5
  <2>7. Progress'
    <3>1. CASE w.todo \ {s} = {}
      BY <2>1, <2>6, <3>1 DEF Progress
    <3>2. CASE w.todo \ {s} # {}
      BY <2>1, <2>6, <3>2 DEF Progress
    <3> QED
      BY <3>1, <3>2
  <2>8. w.op \notin disturbed' /\ op[w.op].exists => OnceAt(w.op)'
    <3> SUFFICES ASSUME w.op \notin disturbed', op[w.op].exists PROVE OnceAt(w.op)'
      OBVIOUS
    <3>1. OnceAt(w.op) /\ InHand(w.op)
      BY <1>1, <2>2, BusyWorker DEF IInv, Once, OnceAt, Working
    <3>2. \A x \in w'.todo : resets'[w.op][x] = 0
      BY <1>t, <2>1, <2>3, <3>1 DEF InHand
    <3>3. InHand(w.op)'
      <4>1. w'.result # "failed"
        BY <2>1
      <4> QED
        BY <1>2, <2>1, <3>1, <3>2, <4>1 DEF InHand
    <3>4. resets[w.op][s] = 0
      BY <1>1, <3>1 DEF InHand
    <3>5. \A x \in Systems : resets'[w.op][x] <= 1
      <4>1. resets'[w.op][s] = 1
        BY <2>3, <3>4 DEF Many
      <4>2. \A x \in Systems : x # s => resets'[w.op][x] <= 1
        BY <2>3, <3>1 DEF OnceAt
      <4> QED
        BY <4>1, <4>2
    <3>6. Working(w.op)'
      BY <2>1, BusyWorker DEF Working
    <3> QED
      BY <1>2, <2>1, <3>1, <3>3, <3>5, <3>6 DEF OnceAt
  <2> QED
    BY <1>1, <1>2, <2>1, <2>2, <2>3, <2>5, <2>7, <2>8, InvWork
<1>5. CASE /\ w' = [w EXCEPT !.pc = "update", !.result = "failed"]
           /\ Fault(w.op)
           /\ ResetSystem(s) \/ UNCHANGED resets
  <2>1. w' \in Worker /\ w'.op = w.op /\ w'.pc = "update" /\ w'.result = "failed"
    BY <1>1, <1>5 DEF Worker
  <2>2. disturbed' = disturbed \cup {w.op}
    BY <1>5 DEF Fault
  <2>3. /\ \A o \in Ops : o # w.op => resets'[o] = resets[o]
        /\ \A x \in Systems : resets[w.op][x] > 0 => resets'[w.op][x] > 0
    <3>1. CASE resets' = resets
      BY <3>1
    <3>2. CASE ResetSystem(s)
      <4>1. /\ \A o \in Ops : o # w.op => resets'[o] = resets[o]
            /\ \A x \in Systems : x # s => resets'[w.op][x] = resets[w.op][x]
            /\ resets'[w.op][s] = IF resets[w.op][s] = Many THEN Many
                                                           ELSE resets[w.op][s] + 1
        BY <1>1, <3>2, ResetOK DEF IInv
      <4>2. resets'[w.op][s] > 0
        BY <1>1, <1>t, <4>1 DEF Many
      <4> QED
        BY <4>1, <4>2
    <3> QED
      BY <1>5, <3>1, <3>2
  <2>4. Progress'
    BY <2>1 DEF Progress
  <2>5. w.op \in disturbed' /\ disturbed \subseteq disturbed'
    BY <2>2
  <2> QED
    BY <1>1, <1>2, <2>1, <2>3, <2>4, <2>5, InvWork
<1> QED
  BY <1>4, <1>5 DEF Power

\* The worker writes the status.
LEMMA InvUpdate ==
    ASSUME IInv, UpdateStatus
    PROVE  Unborn' /\ Progress' /\ Once' /\ SuccessIsTrue' /\ NotForgotten'
<1> DEFINE accepted == op[w.op] = w.seen /\ w.result \in CRDEnum
<1>1. /\ w \in Worker /\ w.op \in Ops /\ w.seen \in Op
      /\ w.pc = "update" /\ w # IdleWorker
  BY WorkerType, BusyWorker DEF IInv, UpdateStatus, Worker
<1>2. w' = IdleWorker /\ UNCHANGED <<cachedOp, resets, passed>>
  BY DEF UpdateStatus
<1>3. /\ op' = op \/ (accepted /\ op' = [op EXCEPT ![w.op].status = w.result])
      /\ \/ accepted /\ queue' = queue /\ disturbed' = disturbed
            /\ op' = [op EXCEPT ![w.op].status = w.result]
         \/ ~accepted /\ queue' = queue \cup {w.op} /\ disturbed' = disturbed
            /\ op' = op
         \/ queue' = queue \cup {w.op} /\ disturbed' = disturbed \cup {w.op}
  BY DEF UpdateStatus, NoFault, Fault
<1>4. /\ w.result \in CRDEnum => w.result = "success"
      /\ w.result = "success" => w.result \in CRDEnum
  BY <1>1 DEF Worker, CRDEnum
<1>5. /\ \A p \in Ops : p # w.op => op'[p] = op[p]
      /\ op' = op \/ (/\ accepted /\ op[w.op] = w.seen
                      /\ op'[w.op] \in Op /\ op'[w.op].status = "success")
  <2>1. CASE op' = op
    BY <2>1
  <2>2. CASE accepted /\ op' = [op EXCEPT ![w.op].status = w.result]
    <3>1. op' = [op EXCEPT ![w.op] = [w.seen EXCEPT !.status = "success"]]
      BY <1>4, <2>2
    <3>2. /\ [w.seen EXCEPT !.status = "success"] \in Op
          /\ [w.seen EXCEPT !.status = "success"].status = "success"
      BY <1>1 DEF Op, Status
    <3>3. op \in [Ops -> Op \cup {NoOp, DeletedOp}]
      BY DEF IInv, TypeOK
    <3> QED
      BY <1>1, <2>2, <3>1, <3>2, <3>3
  <2> QED
    BY <1>3, <2>1, <2>2
<1>6. Unborn'
  <2> SUFFICES ASSUME NEW p \in Ops, op'[p] = NoOp
               PROVE  cachedOp[p] = NoOp /\ \A s \in Systems : resets[p][s] = 0
    BY <1>2 DEF Unborn, Working
  <2>1. op[p] = NoOp
    BY <1>5, Names
  <2> QED
    BY <2>1 DEF IInv, Unborn
<1>7. Progress'
  BY <1>2 DEF Progress
<1>8. SuccessIsTrue'
  <2> SUFFICES ASSUME NEW p \in Ops, op'[p].exists, op'[p].status = "success"
               PROVE  \A s \in Systems : resets[p][s] > 0
    BY <1>2 DEF SuccessIsTrue
  <2>1. CASE op'[p] = op[p]
    BY <2>1 DEF IInv, SuccessIsTrue
  <2>2. CASE p = w.op /\ accepted
    BY <1>1, <1>4, <2>2 DEF IInv, Progress
  <2> QED
    BY <1>5, <2>1, <2>2
<1>9. NotForgotten'
  <2> SUFFICES ASSUME NEW p \in Ops, op'[p].exists, op'[p].status = "",
                      op'[p].host \notin Foreign
               PROVE  p \in queue' \/ cachedOp[p] # op'[p] \/ p \in passed
    BY <1>2 DEF NotForgotten
  <2>1. CASE p = w.op
    <3>1. ASSUME op' = [op EXCEPT ![w.op].status = w.result], accepted
          PROVE  FALSE
      BY <1>1, <1>4, <2>1, <3>1 DEF IInv, TypeOK, Op
    <3> QED
      BY <1>3, <1>5, <2>1, <3>1
  <2>2. CASE p # w.op
    <3>1. op'[p] = op[p] /\ (p \in queue => p \in queue')
      BY <1>3, <1>5, <2>2
    <3> QED
      BY <2>2, <3>1 DEF IInv, NotForgotten
  <2> QED
    BY <2>1, <2>2
<1>10. Once'
  <2> SUFFICES ASSUME NEW p \in Ops, p \notin disturbed', op'[p].exists PROVE OnceAt(p)'
    BY DEF Once
  <2>1. ~Working(p)' /\ p \notin disturbed
    BY <1>2, <1>3 DEF Working
  <2>2. CASE p = w.op
    <3>1. op[p].exists
      BY <1>1, <1>5, <2>2, Names
    <3>2. OnceAt(p) /\ InHand(p)
      BY <1>1, <2>1, <2>2, <3>1 DEF IInv, Once, OnceAt, Working
    <3>3. w.result = "success"
      BY <1>1, <3>2 DEF IInv, Progress, InHand, Worker
    <3>4. accepted
      BY <1>4, <2>2, <3>2, <3>3 DEF InHand
    <3>5. queue' = queue /\ op' = [op EXCEPT ![w.op].status = w.result]
      BY <1>3, <2>2, <3>4
    <3>6. op'[p].status = "success"
      BY <1>1, <2>2, <3>2, <3>3, <3>5 DEF InHand, IInv, TypeOK, Op
    <3>7. p \notin queue'
      BY <3>2, <3>5 DEF InHand
    <3> QED
      BY <1>2, <2>1, <3>2, <3>6, <3>7 DEF OnceAt
  <2>3. CASE p # w.op
    <3>1. op'[p] = op[p] /\ (p \in queue' <=> p \in queue)
      BY <1>3, <1>5, <2>3
    <3>2. OnceAt(p) /\ ~Working(p)
      BY <2>1, <2>3, <3>1 DEF IInv, Once, Working
    <3> QED
      BY <1>2, <2>1, <3>1, <3>2 DEF OnceAt
  <2> QED
    BY <2>2, <2>3
<1> QED
  BY <1>6, <1>7, <1>8, <1>9, <1>10

\* Every step keeps the invariant.
LEMMA InvStep == IInv /\ [Next]_vars => IInv'
<1> SUFFICES ASSUME IInv, [Next]_vars PROVE IInv'
  OBVIOUS
<1> DEFINE Rest == Unborn /\ Progress /\ Once /\ SuccessIsTrue /\ NotForgotten
<1>1. TypeOK'
  BY TypeStep DEF IInv
<1>2. ASSUME NEW o \in Ops, NEW x \in Hosts, CreateOp(o, x) PROVE Rest'
  BY <1>2, InvUser
<1>3. ASSUME NEW o \in Ops, DeleteOp(o) PROVE Rest'
  BY <1>3, InvUser
<1>4. ASSUME NEW o \in Ops, InformerSync(o) PROVE Rest'
  BY <1>4, InvSync
<1>5. ASSUME NEW o \in Ops, StartReconcile(o) PROVE Rest'
  BY <1>5, InvReconcile
<1>6. ASSUME NEW x \in Hosts, HostChange(x) \/ HostSync(x) \/ ConnSync(x) PROVE Rest'
  BY <1>6, InvHosts DEF HostChange, HostSync, ConnSync, NoFault
<1>7. ASSUME NEW o \in Ops, Resync(o) PROVE Rest'
  BY <1>7, InvResync
<1>8. ASSUME Restart PROVE Rest'
  BY <1>8, InvRestart
<1>9. ASSUME Connect PROVE Rest'
  BY <1>9, InvConnect
<1>10. ASSUME NEW s \in Systems, Power(s) PROVE Rest'
  BY <1>10, InvPower
<1>11. ASSUME UpdateStatus PROVE Rest'
  BY <1>11, InvUpdate
<1>12. ASSUME UNCHANGED vars PROVE Rest'
  BY <1>12, InvHosts DEF vars
<1>13. Rest'
  BY <1>2, <1>3, <1>4, <1>5, <1>6, <1>7, <1>8, <1>9, <1>10, <1>11, <1>12
     DEF Next, Reconciling
<1> QED
  BY <1>1, <1>13 DEF IInv

\* The inductive invariant: what the queue, the cache and the worker of Reconcile
\* know of every operation agrees with what has been done for it.
THEOREM OperationInvariant == Spec => []IInv
BY InvInit, InvStep, PTL DEF Spec

\* A status "success" always means that every system was operated.
THEOREM SuccessIsAlwaysTrue == Spec => []SuccessIsTrue
<1>1. IInv => SuccessIsTrue
  BY DEF IInv
<1> QED
  BY <1>1, OperationInvariant, PTL

\* No operation of this agent without a final status is ever out of sight, except
\* one that Reconcile dropped because its HostStatus was shown without a status
\* and that has not been queued since.
THEOREM NeverForgotten == Spec => []NotForgotten
<1>1. IInv => NotForgotten
  BY DEF IInv
<1> QED
  BY <1>1, OperationInvariant, PTL

\* A machine is operated twice for one operation only after a fault, a resync
\* while it was in hand or its written status had not reached the cache, or once
\* the object is gone.
THEOREM RepeatAlwaysHasCause == Spec => []RepeatHasCause
<1>1. IInv => RepeatHasCause
  <2> SUFFICES ASSUME IInv, NEW o \in Ops, NEW s \in Systems, resets[o][s] = Many,
                      o \notin disturbed, op[o].exists
               PROVE  FALSE
    BY DEF RepeatHasCause
  <2>1. resets[o][s] <= 1
    BY DEF IInv, Once, OnceAt
  <2> QED
    BY <2>1 DEF Many
<1> QED
  BY <1>1, OperationInvariant, PTL

-----------------------------------------------------------------------------
(* The refinement of OperationSpec.                                        *)

\* The cache and the worker know the host that was asked for, and the worker
\* never takes up an operation on a host of another agent.
SameHost ==
    /\ \A o \in Ops : cachedOp[o].exists /\ op[o].exists =>
         cachedOp[o].host = op[o].host
    /\ w # IdleWorker =>
         /\ w.seen.host \notin Foreign
         /\ op[w.op].exists => op[w.op].host = w.seen.host

\* How an operation that exists may change: it is new and unknown, it is
\* deleted, or it keeps its host; a host can only be lost.
LEMMA HostStays ==
    ASSUME IInv, [Next]_vars, NEW o \in Ops, op'[o].exists
    PROVE  \/ op[o] = NoOp
           \/ op[o].exists /\ op'[o].host = op[o].host
<1>1. op \in [Ops -> Op \cup {NoOp, DeletedOp}]
  BY DEF IInv, TypeOK
<1>2. ASSUME NEW p \in Ops, NEW x \in Hosts, CreateOp(p, x)
      PROVE  op[o] = NoOp \/ op'[o] = op[o]
  BY <1>1, <1>2 DEF CreateOp
<1>3. ASSUME NEW p \in Ops, DeleteOp(p) PROVE op'[o] = op[o]
  BY <1>1, <1>3, Names DEF DeleteOp
<1>4. CASE UpdateStatus
  <2>1. w \in Worker /\ w.op \in Ops
    BY <1>4, WorkerType DEF UpdateStatus, IInv
  <2>2. CASE op' = op
    BY <2>2
  <2>3. CASE /\ op[w.op] = w.seen /\ w.seen \in Op
             /\ op' = [op EXCEPT ![w.op] = [w.seen EXCEPT !.status = "success"]]
    <3>1. [w.seen EXCEPT !.status = "success"].host = w.seen.host
      BY <2>3 DEF Op
    <3> QED
      BY <1>1, <2>1, <2>3, <3>1, Names
  <2> QED
    BY <1>4, <2>1, <2>2, <2>3, UpdateOK DEF IInv
<1>5. CASE op' = op
  BY <1>5
<1> QED
  BY <1>2, <1>3, <1>4, <1>5
     DEF Next, Reconciling, InformerSync, Resync, StartReconcile, HostChange,
         HostSync, ConnSync, Restart, Connect, Power, WorkerStep, vars

\* A step of the worker: it stays with what it read, is done, or takes up an
\* operation the cache shows, on a host that is not foreign.
LEMMA WorkerMoves ==
    ASSUME IInv, [Next]_vars
    PROVE  \/ w' = w
           \/ w' = IdleWorker
           \/ w # IdleWorker /\ w'.op = w.op /\ w'.seen = w.seen
           \/ \E o \in Ops : /\ w'.op = o /\ w'.seen = cachedOp[o]
                             /\ cachedOp[o].exists
                             /\ cachedOp[o].host \notin Foreign
<1>1. ASSUME NEW o \in Ops, StartReconcile(o)
      PROVE  \/ w' = w
             \/ /\ w'.op = o /\ w'.seen = cachedOp[o] /\ cachedOp[o].exists
                /\ cachedOp[o].host \notin Foreign
  BY <1>1 DEF StartReconcile
<1>2. CASE Connect
  <2>1. w \in Worker /\ w # IdleWorker
    BY <1>2, WorkerType, BusyWorker DEF Connect, WorkerStep, IInv
  <2> QED
    BY <1>2, <2>1 DEF Connect, Worker
<1>3. ASSUME NEW s \in Systems, Power(s) PROVE w'.op = w.op /\ w'.seen = w.seen /\ w # IdleWorker
  <2>1. w \in Worker /\ w # IdleWorker /\ w.pc = "power" /\ s \in w.todo
    BY <1>3, WorkerType, BusyWorker DEF Power, WorkerStep, IInv
  <2> QED
    BY <1>3, <2>1, PowerNextOK DEF Power, Worker
<1>4. CASE UpdateStatus \/ Restart
  BY <1>4 DEF UpdateStatus, Restart
<1>5. CASE w' = w
  BY <1>5
<1> QED
  BY <1>1, <1>2, <1>3, <1>4, <1>5
     DEF Next, Reconciling, CreateOp, DeleteOp, InformerSync, Resync, HostChange,
         HostSync, ConnSync, vars

LEMMA SameHostStep == IInv /\ SameHost /\ [Next]_vars => SameHost'
<1> SUFFICES ASSUME IInv, SameHost, [Next]_vars PROVE SameHost'
  OBVIOUS
<1> DEFINE Cached == \A p \in Ops : cachedOp'[p] = cachedOp[p] \/ cachedOp'[p] = op'[p]
           Kept == /\ w'.seen.host \notin Foreign
                   /\ op'[w'.op].exists => op'[w'.op].host = w'.seen.host
<1>1. Cached
  <2>1. cachedOp \in [Ops -> Op \cup {NoOp, DeletedOp}]
    BY DEF IInv, TypeOK
  <2>2. ASSUME NEW o \in Ops, InformerSync(o) PROVE Cached
    BY <2>1, <2>2 DEF InformerSync
  <2>3. CASE Restart
    BY <2>3 DEF Restart
  <2>4. CASE cachedOp' = cachedOp
    BY <2>4
  <2> QED
    BY <2>2, <2>3, <2>4
       DEF Next, Reconciling, CreateOp, DeleteOp, Resync, StartReconcile, HostChange,
           HostSync, ConnSync, Connect, Power, UpdateStatus, WorkerStep, vars
<1>2. ASSUME NEW o \in Ops, cachedOp'[o].exists, op'[o].exists
      PROVE  cachedOp'[o].host = op'[o].host
  <2>1. CASE cachedOp'[o] = op'[o]
    BY <2>1
  <2>2. CASE cachedOp'[o] = cachedOp[o]
    <3>1. op[o] # NoOp
      BY <1>2, <2>2, Names DEF IInv, Unborn
    <3> QED
      BY <1>2, <2>2, <3>1, HostStays DEF SameHost
  <2> QED
    BY <1>1, <2>1, <2>2
<1>3. ASSUME w' # IdleWorker
      PROVE  Kept
  <2>1. CASE w # IdleWorker /\ w'.op = w.op /\ w'.seen = w.seen
    <3>1. w.op \in Ops /\ op[w.op] # NoOp
      BY <2>1 DEF IInv, TypeOK, Worker, Unborn, Working
    <3> QED
      BY <2>1, <3>1, HostStays DEF SameHost
  <2>2. ASSUME NEW o \in Ops, w'.op = o, w'.seen = cachedOp[o],
               cachedOp[o].exists, cachedOp[o].host \notin Foreign
        PROVE  Kept
    <3>1. op[o] # NoOp
      BY <2>2, Names DEF IInv, Unborn
    <3> QED
      BY <2>2, <3>1, HostStays DEF SameHost
  <2> QED
    BY <1>3, <2>1, <2>2, WorkerMoves
<1> QED
  BY <1>2, <1>3 DEF SameHost

LEMMA SameHostAlways == Spec => [](IInv /\ SameHost)
<1>1. Init => SameHost
  BY DEF Init, SameHost, NoOp
<1> QED
  BY <1>1, InvInit, InvStep, SameHostStep, PTL DEF Spec

\* What an object shows is a matter of the object alone, what has been operated
\* one of the resets alone.
LEMMA SeenOf ==
    /\ \A o \in Ops : op'[o] = op[o] => Seen(o)' = Seen(o)
    /\ \A o \in Ops : resets'[o] = resets[o] => Operated(o)' = Operated(o)
BY DEF Seen, Operated

\* A step that concerns operation o alone changes the mapped functions at o.
LEMMA MapSeen ==
    ASSUME NEW o \in Ops, NEW r, Seen(o)' = r,
           \A p \in Ops : p # o => Seen(p)' = Seen(p)
    PROVE  [p \in Ops |-> Seen(p)]' = [[p \in Ops |-> Seen(p)] EXCEPT ![o] = r]
OBVIOUS

LEMMA MapOperated ==
    ASSUME NEW o \in Ops, NEW S, Operated(o)' = S,
           \A p \in Ops : p # o => Operated(p)' = Operated(p)
    PROVE  [p \in Ops |-> Operated(p)]' = [[p \in Ops |-> Operated(p)] EXCEPT ![o] = S]
OBVIOUS

\* The mapped variables stay when objects and resets do.
LEMMA MapSame ==
    /\ op' = op => [p \in Ops |-> Seen(p)]' = [p \in Ops |-> Seen(p)]
    /\ resets' = resets => [p \in Ops |-> Operated(p)]' = [p \in Ops |-> Operated(p)]
BY DEF Seen, Operated

\* Each stage, told by the object.
LEMMA Stages ==
    ASSUME NEW o \in Ops
    PROVE  /\ op[o] = NoOp => Seen(o) = O!Free
           /\ op[o] = DeletedOp => Seen(o) = O!Withdrawn
           /\ op[o].exists /\ op[o].status # "success" =>
                Seen(o) = O!Request(op[o].host, "open")
           /\ op[o].exists /\ op[o].status = "success" =>
                Seen(o) = O!Request(op[o].host, "done")
           /\ op[o].exists => Seen(o) \notin {O!Free, O!Withdrawn}
<1>1. /\ op[o] = NoOp => Seen(o) = O!Free
      /\ op[o] = DeletedOp => Seen(o) = O!Withdrawn
  BY Names DEF Seen, O!Free, O!Withdrawn
<1>2. /\ op[o].exists /\ op[o].status # "success" =>
                Seen(o) = O!Request(op[o].host, "open")
      /\ op[o].exists /\ op[o].status = "success" =>
                Seen(o) = O!Request(op[o].host, "done")
  BY DEF Seen, O!Request
<1>3. ASSUME op[o].exists PROVE Seen(o) \notin {O!Free, O!Withdrawn}
  <2>1. Seen(o).stage \in {"open", "done"}
    BY <1>3 DEF Seen
  <2>2. O!Free.stage = "free" /\ O!Withdrawn.stage = "withdrawn"
    BY DEF O!Free, O!Withdrawn
  <2> QED
    BY <2>1, <2>2
<1> QED
  BY <1>1, <1>2, <1>3

\* CreateOp is Ask.
LEMMA AskStep ==
    ASSUME IInv, NEW o \in Ops, NEW x \in Hosts, CreateOp(o, x)
    PROVE  O!Ask(o, x)
<1> DEFINE new == [exists |-> TRUE, host |-> x, status |-> ""]
<1>1. op[o] = NoOp /\ op'[o] = new /\ \A p \in Ops : p # o => op'[p] = op[p]
  BY DEF CreateOp, IInv, TypeOK
<1>2. new.exists /\ new.host = x /\ new.status = ""
  OBVIOUS
<1>3. Operated(o) = {}
  <2>1. \A s \in Systems : resets[o][s] = 0
    BY <1>1 DEF IInv, Unborn
  <2> QED
    BY <2>1 DEF Operated
<1>4. Seen(o)' = O!Request(x, "open")
  <2>1. op'[o].exists /\ op'[o].host = x /\ op'[o].status # "success"
    BY <1>1, <1>2
  <2> QED
    BY <2>1 DEF Seen, O!Request
<1>5. [p \in Ops |-> Seen(p)]' = [[p \in Ops |-> Seen(p)] EXCEPT ![o] = O!Request(x, "open")]
  BY <1>1, <1>4, SeenOf, MapSeen
<1>6. resets' = resets
  BY DEF CreateOp
<1> QED
  BY <1>1, <1>3, <1>5, <1>6, Stages, MapSame DEF O!Ask

\* DeleteOp is Withdraw.
LEMMA WithdrawStep ==
    ASSUME IInv, NEW o \in Ops, DeleteOp(o)
    PROVE  O!Withdraw(o)
<1>1. op[o].exists /\ op'[o] = DeletedOp /\ \A p \in Ops : p # o => op'[p] = op[p]
  BY DEF DeleteOp, IInv, TypeOK
<1>2. Seen(o)' = O!Withdrawn
  BY <1>1, Names DEF Seen, O!Withdrawn
<1>3. [p \in Ops |-> Seen(p)]' = [[p \in Ops |-> Seen(p)] EXCEPT ![o] = O!Withdrawn]
  BY <1>1, <1>2, SeenOf, MapSeen
<1>4. resets' = resets
  BY DEF DeleteOp
<1> QED
  BY <1>1, <1>3, <1>4, Stages, MapSame DEF O!Withdraw

\* A call of the BMC is Operate, unless it had no effect or the operation is
\* complete already and repeated.
LEMMA OperateStep ==
    ASSUME IInv, SameHost, NEW s \in Systems, Power(s)
    PROVE  \/ \E o \in Ops : O!Operate(o, s)
           \/ UNCHANGED <<[p \in Ops |-> Seen(p)], [p \in Ops |-> Operated(p)]>>
<1>1. w \in Worker /\ w # IdleWorker
  BY WorkerType, BusyWorker DEF Power, WorkerStep, IInv
<1>2. PICK o \in Ops : o = w.op
  BY <1>1 DEF Worker
<1>3. op' = op /\ (ResetSystem(s) \/ resets' = resets)
  BY DEF Power, WorkerStep
<1>4. [p \in Ops |-> Seen(p)]' = [p \in Ops |-> Seen(p)]
  BY <1>3, MapSame
<1>5. CASE resets' = resets
  BY <1>4, <1>5, MapSame
<1>6. CASE ResetSystem(s)
  <2>1. /\ \A p \in Ops : p # o => resets'[p] = resets[p]
        /\ \A x \in Systems : x # s => resets'[o][x] = resets[o][x]
        /\ resets'[o][s] = IF resets[o][s] = Many THEN Many ELSE resets[o][s] + 1
    BY <1>1, <1>2, <1>6, ResetOK DEF IInv
  <2>2. resets'[o][s] > 0
    <3>1. resets[o][s] \in 0 .. Many
      BY <1>2 DEF IInv, TypeOK
    <3> QED
      BY <2>1, <3>1 DEF Many
  <2>3. Operated(o)' = Operated(o) \cup {s}
    BY <2>1, <2>2 DEF Operated
  <2>4. \A p \in Ops : p # o => Operated(p)' = Operated(p)
    BY <2>1, SeenOf
  <2>5. [p \in Ops |-> Operated(p)]' =
          [[p \in Ops |-> Operated(p)] EXCEPT ![o] = Operated(o) \cup {s}]
    BY <1>2, <2>3, <2>4, MapOperated
  <2>6. op[o] \in Op \cup {DeletedOp}
    BY <1>1, <1>2 DEF IInv, TypeOK, Unborn, Working
  <2>7. CASE op[o] = DeletedOp
    BY <1>2, <1>4, <2>5, <2>7, Stages DEF O!Operate
  <2>8. CASE op[o] \in Op /\ op[o].status # "success"
    <3>1. op[o].exists /\ op[o].host \in Hosts
      BY <2>8 DEF Op
    <3>2. op[o].host \notin Foreign
      BY <1>1, <1>2, <3>1 DEF SameHost
    <3>3. Seen(o) = O!Request(op[o].host, "open")
      BY <1>2, <2>8, <3>1, Stages
    <3> QED
      BY <1>2, <1>4, <2>5, <3>1, <3>2, <3>3 DEF O!Operate
  <2>9. CASE op[o] \in Op /\ op[o].status = "success"
    <3>1. s \in Operated(o)
      BY <1>2, <2>9, Names DEF IInv, SuccessIsTrue, Operated
    <3>2. [p \in Ops |-> Operated(p)]' = [p \in Ops |-> Operated(p)]
      BY <2>3, <2>4, <3>1
    <3> QED
      BY <1>4, <3>2
  <2> QED
    BY <2>6, <2>7, <2>8, <2>9
<1> QED
  BY <1>3, <1>5, <1>6

\* An accepted status update is Complete, a repeated or refused one changes
\* nothing.
LEMMA CompleteStep ==
    ASSUME IInv, SameHost, UpdateStatus
    PROVE  \/ \E o \in Ops, x \in Hosts \ Foreign : O!Complete(o, x)
           \/ UNCHANGED <<[p \in Ops |-> Seen(p)], [p \in Ops |-> Operated(p)]>>
<1>1. w \in Worker /\ w # IdleWorker
  BY WorkerType, BusyWorker DEF UpdateStatus, IInv
<1>2. PICK o \in Ops : o = w.op
  BY <1>1 DEF Worker
<1>3. resets' = resets
  BY DEF UpdateStatus
<1>4. [p \in Ops |-> Operated(p)]' = [p \in Ops |-> Operated(p)]
  BY <1>3, MapSame
<1>5. CASE op' = op
  BY <1>3, <1>5, MapSame
<1>6. CASE /\ op[o] = w.seen /\ w.seen \in Op /\ w.result = "success"
           /\ op' = [op EXCEPT ![o] = [w.seen EXCEPT !.status = "success"]]
  <2>1. PICK x \in Hosts : x = op[o].host
    BY <1>6 DEF Op
  <2>2. op[o].exists /\ x \notin Foreign
    BY <1>1, <1>2, <1>6, <2>1, Names DEF SameHost
  <2>3. Operated(o) = Systems
    BY <1>1, <1>2, <1>6 DEF Operated, IInv, Progress
  <2>4. /\ op'[o].exists /\ op'[o].host = x /\ op'[o].status = "success"
        /\ \A p \in Ops : p # o => op'[p] = op[p]
    <3>1. op \in [Ops -> Op \cup {NoOp, DeletedOp}]
      BY DEF IInv, TypeOK
    <3>2. /\ [w.seen EXCEPT !.status = "success"] \in Op
          /\ [w.seen EXCEPT !.status = "success"].status = "success"
          /\ [w.seen EXCEPT !.status = "success"].host = x
      BY <1>6, <2>1 DEF Op, Status
    <3> QED
      BY <1>2, <1>6, <3>1, <3>2, Names
  <2>5. Seen(o)' = O!Request(x, "done")
    BY <2>4 DEF Seen, O!Request
  <2>6. CASE op[o].status # "success"
    <3>1. [p \in Ops |-> Seen(p)]' =
            [[p \in Ops |-> Seen(p)] EXCEPT ![o] = O!Request(x, "done")]
      BY <2>4, <2>5, SeenOf, MapSeen
    <3>2. Seen(o) = O!Request(x, "open")
      BY <2>1, <2>2, <2>6, Stages
    <3> QED
      BY <1>2, <1>4, <2>1, <2>2, <2>3, <3>1, <3>2 DEF O!Complete
  <2>7. CASE op[o].status = "success"
    <3>1. Seen(o)' = Seen(o)
      BY <2>1, <2>2, <2>5, <2>7, Stages
    <3>2. \A p \in Ops : Seen(p)' = Seen(p)
      BY <2>4, <3>1, SeenOf
    <3> QED
      BY <1>4, <3>2
  <2> QED
    BY <2>6, <2>7
<1> QED
  BY <1>1, <1>2, <1>5, <1>6, UpdateOK DEF IInv

\* The controller, with its caches, retries and restarts, implements
\* OperationSpec: every step is one of its steps or leaves its variables alone.
THEOREM OperationsRefine == Spec => ImplementsOperations
<1> DEFINE Same == UNCHANGED <<[o \in Ops |-> Seen(o)], [o \in Ops |-> Operated(o)]>>
           Map == O!Next \/ Same
<1>1. Init => O!Init
  <2> SUFFICES ASSUME Init PROVE O!Init
    OBVIOUS
  <2>1. \A o \in Ops : op[o] = NoOp /\ Operated(o) = {}
    BY DEF Init, Operated
  <2>2. \A o \in Ops : Seen(o) = O!Free
    BY <2>1, Stages
  <2> QED
    BY <2>1, <2>2 DEF O!Init
<1>2. ASSUME IInv, SameHost, [Next]_vars PROVE Map
  <2>1. ASSUME NEW o \in Ops, NEW x \in Hosts, CreateOp(o, x) PROVE Map
    BY <1>2, <2>1, AskStep DEF O!Next
  <2>2. ASSUME NEW o \in Ops, DeleteOp(o) PROVE Map
    BY <1>2, <2>2, WithdrawStep DEF O!Next
  <2>3. ASSUME NEW s \in Systems, Power(s) PROVE Map
    BY <1>2, <2>3, OperateStep DEF O!Next
  <2>4. CASE UpdateStatus
    BY <1>2, <2>4, CompleteStep DEF O!Next
  <2>5. CASE UNCHANGED <<op, resets>>
    BY <2>5, MapSame
  <2>6. CASE Restart \/ Connect \/ UNCHANGED vars
    BY <2>5, <2>6 DEF Restart, Connect, WorkerStep, vars
  <2>7. ASSUME NEW o \in Ops, InformerSync(o) \/ Resync(o) \/ StartReconcile(o)
        PROVE  Map
    BY <2>5, <2>7 DEF InformerSync, Resync, StartReconcile
  <2>8. ASSUME NEW x \in Hosts, HostChange(x) \/ HostSync(x) \/ ConnSync(x) PROVE Map
    BY <2>5, <2>8 DEF HostSync, ConnSync, HostChange
  <2> QED
    BY <1>2, <2>1, <2>2, <2>3, <2>4, <2>6, <2>7, <2>8 DEF Next, Reconciling
<1> QED
  BY <1>1, <1>2, SameHostAlways, PTL DEF Spec, ImplementsOperations, O!Spec
=============================================================================

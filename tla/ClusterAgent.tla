---------------------------- MODULE ClusterAgent ----------------------------
(***************************************************************************)
(* The ClusterAgent controller (pkg/controller/clusteragent/controller.go) *)
(* with its templates (pkg/controller/template), the object it reconciles, *)
(* the resources it makes for it and the agent they run.                   *)
(*                                                                         *)
(*   user --webhook--> ClusterAgent --watch--> Reconcile                   *)
(*       --> Deployment, ServiceAccount, ClusterRole(Binding), PVC         *)
(*       --> agent pod (LoadAgentConfig) --> status.ready                  *)
(*                                                                         *)
(* One ClusterAgent name; it may be deleted and created again, which gives *)
(* it a new uid.  Reconcile reads the object and the resources from the    *)
(* informer caches (view, shown), keeps the last spec it handled in        *)
(* r.cache, and every write it makes is a step of its own.                 *)
(***************************************************************************)
EXTENDS AgentSpec, Sequences, FiniteSets

CONSTANTS
    None,          \* no object, no spec
    Manifests,     \* what users write
    HelmSpecs,     \* what the chart's pre-install hook has created, if anything
    HandlePVC,     \* ShouldHandlePVC: the chart ships agent-pvc.yaml
    AgentImage,    \* the AGENT_IMAGE variable is set
    Access,        \* bound: which of the ServiceAccount, ClusterRole and
                   \* ClusterRoleBinding, in this order; they are handled alike
    MaxWrites,     \* bound: creations, updates and deletions by users
    MaxTroubles    \* bound: failed calls, template errors, deletions behind the
                   \* controller's back, agent crashes, controller restarts

ASSUME ClusterAgentAssumption ==
    /\ Manifests \subseteq Manifest
    /\ HelmSpecs \subseteq AgentSpecs /\ \A s \in HelmSpecs : SpecLoads(s)
    /\ None \notin AgentSpecs
    /\ HandlePVC \in BOOLEAN /\ AgentImage \in BOOLEAN
    /\ Access \in Seq({"serviceaccount", "clusterrole", "clusterrolebinding"})
    /\ MaxWrites \in Nat /\ MaxTroubles \in Nat

\* The resources in the order in which cleanupResources deletes them.
AgentResources ==
    <<"deployment">> \o Access
      \o IF HandlePVC THEN <<"persistentvolumeclaim">> ELSE <<>>
Kinds == {AgentResources[i] : i \in DOMAIN AgentResources}

VARIABLES
    obj,      \* the ClusterAgent in the API server
    created,  \* the number of ClusterAgents created so far: the last uid
    view,     \* the ClusterAgent in the informer cache
    res,      \* per kind: the uid of the owner of the resource, 0 if there is none
    shown,    \* per kind: the resource in the informer cache
    deployed, \* the spec the Deployment was rendered from
    agent,    \* the spec the running agent has loaded, None while it is down
    cache,    \* r.cache: the spec of the last ClusterAgent handled
    queued,   \* the work queue holds a request
    timer,    \* RequeueAfter is running
    pc,       \* where Reconcile is
    cur,      \* clusterAgent, Reconcile's copy of the object
    todo,     \* resources not handled yet
    budget,   \* what is left of the bounds
    forgot,   \* history: r.cache has lost a ClusterAgent whose resources remain
    edited    \* history: the spec changed after the controller had seen an earlier one

vars == <<obj, created, view, res, shown, deployed, agent, cache, queued, timer, pc,
          cur, todo, budget, forgot, edited>>

\* rev is the resourceVersion.
Object == [uid : Nat \ {0}, spec : AgentSpecs, ready : BOOLEAN, rev : Nat]

\* The object after an accepted write.
Saved(o, spec, ready) ==
    [uid |-> o.uid, spec |-> spec, ready |-> ready, rev |-> o.rev + 1]

TypeOK ==
    /\ obj \in Object \cup {None} /\ view \in Object \cup {None}
    /\ cur \in Object \cup {None}
    /\ created \in Nat
    /\ res \in [Kinds -> Nat]
    /\ shown \in [Kinds -> [owner : Nat, ready : BOOLEAN]]
    /\ deployed \in AgentSpecs \cup {None} /\ agent \in AgentSpecs \cup {None}
    /\ cache \in AgentSpecs \cup {None}
    /\ queued \in BOOLEAN /\ timer \in BOOLEAN
    /\ forgot \in BOOLEAN /\ edited \in BOOLEAN
    /\ pc \in {"idle", "render", "apply", "status", "cleanup"}
    /\ todo \subseteq Kinds
    /\ budget \in [{"write", "trouble"} -> Nat]

\* The chart creates its ClusterAgent before the webhooks exist.
Init ==
    /\ obj \in {[uid |-> 1, spec |-> s, ready |-> FALSE, rev |-> 0] : s \in HelmSpecs}
                 \cup {None}
    /\ created = IF obj = None THEN 0 ELSE 1
    /\ view = None /\ cur = None
    /\ res = [k \in Kinds |-> 0]
    /\ shown = [k \in Kinds |-> [owner |-> 0, ready |-> FALSE]]
    /\ deployed = None /\ agent = None /\ cache = None
    /\ queued = FALSE /\ timer = FALSE
    /\ forgot = FALSE /\ edited = FALSE
    /\ pc = "idle"
    /\ todo = {}
    /\ budget = [write |-> MaxWrites, trouble |-> MaxTroubles]

Spend(b) == budget[b] > 0 /\ budget' = [budget EXCEPT ![b] = @ - 1]

-----------------------------------------------------------------------------
(* Users.  A manifest that is not admitted changes nothing.                *)

UserStep ==
    /\ Spend("write")
    /\ UNCHANGED <<view, res, shown, deployed, agent, cache, queued, timer, pc, cur, todo,
                   forgot>>

\* The controller knows, uses or has used an earlier spec.
ActedOn == view # None \/ deployed # None \/ pc \in {"render", "apply"}

Create(m) ==
    /\ obj = None
    /\ Admitted(m)
    /\ created' = created + 1
    /\ obj' = [uid |-> created + 1, spec |-> Admit(m), ready |-> FALSE, rev |-> 0]
    /\ edited' = ActedOn
    /\ UserStep

Update(m) ==
    /\ obj # None
    /\ Admitted(m)
    /\ Admit(m) # obj.spec
    /\ obj' = Saved(obj, Admit(m), obj.ready)
    /\ edited' = (edited \/ ActedOn)
    /\ UNCHANGED created
    /\ UserStep

Delete ==
    /\ obj # None
    /\ obj' = None
    /\ UNCHANGED <<created, edited>>
    /\ UserStep

-----------------------------------------------------------------------------
(* The cluster: the watch, the owner-reference garbage collector, somebody *)
(* who deletes a resource, and the agent pod.                              *)

\* The watch of ClusterAgents.
Deliver ==
    /\ view # obj
    /\ view' = obj
    /\ queued' = TRUE
    /\ UNCHANGED <<obj, created, res, shown, deployed, agent, cache, timer, pc, cur,
                   todo, budget, forgot, edited>>

\* Every replica of the Deployment is ready, updated and available while the
\* agent runs.
Actual(k) ==
    [owner |-> res[k], ready |-> IF k = "deployment" THEN agent # None ELSE FALSE]

\* The watch of a kind of resources; that of Deployments, which the controller
\* owns, queues a request for the owner's name.
Observe(k) ==
    /\ shown[k] # Actual(k)
    /\ shown' = [shown EXCEPT ![k] = Actual(k)]
    /\ queued' = IF k = "deployment" THEN TRUE ELSE queued
    /\ UNCHANGED <<obj, created, view, res, deployed, agent, cache, timer, pc, cur,
                   todo, budget, forgot, edited>>

\* The resource goes; with a Deployment go its pods.
Gone(k) ==
    /\ res' = [res EXCEPT ![k] = 0]
    /\ deployed' = IF k = "deployment" THEN None ELSE deployed
    /\ agent' = IF k = "deployment" THEN None ELSE agent

\* The owner of the resource does not exist.
Orphan(k) == IF obj = None THEN TRUE ELSE obj.uid # res[k]

GarbageCollect(k) ==
    /\ res[k] # 0
    /\ Orphan(k)
    /\ Gone(k)
    /\ UNCHANGED <<obj, created, view, shown, cache, queued, timer, pc, cur, todo,
                   budget, forgot, edited>>

ResourceDeleted(k) ==
    /\ res[k] # 0
    /\ Spend("trouble")
    /\ Gone(k)
    /\ UNCHANGED <<obj, created, view, shown, cache, queued, timer, pc, cur, todo,
                   forgot, edited>>

\* The agent needs its account, its role and its volume, and a ClusterAgent
\* it can load; otherwise main exits and the pod is started again.
AgentBoots ==
    /\ agent = None
    /\ \A k \in Kinds : res[k] # 0
    /\ deployed.replicas > 0
    /\ obj # None
    /\ LoadAgentConfig(obj.spec) /\ DhcpConfigParses(obj.spec)
    /\ agent' = obj.spec
    /\ UNCHANGED <<obj, created, view, res, shown, deployed, cache, queued, timer, pc,
                   cur, todo, budget, forgot, edited>>

AgentCrashes ==
    /\ agent # None
    /\ Spend("trouble")
    /\ agent' = None
    /\ UNCHANGED <<obj, created, view, res, shown, deployed, cache, queued, timer, pc,
                   cur, todo, forgot, edited>>

-----------------------------------------------------------------------------
(* The controller.  Reconcile handles one request at a time; an error puts *)
(* the request back.                                                       *)

Unmoved == UNCHANGED <<obj, created, view, shown, edited>>

Requeue ==
    /\ pc' = "idle" /\ queued' = TRUE
    /\ todo' = {}
    /\ UNCHANGED timer

Retry ==
    /\ Spend("trouble")
    /\ Requeue
    /\ UNCHANGED <<res, deployed, agent>>

\* Mutant: a missing resource is not noticed.
SpecChangedOnly == cache = None \/ cache # view.spec

\* hasSpecChanged or hasResourcesMissing, whose Gets the informer caches answer.
NeedUpdateResource ==
    \/ cache = None \/ cache # view.spec
    \/ \E k \in Kinds : shown[k].owner = 0

\* Mutant: a changed spec is handled by deleting the resources first.
BeginRecreates ==
    /\ pc = "idle" /\ queued
    /\ queued' = FALSE
    /\ cur' = view
    /\ IF cache # None /\ (IF view = None THEN TRUE ELSE cache # view.spec)
         THEN cache' = None /\ pc' = "cleanup" /\ todo' = Kinds
         ELSE /\ pc' = IF view = None THEN "idle"
                       ELSE IF NeedUpdateResource THEN "render" ELSE "status"
              /\ UNCHANGED <<cache, todo>>
    /\ UNCHANGED <<res, deployed, agent, timer, budget, forgot>>
    /\ Unmoved

\* Mutant: cleanup leaves the entry of r.cache.
BeginKeepsEntry ==
    /\ pc = "idle" /\ queued
    /\ queued' = FALSE
    /\ cur' = view
    /\ IF view = None
         THEN /\ pc' = IF cache = None THEN "idle" ELSE "cleanup"
              /\ todo' = IF cache = None THEN {} ELSE Kinds
         ELSE /\ pc' = IF NeedUpdateResource THEN "render" ELSE "status"
              /\ UNCHANGED todo
    /\ UNCHANGED <<cache, res, deployed, agent, timer, budget, forgot>>
    /\ Unmoved

\* Reconcile up to its first write.  A deleted ClusterAgent that is not in
\* r.cache needs nothing; one that is in it is removed from it first.
Begin ==
    /\ pc = "idle" /\ queued
    /\ queued' = FALSE
    /\ cur' = view
    /\ \/ /\ view = None /\ cache = None
          /\ UNCHANGED <<cache, pc, todo>>
       \/ /\ view = None /\ cache # None
          /\ cache' = None
          /\ pc' = "cleanup"
          /\ todo' = Kinds
       \/ /\ view # None
          /\ pc' = IF NeedUpdateResource THEN "render" ELSE "status"
          /\ UNCHANGED <<cache, todo>>
    /\ UNCHANGED <<res, deployed, agent, timer, budget, forgot>>
    /\ Unmoved

\* hasResourcesMissing fails with something other than NotFound.
BeginFails ==
    /\ pc = "idle" /\ queued
    /\ view # None /\ cache = view.spec
    /\ cur' = view
    /\ Retry
    /\ UNCHANGED <<cache, forgot>>
    /\ Unmoved

\* spec.agentYaml.image or the AGENT_IMAGE variable of the controller.
ImageFound(s) == s.image # Unset \/ AgentImage

\* The image is resolved and the templates are rendered; only the failure of
\* the PVC template is passed over.
Render ==
    /\ pc = "render"
    /\ ImageFound(cur.spec)
    /\ pc' = "apply"
    /\ \/ todo' = Kinds /\ UNCHANGED budget
       \/ HandlePVC /\ Spend("trouble") /\ todo' = Kinds \ {"persistentvolumeclaim"}
    /\ UNCHANGED <<res, deployed, agent, cache, queued, timer, cur, forgot>>
    /\ Unmoved

RenderFails ==
    /\ pc = "render"
    /\ \/ Retry
       \/ /\ ~ImageFound(cur.spec)
          /\ Requeue
          /\ UNCHANGED <<res, deployed, agent, budget>>
    /\ UNCHANGED <<cache, cur, forgot>>
    /\ Unmoved

\* CreateOrUpdate with a mutate function that does nothing: what exists is
\* read back over the rendered object, so it keeps its owner and its content.
OwnerAfterApply(k) == IF res[k] = 0 THEN cur.uid ELSE res[k]

\* Mutant: the handled object is not stored.
ApplyNoStore(k) ==
    /\ pc = "apply"
    /\ k \in todo
    /\ todo' = todo \ {k}
    /\ res' = [res EXCEPT ![k] = OwnerAfterApply(k)]
    /\ deployed' = IF k = "deployment" /\ res[k] = 0 THEN cur.spec ELSE deployed
    /\ pc' = IF todo = {k} THEN "status" ELSE pc
    /\ UNCHANGED <<agent, cache, queued, timer, cur, budget, forgot>>
    /\ Unmoved

\* createOrUpdateResources handles the kinds in the order of a Go map; when
\* all are there the object goes into r.cache.
Apply(k) ==
    /\ pc = "apply"
    /\ k \in todo
    /\ todo' = todo \ {k}
    /\ res' = [res EXCEPT ![k] = OwnerAfterApply(k)]
    /\ deployed' = IF k = "deployment" /\ res[k] = 0 THEN cur.spec ELSE deployed
    /\ IF todo = {k}
         THEN pc' = "status" /\ cache' = cur.spec /\ forgot' = FALSE
         ELSE UNCHANGED <<pc, cache, forgot>>
    /\ UNCHANGED <<agent, queued, timer, cur, budget>>
    /\ Unmoved

ApplyFails ==
    /\ pc = "apply"
    /\ Retry
    /\ forgot' = (forgot \/ cache = None)
    /\ UNCHANGED <<cache, cur>>
    /\ Unmoved

\* What updateStatus finds of the Deployment in the informer cache.
DeploymentReady == shown["deployment"].ready

\* Mutant: the status is only written when readiness is lost.
ReadinessLost == cur.ready /\ ~DeploymentReady

\* Whether updateStatus has something to write.
StatusDiffers == DeploymentReady # cur.ready

\* The copy Reconcile works on is the current one.
Current == obj # None /\ cur.uid = obj.uid /\ cur.rev = obj.rev

\* Mutant: a successful Reconcile asks for no further request.
NoRequeue == UNCHANGED timer

\* A successful Reconcile asks to be called again after a minute.
RequeueAfter == timer' = TRUE

\* status.ready is tagged omitempty and its schema default is true, so the
\* API server stores true whatever updateStatus writes.
updateStatus ==
    /\ pc = "status"
    /\ \/ /\ ~StatusDiffers
          /\ UNCHANGED obj
          /\ pc' = "idle" /\ RequeueAfter
          /\ UNCHANGED queued
       \/ /\ StatusDiffers /\ Current
          /\ obj' = IF obj.ready THEN obj
                    ELSE Saved(obj, obj.spec, TRUE)
          /\ pc' = "idle" /\ RequeueAfter
          /\ UNCHANGED queued
       \/ /\ StatusDiffers /\ ~Current
          /\ pc' = "idle" /\ queued' = TRUE
          /\ UNCHANGED <<obj, timer>>
    /\ UNCHANGED <<created, view, res, shown, deployed, agent, cache, cur, todo,
                   budget, forgot, edited>>

UpdateStatusFails ==
    /\ pc = "status"
    /\ StatusDiffers
    /\ Retry
    /\ UNCHANGED <<cache, cur, forgot>>
    /\ Unmoved

\* The next resource of cleanupResources.
NextToDelete == AgentResources[CHOOSE i \in DOMAIN AgentResources :
    /\ AgentResources[i] \in todo
    /\ \A j \in 1 .. i - 1 : AgentResources[j] \notin todo]

\* cleanupResources deletes by name, whoever owns the resource.
CleanupDelete ==
    /\ pc = "cleanup"
    /\ LET k == NextToDelete IN
         /\ Gone(k)
         /\ todo' = todo \ {k}
         /\ pc' = IF todo = {k} THEN "idle" ELSE pc
    /\ UNCHANGED <<cache, queued, timer, cur, budget, forgot>>
    /\ Unmoved

CleanupFails ==
    /\ pc = "cleanup"
    /\ Retry
    /\ forgot' = TRUE
    /\ UNCHANGED <<cache, cur>>
    /\ Unmoved

\* RequeueAfter: 60 seconds.
Tick ==
    /\ timer
    /\ timer' = FALSE
    /\ queued' = TRUE
    /\ UNCHANGED <<res, deployed, agent, cache, pc, cur, todo, budget, forgot>>
    /\ Unmoved

\* The controller restarts: r.cache and the queue are empty, the informers list
\* what there is, and one request is queued for the object or its Deployment.
Restart ==
    /\ Spend("trouble")
    /\ view' = obj /\ shown' = [k \in Kinds |-> Actual(k)]
    /\ queued' = (obj # None \/ res["deployment"] # 0)
    /\ cache' = None /\ timer' = FALSE
    /\ pc' = "idle" /\ cur' = None /\ todo' = {}
    /\ forgot' = TRUE
    /\ UNCHANGED <<obj, created, res, deployed, agent, edited>>

Reconcile ==
    \/ Begin \/ BeginFails \/ Render \/ RenderFails
    \/ (\E k \in Kinds : Apply(k)) \/ ApplyFails
    \/ updateStatus \/ UpdateStatusFails
    \/ CleanupDelete \/ CleanupFails

Next ==
    \/ \E m \in Manifests : Create(m) \/ Update(m)
    \/ Delete
    \/ Deliver
    \/ \E k \in Kinds : Observe(k) \/ GarbageCollect(k) \/ ResourceDeleted(k)
    \/ AgentBoots \/ AgentCrashes
    \/ Reconcile
    \/ Tick \/ Restart

\* Fair: the watches, the garbage collector, the kubelet, the worker of the
\* controller and its timer.  Users and faults are not.
Fairness ==
    /\ WF_vars(Deliver)
    /\ \A k \in Kinds : WF_vars(Observe(k)) /\ WF_vars(GarbageCollect(k))
    /\ WF_vars(AgentBoots)
    /\ WF_vars(Reconcile)
    /\ WF_vars(Tick)

Spec == Init /\ [][Next]_vars /\ Fairness

-----------------------------------------------------------------------------
(* What the controller promises.                                           *)

\* The webhook and the schema accept no ClusterAgent that the agent would
\* refuse for its spec alone (config.go ValidateEndpointConfig and
\* ValidateFeatureConfig): only a missing Secret or interface stops it.
AdmittedLoads == obj # None => SpecLoads(obj.spec)

\* The controller never deletes a resource of the ClusterAgent that exists,
\* although cleanupResources decides from the informer cache and deletes by
\* name: what it deletes under a new ClusterAgent belonged to the old one.
NeverDeletesLive ==
    [][\A k \in Kinds :
         (k \in todo \ todo' /\ res[k] # 0 /\ res'[k] = 0 /\ obj # None)
           => res[k] # obj.uid]_vars

\* Between two requests r.cache remembers every ClusterAgent that has resources:
\* cleanupResources, which skips one that is not in it, loses track of them
\* only by a failed call or a restart.
CacheRemembers ==
    (pc = "idle" /\ \E k \in Kinds : res[k] # 0) => cache # None \/ forgot

\* No wake-up is lost.  Once the watch is up to date and Reconcile has returned,
\* a ClusterAgent that exists has another request queued or on its timer, so a
\* resource deleted behind the controller's back is noticed (only Deployments
\* are watched), and one that is gone has a request queued as long as r.cache
\* holds it: events that arrive while Reconcile runs are not swallowed by it.
NoLostWakeUp ==
    pc = "idle" /\ view = obj =>
        /\ obj # None => queued \/ timer
        /\ obj = None /\ cache # None => queued

\* The object exists and createOrUpdateResources finds an image for it.
HasImage == obj # None /\ ImageFound(obj.spec)

\* The object asks for an agent, the cluster has what the agent needs, and the
\* spec was not edited under its Deployment.
CanRun ==
    /\ HasImage
    /\ ~edited
    /\ obj.spec.replicas > 0
    /\ LoadAgentConfig(obj.spec) /\ DhcpConfigParses(obj.spec)

OwnsAll == obj # None /\ \A k \in Kinds : res[k] = obj.uid
Serves == obj # None /\ agent = obj.spec /\ deployed = obj.spec /\ obj.ready

\* A ClusterAgent that stays gets all its resources, and in the end they are
\* its own: what an earlier one of the same name left is collected and made
\* again (hasResourcesMissing and the 60 s requeue), through faults, restarts
\* and deletions by others.
ResourcesRestored == (<>[]HasImage) => <>[]OwnsAll

\* A ClusterAgent that is deleted for good leaves nothing behind: no resource
\* (what cleanupResources has forgotten goes by its owner reference) and no
\* entry in r.cache.
CleanedUp ==
    (<>[](obj = None)) => <>[](cache = None /\ \A k \in Kinds : res[k] = 0)

\* An admitted ClusterAgent whose Secret and interface exist gets a running
\* agent with its spec, and the status says so, unless replicas is 0 or the
\* spec was edited under its Deployment (which is then never updated).
AgentComesUp == (<>[]CanRun) => <>[]Serves
=============================================================================

------------------------- MODULE ClusterAgentProofs -------------------------
(***************************************************************************)
(* Proofs about ClusterAgent: its types, that an admitted spec is one the  *)
(* agent loads, that r.cache loses nothing but by a fault, and that the    *)
(* controller never deletes a resource of the ClusterAgent that exists.    *)
(***************************************************************************)
EXTENDS ClusterAgent, TLAPS

-----------------------------------------------------------------------------
(* Admission.                                                              *)

\* The endpoint sections the schema leaves, before the bounds of the port.
Endpoints == [port : Int, https : BOOLEAN, secret : Secrets]
Features == [dhcp : BOOLEAN, config : Configs \cup {Unset}]

LEMMA OrType ==
    ASSUME NEW S, NEW x \in S \cup {Unset}, NEW d \in S
    PROVE  Or(x, d) \in S
  BY DEF Or

LEMMA OmitType ==
    ASSUME NEW S, NEW x \in S, NEW z
    PROVE  OmitZero(x, z) \in S \cup {Unset}
  BY DEF OmitZero

\* The sections as JSON may leave them: a field may be absent.
RawEndpoints == [port : Int \cup {Unset}, https : BOOLEAN \cup {Unset},
                 secret : Secrets]
RawFeatures == [dhcp : BOOLEAN \cup {Unset}, config : Configs \cup {Unset}]

LEMMA SectionTypes ==
    /\ \A e \in RawEndpoints : SchemaEndpoint(e) \in Endpoints
    /\ \A f \in RawFeatures : SchemaFeature(f) \in Features
    /\ \A e \in Endpoints : MarshalEndpoint(e) \in RawEndpoints
    /\ \A f \in Features : MarshalFeature(f) \in RawFeatures
    /\ \A f \in Features : DefaultFeature(f) \in Features
<1>1. ASSUME NEW e \in RawEndpoints PROVE SchemaEndpoint(e) \in Endpoints
  <2>1. /\ e.port \in Int \cup {Unset} /\ e.https \in BOOLEAN \cup {Unset}
        /\ e.secret \in Secrets
    BY DEF RawEndpoints
  <2>2. Or(e.port, 443) \in Int
    BY <2>1, OrType
  <2>3. Or(e.https, TRUE) \in BOOLEAN
    <3>1. TRUE \in BOOLEAN
      OBVIOUS
    <3> QED
      BY <2>1, <3>1, OrType, Zenon
  <2> QED
    BY <2>1, <2>2, <2>3 DEF SchemaEndpoint, Endpoints
<1>2. ASSUME NEW f \in RawFeatures PROVE SchemaFeature(f) \in Features
  <2>1. f.dhcp \in BOOLEAN \cup {Unset} /\ f.config \in Configs \cup {Unset}
    BY DEF RawFeatures
  <2>2. Or(f.dhcp, TRUE) \in BOOLEAN
    <3>1. TRUE \in BOOLEAN
      OBVIOUS
    <3> QED
      BY <2>1, <3>1, OrType, Zenon
  <2> QED
    BY <2>1, <2>2 DEF SchemaFeature, Features
<1>3. ASSUME NEW e \in Endpoints PROVE MarshalEndpoint(e) \in RawEndpoints
  <2>1. /\ e.port \in Int /\ e.https \in BOOLEAN /\ e.secret \in Secrets
    BY DEF Endpoints
  <2>2. /\ OmitZero(e.port, 0) \in Int \cup {Unset}
        /\ OmitZero(e.https, FALSE) \in BOOLEAN \cup {Unset}
    BY <2>1, OmitType, Zenon
  <2> QED
    BY <2>1, <2>2 DEF MarshalEndpoint, RawEndpoints
<1>4. ASSUME NEW f \in Features PROVE MarshalFeature(f) \in RawFeatures
  <2>1. f.dhcp \in BOOLEAN /\ f.config \in Configs \cup {Unset}
    BY DEF Features
  <2>2. OmitZero(f.dhcp, FALSE) \in BOOLEAN \cup {Unset}
    BY <2>1, OmitType, Zenon
  <2> QED
    BY <2>1, <2>2 DEF MarshalFeature, RawFeatures
<1>5. ASSUME NEW f \in Features PROVE DefaultFeature(f) \in Features
  <2>1. f.dhcp \in BOOLEAN /\ f.config \in Configs \cup {Unset}
    BY DEF Features
  <2>2. Or(f.config, "blank") \in Configs
    BY <2>1, OrType DEF Configs
  <2> QED
    BY <2>1, <2>2 DEF DefaultFeature, Features
<1> QED
  BY <1>1, <1>2, <1>3, <1>4, <1>5

\* An admitted manifest becomes a spec of the stored type that the agent loads.
LEMMA AdmitType ==
    ASSUME NEW m \in Manifest, Admitted(m)
    PROVE  Admit(m) \in AgentSpecs /\ SpecLoads(Admit(m))
<1> DEFINE s1 == SchemaDefaults(m)
           s2 == Default(s1)
           s3 == Marshal(s2)
           s4 == SchemaDefaults(s3)
           Named(s) == s.underlay \in {Unset, "net"} /\ s.image \in {Unset, "own"}
<1>0. Admit(m) = s4 /\ SchemaValid(s4) /\ validateClusterAgent(s4)
  BY DEF Admit, Admitted
<1>u. Unset \notin RawEndpoints /\ Unset \notin RawFeatures
  BY UnsetAssumption DEF RawEndpoints, RawFeatures
<1>1. /\ Named(s1) /\ s1.replicas \in Int
      /\ s1.endpoint \in Endpoints \cup {Unset}
      /\ s1.feature \in Features \cup {Unset}
  <2>1. /\ Named(m) /\ m.replicas \in Int \cup {Unset}
        /\ m.endpoint \in RawEndpoints \cup {Unset}
        /\ m.feature \in RawFeatures \cup {Unset}
    BY DEF Manifest, RawEndpoints, RawFeatures
  <2>2. Or(m.replicas, 1) \in Int
    BY <2>1, OrType
  <2> QED
    BY <2>1, <2>2, SectionTypes DEF SchemaDefaults
<1> HIDE DEF s1
<1>2. /\ Named(s2) /\ s2.replicas \in Int
      /\ s2.endpoint \in Endpoints /\ s2.feature \in Features
  <2>1. Or(s1.replicas, 0) \in Int
    BY <1>1, OrType
  <2>2. [port |-> 0, https |-> FALSE, secret |-> Unset] \in Endpoints
    BY DEF Endpoints, Secrets
  <2>3. [dhcp |-> FALSE, config |-> Unset] \in Features
    BY DEF Features
  <2>4. Or(s1.endpoint, [port |-> 0, https |-> FALSE, secret |-> Unset]) \in Endpoints
    BY <1>1, <2>2, OrType
  <2>5. Or(s1.feature, [dhcp |-> FALSE, config |-> Unset]) \in Features
    BY <1>1, <2>3, OrType
  <2> QED
    BY <1>1, <2>1, <2>4, <2>5, SectionTypes DEF Default
<1> HIDE DEF s2
<1>3. /\ Named(s3) /\ s3.replicas \in Int
      /\ s3.endpoint \in RawEndpoints /\ s3.feature \in RawFeatures
  <2>1. s2.endpoint # Unset /\ s2.feature # Unset
    BY <1>2, <1>u DEF Endpoints, Features, RawEndpoints, RawFeatures
  <2> QED
    BY <1>2, <2>1, SectionTypes DEF Marshal
<1> HIDE DEF s3
<1>4. /\ Named(s4) /\ s4.replicas \in Int
      /\ s4.endpoint \in Endpoints /\ s4.feature \in Features
  <2>1. Or(s3.replicas, 1) \in Int
    BY <1>3, OrType
  <2> QED
    BY <1>3, <1>u, <2>1, SectionTypes DEF SchemaDefaults
<1>5. s4 = [underlay |-> s4.underlay, image |-> s4.image, replicas |-> s4.replicas,
            endpoint |-> s4.endpoint, feature |-> s4.feature]
  BY DEF SchemaDefaults
<1> HIDE DEF s4
<1>6. s4.endpoint # Unset /\ s4.feature # Unset
  BY <1>4, <1>u DEF Endpoints, Features, RawEndpoints, RawFeatures
<1>7. s4.endpoint \in [port : Ports, https : BOOLEAN, secret : Secrets]
  BY <1>0, <1>4, <1>6 DEF SchemaValid, Endpoints
<1>8. s4 \in AgentSpecs
  BY <1>0, <1>4, <1>5, <1>7 DEF SchemaValid, AgentSpecs, Features
<1>9. SpecLoads(s4)
  BY <1>0, <1>6, <1>7 DEF validateClusterAgent, SpecLoads
<1> QED
  BY <1>0, <1>8, <1>9

-----------------------------------------------------------------------------
(* Types.                                                                  *)

Working == {"render", "apply", "status"}

\* While Reconcile works on an object it has a copy of it.
Busy == pc \in Working => cur \in Object

TInv == TypeOK /\ Busy /\ AdmittedLoads

LEMMA SpendType ==
    ASSUME TypeOK, NEW b \in {"write", "trouble"}, Spend(b)
    PROVE  budget' \in [{"write", "trouble"} -> Nat]
  BY DEF TypeOK, Spend

LEMMA GoneType ==
    ASSUME TypeOK, NEW k, Gone(k)
    PROVE  /\ res' \in [Kinds -> Nat]
           /\ deployed' \in AgentSpecs \cup {None}
           /\ agent' \in AgentSpecs \cup {None}
  BY DEF TypeOK, Gone

LEMMA ActualType ==
    ASSUME TypeOK, NEW k \in Kinds
    PROVE  Actual(k) \in [owner : Nat, ready : BOOLEAN]
<1>1. res[k] \in Nat
  BY DEF TypeOK
<1>2. (IF k = "deployment" THEN agent # None ELSE FALSE) \in BOOLEAN
  OBVIOUS
<1> QED
  BY <1>1, <1>2, Zenon DEF Actual

LEMMA TInit == Init => TInv
<1> SUFFICES ASSUME Init PROVE TInv
  OBVIOUS
<1>1. obj \in Object \cup {None} /\ AdmittedLoads
  <2>1. CASE obj = None
    BY <2>1 DEF AdmittedLoads
  <2>2. CASE obj # None
    <3>1. PICK s \in HelmSpecs :
            obj = [uid |-> 1, spec |-> s, ready |-> FALSE, rev |-> 0]
      BY <2>2 DEF Init
    <3>2. s \in AgentSpecs /\ SpecLoads(s)
      BY ClusterAgentAssumption
    <3>3. obj \in Object /\ obj.spec = s
      BY <3>1, <3>2 DEF Object
    <3> QED
      BY <3>2, <3>3 DEF AdmittedLoads
  <2> QED
    BY <2>1, <2>2
<1>2. budget \in [{"write", "trouble"} -> Nat]
  BY ClusterAgentAssumption DEF Init
<1>3. TypeOK
  BY <1>1, <1>2 DEF Init, TypeOK
<1> QED
  BY <1>1, <1>3 DEF Init, TInv, Busy, Working

\* What a user's step leaves: the types need only the new object.
LEMMA UserType ==
    ASSUME TInv, UserStep, created' \in Nat, edited' \in BOOLEAN,
           obj' \in Object \cup {None}, AdmittedLoads'
    PROVE  TInv'
<1>1. budget' \in [{"write", "trouble"} -> Nat]
  BY SpendType DEF UserStep, TInv
<1>2. TypeOK'
  BY <1>1 DEF TInv, TypeOK, UserStep
<1> QED
  BY <1>2 DEF TInv, Busy, Working, UserStep

\* What a retry leaves.
LEMMA RetryType ==
    ASSUME TInv, Retry, Unmoved, cache' = cache, cur' \in Object \cup {None},
           forgot' \in BOOLEAN
    PROVE  TInv'
<1>1. budget' \in [{"write", "trouble"} -> Nat]
  BY SpendType DEF Retry, TInv
<1>2. TypeOK'
  BY <1>1 DEF TInv, TypeOK, Retry, Requeue, Unmoved
<1> QED
  BY <1>2 DEF TInv, Busy, Working, Retry, Requeue, Unmoved, AdmittedLoads

LEMMA TNext == TInv /\ [Next]_vars => TInv'
<1> SUFFICES ASSUME TInv, [Next]_vars PROVE TInv'
  OBVIOUS
<1>1. ASSUME NEW m \in Manifests, Create(m) PROVE TInv'
  <2>1. Admit(m) \in AgentSpecs /\ SpecLoads(Admit(m))
    BY <1>1, AdmitType, ClusterAgentAssumption DEF Create
  <2>2. obj' \in Object /\ obj'.spec = Admit(m) /\ created' \in Nat
    BY <1>1, <2>1 DEF Create, TInv, TypeOK, Object
  <2>3. edited' \in BOOLEAN
    BY <1>1 DEF Create, ActedOn
  <2> QED
    BY <1>1, <2>1, <2>2, <2>3, UserType DEF Create, AdmittedLoads
<1>2. ASSUME NEW m \in Manifests, Update(m) PROVE TInv'
  <2>1. Admit(m) \in AgentSpecs /\ SpecLoads(Admit(m))
    BY <1>2, AdmitType, ClusterAgentAssumption DEF Update
  <2>2. obj' \in Object /\ obj'.spec = Admit(m) /\ created' \in Nat
    BY <1>2, <2>1 DEF Update, Saved, TInv, TypeOK, Object
  <2>3. edited' \in BOOLEAN
    BY <1>2 DEF Update, ActedOn
  <2> QED
    BY <1>2, <2>1, <2>2, <2>3, UserType DEF Update, AdmittedLoads
<1>3. CASE Delete
  BY <1>3, UserType DEF Delete, TInv, TypeOK, AdmittedLoads
<1>4. CASE Deliver
  BY <1>4 DEF Deliver, TInv, TypeOK, Busy, Working, AdmittedLoads
<1>5. ASSUME NEW k \in Kinds, GarbageCollect(k) PROVE TInv'
  <2>1. TypeOK'
    BY <1>5, GoneType DEF GarbageCollect, TInv, TypeOK
  <2> QED
    BY <1>5, <2>1 DEF GarbageCollect, TInv, Busy, AdmittedLoads
<1>6. ASSUME NEW k \in Kinds, ResourceDeleted(k) PROVE TInv'
  <2>1. TypeOK'
    BY <1>6, GoneType, SpendType DEF ResourceDeleted, TInv, TypeOK
  <2> QED
    BY <1>6, <2>1 DEF ResourceDeleted, TInv, Busy, AdmittedLoads
<1>7. CASE AgentBoots
  <2>1. TypeOK'
    BY <1>7 DEF AgentBoots, TInv, TypeOK, Object
  <2> QED
    BY <1>7, <2>1 DEF AgentBoots, TInv, Busy, AdmittedLoads
<1>8. CASE AgentCrashes
  <2>1. TypeOK'
    BY <1>8, SpendType DEF AgentCrashes, TInv, TypeOK
  <2> QED
    BY <1>8, <2>1 DEF AgentCrashes, TInv, Busy, AdmittedLoads
<1>9. CASE Begin
  <2>1. TypeOK'
    BY <1>9 DEF Begin, Unmoved, TInv, TypeOK
  <2> QED
    BY <1>9, <2>1 DEF Begin, Unmoved, TInv, TypeOK, Busy, Working, AdmittedLoads
<1>10. CASE BeginFails
  BY <1>10, RetryType DEF BeginFails, TInv, TypeOK
<1>11. CASE Render
  <2>1. budget' \in [{"write", "trouble"} -> Nat] /\ todo' \subseteq Kinds
    BY <1>11, SpendType DEF Render, TInv, TypeOK
  <2>2. TypeOK'
    BY <1>11, <2>1 DEF Render, Unmoved, TInv, TypeOK
  <2> QED
    BY <1>11, <2>2 DEF Render, Unmoved, TInv, Busy, Working, AdmittedLoads
<1>12. CASE RenderFails
  <2>1. CASE Retry
    BY <1>12, <2>1, RetryType DEF RenderFails, TInv, TypeOK
  <2>2. CASE Requeue /\ UNCHANGED <<res, deployed, agent, budget>>
    BY <1>12, <2>2
    DEF RenderFails, Requeue, Unmoved, TInv, TypeOK, Busy, Working, AdmittedLoads
  <2> QED
    BY <1>12, <2>1, <2>2 DEF RenderFails
<1>13. ASSUME NEW k \in Kinds, Apply(k) PROVE TInv'
  <2>1. cur \in Object /\ cur.uid \in Nat /\ cur.spec \in AgentSpecs
    BY <1>13 DEF Apply, TInv, Busy, Working, Object
  <2>2. res' \in [Kinds -> Nat]
    BY <1>13, <2>1 DEF Apply, OwnerAfterApply, TInv, TypeOK
  <2>3. TypeOK'
    BY <1>13, <2>1, <2>2 DEF Apply, Unmoved, TInv, TypeOK
  <2> QED
    BY <1>13, <2>1, <2>3 DEF Apply, Unmoved, TInv, Busy, AdmittedLoads
<1>14. CASE ApplyFails
  BY <1>14, RetryType DEF ApplyFails, TInv, TypeOK
<1>15. CASE updateStatus
  <2>1. /\ obj' \in Object \cup {None}
        /\ AdmittedLoads'
    <3>1. CASE obj' = obj
      BY <3>1 DEF TInv, TypeOK, AdmittedLoads
    <3>2. CASE obj # None /\ obj' = Saved(obj, obj.spec, TRUE)
      <4>1. obj \in Object /\ SpecLoads(obj.spec)
        BY <3>2 DEF TInv, TypeOK, AdmittedLoads
      <4>2. obj' \in Object /\ obj'.spec = obj.spec
        BY <3>2, <4>1 DEF Saved, Object
      <4> QED
        BY <4>1, <4>2 DEF AdmittedLoads
    <3> QED
      BY <1>15, <3>1, <3>2 DEF updateStatus, RequeueAfter, Current
  <2>2. TypeOK'
    BY <1>15, <2>1 DEF updateStatus, RequeueAfter, TInv, TypeOK
  <2> QED
    BY <1>15, <2>1, <2>2 DEF updateStatus, RequeueAfter, TInv, Busy, Working
<1>16. CASE UpdateStatusFails
  BY <1>16, RetryType DEF UpdateStatusFails, TInv, TypeOK
<1>17. CASE CleanupDelete
  <2> DEFINE k == NextToDelete
  <2>1. Gone(k) /\ todo' = todo \ {k} /\ pc' \in {"idle", "cleanup"}
    BY <1>17 DEF CleanupDelete
  <2> HIDE DEF k
  <2>2. TypeOK'
    BY <1>17, <2>1, GoneType DEF CleanupDelete, Unmoved, TInv, TypeOK
  <2> QED
    BY <1>17, <2>1, <2>2 DEF CleanupDelete, Unmoved, TInv, Busy, Working, AdmittedLoads
<1>18. CASE CleanupFails
  BY <1>18, RetryType DEF CleanupFails, TInv, TypeOK
<1>19. CASE Tick
  BY <1>19 DEF Tick, Unmoved, TInv, TypeOK, Busy, AdmittedLoads
<1>20. CASE Restart
  <2>0. shown' \in [Kinds -> [owner : Nat, ready : BOOLEAN]]
    BY <1>20, ActualType, Zenon DEF Restart, TInv
  <2>1. TypeOK'
    BY <1>20, <2>0, SpendType DEF Restart, TInv, TypeOK
  <2> QED
    BY <1>20, <2>1 DEF Restart, TInv, Busy, Working, AdmittedLoads
<1>22. ASSUME NEW k \in Kinds, Observe(k) PROVE TInv'
  <2>1. shown' \in [Kinds -> [owner : Nat, ready : BOOLEAN]]
    BY <1>22, ActualType DEF Observe, TInv, TypeOK
  <2>2. TypeOK'
    BY <1>22, <2>1 DEF Observe, TInv, TypeOK
  <2> QED
    BY <1>22, <2>2 DEF Observe, TInv, Busy, AdmittedLoads
<1>21. CASE UNCHANGED vars
  BY <1>21 DEF vars, TInv, TypeOK, Busy, AdmittedLoads
<1> QED
  BY <1>1, <1>2, <1>3, <1>4, <1>5, <1>6, <1>7, <1>8, <1>9, <1>10, <1>11, <1>12,
     <1>13, <1>14, <1>15, <1>16, <1>17, <1>18, <1>19, <1>20, <1>21, <1>22
  DEF Next, Reconcile

\* Every variable of the controller keeps its type through every interleaving
\* with users, the garbage collector, faults and restarts.
THEOREM TypesHold == Spec => []TypeOK
  BY TInit, TNext, PTL DEF Spec, TInv

\* No ClusterAgent is stored that the agent would refuse for its spec alone:
\* Default, the CRD's defaults and validateClusterAgent together imply what
\* ValidateEndpointConfig and ValidateFeatureConfig ask for.
THEOREM AdmissionIsEnough == Spec => []AdmittedLoads
  BY TInit, TNext, PTL DEF Spec, TInv

-----------------------------------------------------------------------------
(* Ownership.  Every uid in use was given out, so a ClusterAgent that is   *)
(* created again is new to everything the controller still holds; and what *)
(* the informer has not shown yet owns nothing.                            *)

UidsGiven ==
    /\ obj # None => obj.uid <= created
    /\ view # None => view.uid <= created
    /\ pc \in Working => cur.uid <= created
    /\ \A k \in Kinds : res[k] <= created

OwnsNothing == \A k \in Kinds : res[k] # obj.uid

Unseen ==
    obj # None /\ (view = None \/ view.uid # obj.uid) =>
      OwnsNothing /\ (pc \in Working => cur.uid # obj.uid)

CleanupSafe == pc = "cleanup" /\ obj # None => OwnsNothing

OInv == UidsGiven /\ Unseen /\ CleanupSafe

LEMMA OInit == Init => OInv
<1> SUFFICES ASSUME Init PROVE OInv
  OBVIOUS
<1>1. obj # None => obj.uid = 1
  BY DEF Init
<1> QED
  BY <1>1 DEF Init, OInv, UidsGiven, Unseen, OwnsNothing, CleanupSafe, Working

\* A resource that goes disturbs nothing, a step that leaves obj, view, cur and
\* res alone only has to stay out of cleanup and out of Working.
LEMMA GoneOwner ==
    ASSUME TInv, NEW k, Gone(k)
    PROVE  \A j \in Kinds : res'[j] = res[j] \/ res'[j] = 0
  BY DEF TInv, TypeOK, Gone

LEMMA OGone ==
    ASSUME TInv, OInv, NEW k, Gone(k), UNCHANGED <<obj, created, view, cur>>,
           pc' \in Working => pc \in Working,
           pc' = "cleanup" => pc = "cleanup"
    PROVE  OInv'
<1>1. \A j \in Kinds : res[j] \in Nat /\ (res'[j] = res[j] \/ res'[j] = 0)
  BY GoneOwner DEF TInv, TypeOK
<1>2. obj # None => obj.uid \in Nat \ {0}
  BY DEF TInv, TypeOK, Object
<1>3. created \in Nat
  BY DEF TInv, TypeOK
<1> QED
  BY <1>1, <1>2, <1>3 DEF OInv, UidsGiven, Unseen, OwnsNothing, CleanupSafe

LEMMA OStay ==
    ASSUME OInv, UNCHANGED <<obj, created, view, cur, res>>,
           pc' \in Working => pc \in Working,
           pc' = "cleanup" => pc = "cleanup"
    PROVE  OInv'
  BY DEF OInv, UidsGiven, Unseen, OwnsNothing, CleanupSafe

LEMMA ONext == TInv /\ OInv /\ [Next]_vars => OInv'
<1> SUFFICES ASSUME TInv, OInv, [Next]_vars PROVE OInv'
  OBVIOUS
<1>t. /\ created \in Nat
      /\ \A k \in Kinds : res[k] \in Nat
      /\ obj # None => obj.uid \in Nat \ {0}
      /\ view # None => view.uid \in Nat \ {0}
      /\ pc \in Working => cur.uid \in Nat \ {0}
  BY DEF TInv, TypeOK, Busy, Object
<1>1. ASSUME NEW m \in Manifests, Create(m) PROVE OInv'
  <2>1. obj'.uid = created + 1 /\ created' = created + 1
    BY <1>1 DEF Create
  <2>2. UNCHANGED <<view, res, pc, cur>>
    BY <1>1 DEF Create, UserStep
  <2> QED
    BY <1>t, <2>1, <2>2 DEF OInv, UidsGiven, Unseen, OwnsNothing, CleanupSafe
<1>2. ASSUME NEW m \in Manifests, Update(m) PROVE OInv'
  <2>1. obj # None /\ obj'.uid = obj.uid /\ created' = created
    BY <1>2 DEF Update, Saved
  <2>2. UNCHANGED <<view, res, pc, cur>>
    BY <1>2 DEF Update, UserStep
  <2> QED
    BY <1>t, <2>1, <2>2 DEF OInv, UidsGiven, Unseen, OwnsNothing, CleanupSafe
<1>3. CASE Delete
  BY <1>3 DEF Delete, UserStep, OInv, UidsGiven, Unseen, OwnsNothing, CleanupSafe
<1>4. CASE Deliver
  BY <1>4 DEF Deliver, OInv, UidsGiven, Unseen, OwnsNothing, CleanupSafe
<1>5. ASSUME NEW k \in Kinds, GarbageCollect(k) PROVE OInv'
  BY <1>5, OGone DEF GarbageCollect
<1>6. ASSUME NEW k \in Kinds, ResourceDeleted(k) PROVE OInv'
  BY <1>6, OGone DEF ResourceDeleted
<1>7. CASE AgentBoots
  BY <1>7, OStay DEF AgentBoots
<1>8. CASE AgentCrashes
  BY <1>8, OStay DEF AgentCrashes
<1>9. CASE Begin
  <2>1. UNCHANGED <<obj, created, view, res>> /\ cur' = view
    BY <1>9 DEF Begin, Unmoved
  <2>2. view = None => pc' \notin Working
    BY <1>9 DEF Begin, Working
  <2>3. view # None => pc' # "cleanup"
    BY <1>9 DEF Begin
  <2>4. UidsGiven'
    BY <2>1, <2>2 DEF OInv, UidsGiven
  <2>5. Unseen'
    BY <2>1, <2>2 DEF OInv, Unseen, OwnsNothing
  <2>6. CleanupSafe'
    BY <2>1, <2>3 DEF OInv, Unseen, OwnsNothing, CleanupSafe
  <2> QED
    BY <2>4, <2>5, <2>6 DEF OInv
<1>10. CASE BeginFails
  <2>1. UNCHANGED <<obj, created, view, res>> /\ pc' = "idle"
    BY <1>10 DEF BeginFails, Unmoved, Retry, Requeue
  <2> QED
    BY <2>1 DEF OInv, UidsGiven, Unseen, OwnsNothing, CleanupSafe, Working
<1>11. CASE Render
  BY <1>11, OStay DEF Render, Unmoved, Working
<1>12. CASE RenderFails
  BY <1>12, OStay DEF RenderFails, Unmoved, Retry, Requeue, Working
<1>13. ASSUME NEW k \in Kinds, Apply(k) PROVE OInv'
  <2>1. /\ UNCHANGED <<obj, created, view, cur>>
        /\ pc \in Working /\ pc' \in Working
    BY <1>13 DEF Apply, Unmoved, Working
  <2>2. \A j \in Kinds : res'[j] = res[j] \/ res'[j] = cur.uid
    BY <1>13 DEF Apply, OwnerAfterApply, TInv, TypeOK
  <2> QED
    BY <1>t, <2>1, <2>2
    DEF OInv, UidsGiven, Unseen, OwnsNothing, CleanupSafe, Working
<1>14. CASE ApplyFails
  BY <1>14, OStay DEF ApplyFails, Unmoved, Retry, Requeue, Working
<1>15. CASE updateStatus
  <2>1. /\ UNCHANGED <<created, view, res, cur>> /\ pc' = "idle"
        /\ obj' = obj \/ (obj # None /\ obj'.uid = obj.uid)
    BY <1>15 DEF updateStatus, RequeueAfter, Current, Saved
  <2> QED
    BY <2>1 DEF OInv, UidsGiven, Unseen, OwnsNothing, CleanupSafe, Working
<1>16. CASE UpdateStatusFails
  BY <1>16, OStay DEF UpdateStatusFails, Unmoved, Retry, Requeue, Working
<1>17. CASE CleanupDelete
  <2> DEFINE k == NextToDelete
  <2>1. Gone(k) /\ pc = "cleanup" /\ pc' \in {"idle", "cleanup"}
    BY <1>17 DEF CleanupDelete
  <2> HIDE DEF k
  <2> QED
    BY <1>17, <2>1, OGone DEF CleanupDelete, Unmoved, Working
<1>18. CASE CleanupFails
  BY <1>18, OStay DEF CleanupFails, Unmoved, Retry, Requeue, Working
<1>19. CASE Tick
  BY <1>19, OStay DEF Tick, Unmoved
<1>20. CASE Restart
  <2>1. view' = obj /\ pc' = "idle" /\ UNCHANGED <<obj, created, res>>
    BY <1>20 DEF Restart
  <2> QED
    BY <2>1 DEF OInv, UidsGiven, Unseen, OwnsNothing, CleanupSafe, Working
<1>21. CASE UNCHANGED vars
  BY <1>21, OStay DEF vars
<1>22. ASSUME NEW k \in Kinds, Observe(k) PROVE OInv'
  BY <1>22, OStay DEF Observe
<1> QED
  BY <1>1, <1>2, <1>3, <1>4, <1>5, <1>6, <1>7, <1>8, <1>9, <1>10, <1>11, <1>12,
     <1>13, <1>14, <1>15, <1>16, <1>17, <1>18, <1>19, <1>20, <1>21, <1>22
  DEF Next, Reconcile

\* What a step may not do, as NeverDeletesLive says it.
KeepsLive ==
    \A k \in Kinds :
      (k \in todo \ todo' /\ res[k] # 0 /\ res'[k] = 0 /\ obj # None)
        => res[k] # obj.uid

LEMMA StepKeepsLive == TInv /\ OInv /\ [Next]_vars => KeepsLive
<1> SUFFICES ASSUME TInv, OInv, [Next]_vars PROVE KeepsLive
  OBVIOUS
<1>1. ASSUME todo' = todo \/ res' = res PROVE KeepsLive
  BY <1>1 DEF KeepsLive
<1>2. ASSUME NEW k \in Kinds, Apply(k) PROVE KeepsLive
  <2>1. \A j \in Kinds : res[j] # 0 => res'[j] = res[j]
    BY <1>2 DEF Apply, OwnerAfterApply, TInv, TypeOK
  <2> QED
    BY <2>1 DEF KeepsLive
<1>3. CASE CleanupDelete
  BY <1>3 DEF CleanupDelete, KeepsLive, OInv, CleanupSafe, OwnsNothing
<1>4. CASE Begin \/ BeginFails \/ Render \/ RenderFails \/ ApplyFails
             \/ updateStatus \/ UpdateStatusFails \/ CleanupFails
  BY <1>1, <1>4
  DEF Begin, BeginFails, Render, RenderFails, ApplyFails, updateStatus,
      UpdateStatusFails, CleanupFails, Retry
<1>5. CASE Delete \/ \E m \in Manifests : Create(m) \/ Update(m)
  BY <1>1, <1>5 DEF Delete, Create, Update, UserStep
<1>6. CASE Deliver \/ AgentBoots \/ AgentCrashes \/ Tick \/ Restart
             \/ \E k \in Kinds : Observe(k) \/ GarbageCollect(k) \/ ResourceDeleted(k)
  BY <1>1, <1>6
  DEF Deliver, Observe, AgentBoots, AgentCrashes, Tick, Restart, GarbageCollect,
      ResourceDeleted
<1>7. CASE UNCHANGED vars
  BY <1>1, <1>7 DEF vars
<1> QED
  BY <1>2, <1>3, <1>4, <1>5, <1>6, <1>7 DEF Next, Reconcile

\* cleanupResources never deletes a resource of the ClusterAgent that exists,
\* however far the informer cache lags behind a deletion and a creation of the
\* same name.
THEOREM LiveResourcesStay == Spec => NeverDeletesLive
<1>1. TInv /\ OInv /\ [Next]_vars =>
        [\A k \in Kinds :
          (k \in todo \ todo' /\ res[k] # 0 /\ res'[k] = 0 /\ obj # None)
            => res[k] # obj.uid]_vars
  BY StepKeepsLive DEF KeepsLive
<1> QED
  BY <1>1, TInit, TNext, OInit, ONext, PTL DEF Spec, NeverDeletesLive

-----------------------------------------------------------------------------
(* What r.cache remembers.                                                 *)

HasResources == \E k \in Kinds : res[k] # 0

\* Resources without an entry are about to get one, or are being deleted.
Remembered == HasResources => cache # None \/ forgot \/ pc \in {"apply", "cleanup"}

\* What cleanup has handled is gone.
Deleted == pc = "cleanup" => \A k \in Kinds \ todo : res[k] = 0

CInv == Remembered /\ Deleted

LEMMA CInit == Init => CInv
  BY DEF Init, CInv, Remembered, HasResources, Deleted

LEMMA CGone ==
    ASSUME TInv, CInv, NEW k, Gone(k), UNCHANGED <<cache, forgot, pc, todo>>
    PROVE  CInv'
  BY GoneOwner DEF CInv, Remembered, HasResources, Deleted

\* A step that leaves the resources, the cache and the request alone.
LEMMA CStay ==
    ASSUME CInv, UNCHANGED <<res, cache, forgot, pc, todo>>
    PROVE  CInv'
  BY DEF CInv, Remembered, HasResources, Deleted

\* A step of Reconcile that leaves the resources and does not enter cleanup.
LEMMA CMove ==
    ASSUME res' = res, pc' # "cleanup",
           HasResources => cache' # None \/ forgot' \/ pc' = "apply"
    PROVE  CInv'
  BY DEF CInv, Remembered, HasResources, Deleted

LEMMA CNext == TInv /\ CInv /\ [Next]_vars => CInv'
<1> SUFFICES ASSUME TInv, CInv, [Next]_vars PROVE CInv'
  OBVIOUS
<1>1. CASE Delete \/ \E m \in Manifests : Create(m) \/ Update(m)
  BY <1>1, CStay DEF Delete, Create, Update, UserStep
<1>2. CASE Deliver \/ AgentBoots \/ AgentCrashes \/ Tick
  BY <1>2, CStay DEF Deliver, AgentBoots, AgentCrashes, Tick
<1>2a. ASSUME NEW k \in Kinds, Observe(k) PROVE CInv'
  BY <1>2a, CStay DEF Observe
<1>3. ASSUME NEW k \in Kinds, GarbageCollect(k) \/ ResourceDeleted(k) PROVE CInv'
  BY <1>3, CGone DEF GarbageCollect, ResourceDeleted
<1>4. CASE Begin
  <2>1. CASE view = None /\ cache # None
    BY <1>4, <2>1 DEF Begin, CInv, Remembered, Deleted
  <2>2. CASE ~(view = None /\ cache # None)
    BY <1>4, <2>2, CMove DEF Begin, CInv, Remembered
  <2> QED
    BY <2>1, <2>2
<1>5. CASE BeginFails
  BY <1>5, CMove DEF BeginFails, Retry, Requeue, CInv, Remembered
<1>6. CASE Render \/ RenderFails
  BY <1>6, CMove DEF Render, RenderFails, Retry, Requeue, CInv, Remembered
<1>7. ASSUME NEW k \in Kinds, Apply(k) PROVE CInv'
  <2>1. cur.spec # None
    BY <1>7, ClusterAgentAssumption DEF Apply, TInv, Busy, Working, Object
  <2>2. (pc' = "apply") \/ (pc' = "status" /\ cache' = cur.spec)
    <3>1. CASE todo = {k}
      BY <1>7, <3>1 DEF Apply
    <3>2. CASE todo # {k}
      BY <1>7, <3>2 DEF Apply
    <3> QED
      BY <3>1, <3>2
  <2> QED
    BY <2>1, <2>2 DEF CInv, Remembered, Deleted
<1>8. CASE ApplyFails
  BY <1>8, CMove DEF ApplyFails, Retry, Requeue
<1>9. CASE updateStatus
  BY <1>9, CMove DEF updateStatus, RequeueAfter, CInv, Remembered
<1>10. CASE UpdateStatusFails
  BY <1>10, CMove DEF UpdateStatusFails, Retry, Requeue, CInv, Remembered
<1>11. CASE CleanupDelete
  <2> DEFINE k == NextToDelete
  <2>1. /\ pc = "cleanup" /\ todo' = todo \ {k}
        /\ pc' = IF todo = {k} THEN "idle" ELSE pc
        /\ Gone(k)
    BY <1>11 DEF CleanupDelete
  <2> HIDE DEF k
  <2>2. \A j \in Kinds \ todo' : res'[j] = 0
    BY <2>1 DEF Gone, CInv, Deleted, TInv, TypeOK
  <2>3. Deleted'
    BY <2>2 DEF Deleted
  <2>4. Remembered'
    BY <2>1, <2>2 DEF Remembered, HasResources
  <2> QED
    BY <2>3, <2>4 DEF CInv
<1>12. CASE CleanupFails
  BY <1>12, CMove DEF CleanupFails, Retry, Requeue
<1>13. CASE Restart
  BY <1>13, CMove DEF Restart
<1>14. CASE UNCHANGED vars
  BY <1>14, CStay DEF vars
<1> QED
  BY <1>1, <1>2, <1>3, <1>4, <1>5, <1>6, <1>7, <1>8, <1>9, <1>10, <1>11, <1>12,
     <1>13, <1>14, <1>2a
  DEF Next, Reconcile

\* Between two requests r.cache holds every ClusterAgent that has resources,
\* unless a failed call or a restart made it forget: what cleanupResources can
\* miss is exactly what the owner references are left to clean.
THEOREM CacheIsComplete == Spec => []CacheRemembers
<1>1. CInv => CacheRemembers
  BY DEF CInv, Remembered, HasResources, CacheRemembers
<1> QED
  BY <1>1, TInit, TNext, CInit, CNext, PTL DEF Spec

-----------------------------------------------------------------------------
(* No wake-up is lost.  The invariant speaks of the informer cache: it is  *)
(* the watch that makes requests, and only Begin takes one.                *)

InWork == pc \in {"render", "apply", "status"}

\* A known ClusterAgent is in work or has a request to come; one that is gone
\* has a request queued, unless r.cache has forgotten it and nothing is in work
\* that could store it again.
Watchful ==
    /\ view # None => queued \/ timer \/ InWork
    /\ view = None => queued \/ (cache = None /\ ~InWork)

\* A step that leaves view, the cache and the request alone takes no request
\* from the queue.
LEMMA WStay ==
    ASSUME Watchful, UNCHANGED <<view, cache, timer, pc>>, queued => queued'
    PROVE  Watchful'
  BY DEF Watchful, InWork

\* A step that queues a request.
LEMMA WQueue ==
    ASSUME queued' = TRUE
    PROVE  Watchful'
  BY DEF Watchful

LEMMA WNext == Watchful /\ [Next]_vars => Watchful'
<1> SUFFICES ASSUME Watchful, [Next]_vars PROVE Watchful'
  OBVIOUS
<1>1. CASE Delete \/ \E m \in Manifests : Create(m) \/ Update(m)
  BY <1>1, WStay DEF Delete, Create, Update, UserStep
<1>2. CASE Deliver \/ Tick
  BY <1>2, WQueue DEF Deliver, Tick
<1>3. CASE \/ AgentBoots \/ AgentCrashes
           \/ \E k \in Kinds : GarbageCollect(k) \/ ResourceDeleted(k)
  BY <1>3, WStay DEF AgentBoots, AgentCrashes, GarbageCollect, ResourceDeleted
<1>12. ASSUME NEW k \in Kinds, Observe(k) PROVE Watchful'
  <2>1. CASE k = "deployment"
    BY <1>12, <2>1, WQueue DEF Observe
  <2>2. CASE k # "deployment"
    BY <1>12, <2>2, WStay DEF Observe
  <2> QED
    BY <2>1, <2>2
<1>4. CASE Begin
  BY <1>4 DEF Begin, Unmoved, Watchful, InWork
<1>5. CASE BeginFails \/ RenderFails \/ ApplyFails \/ UpdateStatusFails \/ CleanupFails
  BY <1>5, WQueue DEF BeginFails, RenderFails, ApplyFails, UpdateStatusFails,
                      CleanupFails, Retry, Requeue
<1>6. CASE Render
  BY <1>6 DEF Render, Unmoved, Watchful, InWork
<1>7. ASSUME NEW k \in Kinds, Apply(k) PROVE Watchful'
  <2>1. /\ pc = "apply" /\ pc' \in {"apply", "status"} /\ UNCHANGED <<view, timer>>
        /\ queued => queued'
    BY <1>7 DEF Apply, Unmoved
  <2> QED
    BY <2>1 DEF Watchful, InWork
<1>8. CASE updateStatus
  BY <1>8 DEF updateStatus, RequeueAfter, Watchful, InWork
<1>9. CASE CleanupDelete
  <2>1. queued => queued'
    BY <1>9 DEF CleanupDelete
  <2>2. UNCHANGED <<view, cache, timer>> /\ pc = "cleanup" /\ pc' \in {"cleanup", "idle"}
    BY <1>9 DEF CleanupDelete, Unmoved
  <2> QED
    BY <2>1, <2>2 DEF Watchful, InWork
<1>10. CASE Restart
  BY <1>10 DEF Restart, Watchful, InWork
<1>11. CASE UNCHANGED vars
  BY <1>11, WStay DEF vars
<1> QED
  BY <1>1, <1>2, <1>3, <1>4, <1>5, <1>6, <1>7, <1>8, <1>9, <1>10, <1>11, <1>12
  DEF Next, Reconcile

\* Whatever is created, deleted or edited while Reconcile runs, fails or the
\* controller restarts, the controller will look at the ClusterAgent again.
THEOREM NeverAsleep == Spec => []NoLostWakeUp
<1>1. Init => Watchful
  BY DEF Init, Watchful, InWork
<1>2. Watchful => NoLostWakeUp
  BY DEF Watchful, InWork, NoLostWakeUp
<1> QED
  BY <1>1, <1>2, WNext, PTL DEF Spec
=============================================================================

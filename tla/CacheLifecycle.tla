--------------------------- MODULE CacheLifecycle ---------------------------
(***************************************************************************)
(* The life of one VinylCache (internal/controller): the reconcile passes  *)
(* that create and update its objects one after the other, the debounce    *)
(* before the VCL is rolled out, the finalizer and the deletion handler,   *)
(* and around them users who edit, pause, delete and recreate the cache,   *)
(* the API server's garbage collector and admission webhook, endpoint      *)
(* events, failing API calls and restarts of the operator, also as another *)
(* release with another runtime catalog and other rules in its webhook.    *)
(*                                                                         *)
(* A pass works on the copy of the cache it read at its start; an update   *)
(* of the cache conflicts when the cache has changed since.  What an       *)
(* object says is reduced to what can go stale: the version in the         *)
(* StatefulSet, the operator's address in the slice and in the policies    *)
(* that admit it.  VclConvergence details the rollout.                     *)
(***************************************************************************)
EXTENDS Integers, Sequences

CONSTANTS
    Specs,      \* records [version, features, paused]
    Releases,   \* the operator's: records [versions, refuses], the versions of
                \* the runtime catalog and the specs ValidateVinylCache refuses
    Window,     \* spec.debounce, in ticks
    MaxLives,   \* how often the cache is created
    MaxChanges  \* bound on the edits, endpoint events, restarts and faults

ASSUME LifecycleAssumption ==
    /\ {Window, MaxLives, MaxChanges} \subseteq Nat
    /\ Specs # {}
    /\ \A s \in Specs : s.version \in Nat /\ s.paused \in BOOLEAN
    /\ \A r \in Releases : r.versions \subseteq Nat /\ r.refuses \subseteq Specs

VARIABLES
    vc,         \* the VinylCache; uid 0 when there is none
    obj,        \* obj[k]: the object of kind k
    seen,       \* the slice is in the operator's informer cache
    leaked,     \* a deletion listed the slices before the informer had it
    published,  \* the proxy has a route and a pod map entry
    dirty,      \* the cache is in the work queue, or a timer will put it there
    touched,    \* ticks since the last endpoint event, -1 when none is noted
    eps,        \* the state of the backends' endpoints
    pushed,     \* the state the last rollout read
    pass,       \* the running pass
    op,         \* the operator's pod, as its address
    release,    \* the release it runs
    lives, changes

vars == <<vc, obj, seen, leaked, published, dirty, touched, eps, pushed,
          pass, op, release, lives, changes>>

\* The objects in the order a pass takes them.  The headless and the traffic
\* Service are one here, so are ServiceMonitor and PrometheusRule, the three
\* policies every cache has, and those of the exporter and the tracer.
Plan == <<"statefulset", "services", "invalidation", "monitoring", "slice",
          "policies", "sidecar policies", "secret", "configmap">>

KindNames == {Plan[i] : i \in 1..Len(Plan)}

\* The monitoring objects and the policies of sidecars follow the spec.
Wanted(s, k) == k \in {"monitoring", "sidecar policies"} => k \in s.features

NoObject == [owner |-> -1, says |-> 0]

Exists(k) == obj[k] # NoObject

NoCache == [uid |-> 0, fin |-> FALSE, deleting |-> FALSE,
            spec |-> CHOOSE s \in Specs : TRUE, resolved |-> "unknown"]

Present == vc.uid # 0

Idle == [pc |-> "idle", i |-> 0, vc |-> NoCache]

CacheStates ==
    [uid : 0..MaxLives, fin : BOOLEAN, deleting : BOOLEAN, spec : Specs,
     resolved : {"unknown", "yes", "no"}]

LifecycleTypeOK ==
    /\ vc \in CacheStates
    /\ obj \in [KindNames -> [owner : -1..MaxLives, says : Nat]]
    /\ {seen, leaked, published, dirty} \subseteq BOOLEAN
    /\ touched \in -1..Window
    /\ eps \in 0..MaxChanges /\ pushed \in -1..MaxChanges
    /\ pass \in [pc : {"idle", "finalizer", "runtime", "apply", "debounce", "publish",
                       "rollout", "slices", "unregister", "release"},
                 i : 0..Len(Plan) + 1, vc : CacheStates]
    /\ pass.vc.deleting <=> pass.pc \in {"slices", "unregister", "release"}
    /\ op \in 0..MaxChanges
    /\ release \in Releases
    /\ lives \in 0..MaxLives /\ changes \in 0..MaxChanges

LifecycleInit ==
    /\ vc = NoCache
    /\ obj = [k \in KindNames |-> NoObject]
    /\ seen = FALSE /\ leaked = FALSE /\ published = FALSE
    /\ dirty = FALSE
    /\ touched = -1 /\ eps = 0 /\ pushed = -1
    /\ pass = Idle
    /\ op = 0
    /\ release \in Releases
    /\ lives = 0 /\ changes = 0

operatorVars == <<op, release>>
endpointVars == <<touched, eps, pushed>>

-----------------------------------------------------------------------------
(* The API server.                                                         *)

Change == changes < MaxChanges /\ changes' = changes + 1

\* Mutation: the catalog is asked on every update.
RuntimeAlwaysChecked(old, new) == new.version \in release.versions

\* The webhook's ValidateRuntime: an update that leaves the runtime alone is
\* admitted even when the catalog no longer has it.
RuntimeAdmitted(old, new) ==
    new.version = old.version \/ new.version \in release.versions

\* The webhook's ValidateUpdate, which every update of the cache but one of its
\* status passes: all rules, also those the stored spec is older than.
UpdateAdmitted(old, new) == new \notin release.refuses /\ RuntimeAdmitted(old, new)

Create ==
    /\ ~Present
    /\ lives < MaxLives
    /\ lives' = lives + 1
    /\ \E s \in Specs :
        /\ s.version \in release.versions /\ s \notin release.refuses
        /\ vc' = [NoCache EXCEPT !.uid = lives + 1, !.spec = s]
    /\ dirty' = TRUE
    /\ UNCHANGED <<obj, seen, leaked, published, endpointVars, pass,
                   operatorVars, changes>>

Edit ==
    /\ Present
    /\ Change
    /\ \E s \in Specs \ {vc.spec} :
        /\ UpdateAdmitted(vc.spec, s)
        /\ vc' = [vc EXCEPT !.spec = s]
    /\ dirty' = TRUE
    /\ UNCHANGED <<obj, seen, leaked, published, endpointVars, pass,
                   operatorVars, lives>>

\* The object stays while it has the finalizer.
Delete ==
    /\ Present /\ ~vc.deleting
    /\ vc' = IF vc.fin THEN [vc EXCEPT !.deleting = TRUE] ELSE NoCache
    /\ dirty' = TRUE
    /\ UNCHANGED <<obj, seen, leaked, published, endpointVars, pass,
                   operatorVars, lives, changes>>

Orphaned(k) == obj[k].owner \notin {-1, 0, vc.uid}

\* The garbage collector removes what belonged to a cache that is gone.
CollectGarbage ==
    /\ \E k \in KindNames : Orphaned(k)
    /\ obj' = [k \in KindNames |-> IF Orphaned(k) THEN NoObject ELSE obj[k]]
    /\ UNCHANGED <<vc, seen, leaked, published, dirty, endpointVars, pass,
                   operatorVars, lives, changes>>

InformerSees ==
    /\ seen # Exists("slice")
    /\ seen' = Exists("slice")
    /\ UNCHANGED <<vc, obj, leaked, published, dirty, endpointVars, pass,
                   operatorVars, lives, changes>>

-----------------------------------------------------------------------------
(* The work queue.                                                         *)

\* The pass ends with an error, which puts the cache back into the queue, or
\* asks to be requeued in a while.
EndsRequeued ==
    /\ pass' = Idle
    /\ dirty' = TRUE

GoesOn(pc, i) ==
    /\ pass' = [pass EXCEPT !.pc = pc, !.i = i]
    /\ UNCHANGED dirty

FirstStep == IF vc.deleting THEN "slices" ELSE "finalizer"

\* Reconcile reads the cache; one that is gone needs nothing.
Begin ==
    /\ pass.pc = "idle" /\ dirty
    /\ dirty' = FALSE
    /\ pass' = IF ~Present \/ (vc.deleting /\ ~vc.fin) THEN Idle
               ELSE [pc |-> FirstStep, i |-> 0, vc |-> vc]
    /\ UNCHANGED <<vc, obj, seen, leaked, published, endpointVars,
                   operatorVars, lives, changes>>

\* A call to the API server fails and the pass with it.
CallFails ==
    /\ pass.pc \notin {"idle", "debounce", "unregister"}
    /\ Change
    /\ EndsRequeued
    /\ UNCHANGED <<vc, obj, seen, leaked, published, endpointVars, operatorVars, lives>>

Resolved ==
    [pass.vc EXCEPT !.resolved =
        IF pass.vc.spec.version \in release.versions THEN "yes" ELSE "no"]

\* The pass is about to add or to remove the finalizer.
UpdatesCache == pass.pc = "release" \/ (pass.pc = "finalizer" /\ ~pass.vc.fin)

UpdatesStatus == pass.pc = "runtime" /\ Resolved # pass.vc

\* The update of a copy that is no longer current, or one the webhook refuses.
UpdateFails ==
    /\ \/ (UpdatesCache \/ UpdatesStatus) /\ vc # pass.vc
       \/ UpdatesCache /\ vc = pass.vc /\ ~UpdateAdmitted(vc.spec, vc.spec)
    /\ EndsRequeued
    /\ UNCHANGED <<vc, obj, seen, leaked, published, endpointVars, operatorVars, lives, changes>>

-----------------------------------------------------------------------------
(* A pass.                                                                 *)

\* ensureFinalizer, then the pause annotation.
EnsureFinalizer ==
    LET c == [pass.vc EXCEPT !.fin = TRUE]
    IN  /\ pass.pc = "finalizer"
        /\ pass.vc.fin \/ (vc = pass.vc /\ UpdateAdmitted(vc.spec, vc.spec))
        /\ vc' = IF pass.vc.fin THEN vc ELSE c
        /\ IF c.spec.paused
           THEN EndsRequeued
           ELSE /\ pass' = [pc |-> "runtime", i |-> 0, vc |-> c]
                /\ UNCHANGED dirty
        /\ UNCHANGED <<obj, seen, leaked, published, endpointVars, operatorVars, lives, changes>>

\* resolveRuntime: the condition is written when it changes.  A version that
\* is not in the catalog leaves the StatefulSet alone.
ResolveRuntime ==
    /\ pass.pc = "runtime"
    /\ Resolved = pass.vc \/ vc = pass.vc
    /\ vc' = IF Resolved = pass.vc THEN vc ELSE Resolved
    /\ pass' = [pc |-> "apply", i |-> IF Resolved.resolved = "yes" THEN 1 ELSE 2, vc |-> Resolved]
    /\ UNCHANGED <<obj, seen, leaked, published, dirty, endpointVars,
                   operatorVars, lives, changes>>

Owned(says) == [owner |-> pass.vc.uid, says |-> says]

\* Created without an owner reference.
Unowned(says) == [owner |-> 0, says |-> says]

\* Mutation: the Secret belongs to the cache that created it.
OwnedSecret == IF Exists("secret") THEN obj["secret"] ELSE Owned(lives)

\* reconcileSecret: a token once drawn is never replaced.
AgentSecret == IF Exists("secret") THEN obj["secret"] ELSE Unowned(lives)

EndpointSlice == Unowned(op)

\* What a pass makes of the object of kind k.
Desired(k) ==
    CASE k = "statefulset" -> Owned(pass.vc.spec.version)
      [] k = "policies" -> Owned(op)
      [] k = "slice" -> EndpointSlice
      [] k = "secret" -> AgentSecret
      [] k = "invalidation" -> Unowned(0)
      [] OTHER -> Owned(0)

\* CreateOrUpdate: an object with another controller is refused, also that of
\* an earlier cache of this name (applyOwned overwrites it); a slice the
\* informer has not seen is created again, and refused.
Refused(k) ==
    \/ /\ Exists(k) /\ k # "monitoring"
       /\ obj[k].owner \notin {0, Desired(k).owner}
    \/ k = "slice" /\ Exists(k) /\ ~seen

\* Mutation: objects are created, never updated.
CreatedOnly(k) == IF Exists(k) THEN obj ELSE [obj EXCEPT ![k] = Desired(k)]

\* The policies of a sidecar that was switched off are deleted; the monitoring
\* objects are left.
Applied(k) ==
    CASE Wanted(pass.vc.spec, k) -> [obj EXCEPT ![k] = Desired(k)]
      [] k = "sidecar policies" /\ ~Wanted(pass.vc.spec, k) -> [obj EXCEPT ![k] = NoObject]
      [] OTHER -> obj

\* The informer has a new slice at once or, as a fault, later.
Noticed == (seen' = TRUE /\ UNCHANGED changes) \/ (Change /\ UNCHANGED seen)

Apply ==
    /\ pass.pc = "apply" /\ pass.i <= Len(Plan)
    /\ LET k == Plan[pass.i]
       IN  IF Refused(k) /\ Wanted(pass.vc.spec, k)
           THEN EndsRequeued /\ UNCHANGED <<obj, seen, changes>>
           ELSE /\ obj' = Applied(k)
                /\ IF k = "slice" /\ ~Exists(k) THEN Noticed ELSE UNCHANGED <<seen, changes>>
                /\ GoesOn("apply", pass.i + 1)
    /\ UNCHANGED <<vc, leaked, published, endpointVars, operatorVars, lives>>

EndApply ==
    /\ pass.pc = "apply" /\ pass.i > Len(Plan)
    /\ GoesOn("debounce", 0)
    /\ UNCHANGED <<vc, obj, seen, leaked, published, endpointVars, operatorVars, lives, changes>>

\* Mutation: every look at the window starts it again.
WindowRestarted == IF touched = -1 THEN -1 ELSE 0

\* debouncer.remaining.
WindowNoted == IF touched = -1 \/ touched >= Window THEN -1 ELSE touched

Debounce ==
    /\ pass.pc = "debounce"
    /\ touched' = WindowNoted
    /\ IF touched' = -1 THEN GoesOn("publish", 0) ELSE EndsRequeued
    /\ UNCHANGED <<vc, obj, seen, leaked, published, eps, pushed, operatorVars, lives, changes>>

\* collectPeers and updateProxy.
UpdateProxy ==
    /\ pass.pc = "publish"
    /\ published' = TRUE
    /\ GoesOn("rollout", 0)
    /\ UNCHANGED <<vc, obj, seen, leaked, endpointVars, operatorVars, lives, changes>>

\* Endpoints, generator, pushes and status; the next pass is due in 5 minutes.
Rollout ==
    /\ pass.pc = "rollout"
    /\ pushed' = eps
    /\ EndsRequeued
    /\ UNCHANGED <<vc, obj, seen, leaked, published, touched, eps, operatorVars, lives, changes>>

-----------------------------------------------------------------------------
(* handleDeletion.                                                         *)

\* Mutation: the finalizer is removed whatever became of the slices.
SlicesKept == obj

SlicesDeleted == IF seen THEN [obj EXCEPT !["slice"] = NoObject] ELSE obj

\* deleteInvalidationEndpointSlices lists through the informer.
DeleteSlices ==
    /\ pass.pc = "slices"
    /\ obj' = SlicesDeleted
    /\ seen' = FALSE
    /\ leaked' = (leaked \/ (Exists("slice") /\ ~seen))
    /\ GoesOn("unregister", 0)
    /\ UNCHANGED <<vc, published, endpointVars, operatorVars, lives, changes>>

Unregister ==
    /\ pass.pc = "unregister"
    /\ published' = FALSE
    /\ GoesOn("release", 0)
    /\ UNCHANGED <<vc, obj, seen, leaked, endpointVars, operatorVars, lives, changes>>

\* The finalizer goes, and with it the object; its deletion is an event.
RemoveFinalizer ==
    /\ pass.pc = "release"
    /\ vc = pass.vc
    /\ UpdateAdmitted(vc.spec, vc.spec)
    /\ vc' = NoCache
    /\ EndsRequeued
    /\ UNCHANGED <<obj, seen, leaked, published, endpointVars, operatorVars, lives, changes>>

-----------------------------------------------------------------------------
(* Events, time and restarts.                                              *)

\* endpointSliceToVinylCache.
EndpointEvent ==
    /\ Change
    /\ eps' = eps + 1
    /\ IF Present THEN touched' = 0 /\ dirty' = TRUE ELSE UNCHANGED <<touched, dirty>>
    /\ UNCHANGED <<vc, obj, seen, leaked, published, pushed, pass, operatorVars, lives>>

Tick ==
    /\ touched \in 0..Window - 1
    /\ touched' = touched + 1
    /\ UNCHANGED <<vc, obj, seen, leaked, published, dirty, eps, pushed, pass,
                   operatorVars, lives, changes>>

\* The new pod has its own address, a fresh informer and no memory.
OperatorRestart ==
    /\ Change
    /\ op' = op + 1
    /\ release' \in Releases
    /\ pass' = Idle
    /\ published' = FALSE
    /\ touched' = -1
    /\ dirty' = Present
    /\ seen' = Exists("slice")
    /\ UNCHANGED <<vc, obj, leaked, eps, pushed, lives>>

-----------------------------------------------------------------------------
PassStep ==
    \/ Begin \/ UpdateFails \/ EnsureFinalizer \/ ResolveRuntime \/ Apply \/ EndApply
    \/ Debounce \/ UpdateProxy \/ Rollout
    \/ DeleteSlices \/ Unregister \/ RemoveFinalizer

LifecycleNext ==
    \/ PassStep \/ CallFails \/ Tick \/ InformerSees
    \/ Create \/ Edit \/ Delete \/ EndpointEvent \/ OperatorRestart \/ CollectGarbage

\* The worker runs, time passes, the informer and the garbage
\* collector catch up.
LifecycleFairness ==
    /\ WF_vars(PassStep) /\ WF_vars(Tick) /\ WF_vars(InformerSees)
    /\ WF_vars(CollectGarbage)

LifecycleSpec == LifecycleInit /\ [][LifecycleNext]_vars

FairLifecycleSpec == LifecycleSpec /\ LifecycleFairness

-----------------------------------------------------------------------------
(* Properties.                                                             *)

\* What no owner reference covers and the deletion handler cleans up, the
\* slice, the route and the pod map entry, exists only under the finalizer's
\* protection, whichever call fails and whenever the cache is deleted
\* (handleDeletion, ensureFinalizer); the exception is a slice younger than
\* the informer's view at its deletion.
FinalizerGuards == published \/ (Exists("slice") /\ ~leaked) => Present /\ vc.fin

\* The namespace's agent token never changes once it exists, also when the
\* cache that created it is deleted and recreated: running agents keep the one
\* they started with (reconcileSecret).
TokenStable == [][Exists("secret") => obj'["secret"] = obj["secret"]]_vars

\* A VCL is pushed only when the policy at the agents admits this operator's
\* own address and the token exists: after a restart with another address and
\* after a recreation too (the order of Reconcile).
PushAdmitted ==
    pass.pc \in {"debounce", "publish", "rollout"} =>
        /\ obj["policies"] = [owner |-> vc.uid, says |-> op]
        /\ Exists("secret")

\* The webhook that runs now refuses what is stored.
OutlivedByRules == vc.spec \in release.refuses

\* Once users and the cluster are quiet a deleted cache is gone, also when its
\* version left the catalog in the meantime (ValidateRuntime admits updates that
\* leave the runtime alone).  Only a spec that a rule younger than itself refuses
\* keeps it: removing the finalizer is an update like any other.
DeletionCompletes == <>[](Present /\ vc.deleting => OutlivedByRules)

Current(k) ==
    IF Wanted(vc.spec, k)
    THEN /\ obj[k].owner = IF k \in {"invalidation", "slice", "secret"} THEN 0 ELSE vc.uid
         /\ k \in {"slice", "policies"} => obj[k].says = op
         /\ k = "statefulset" => obj[k].says = vc.spec.version
    ELSE k = "sidecar policies" => ~Exists(k)

\* Once users and the cluster are quiet, a cache that is not paused has every
\* object its spec asks for, with this operator's address and the version
\* asked for, is known to the proxy and runs the VCL of the current endpoints:
\* neither failures, restarts, leftovers of an earlier cache nor the debounce
\* window keep it from that (Reconcile).  The version waits for the catalog, and
\* a cache that a younger rule refuses must have its finalizer already.
Settles ==
    <>[](Present /\ ~vc.deleting /\ ~vc.spec.paused /\ (OutlivedByRules => vc.fin) =>
            /\ published /\ pushed = eps
            /\ \A k \in KindNames :
                (k = "statefulset" => vc.spec.version \in release.versions) => Current(k))

\* What is created without an owner reference and "cleaned up by finalizer" is
\* gone when the cache is (reconcileInvalidationService, handleDeletion).
FinalizerCleansUp == Present \/ ~Exists("invalidation")

=============================================================================

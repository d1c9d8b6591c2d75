------------------------ MODULE CacheLifecycleProofs ------------------------
(***************************************************************************)
(* Theorems about CacheLifecycle, for any specs, releases, debounce window *)
(* and number of lives and changes.                                        *)
(***************************************************************************)
EXTENDS CacheLifecycle, TLAPS

Passes == [pc : {"idle", "finalizer", "runtime", "apply", "debounce", "publish",
                 "rollout", "slices", "unregister", "release"},
           i : 0..Len(Plan) + 1, vc : CacheStates]

Objects == [owner : -1..MaxLives, says : Nat]

\* The plan, spelled out where a proof needs it.
LEMMA PlanFacts ==
    /\ Len(Plan) = 9
    /\ \A i \in 1..9 : Plan[i] \in KindNames
    /\ Plan[6] = "policies" /\ Plan[8] = "secret"
    /\ {"slice", "policies", "secret"} \subseteq KindNames
    /\ \A i \in 1..9 : Plan[i] = "secret" => i = 8
    /\ \A i \in 1..9 : Plan[i] = "policies" => i = 6
<1>1. Len(Plan) = 9 BY DEF Plan
<1>2. /\ Plan[1] = "statefulset" /\ Plan[2] = "services" /\ Plan[3] = "invalidation"
      /\ Plan[4] = "monitoring" /\ Plan[5] = "slice" /\ Plan[6] = "policies"
      /\ Plan[7] = "sidecar policies" /\ Plan[8] = "secret" /\ Plan[9] = "configmap"
    BY DEF Plan
<1>3. \A i \in 1..9 : i = 1 \/ i = 2 \/ i = 3 \/ i = 4 \/ i = 5 \/ i = 6 \/ i = 7 \/ i = 8 \/ i = 9
    OBVIOUS
<1>4. \A i \in 1..9 : Plan[i] \in KindNames BY <1>1 DEF KindNames
<1>5. \A i \in 1..9 : Plan[i] = "secret" => i = 8 BY <1>2, <1>3
<1>6. \A i \in 1..9 : Plan[i] = "policies" => i = 6 BY <1>2, <1>3
<1>7. {"slice", "policies", "secret"} \subseteq KindNames
    <2>1. Plan[5] \in KindNames /\ Plan[6] \in KindNames /\ Plan[8] \in KindNames BY <1>4
    <2> QED BY <2>1, <1>2
<1> QED BY <1>1, <1>2, <1>4, <1>5, <1>6, <1>7

LEMMA NoCacheType == NoCache \in CacheStates /\ Idle \in Passes
<1>1. (CHOOSE s \in Specs : TRUE) \in Specs BY LifecycleAssumption DEF LifecycleAssumption
<1>2. NoCache \in CacheStates
    BY <1>1, LifecycleAssumption DEF NoCache, CacheStates, LifecycleAssumption
<1> QED BY <1>2, PlanFacts DEF Idle, Passes

\* The type invariant, with the two counters that the budget of changes bounds.
TypeInv ==
    /\ vc \in CacheStates
    /\ obj \in [KindNames -> Objects]
    /\ seen \in BOOLEAN /\ leaked \in BOOLEAN /\ published \in BOOLEAN /\ dirty \in BOOLEAN
    /\ touched \in -1..Window
    /\ eps \in Nat /\ pushed \in -1..MaxChanges
    /\ pass \in Passes
    /\ pass.vc.deleting <=> pass.pc \in {"slices", "unregister", "release"}
    /\ pass.pc = "apply" => pass.i >= 1
    /\ op \in Nat
    /\ release \in Releases
    /\ lives \in 0..MaxLives /\ changes \in 0..MaxChanges
    /\ eps <= changes /\ op <= changes

LEMMA TypeInvImplies == TypeInv => LifecycleTypeOK
BY LifecycleAssumption DEF TypeInv, LifecycleTypeOK, LifecycleAssumption, Objects, Passes

LEMMA TypeInvInit == LifecycleInit => TypeInv
<1> SUFFICES ASSUME LifecycleInit PROVE TypeInv OBVIOUS
<1>a. {Window, MaxLives, MaxChanges} \subseteq Nat
    BY LifecycleAssumption DEF LifecycleAssumption
<1>1. vc \in CacheStates /\ pass \in Passes BY NoCacheType DEF LifecycleInit
<1>2. obj \in [KindNames -> Objects] BY <1>a DEF LifecycleInit, Objects, NoObject
<1>3. pass.pc = "idle" /\ ~pass.vc.deleting BY DEF LifecycleInit, Idle, NoCache
<1>4. seen \in BOOLEAN /\ leaked \in BOOLEAN /\ published \in BOOLEAN /\ dirty \in BOOLEAN
    BY DEF LifecycleInit
<1> QED BY <1>a, <1>1, <1>2, <1>3, <1>4 DEF LifecycleInit, TypeInv

\* What a pass makes of an object is an object.
LEMMA AppliedType ==
    ASSUME TypeInv, pass.pc = "apply", NEW k \in KindNames
    PROVE  /\ Desired(k) \in Objects
           /\ Applied(k) \in [KindNames -> Objects]
<1>0. NoObject \in Objects BY LifecycleAssumption DEF NoObject, Objects, LifecycleAssumption
<1>1. /\ pass.vc.uid \in -1..MaxLives /\ 0 \in -1..MaxLives
      /\ op \in Nat /\ lives \in Nat /\ pass.vc.spec.version \in Nat
    BY LifecycleAssumption DEF TypeInv, Passes, CacheStates, LifecycleAssumption
<1>2. \A n \in Nat : Owned(n) \in Objects /\ Unowned(n) \in Objects
    BY <1>1 DEF Owned, Unowned, Objects
<1>3. AgentSecret \in Objects BY <1>1, <1>2, PlanFacts DEF AgentSecret, TypeInv
<1>4. Desired(k) \in Objects BY <1>1, <1>2, <1>3 DEF Desired, EndpointSlice
<1> QED BY <1>0, <1>4 DEF Applied, TypeInv

\* Every step keeps the types.
LEMMA TypeInvStep == TypeInv /\ [LifecycleNext]_vars => TypeInv'
<1> SUFFICES ASSUME TypeInv, [LifecycleNext]_vars PROVE TypeInv'
    OBVIOUS
<1> USE DEF TypeInv
<1>a. {Window, MaxLives, MaxChanges} \subseteq Nat
    BY LifecycleAssumption DEF LifecycleAssumption
<1>b. \A k \in KindNames : Exists(k) \in BOOLEAN BY DEF Exists
<1>c. NoObject \in Objects BY <1>a DEF NoObject, Objects
<1>d. ASSUME EndsRequeued
      PROVE  /\ pass' \in Passes /\ dirty' \in BOOLEAN
             /\ ~pass'.vc.deleting /\ pass'.pc = "idle"
    BY <1>d, NoCacheType DEF EndsRequeued, Idle, NoCache
<1>e. ASSUME NEW pc \in {"apply", "debounce", "publish", "rollout", "unregister", "release"},
             NEW i \in 0..Len(Plan) + 1, GoesOn(pc, i),
             pc = "apply" => i >= 1,
             pc \in {"unregister", "release"} <=> pass.vc.deleting
      PROVE  /\ pass' \in Passes /\ dirty' \in BOOLEAN
             /\ pass'.vc.deleting <=> pass'.pc \in {"slices", "unregister", "release"}
             /\ pass'.pc = "apply" => pass'.i >= 1
    BY <1>e DEF GoesOn, Passes
<1>f. ASSUME Change PROVE changes' \in 0..MaxChanges /\ changes' = changes + 1
    BY <1>f, <1>a DEF Change
<1>1. CASE Create
    <2>2. lives' = lives + 1 /\ lives' \in 0..MaxLives BY <1>1, <1>a DEF Create
    <2>1. vc' \in CacheStates
        <3>1. PICK s \in Specs : vc' = [NoCache EXCEPT !.uid = lives', !.spec = s]
            BY <1>1, <2>2 DEF Create
        <3> QED BY <2>2, <3>1, NoCacheType DEF CacheStates
    <2>3. dirty' \in BOOLEAN BY <1>1 DEF Create
    <2> QED BY <1>1, <2>1, <2>2, <2>3 DEF Create, endpointVars, operatorVars
<1>2. CASE Edit
    BY <1>2, <1>f DEF Edit, CacheStates, endpointVars, operatorVars
<1>3. CASE Delete
    BY <1>3, NoCacheType DEF Delete, CacheStates, endpointVars, operatorVars
<1>4. CASE CollectGarbage
    BY <1>4, <1>c DEF CollectGarbage, endpointVars, operatorVars
<1>5. CASE InformerSees
    BY <1>5, <1>b, PlanFacts DEF InformerSees, endpointVars, operatorVars
<1>6. CASE Begin
    <2>1. Idle.pc = "idle" /\ ~Idle.vc.deleting BY DEF Idle, NoCache
    <2>2. CASE ~Present \/ (vc.deleting /\ ~vc.fin)
        BY <1>6, <2>1, <2>2, NoCacheType DEF Begin, endpointVars, operatorVars
    <2>3. CASE ~(~Present \/ (vc.deleting /\ ~vc.fin))
        <3>1. pass' = [pc |-> FirstStep, i |-> 0, vc |-> vc] BY <1>6, <2>3 DEF Begin
        <3>2. pass' \in Passes BY <3>1, PlanFacts DEF Passes, FirstStep
        <3>3. pass'.vc.deleting <=> pass'.pc \in {"slices", "unregister", "release"}
            BY <3>1 DEF FirstStep, CacheStates
        <3>4. pass'.pc # "apply" BY <3>1 DEF FirstStep
        <3> QED BY <1>6, <3>2, <3>3, <3>4 DEF Begin, endpointVars, operatorVars
    <2> QED BY <2>2, <2>3
<1>7. CASE CallFails
    BY <1>7, <1>d, <1>f DEF CallFails, endpointVars, operatorVars
<1>8. CASE UpdateFails
    BY <1>8, <1>d DEF UpdateFails, endpointVars, operatorVars
<1>9. CASE EnsureFinalizer
    <2> DEFINE c == [pass.vc EXCEPT !.fin = TRUE]
    <2>1. pass.vc \in CacheStates /\ ~pass.vc.deleting BY <1>9 DEF EnsureFinalizer, Passes
    <2>2. c \in CacheStates /\ ~c.deleting BY <2>1 DEF CacheStates
    <2>3. vc' \in CacheStates BY <1>9, <2>2 DEF EnsureFinalizer
    <2>4. CASE c.spec.paused
        BY <1>9, <2>3, <2>4, <1>d DEF EnsureFinalizer, endpointVars, operatorVars
    <2>5. CASE ~c.spec.paused
        <3>1. pass' = [pc |-> "runtime", i |-> 0, vc |-> c] /\ UNCHANGED dirty
            BY <1>9, <2>5 DEF EnsureFinalizer
        <3> HIDE DEF c
        <3>2. pass' \in Passes /\ ~pass'.vc.deleting /\ pass'.pc = "runtime"
            BY <3>1, <2>2, PlanFacts DEF Passes
        <3> QED BY <1>9, <2>3, <3>1, <3>2 DEF EnsureFinalizer, endpointVars, operatorVars
    <2> QED BY <2>4, <2>5
<1>10. CASE ResolveRuntime
    <2>1. pass.vc \in CacheStates /\ ~pass.vc.deleting BY <1>10 DEF ResolveRuntime, Passes
    <2>2. Resolved \in CacheStates /\ ~Resolved.deleting BY <2>1 DEF Resolved, CacheStates
    <2>3. pass' \in Passes /\ ~pass'.vc.deleting /\ pass'.pc = "apply" /\ pass'.i >= 1
        BY <1>10, <2>2, PlanFacts DEF ResolveRuntime, Passes
    <2> QED BY <1>10, <2>2, <2>3 DEF ResolveRuntime, endpointVars, operatorVars
<1>11. CASE Apply
    <2> DEFINE k == Plan[pass.i]
    <2>0. /\ pass.pc = "apply" /\ pass.i \in 1..9 /\ ~pass.vc.deleting
          /\ k \in KindNames
        BY <1>11, PlanFacts DEF Apply, Passes
    <2>1. Applied(k) \in [KindNames -> Objects] BY <2>0, AppliedType
    <2>2. CASE Refused(k) /\ Wanted(pass.vc.spec, k)
        <3>1. EndsRequeued /\ UNCHANGED <<obj, seen, changes>> BY <1>11, <2>2 DEF Apply
        <3> QED BY <1>11, <3>1, <1>d DEF Apply, endpointVars, operatorVars
    <2>3. CASE ~(Refused(k) /\ Wanted(pass.vc.spec, k))
        <3>1. obj' = Applied(k) /\ GoesOn("apply", pass.i + 1) BY <1>11, <2>3 DEF Apply
        <3>2. Noticed \/ UNCHANGED <<seen, changes>> BY <1>11, <2>3 DEF Apply
        <3>s. seen' \in BOOLEAN BY <3>2 DEF Noticed
        <3>c. changes' = changes \/ Change BY <3>2 DEF Noticed
        <3>3. /\ seen' \in BOOLEAN /\ changes' \in 0..MaxChanges
              /\ eps <= changes' /\ op <= changes'
            BY <3>s, <3>c, <1>f
        <3>4. /\ pass' \in Passes /\ dirty' \in BOOLEAN
              /\ pass'.vc.deleting <=> pass'.pc \in {"slices", "unregister", "release"}
              /\ pass'.pc = "apply" => pass'.i >= 1
            BY <2>0, <3>1, <1>e, PlanFacts
        <3> QED BY <1>11, <2>1, <3>1, <3>3, <3>4 DEF Apply, endpointVars, operatorVars
    <2> QED BY <2>2, <2>3
<1>12. CASE EndApply
    <2>1. GoesOn("debounce", 0) /\ ~pass.vc.deleting BY <1>12 DEF EndApply
    <2> QED BY <1>12, <2>1, <1>e, PlanFacts DEF EndApply, endpointVars, operatorVars
<1>13. CASE Debounce
    <2>1. ~pass.vc.deleting /\ touched' \in -1..Window
        BY <1>13, <1>a DEF Debounce, WindowNoted
    <2>2. CASE touched' = -1
        <3>1. GoesOn("publish", 0) BY <1>13, <2>2 DEF Debounce
        <3> QED BY <1>13, <2>1, <3>1, <1>e, PlanFacts DEF Debounce, operatorVars
    <2>3. CASE touched' # -1
        <3>1. EndsRequeued BY <1>13, <2>3 DEF Debounce
        <3> QED BY <1>13, <2>1, <3>1, <1>d DEF Debounce, operatorVars
    <2> QED BY <2>2, <2>3
<1>14. CASE UpdateProxy
    <2>1. GoesOn("rollout", 0) /\ ~pass.vc.deleting BY <1>14 DEF UpdateProxy
    <2> QED BY <1>14, <2>1, <1>e, PlanFacts DEF UpdateProxy, endpointVars, operatorVars
<1>15. CASE Rollout
    BY <1>15, <1>a, <1>d DEF Rollout, operatorVars
<1>16. CASE DeleteSlices
    <2>1. GoesOn("unregister", 0) /\ pass.vc.deleting BY <1>16 DEF DeleteSlices
    <2>2. obj' \in [KindNames -> Objects] BY <1>16, <1>c DEF DeleteSlices, SlicesDeleted
    <2>3. leaked' \in BOOLEAN /\ seen' \in BOOLEAN BY <1>16 DEF DeleteSlices
    <2> QED BY <1>16, <2>1, <2>2, <2>3, <1>e, PlanFacts DEF DeleteSlices, endpointVars, operatorVars
<1>17. CASE Unregister
    <2>1. GoesOn("release", 0) /\ pass.vc.deleting BY <1>17 DEF Unregister
    <2>2. published' \in BOOLEAN BY <1>17 DEF Unregister
    <2> QED BY <1>17, <2>1, <2>2, <1>e, PlanFacts DEF Unregister, endpointVars, operatorVars
<1>18. CASE RemoveFinalizer
    BY <1>18, <1>d, NoCacheType DEF RemoveFinalizer, endpointVars, operatorVars
<1>19. CASE EndpointEvent
    <2>1. dirty' \in BOOLEAN BY <1>19 DEF EndpointEvent
    <2>2. touched' \in -1..Window BY <1>19, <1>a DEF EndpointEvent
    <2>3. Change BY <1>19 DEF EndpointEvent
    <2> QED BY <1>19, <2>1, <2>2, <2>3, <1>f DEF EndpointEvent, operatorVars
<1>20. CASE Tick
    BY <1>20, <1>a DEF Tick, operatorVars
<1>21. CASE OperatorRestart
    <2>1. pass' \in Passes /\ pass'.pc = "idle" /\ ~pass'.vc.deleting
        BY <1>21, NoCacheType DEF OperatorRestart, Idle, NoCache
    <2>2. seen' \in BOOLEAN /\ dirty' \in BOOLEAN
        BY <1>21, <1>b, PlanFacts DEF OperatorRestart, Present
    <2>3. Change /\ published' \in BOOLEAN BY <1>21 DEF OperatorRestart
    <2> QED BY <1>21, <2>1, <2>2, <2>3, <1>a, <1>f DEF OperatorRestart
<1>22. CASE UNCHANGED vars
    BY <1>22 DEF vars
<1> QED
    BY <1>1, <1>2, <1>3, <1>4, <1>5, <1>6, <1>7, <1>8, <1>9, <1>10, <1>11, <1>12, <1>13,
       <1>14, <1>15, <1>16, <1>17, <1>18, <1>19, <1>20, <1>21, <1>22
    DEF LifecycleNext, PassStep

\* The state of a cache's life is well typed, for every instance: a pass on a
\* cache that is being deleted is in the deletion handler and nowhere else.
THEOREM LifecycleTypeCorrect == LifecycleSpec => []LifecycleTypeOK
<1>1. LifecycleSpec => []TypeInv BY TypeInvInit, TypeInvStep, PTL DEF LifecycleSpec
<1> QED BY <1>1, TypeInvImplies, PTL

-----------------------------------------------------------------------------
\* A pass that goes on keeps its copy of the cache.
LEMMA GoesOnEffect ==
    ASSUME pass \in Passes, NEW pc, NEW i, GoesOn(pc, i)
    PROVE  pass'.pc = pc /\ pass'.i = i /\ pass'.vc = pass.vc
BY DEF GoesOn, Passes

\* What holds around the finalizer: a pass beyond ensureFinalizer works on a
\* copy that has it, and what has been seen with it keeps it until the
\* deletion handler has removed everything.
GuardInv ==
    /\ FinalizerGuards
    /\ pass.pc # "idle" => pass.vc.uid # 0
    /\ pass.pc \notin {"idle", "finalizer"} => pass.vc.fin
    /\ pass.pc # "idle" /\ pass.vc.fin => vc.fin /\ vc.uid = pass.vc.uid
    /\ pass.pc \in {"unregister", "release"} => leaked \/ ~Exists("slice")
    /\ pass.pc = "release" => ~published

\* What a pass has applied stays: nobody owns the token, the cache the rest.
AppliedInv ==
    /\ obj["secret"].owner \in {-1, 0}
    /\ pass.pc = "apply" /\ pass.i > 6 => obj["policies"] = [owner |-> vc.uid, says |-> op]
    /\ pass.pc = "apply" /\ pass.i > 8 => Exists("secret")
    /\ PushAdmitted

LEMMA GuardInit == LifecycleInit => GuardInv /\ AppliedInv
BY PlanFacts DEF LifecycleInit, GuardInv, AppliedInv, FinalizerGuards, PushAdmitted, Exists,
   NoObject, Idle

\* Every step keeps the finalizer's protection.
LEMMA GuardStep == TypeInv /\ GuardInv /\ [LifecycleNext]_vars => GuardInv'
<1> SUFFICES ASSUME TypeInv, GuardInv, [LifecycleNext]_vars PROVE GuardInv'
    OBVIOUS
<1> USE PlanFacts DEF GuardInv, FinalizerGuards, Present, Exists
<1>t. /\ vc \in CacheStates /\ pass \in Passes /\ obj \in [KindNames -> Objects]
      /\ pass.vc \in CacheStates
    BY DEF TypeInv, Passes
<1>1. CASE Create
    BY <1>1 DEF Create
<1>2. CASE Edit
    BY <1>2, <1>t DEF Edit, CacheStates
<1>3. CASE Delete
    BY <1>3, <1>t DEF Delete, CacheStates, NoCache
<1>4. CASE CollectGarbage
    BY <1>4, <1>t DEF CollectGarbage
<1>5. CASE InformerSees
    BY <1>5 DEF InformerSees
<1>6. CASE Begin
    BY <1>6, <1>t DEF Begin, FirstStep, Idle
<1>7. CASE CallFails
    BY <1>7 DEF CallFails, EndsRequeued, Idle
<1>8. CASE UpdateFails
    BY <1>8 DEF UpdateFails, EndsRequeued, Idle
<1>9. CASE EnsureFinalizer
    <2> DEFINE c == [pass.vc EXCEPT !.fin = TRUE]
    <2>1. /\ pass.pc = "finalizer" /\ pass.vc.uid # 0
          /\ pass.vc.fin \/ vc = pass.vc
          /\ vc' = IF pass.vc.fin THEN vc ELSE c
          /\ UNCHANGED <<obj, leaked, published>>
          /\ pass' = Idle \/ pass' = [pc |-> "runtime", i |-> 0, vc |-> c]
        BY <1>9 DEF EnsureFinalizer, EndsRequeued
    <2>2. c.fin /\ c.uid = pass.vc.uid BY <1>t DEF CacheStates
    <2> HIDE DEF c
    <2>3. vc'.fin /\ vc'.uid = pass.vc.uid BY <2>1, <2>2
    <2>4. pass'.pc = "idle" \/ (pass'.pc = "runtime" /\ pass'.vc = c) BY <2>1 DEF Idle
    <2> QED BY <2>1, <2>2, <2>3, <2>4
<1>10. CASE ResolveRuntime
    BY <1>10, <1>t DEF ResolveRuntime, Resolved, CacheStates
<1>11. CASE Apply
    <2>1. /\ pass.pc = "apply" /\ UNCHANGED <<vc, leaked, published>>
          /\ EndsRequeued \/ GoesOn("apply", pass.i + 1)
        BY <1>11 DEF Apply
    <2>2. pass'.pc = "idle" \/ (pass'.pc = "apply" /\ pass'.vc = pass.vc)
        BY <2>1, <1>t, GoesOnEffect DEF EndsRequeued, Idle
    <2> QED BY <2>1, <2>2
<1>12. CASE EndApply
    BY <1>12, <1>t DEF EndApply, GoesOn, Passes
<1>13. CASE Debounce
    <2>1. /\ pass.pc = "debounce" /\ UNCHANGED <<vc, obj, leaked, published>>
          /\ EndsRequeued \/ GoesOn("publish", 0)
        BY <1>13 DEF Debounce
    <2>2. pass'.pc = "idle" \/ (pass'.pc = "publish" /\ pass'.vc = pass.vc)
        BY <2>1, <1>t, GoesOnEffect DEF EndsRequeued, Idle
    <2> QED BY <2>1, <2>2
<1>14. CASE UpdateProxy
    BY <1>14, <1>t DEF UpdateProxy, GoesOn, Passes
<1>15. CASE Rollout
    BY <1>15 DEF Rollout, EndsRequeued, Idle
<1>16. CASE DeleteSlices
    BY <1>16, <1>t DEF DeleteSlices, SlicesDeleted, GoesOn, Passes
<1>17. CASE Unregister
    BY <1>17, <1>t DEF Unregister, GoesOn, Passes
<1>18. CASE RemoveFinalizer
    BY <1>18 DEF RemoveFinalizer, EndsRequeued, Idle
<1>19. CASE EndpointEvent
    BY <1>19 DEF EndpointEvent
<1>20. CASE Tick
    BY <1>20 DEF Tick
<1>21. CASE OperatorRestart
    BY <1>21 DEF OperatorRestart, Idle
<1>22. CASE UNCHANGED vars
    BY <1>22 DEF vars
<1> QED
    BY <1>1, <1>2, <1>3, <1>4, <1>5, <1>6, <1>7, <1>8, <1>9, <1>10, <1>11, <1>12, <1>13,
       <1>14, <1>15, <1>16, <1>17, <1>18, <1>19, <1>20, <1>21, <1>22
    DEF LifecycleNext, PassStep

\* Every step keeps what the running pass has applied.
LEMMA AppliedStep ==
    TypeInv /\ GuardInv /\ AppliedInv /\ [LifecycleNext]_vars => AppliedInv'
<1> SUFFICES ASSUME TypeInv, GuardInv, AppliedInv, [LifecycleNext]_vars PROVE AppliedInv'
    OBVIOUS
<1> USE PlanFacts DEF AppliedInv, PushAdmitted, Exists
<1>t. /\ vc \in CacheStates /\ pass \in Passes /\ obj \in [KindNames -> Objects]
      /\ pass.vc \in CacheStates
    BY DEF TypeInv, Passes
<1>u. pass.pc \notin {"idle", "finalizer"} => vc.fin /\ vc.uid = pass.vc.uid /\ vc.uid # 0
    BY DEF GuardInv
<1>i. pass.i \in 0..10 /\ (pass.pc = "apply" => pass.i >= 1) BY DEF TypeInv, Passes
<1>1. CASE Create
    BY <1>1, <1>u DEF Create, Present, operatorVars
<1>2. CASE Edit
    BY <1>2, <1>t DEF Edit, CacheStates, operatorVars
<1>3. CASE Delete
    BY <1>3, <1>t, <1>u DEF Delete, CacheStates, operatorVars
<1>4. CASE CollectGarbage
    <2>1. obj'["secret"] = obj["secret"] BY <1>4, <1>t DEF CollectGarbage, Orphaned
    <2>2. obj["policies"] = [owner |-> vc.uid, says |-> op] => obj'["policies"] = obj["policies"]
        BY <1>4, <1>t DEF CollectGarbage, Orphaned
    <2> QED BY <1>4, <2>1, <2>2 DEF CollectGarbage, operatorVars
<1>5. CASE InformerSees
    BY <1>5 DEF InformerSees, operatorVars
<1>6. CASE Begin
    BY <1>6 DEF Begin, FirstStep, Idle
<1>7. CASE CallFails
    BY <1>7 DEF CallFails, EndsRequeued, Idle
<1>8. CASE UpdateFails
    BY <1>8 DEF UpdateFails, EndsRequeued, Idle
<1>9. CASE EnsureFinalizer
    <2>1. UNCHANGED obj /\ pass'.pc \in {"idle", "runtime"}
        BY <1>9 DEF EnsureFinalizer, EndsRequeued, Idle
    <2> QED BY <2>1
<1>10. CASE ResolveRuntime
    <2>1. UNCHANGED obj /\ pass'.pc = "apply" /\ pass'.i \in 1..2
        BY <1>10 DEF ResolveRuntime
    <2> QED BY <2>1
<1>11. CASE Apply
    <2> DEFINE k == Plan[pass.i]
    <2>0. pass.pc = "apply" /\ pass.i \in 1..9 /\ UNCHANGED <<vc, op>>
        BY <1>11, <1>i DEF Apply, operatorVars
    <2>1. CASE Refused(k) /\ Wanted(pass.vc.spec, k)
        BY <1>11, <2>1 DEF Apply, EndsRequeued, Idle
    <2>2. CASE ~(Refused(k) /\ Wanted(pass.vc.spec, k))
        <3>1. obj' = Applied(k) /\ pass'.pc = "apply" /\ pass'.i = pass.i + 1
            BY <1>11, <2>2, <1>t DEF Apply, GoesOn, Passes
        <3>2. \A j \in KindNames : j # k => obj'[j] = obj[j]
            BY <3>1, <1>t DEF Applied
        <3>3. k = "policies" => obj'[k] = [owner |-> vc.uid, says |-> op]
            BY <2>0, <3>1, <1>t, <1>u DEF Applied, Wanted, Desired, Owned
        <3>4. k = "secret" => obj'[k] = AgentSecret
            BY <2>0, <3>1, <1>t DEF Applied, Wanted, Desired
        <3>5. AgentSecret.owner \in {-1, 0} /\ AgentSecret # NoObject
            BY DEF AgentSecret, Unowned, NoObject
        <3>6. obj'["secret"].owner \in {-1, 0}
            BY <3>2, <3>4, <3>5
        <3>7. pass'.i > 6 => obj'["policies"] = [owner |-> vc.uid, says |-> op]
            BY <2>0, <3>1, <3>2, <3>3
        <3>8. pass'.i > 8 => obj'["secret"] # NoObject
            BY <2>0, <3>1, <3>2, <3>4, <3>5
        <3> QED BY <2>0, <3>1, <3>6, <3>7, <3>8
    <2> QED BY <2>1, <2>2
<1>12. CASE EndApply
    BY <1>12, <1>t, <1>i DEF EndApply, GoesOn, Passes, operatorVars
<1>13. CASE Debounce
    BY <1>13, <1>t DEF Debounce, EndsRequeued, Idle, GoesOn, Passes, operatorVars
<1>14. CASE UpdateProxy
    BY <1>14, <1>t DEF UpdateProxy, GoesOn, Passes, operatorVars
<1>15. CASE Rollout
    BY <1>15 DEF Rollout, EndsRequeued, Idle
<1>16. CASE DeleteSlices
    <2>1. obj'["secret"] = obj["secret"] /\ pass'.pc = "unregister"
        BY <1>16, <1>t DEF DeleteSlices, SlicesDeleted, GoesOn, Passes
    <2> QED BY <2>1
<1>17. CASE Unregister
    BY <1>17, <1>t DEF Unregister, GoesOn, Passes
<1>18. CASE RemoveFinalizer
    BY <1>18 DEF RemoveFinalizer, EndsRequeued, Idle
<1>19. CASE EndpointEvent
    BY <1>19 DEF EndpointEvent, operatorVars
<1>20. CASE Tick
    BY <1>20 DEF Tick, operatorVars
<1>21. CASE OperatorRestart
    BY <1>21 DEF OperatorRestart, Idle
<1>22. CASE UNCHANGED vars
    BY <1>22 DEF vars
<1> QED
    BY <1>1, <1>2, <1>3, <1>4, <1>5, <1>6, <1>7, <1>8, <1>9, <1>10, <1>11, <1>12, <1>13,
       <1>14, <1>15, <1>16, <1>17, <1>18, <1>19, <1>20, <1>21, <1>22
    DEF LifecycleNext, PassStep

LEMMA LifecycleInductive == LifecycleSpec => [](TypeInv /\ GuardInv /\ AppliedInv)
<1> DEFINE IInv == TypeInv /\ GuardInv /\ AppliedInv
<1>1. LifecycleInit => IInv BY TypeInvInit, GuardInit
<1>2. IInv /\ [LifecycleNext]_vars => IInv' BY TypeInvStep, GuardStep, AppliedStep
<1> QED BY <1>1, <1>2, PTL DEF LifecycleSpec

\* Slice, route and pod map entry exist only under the finalizer's protection,
\* whatever fails and whenever the cache is deleted (handleDeletion).
THEOREM FinalizerGuarded == LifecycleSpec => []FinalizerGuards
<1>1. GuardInv => FinalizerGuards BY DEF GuardInv
<1> QED BY <1>1, LifecycleInductive, PTL

\* A pass that comes to the push has opened the agents to its own operator
\* and made sure of the token (the order of Reconcile).
THEOREM PushesAdmitted == LifecycleSpec => []PushAdmitted
<1>1. AppliedInv => PushAdmitted BY DEF AppliedInv
<1> QED BY <1>1, LifecycleInductive, PTL

\* The agent token never changes once it exists (reconcileSecret).
THEOREM TokenIsStable == LifecycleSpec => TokenStable
<1> DEFINE A == Exists("secret") => obj'["secret"] = obj["secret"]
<1>1. TypeInv /\ AppliedInv /\ [LifecycleNext]_vars => [A]_vars
    <2> SUFFICES ASSUME TypeInv, AppliedInv, LifecycleNext PROVE A
        OBVIOUS
    <2>t. obj \in [KindNames -> Objects] /\ obj["secret"].owner \in {-1, 0}
        BY DEF TypeInv, AppliedInv
    <2>1. CASE UNCHANGED obj BY <2>1
    <2>2. CASE CollectGarbage BY <2>2, <2>t, PlanFacts DEF CollectGarbage, Orphaned
    <2>3. CASE DeleteSlices BY <2>3, <2>t, PlanFacts DEF DeleteSlices, SlicesDeleted
    <2>4. CASE Apply
        BY <2>4, <2>t, PlanFacts DEF Apply, Applied, Wanted, Desired, AgentSecret, Exists
    <2> QED
        BY <2>1, <2>2, <2>3, <2>4
        DEF LifecycleNext, PassStep, Create, Edit, Delete, InformerSees, Begin, CallFails,
            UpdateFails, EnsureFinalizer, ResolveRuntime, EndApply, Debounce, UpdateProxy,
            Rollout, Unregister, RemoveFinalizer, EndpointEvent, Tick, OperatorRestart
<1> QED BY <1>1, LifecycleInductive, PTL DEF LifecycleSpec, TokenStable

=============================================================================

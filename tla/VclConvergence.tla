--------------------------- MODULE VclConvergence ---------------------------
(***************************************************************************)
(* The reconcile loop converging the pods of one VinylCache on the         *)
(* generated VCL: step 11 and 12 of Reconcile with collectPeers,           *)
(* observeVCLNames, podsNeedingVCL, pushVCL, updateStatus, setErrorStatus  *)
(* (internal/controller), composed with the agents and varnishds of        *)
(* VclAgent and with the kubelet that turns the agents' /health into the   *)
(* pods' Ready condition.                                                  *)
(*                                                                         *)
(* The loop is a circle: readiness waits for a VCL, the VCL is generated   *)
(* from the ready pods, and whether to push is decided from what varnishd  *)
(* reports, read earlier in the same pass.  The single reconcile worker    *)
(* makes a pass sequential; the cluster moves between any two of its       *)
(* steps.                                                                  *)
(***************************************************************************)
EXTENDS VclAgent

CONSTANTS
    Contents,    \* spec and backend endpoints, as far as the VCL shows them
    Starved,     \* the contents in which some backend has no endpoint
    Clustered,   \* spec.cluster.enabled
    Orders,      \* the orders in which the API cache may list the pods
    MaxChanges   \* bound on the changes of the content

\* A VCL's name is <namespace>-<cache>-<hash of its text>, so a name stands
\* for a text.  The text depends on the content and, in a cluster, on the
\* ready pods in the order they were listed.
ASSUME ContentAssumption ==
    /\ Starved \subseteq Contents
    /\ Clustered \in BOOLEAN
    /\ MaxChanges \in Nat
    /\ Orders # {}
    /\ Names = [content : Contents, peers : SUBSET Pods, order : Orders]

VARIABLES
    content,   \* what the VinylCache and its backends look like now
    changes,   \* how often that changed
    started,   \* started[p]: pod p is listed as running with its agent started
    ready,     \* ready[p]: pod p is listed as Ready
    rec,       \* the reconcile pass in progress
    status     \* the persisted status of the VinylCache

podVars == <<started, ready>>
operatorVars == <<content, changes, started, ready, rec, status>>
vars == <<loaded, active, handler, discards, agentUp, faults,
          content, changes, started, ready, rec, status>>

Known == Loadable \cup {NoName}

Results == {"none", "unsent", "sent", "ok", "already", "error"}

Passes ==
    {r \in [pc        : {"idle", "generate", "observe", "push"},
            reachable : SUBSET Pods,
            ready     : SUBSET Pods,
            content   : Contents,
            desired   : Names \cup {NoName},
            todo      : SUBSET Pods,
            names     : [Pods -> Known],
            result    : [Pods -> Results]] :
        r.pc \in {"observe", "push"} => r.desired \in Names}

Statuses ==
    [names  : [Pods -> Known],
     synced : {"Unknown", "True", "False"},
     phase  : {"", "Pending", "Ready", "Degraded", "Error"}]

TypeOK ==
    /\ AgentTypeOK
    /\ content \in Contents
    /\ changes \in 0..MaxChanges
    /\ started \in [Pods -> BOOLEAN]
    /\ ready \in [Pods -> BOOLEAN]
    /\ rec \in Passes
    /\ status \in Statuses

NoPass(c) ==
    [pc |-> "idle", reachable |-> {}, ready |-> {}, content |-> c,
     desired |-> NoName, todo |-> {},
     names |-> [p \in Pods |-> NoName], result |-> [p \in Pods |-> "none"]]

Init ==
    /\ AgentInit
    /\ content \in Contents
    /\ changes = 0
    /\ started = [p \in Pods |-> FALSE]
    /\ ready = [p \in Pods |-> FALSE]
    /\ rec = NoPass(content)
    /\ status = [names |-> [p \in Pods |-> NoName], synced |-> "Unknown", phase |-> ""]

-----------------------------------------------------------------------------
(* The cluster.                                                            *)

\* The spec is edited, or endpoints of a backend come and go.
ChangeContent(c) ==
    /\ changes < MaxChanges
    /\ c # content
    /\ content' = c
    /\ changes' = changes + 1
    /\ UNCHANGED <<agentVars, podVars, rec, status>>

\* Mutation: /health ignores which VCL is active (#73).
HealthyOnAnyVCL(p) == agentUp[p]

\* The kubelet probes the agent and the operator's cache learns the result:
\* /livez answers once the agent listens, /health answers 200 unless varnishd
\* serves the bootstrap VCL.  Between two probes both are stale.
Healthy(p) == agentUp[p] /\ active[p] # Boot

Kubelet(p) ==
    /\ started' = [started EXCEPT ![p] = agentUp[p]]
    /\ ready' = [ready EXCEPT ![p] = Healthy(p)]
    /\ podVars' # podVars
    /\ UNCHANGED <<agentVars, content, changes, rec, status>>

-----------------------------------------------------------------------------
(* One pass of Reconcile.                                                  *)

\* collectPeers: the reachable pods, and the Ready ones among them.
CollectPeers ==
    /\ rec.pc = "idle"
    /\ rec' = [NoPass(content) EXCEPT
                  !.pc = "generate",
                  !.reachable = {p \in Pods : started[p]},
                  !.ready = {p \in Pods : started[p] /\ ready[p]}]
    /\ UNCHANGED <<agentVars, content, changes, podVars, status>>

\* HasCluster = spec.cluster.enabled and there are peers.  Two or more peers
\* appear in the VCL in the order the pods were listed.
PeersOf(R) == IF Clustered THEN R ELSE {}

OrdersOf(R) ==
    IF \E p, q \in R : p # q THEN Orders ELSE {CHOOSE o \in Orders : TRUE}

VclNames(c, R) ==
    [content : {c}, peers : {PeersOf(R)}, order : OrdersOf(PeersOf(R))]

\* resolveBackendEndpoints and Generate.  The spec was read when the pass
\* began, the endpoints are read now.
Generate ==
    /\ rec.pc = "generate"
    /\ \E c \in {rec.content, content} : \E n \in VclNames(c, rec.ready) :
          rec' = [rec EXCEPT !.pc = "observe", !.content = c,
                             !.desired = n, !.todo = rec.reachable]
    /\ UNCHANGED <<agentVars, content, changes, podVars, status>>

\* Mutation: a name recorded in the status is trusted, varnishd is not asked.
RecordedName(p) == IF status.names[p] = NoName THEN active[p] ELSE status.names[p]

ObservedName(p) == active[p]

\* observeVCLNames, one pod after the other, 3 s each: the name varnishd
\* reports, or nothing if the agent cannot tell.
Observe(p) ==
    /\ rec.pc = "observe"
    /\ p \in rec.todo
    /\ \/ /\ agentUp[p]
          /\ rec' = [rec EXCEPT !.todo = @ \ {p}, !.names[p] = ObservedName(p)]
          /\ UNCHANGED faults
       \/ /\ IF agentUp[p] THEN Fault("admin") ELSE UNCHANGED faults
          /\ rec' = [rec EXCEPT !.todo = @ \ {p}, !.names[p] = NoName]
    /\ UNCHANGED <<loaded, active, handler, discards, agentUp,
                   content, changes, podVars, status>>

\* Mutation: only Ready pods are pushed to, which deadlocks with /health.
ReadyPodsNeedingVCL == {p \in rec.ready : rec.names[p] # rec.desired}

\* Mutation: every reachable pod is pushed to in every pass.
AllReachablePods == rec.reachable

PodsNeedingVCL == {p \in rec.reachable : rec.names[p] # rec.desired}

\* pushVCL starts one goroutine per pod that needs the VCL.
BeginPush ==
    /\ rec.pc = "observe"
    /\ rec.todo = {}
    /\ rec' = [rec EXCEPT !.pc = "push",
                  !.result = [p \in Pods |->
                     IF p \in PodsNeedingVCL THEN "unsent" ELSE "none"]]
    /\ UNCHANGED <<agentVars, content, changes, podVars, status>>

Send(p, s) ==
    /\ rec.pc = "push"
    /\ rec.result[p] = "unsent"
    /\ StartPush(p, s, rec.desired)
    /\ rec' = [rec EXCEPT !.result[p] = "sent"]
    /\ UNCHANGED <<content, changes, podVars, status>>

Receive(p, s) ==
    /\ rec.pc = "push"
    /\ rec.result[p] = "sent"
    /\ CollectReply(p, s)
    /\ rec' = [rec EXCEPT !.result[p] = handler[p][s].reply]
    /\ UNCHANGED <<content, changes, podVars, status>>

\* The agent client's timeout.
Timeout(p, s) ==
    /\ rec.pc = "push"
    /\ rec.result[p] = "sent"
    /\ ClientGone(p, s)
    /\ rec' = [rec EXCEPT !.result[p] = "error"]
    /\ UNCHANGED <<content, changes, podVars, status>>

\* "Already a VCL named" counts as success.
Succeeded(r) == r \in {"ok", "already"}

Pushed == {p \in Pods : Succeeded(rec.result[p])}
Failed == {p \in Pods : rec.result[p] = "error"}

\* calculatePhase after updateStatus, which leaves VCLSynced True.
Phase ==
    CASE rec.content \in Starved -> "Degraded"
      [] rec.content \notin Starved /\ rec.ready = Pods -> "Ready"
      [] OTHER -> "Pending"

\* All pushes failed: setErrorStatus, which leaves clusterPeers alone.
\* Otherwise the pods that took the VCL are recorded as carrying it and
\* updateStatus runs.
NewStatus ==
    IF Failed # {} /\ Pushed = {}
    THEN [status EXCEPT !.phase = "Error", !.synced = "False"]
    ELSE [names  |-> [p \in Pods |->
                        IF p \in Pushed THEN rec.desired ELSE rec.names[p]],
          synced |-> "True",
          phase  |-> Phase]

\* Mutation: the pass does not wait for its goroutines.
AllSent == \A p \in Pods : rec.result[p] # "unsent"

AllAnswered == \A p \in Pods : rec.result[p] \notin {"unsent", "sent"}

\* wg.Wait is over.  A status update that fails is logged and forgotten.
FinishPass ==
    /\ rec.pc = "push"
    /\ AllAnswered
    /\ \/ status' = NewStatus /\ UNCHANGED faults
       \/ Fault("status") /\ UNCHANGED status
    /\ rec' = NoPass(content)
    /\ UNCHANGED <<loaded, active, handler, discards, agentUp,
                   content, changes, podVars>>

\* The operator dies and another one takes over: the pass is forgotten, its
\* connections break.
OperatorRestart ==
    /\ rec.pc # "idle"
    /\ Fault("operator")
    /\ rec' = NoPass(content)
    /\ handler' = [p \in Pods |-> [s \in Slots |->
          CASE handler[p][s].pc = "replied" -> IdleHandler
            [] Serving(handler[p][s]) -> [handler[p][s] EXCEPT !.client = "gone"]
            [] OTHER -> handler[p][s]]]
    /\ UNCHANGED <<loaded, active, discards, agentUp,
                   content, changes, podVars, status>>

-----------------------------------------------------------------------------
ClusterStep ==
    \/ AgentStep /\ UNCHANGED operatorVars
    \/ \E c \in Contents : ChangeContent(c)
    \/ \E p \in Pods : Kubelet(p)
    \/ OperatorRestart

PassStep ==
    \/ CollectPeers \/ Generate \/ BeginPush \/ FinishPass
    \/ \E p \in Pods : Observe(p)
    \/ \E p \in Pods, s \in Slots :
          Send(p, s) \/ Receive(p, s) \/ Timeout(p, s)

Next == ClusterStep \/ PassStep

\* Every pass ends with a requeue, so there is always a next one; each step
\* of a pass has a timeout.  Containers are restarted, probes are periodic.
Fairness ==
    /\ WF_vars(PassStep)
    /\ \A p \in Pods :
          /\ WF_vars(Kubelet(p))
          /\ WF_vars(AgentStart(p) /\ UNCHANGED operatorVars)
          /\ \A s \in Slots : WF_vars(PushStep(p, s) /\ UNCHANGED operatorVars)
          /\ \A n \in Loadable : WF_vars(DiscardVCL(p, n) /\ UNCHANGED operatorVars)

Spec == Init /\ [][Next]_vars

FairSpec == Spec /\ Fairness

-----------------------------------------------------------------------------
(* Properties.                                                             *)

Compiles(c) == \A n \in Names : n.content = c => n \notin Broken

Carries(p, c) ==
    /\ active[p] # Boot
    /\ active[p].content = c
    /\ active[p].peers = PeersOf(Pods)

Converged ==
    IF Compiles(content)
    THEN /\ \A p \in Pods : Carries(p, content)
         /\ \A p \in Pods : status.names[p] = active[p]
         /\ status.phase = IF content \in Starved THEN "Degraded" ELSE "Ready"
    ELSE status.phase = "Error"

Quiet == Compiles(content) => \A p \in Pods, s \in Slots : handler[p][s].pc = "idle"

\* Once spec, endpoints and containers stop changing, every pod ends up on
\* the VCL of the latest content with every pod as a peer, and the status
\* says what varnishd says; or the content does not compile and the status
\* says Error.  Nobody need be Ready for that to begin: Reconcile pushes to
\* reachable pods, /health turns them Ready afterwards.
Convergence == <>[]Converged

\* Once everything is settled the loop only looks: no push is sent any more.
PushesStop == <>[]Quiet

\* Whatever fails while the pods start, an orphan VCL is the only thing that
\* can keep the loop from its goal: unless a pod is left with one for good,
\* whose name podsNeedingVCL keeps asking for and PushVCL can no longer load,
\* every pod still ends up on the VCL and the pushes stop.
OnlyOrphansBlock == <>[]NoOrphanVCL => <>[](Converged /\ Quiet)

\* No VCL in service shards requests to a pod that answers with the
\* bootstrap VCL's 503: the peers are the Ready pods, and Ready waits for
\* the agent to report another VCL.
NoShardToBoot ==
    \A p \in Pods :
        active[p] # Boot => \A q \in active[p].peers : active[q] # Boot

\* A pod's VCL changes to what the current pass wants or, by a restart, to
\* the bootstrap VCL: pushVCL waits for its goroutines, so no push outlives
\* its pass, except one whose client gave up on it.
OnlyDesiredActivated ==
    [][\A p \in Pods : active'[p] # active[p] =>
          \/ active'[p] \in {Boot, rec.desired}
          \/ \E s \in Slots : /\ handler[p][s].pc = "use"
                              /\ handler[p][s].name = active'[p]
                              /\ handler[p][s].client = "gone"]_vars

=============================================================================

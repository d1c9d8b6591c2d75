------------------------ MODULE VclConvergenceProofs ------------------------
(***************************************************************************)
(* Proofs about the reconcile loop: type correctness, that no VCL in       *)
(* service shards to a pod on the bootstrap VCL, and that only what the    *)
(* current pass wants is activated.                                        *)
(***************************************************************************)
EXTENDS VclConvergence, VclAgentProofs

LEMMA NoPassType == ASSUME NEW c \in Contents PROVE NoPass(c) \in Passes
BY DEF NoPass, Passes, Known, Results

LEMMA VclNamesType ==
    ASSUME NEW c \in Contents, NEW R \in SUBSET Pods, NEW n \in VclNames(c, R)
    PROVE  n \in Names /\ n.content = c /\ n.peers = PeersOf(R) /\ n.peers \subseteq R
<1>1. PeersOf(R) \subseteq R BY DEF PeersOf
<1>2. OrdersOf(PeersOf(R)) \subseteq Orders BY ContentAssumption DEF OrdersOf
<1> QED BY <1>1, <1>2, ContentAssumption DEF VclNames

LEMMA TypeInit == Init => TypeOK
<1> SUFFICES ASSUME Init PROVE TypeOK OBVIOUS
<1>1. AgentTypeOK BY AgentTypeInit DEF Init
<1>2. rec \in Passes
    <2>1. content \in Contents /\ rec = NoPass(content) BY DEF Init
    <2> QED BY <2>1, NoPassType
<1>3. status \in Statuses BY DEF Init, Statuses, Known
<1>4. changes \in 0..MaxChanges
    <2>1. changes = 0 BY DEF Init
    <2> QED BY <2>1, ContentAssumption
<1> QED BY <1>1, <1>2, <1>3, <1>4 DEF Init, TypeOK

\* The steps of the agents alone keep the agents' types.
LEMMA AgentStepType == ASSUME AgentTypeOK, AgentStep PROVE AgentTypeOK'
BY AgentTypeStep DEF AgentNext

LEMMA ClientStepType ==
    ASSUME AgentTypeOK, NEW p \in Pods, NEW s \in Slots,
           \/ \E n \in Names : StartPush(p, s, n)
           \/ CollectReply(p, s) \/ ClientGone(p, s)
    PROVE  AgentTypeOK'
BY AgentTypeStep DEF AgentNext, ClientStep

LEMMA TypeStep == TypeOK /\ [Next]_vars => TypeOK'
<1> SUFFICES ASSUME TypeOK, [Next]_vars PROVE TypeOK' OBVIOUS
<1>t. /\ AgentTypeOK /\ rec \in Passes /\ content \in Contents /\ status \in Statuses
      /\ changes \in 0..MaxChanges
      /\ started \in [Pods -> BOOLEAN] /\ ready \in [Pods -> BOOLEAN]
    BY DEF TypeOK
<1>f. ASSUME NEW kind, Fault(kind) \/ UNCHANGED faults,
             UNCHANGED <<loaded, active, handler, discards, agentUp>>
      PROVE  AgentTypeOK'
    BY <1>f, <1>t, FaultType DEF AgentTypeOK
<1>a. ASSUME UNCHANGED agentVars PROVE AgentTypeOK'
    BY <1>a, <1>t DEF agentVars, AgentTypeOK
<1>1. ASSUME AgentStep, UNCHANGED operatorVars PROVE TypeOK'
    BY <1>1, <1>t, AgentStepType DEF operatorVars, TypeOK
<1>2. ASSUME NEW c \in Contents, ChangeContent(c) PROVE TypeOK'
    BY <1>2, <1>t, <1>a, ContentAssumption DEF ChangeContent, TypeOK, podVars
<1>3. ASSUME NEW p \in Pods, Kubelet(p) PROVE TypeOK'
    <2>1. agentUp[p] \in BOOLEAN /\ Healthy(p) \in BOOLEAN BY <1>t DEF AgentTypeOK, Healthy
    <2> QED BY <1>3, <1>t, <1>a, <2>1 DEF Kubelet, TypeOK
<1>4. ASSUME OperatorRestart PROVE TypeOK'
    <2>1. ASSUME NEW p \in Pods, NEW s \in Slots, Serving(handler[p][s])
          PROVE  [handler[p][s] EXCEPT !.client = "gone"] \in Handlers
        <3>1. handler[p][s] \in Handlers BY <1>t DEF AgentTypeOK
        <3> QED BY <2>1, <3>1 DEF Handlers, Serving
    <2>2. HandlersOK'
        <3>1. \A p \in Pods, s \in Slots :
                 (CASE handler[p][s].pc = "replied" -> IdleHandler
                    [] Serving(handler[p][s]) -> [handler[p][s] EXCEPT !.client = "gone"]
                    [] OTHER -> handler[p][s]) \in Handlers
            BY <2>1, <1>t, IdleType DEF AgentTypeOK, Serving
        <3> QED BY <1>4, <3>1 DEF OperatorRestart, HandlersOK
    <2>3. AgentTypeOK'
        BY <1>4, <1>t, <2>2, FaultType DEF OperatorRestart, AgentTypeOK, HandlersOK
    <2> QED BY <1>4, <1>t, <2>3, NoPassType DEF OperatorRestart, TypeOK, podVars
<1>5. ASSUME CollectPeers PROVE TypeOK'
    <2>1. rec' \in Passes
        BY <1>5, <1>t, NoPassType DEF CollectPeers, Passes, NoPass
    <2> QED BY <1>5, <1>t, <1>a, <2>1 DEF CollectPeers, TypeOK, podVars
<1>6. ASSUME Generate PROVE TypeOK'
    <2>1. PICK c \in {rec.content, content} : \E n \in VclNames(c, rec.ready) :
             rec' = [rec EXCEPT !.pc = "observe", !.content = c,
                                !.desired = n, !.todo = rec.reachable]
        BY <1>6 DEF Generate
    <2>2. PICK n \in VclNames(c, rec.ready) :
             rec' = [rec EXCEPT !.pc = "observe", !.content = c,
                                !.desired = n, !.todo = rec.reachable]
        BY <2>1
    <2>3. c \in Contents /\ rec.ready \in SUBSET Pods BY <1>t DEF Passes
    <2>4. n \in Names BY <2>3, VclNamesType
    <2>5. rec' \in Passes BY <2>2, <2>3, <2>4, <1>t DEF Passes
    <2> QED BY <1>6, <1>t, <1>a, <2>5 DEF Generate, TypeOK, podVars
<1>7. ASSUME NEW p \in Pods, Observe(p) PROVE TypeOK'
    <2>1. active[p] \in Known /\ NoName \in Known BY <1>t DEF Known, AgentTypeOK
    <2>2. PICK k \in Known : rec' = [rec EXCEPT !.todo = @ \ {p}, !.names[p] = k]
        BY <1>7, <2>1 DEF Observe, ObservedName
    <2>3. rec' \in Passes BY <2>2, <1>t DEF Passes
    <2>4. AgentTypeOK' BY <1>7, <1>f DEF Observe
    <2> QED BY <1>7, <1>t, <2>3, <2>4 DEF Observe, TypeOK, podVars
<1>8. ASSUME BeginPush PROVE TypeOK'
    <2>1. rec' \in Passes BY <1>8, <1>t DEF BeginPush, Passes, Results
    <2> QED BY <1>8, <1>t, <1>a, <2>1 DEF BeginPush, TypeOK, podVars
<1>r. ASSUME NEW p \in Pods, NEW r \in Results, rec' = [rec EXCEPT !.result[p] = r]
      PROVE  rec' \in Passes
    BY <1>r, <1>t DEF Passes
<1>9. ASSUME NEW p \in Pods, NEW s \in Slots, Send(p, s) PROVE TypeOK'
    <2>1. rec.desired \in Names BY <1>9, <1>t DEF Send, Passes
    <2>2. AgentTypeOK' BY <1>9, <1>t, <2>1, ClientStepType DEF Send
    <2>3. rec' \in Passes BY <1>9, <1>r DEF Send, Results
    <2> QED BY <1>9, <1>t, <2>2, <2>3 DEF Send, TypeOK, podVars
<1>10. ASSUME NEW p \in Pods, NEW s \in Slots, Receive(p, s) PROVE TypeOK'
    <2>1. handler[p][s].reply \in Results BY <1>t DEF AgentTypeOK, Handlers, Results
    <2>2. AgentTypeOK' BY <1>10, <1>t, ClientStepType DEF Receive
    <2>3. rec' \in Passes BY <1>10, <1>r, <2>1 DEF Receive
    <2> QED BY <1>10, <1>t, <2>2, <2>3 DEF Receive, TypeOK, podVars
<1>11. ASSUME NEW p \in Pods, NEW s \in Slots, Timeout(p, s) PROVE TypeOK'
    <2>2. AgentTypeOK' BY <1>11, <1>t, ClientStepType DEF Timeout
    <2>3. rec' \in Passes BY <1>11, <1>r DEF Timeout, Results
    <2> QED BY <1>11, <1>t, <2>2, <2>3 DEF Timeout, TypeOK, podVars
<1>12. ASSUME FinishPass PROVE TypeOK'
    <2>1. rec.desired \in Known /\ rec.names \in [Pods -> Known]
        BY <1>t DEF Passes, Known, Loadable
    <2>2. Phase \in {"Degraded", "Ready", "Pending"} BY DEF Phase
    <2>3. NewStatus \in Statuses
        BY <1>t, <2>1, <2>2 DEF NewStatus, Statuses
    <2>4. status' \in Statuses BY <1>12, <1>t, <2>3 DEF FinishPass
    <2>5. AgentTypeOK' BY <1>12, <1>f DEF FinishPass
    <2>6. rec' \in Passes BY <1>12, <1>t, NoPassType DEF FinishPass
    <2> QED BY <1>12, <1>t, <2>4, <2>5, <2>6 DEF FinishPass, TypeOK, podVars
<1>13. CASE UNCHANGED vars
    BY <1>13, <1>t, <1>a DEF vars, agentVars, TypeOK
<1> QED
    BY <1>1, <1>2, <1>3, <1>4, <1>5, <1>6, <1>7, <1>8, <1>9, <1>10, <1>11, <1>12, <1>13
    DEF Next, ClusterStep, PassStep

\* The reconcile loop's state stays well typed under every fault.
THEOREM TypeCorrect == Spec => []TypeOK
BY TypeInit, TypeStep, PTL DEF Spec
-----------------------------------------------------------------------------
(* No shard to a pod on the bootstrap VCL.                                 *)

\* Every peer list on its way into a VCL names pods that left the bootstrap
\* VCL: the Ready conditions, the pass, the pushes and the VCLs in service.
\* As long as no varnishd restarts no pod goes back to the bootstrap VCL, so
\* such a list stays good however old it is when it is put to use.
Live == {q \in Pods : active[q] # Boot}

GoodName(n) == n \in Names => n.peers \subseteq Live

ShardInv ==
    /\ TypeOK
    /\ \A p \in Pods : ready[p] => p \in Live
    /\ rec.ready \subseteq Live
    /\ GoodName(rec.desired)
    /\ \A p \in Pods, s \in Slots : GoodName(handler[p][s].name)
    /\ \A p \in Pods : active[p] \in Names \cup {Boot} /\ GoodName(active[p])

LEMMA ShardInit == Init => ShardInv
<1> SUFFICES ASSUME Init PROVE ShardInv OBVIOUS
<1>1. TypeOK BY TypeInit
<1>2. rec.ready = {} /\ rec.desired = NoName BY DEF Init, NoPass
<1>3. \A p \in Pods, s \in Slots : handler[p][s].name = NoName
    BY DEF Init, AgentInit, IdleHandler
<1>4. \A p \in Pods : active[p] = Boot /\ ~ready[p] BY DEF Init, AgentInit
<1> QED BY <1>1, <1>2, <1>3, <1>4, NameAssumption DEF ShardInv, GoodName

\* A step of the agents only renames a handler to idle, and activates only a
\* name some handler carries.
LEMMA AgentEffect ==
    ASSUME AgentTypeOK, "varnishd" \notin FaultKinds, AgentStep
    PROVE  /\ \A p \in Pods, s \in Slots :
                 handler'[p][s].name \in {handler[p][s].name, NoName}
           /\ \A p \in Pods : active'[p] = active[p]
                 \/ \E s \in Slots : /\ handler[p][s].pc = "use"
                                     /\ active'[p] = handler[p][s].name
<1> DEFINE NamesKept == \A p \in Pods, s \in Slots :
               handler'[p][s].name \in {handler[p][s].name, NoName}
           ActiveKept == \A p \in Pods : active'[p] = active[p]
<1>0. HandlersOK BY DEF AgentTypeOK, HandlersOK
<1>b. ASSUME NEW p \in Pods, NEW s \in Slots, NEW h, Becomes(p, s, h),
             h.name \in {handler[p][s].name, NoName}
      PROVE  NamesKept
    BY <1>b, <1>0, BecomesEffect
<1>n. ASSUME NEW h \in Handlers, NEW reply
      PROVE  Answered(h, reply).name \in {h.name, NoName}
    BY DEF Answered, IdleHandler, Handlers
<1>h. ASSUME NEW p \in Pods, NEW s \in Slots PROVE handler[p][s] \in Handlers
    BY <1>0 DEF HandlersOK
<1>a. ASSUME NEW p \in Pods, NEW s \in Slots, NEW reply, Answer(p, s, reply)
      PROVE  NamesKept
    BY <1>a, <1>b, <1>n, <1>h DEF Answer
<1>1. ASSUME NEW p \in Pods, NEW s \in Slots, ListActive(p, s)
      PROVE  NamesKept /\ ActiveKept
    <2> DEFINE h == handler[p][s]
    <2>1. /\ [h EXCEPT !.pc = "inline", !.old = active[p]].name = h.name
          /\ [h EXCEPT !.pc = "inline"].name = h.name
        BY <1>h DEF Handlers
    <2>2. NamesKept
        <3>1. ASSUME Becomes(p, s, [h EXCEPT !.pc = "inline", !.old = active[p]])
              PROVE  NamesKept
            BY <3>1, <2>1, <1>b
        <3>2. ASSUME Becomes(p, s, [h EXCEPT !.pc = "inline"]) PROVE NamesKept
            BY <3>2, <2>1, <1>b
        <3> QED BY <1>1, <3>1, <3>2 DEF ListActive
    <2> QED BY <1>1, <2>2 DEF ListActive
<1>2. ASSUME NEW p \in Pods, NEW s \in Slots, InlineVCL(p, s)
      PROVE  NamesKept /\ ActiveKept
    <2> DEFINE h == handler[p][s]
    <2>1. [h EXCEPT !.pc = "use"].name = h.name BY <1>h DEF Handlers
    <2>2. ASSUME Becomes(p, s, [h EXCEPT !.pc = "use"]) PROVE NamesKept
        BY <2>1, <2>2, <1>b
    <2> QED BY <1>2, <2>2, <1>a DEF InlineVCL
<1>3. ASSUME NEW p \in Pods, NEW s \in Slots, UseVCL(p, s)
      PROVE  /\ NamesKept
             /\ handler[p][s].pc = "use"
             /\ \A q \in Pods : active'[q] = active[q]
                                \/ (q = p /\ active'[q] = handler[p][s].name)
    <2> DEFINE h == handler[p][s]
    <2>1. [h EXCEPT !.pc = "used"].name = h.name BY <1>h DEF Handlers
    <2>2. ASSUME Becomes(p, s, [h EXCEPT !.pc = "used"]) PROVE NamesKept
        BY <2>1, <2>2, <1>b
    <2>3. NamesKept BY <1>3, <2>2, <1>a DEF UseVCL
    <2>4. \A q \in Pods : active'[q] = active[q] \/ (q = p /\ active'[q] = h.name)
        BY <1>3 DEF UseVCL, AgentTypeOK
    <2> QED BY <1>3, <2>3, <2>4 DEF UseVCL
<1>r. ASSUME NEW p \in Pods, NEW s \in Slots, ReadAnswer(p, s)
      PROVE  NamesKept /\ ActiveKept
    BY <1>r, <1>a DEF ReadAnswer
<1>4. ASSUME NEW p \in Pods, NEW s \in Slots, ContextDone(p, s)
      PROVE  NamesKept /\ ActiveKept
    <2> DEFINE h == handler[p][s]
    <2>1. [h EXCEPT !.ctx = "done"].name = h.name BY <1>h DEF Handlers
    <2>2. NamesKept BY <1>4, <2>1, <1>b DEF ContextDone
    <2> QED BY <1>4, <2>2 DEF ContextDone
<1>5. ASSUME NEW p \in Pods, AgentStop(p) PROVE NamesKept /\ ActiveKept
    <2>1. \A q \in Pods, s \in Slots :
             \/ handler'[q][s] = handler[q][s]
             \/ handler'[q][s] = Answered(handler[q][s], "error")
        BY <1>5, <1>0 DEF AgentStop, HandlersOK
    <2> QED BY <1>5, <2>1, <1>n, <1>h DEF AgentStop
<1>6. ASSUME NEW p \in Pods, NEW n, DiscardVCL(p, n) \/ ValidateVCL(p, n) \/ AgentStart(p)
      PROVE  NamesKept /\ ActiveKept
    BY <1>6 DEF DiscardVCL, ValidateVCL, AgentStart
<1>7. \A p \in Pods : ~VarnishdRestart(p) BY DEF VarnishdRestart, Fault
<1> HIDE DEF NamesKept
<1>8. NamesKept
    BY <1>1, <1>2, <1>3, <1>r, <1>4, <1>5, <1>6, <1>7 DEF AgentStep, PushStep
<1>9. \A p \in Pods : active'[p] = active[p]
          \/ \E s \in Slots : handler[p][s].pc = "use" /\ active'[p] = handler[p][s].name
    BY <1>1, <1>2, <1>3, <1>r, <1>4, <1>5, <1>6, <1>7 DEF AgentStep, PushStep
<1> QED BY <1>8, <1>9 DEF NamesKept

LEMMA ShardStep ==
    ASSUME "varnishd" \notin FaultKinds, ShardInv, [Next]_vars
    PROVE  ShardInv'
<1>t. TypeOK /\ TypeOK' BY TypeStep DEF ShardInv
<1>i. /\ \A p \in Pods : ready[p] => p \in Live
      /\ rec.ready \subseteq Live
      /\ GoodName(rec.desired)
      /\ \A p \in Pods, s \in Slots : GoodName(handler[p][s].name)
      /\ \A p \in Pods : active[p] \in Names \cup {Boot} /\ GoodName(active[p])
    BY DEF ShardInv
<1>0. HandlersOK BY <1>t DEF TypeOK, AgentTypeOK, HandlersOK
<1>n. GoodName(NoName)' BY NameAssumption DEF GoodName
\* Where the live pods stay live, good names stay good.
<1>g. ASSUME NEW n, GoodName(n), Live \subseteq Live' PROVE GoodName(n)'
    BY <1>g DEF GoodName
<1>k. ASSUME UNCHANGED active PROVE Live' = Live BY <1>k DEF Live
\* Steps that leave the active VCLs alone and add no name but the pass's.
<1>q. ASSUME UNCHANGED <<active, ready>>,
             \A p \in Pods, s \in Slots :
                handler'[p][s].name \in {handler[p][s].name, NoName, rec.desired},
             rec'.ready \subseteq Live,
             GoodName(rec'.desired)
      PROVE  ShardInv'
    <2>1. Live' = Live BY <1>q, <1>k
    <2>2. GoodName(rec.desired)' BY <1>q, <2>1 DEF GoodName
    <2>3. \A p \in Pods, s \in Slots : GoodName(handler[p][s].name)'
        BY <1>q, <1>i, <1>n, <2>1 DEF GoodName
    <2>4. \A p \in Pods : (active[p] \in Names \cup {Boot} /\ GoodName(active[p]))'
        BY <1>q, <1>i, <2>1 DEF GoodName
    <2> QED BY <1>t, <1>q, <1>i, <2>1, <2>2, <2>3, <2>4 DEF ShardInv
<1>1. ASSUME AgentStep, UNCHANGED operatorVars PROVE ShardInv'
    <2>1. /\ \A p \in Pods, s \in Slots :
                handler'[p][s].name \in {handler[p][s].name, NoName}
          /\ \A p \in Pods : active'[p] = active[p]
                \/ \E s \in Slots : /\ handler[p][s].pc = "use"
                                    /\ active'[p] = handler[p][s].name
        BY <1>1, <1>t, AgentEffect DEF TypeOK
    <2>2. \A p \in Pods, s \in Slots :
             handler[p][s].pc = "use" => handler[p][s].name \in Names
        BY <1>0 DEF HandlersOK, Handlers
    <2>3. Live \subseteq Live' BY <2>1, <2>2, NameAssumption DEF Live
    <2>4. \A p \in Pods, s \in Slots : GoodName(handler[p][s].name)'
        BY <2>1, <2>3, <1>i, <1>n DEF GoodName
    <2>5. \A p \in Pods : (active[p] \in Names \cup {Boot} /\ GoodName(active[p]))'
        BY <2>1, <2>2, <2>3, <1>i DEF GoodName
    <2>6. UNCHANGED <<ready, rec>> BY <1>1 DEF operatorVars
    <2>7. GoodName(rec.desired)' BY <2>3, <2>6, <1>i DEF GoodName
    <2> QED BY <1>t, <1>i, <2>3, <2>4, <2>5, <2>6, <2>7 DEF ShardInv
<1>2. ASSUME NEW c \in Contents, ChangeContent(c) PROVE ShardInv'
    BY <1>2, <1>q, <1>i DEF ChangeContent, agentVars, podVars
<1>3. ASSUME NEW p \in Pods, Kubelet(p) PROVE ShardInv'
    <2>1. UNCHANGED <<active, handler, rec>> BY <1>3 DEF Kubelet, agentVars
    <2>2. Live' = Live BY <2>1, <1>k
    <2>3. \A q \in Pods : ready'[q] => q \in Live
        BY <1>3, <1>i, <1>t DEF Kubelet, Healthy, Live, TypeOK
    <2> QED BY <1>t, <1>i, <2>1, <2>2, <2>3 DEF ShardInv, GoodName
<1>4. ASSUME OperatorRestart PROVE ShardInv'
    <2>1. \A p \in Pods, s \in Slots :
             handler'[p][s] \in {handler[p][s], IdleHandler,
                                 [handler[p][s] EXCEPT !.client = "gone"]}
        BY <1>4 DEF OperatorRestart
    <2>2. \A p \in Pods, s \in Slots :
             [handler[p][s] EXCEPT !.client = "gone"].name = handler[p][s].name
        BY <1>0 DEF HandlersOK, Handlers
    <2>3. \A p \in Pods, s \in Slots :
             handler'[p][s].name \in {handler[p][s].name, NoName}
        <3>1. IdleHandler.name = NoName BY DEF IdleHandler
        <3> QED BY <2>1, <2>2, <3>1
    <2>4. rec'.ready = {} /\ rec'.desired = NoName BY <1>4 DEF OperatorRestart, NoPass
    <2>5. UNCHANGED <<active, ready>> BY <1>4 DEF OperatorRestart, podVars
    <2>6. GoodName(rec'.desired) BY <2>4, NameAssumption DEF GoodName
    <2>7. \A p \in Pods, s \in Slots :
             handler'[p][s].name \in {handler[p][s].name, NoName, rec.desired}
        BY <2>3
    <2> QED BY <1>q, <2>4, <2>5, <2>6, <2>7
\* Steps of the pass that leave the handlers alone.
<1>p. ASSUME UNCHANGED <<active, handler, podVars>>,
             rec'.ready \subseteq Live, GoodName(rec'.desired)
      PROVE  ShardInv'
    BY <1>p, <1>q DEF podVars
<1>5. ASSUME CollectPeers PROVE ShardInv'
    <2>1. rec'.ready = {p \in Pods : started[p] /\ ready[p]} /\ rec'.desired = NoName
        BY <1>5 DEF CollectPeers, NoPass
    <2>2. rec'.ready \subseteq Live /\ GoodName(rec'.desired)
        BY <2>1, <1>i, NameAssumption DEF GoodName
    <2> QED BY <1>5, <1>p, <2>2 DEF CollectPeers, agentVars
<1>6. ASSUME Generate PROVE ShardInv'
    <2>1. PICK c \in {rec.content, content} : \E n \in VclNames(c, rec.ready) :
             rec' = [rec EXCEPT !.pc = "observe", !.content = c,
                                !.desired = n, !.todo = rec.reachable]
        BY <1>6 DEF Generate
    <2>2. PICK n \in VclNames(c, rec.ready) :
             rec' = [rec EXCEPT !.pc = "observe", !.content = c,
                                !.desired = n, !.todo = rec.reachable]
        BY <2>1
    <2>3. c \in Contents /\ rec.ready \in SUBSET Pods BY <1>t DEF TypeOK, Passes
    <2>4. n.peers \subseteq rec.ready BY <2>3, VclNamesType
    <2>5. rec'.ready = rec.ready /\ rec'.desired = n
        BY <2>2, <1>t DEF TypeOK, Passes
    <2>6. GoodName(rec'.desired) BY <2>4, <2>5, <1>i DEF GoodName
    <2> QED BY <1>6, <1>p, <1>i, <2>5, <2>6 DEF Generate, agentVars
<1>r. ASSUME rec'.ready = rec.ready, rec'.desired = rec.desired,
             UNCHANGED <<active, handler, podVars>>
      PROVE  ShardInv'
    BY <1>r, <1>p, <1>i
<1>7. ASSUME NEW p \in Pods, Observe(p) PROVE ShardInv'
    <2>1. rec'.ready = rec.ready /\ rec'.desired = rec.desired
        BY <1>7, <1>t DEF Observe, ObservedName, TypeOK, Passes
    <2> QED BY <1>7, <1>r, <2>1 DEF Observe
<1>8. ASSUME BeginPush PROVE ShardInv'
    <2>1. rec'.ready = rec.ready /\ rec'.desired = rec.desired
        BY <1>8, <1>t DEF BeginPush, TypeOK, Passes
    <2> QED BY <1>8, <1>r, <2>1 DEF BeginPush, agentVars
<1>9. ASSUME NEW p \in Pods, NEW s \in Slots, NEW h, NEW r, Becomes(p, s, h),
             h.name \in {handler[p][s].name, NoName, rec.desired},
             rec' = [rec EXCEPT !.result[p] = r], UNCHANGED <<active, podVars>>
      PROVE  ShardInv'
    <2>1. rec'.ready = rec.ready /\ rec'.desired = rec.desired
        BY <1>9, <1>t DEF TypeOK, Passes
    <2>2. \A q \in Pods, t \in Slots :
             handler'[q][t].name \in {handler[q][t].name, NoName, rec.desired}
        BY <1>9, <1>0, BecomesEffect
    <2> QED BY <1>9, <1>q, <1>i, <2>1, <2>2 DEF podVars
<1>10. ASSUME NEW p \in Pods, NEW s \in Slots, Send(p, s) PROVE ShardInv'
    <2> DEFINE h == [IdleHandler EXCEPT
                         !.name = rec.desired, !.client = "waiting",
                         !.pc = IF agentUp[p] THEN "list" ELSE "replied",
                         !.reply = IF agentUp[p] THEN "none" ELSE "error"]
    <2>1. Becomes(p, s, h) BY <1>10 DEF Send, StartPush
    <2>2. h.name = rec.desired BY DEF IdleHandler
    <2> HIDE DEF h
    <2> QED BY <1>10, <1>9, <2>1, <2>2 DEF Send, StartPush
<1>11. ASSUME NEW p \in Pods, NEW s \in Slots, Receive(p, s) PROVE ShardInv'
    <2>1. Becomes(p, s, IdleHandler) /\ IdleHandler.name = NoName
        BY <1>11 DEF Receive, CollectReply, IdleHandler
    <2> QED BY <1>11, <1>9, <2>1 DEF Receive, CollectReply
<1>12. ASSUME NEW p \in Pods, NEW s \in Slots, Timeout(p, s) PROVE ShardInv'
    <2>0. [handler[p][s] EXCEPT !.client = "gone"].name = handler[p][s].name
        BY <1>0 DEF HandlersOK, Handlers
    <2> DEFINE h == IF handler[p][s].pc = "replied" THEN IdleHandler
                    ELSE [handler[p][s] EXCEPT !.client = "gone"]
    <2>1. Becomes(p, s, h) BY <1>12 DEF Timeout, ClientGone
    <2>2. h.name \in {handler[p][s].name, NoName} BY <2>0 DEF IdleHandler
    <2> HIDE DEF h
    <2> QED BY <1>12, <1>9, <2>1, <2>2 DEF Timeout, ClientGone
<1>13. ASSUME FinishPass PROVE ShardInv'
    <2>1. rec'.ready = {} /\ rec'.desired = NoName BY <1>13 DEF FinishPass, NoPass
    <2>2. GoodName(rec'.desired) BY <2>1, NameAssumption DEF GoodName
    <2> QED BY <1>13, <1>p, <2>1, <2>2 DEF FinishPass
<1>14. CASE UNCHANGED vars
    <2>1. UNCHANGED <<active, handler, podVars>> /\ rec' = rec BY <1>14 DEF vars, podVars
    <2> QED BY <2>1, <1>r
<1> QED
    BY <1>1, <1>2, <1>3, <1>4, <1>5, <1>6, <1>7, <1>8, <1>10, <1>11, <1>12, <1>13, <1>14
    DEF Next, ClusterStep, PassStep

\* As long as no varnishd restarts, no VCL in service shards to a pod on the
\* bootstrap VCL: for any number of pods and contents, and whatever agent and
\* operator crashes, timeouts and lost writes occur on the way.
THEOREM NeverShardToBoot == "varnishd" \notin FaultKinds /\ Spec => []NoShardToBoot
<1>1. ShardInv => NoShardToBoot BY DEF ShardInv, GoodName, Live, NoShardToBoot
<1>2. SUFFICES ASSUME "varnishd" \notin FaultKinds PROVE Spec => []NoShardToBoot OBVIOUS
<1>3. ShardInv /\ [Next]_vars => ShardInv' BY <1>2, ShardStep
<1> QED BY <1>1, <1>3, ShardInit, PTL DEF Spec

=============================================================================

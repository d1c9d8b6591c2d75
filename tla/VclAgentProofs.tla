--------------------------- MODULE VclAgentProofs ---------------------------
(***************************************************************************)
(* Proofs about the agent: type correctness, the atomicity of a push under *)
(* every fault, and that nothing is orphaned as long as nothing but        *)
(* varnishd restarts.                                                      *)
(***************************************************************************)
EXTENDS VclAgent, TLAPS

\* The handlers part of the type invariant.
HandlersOK == handler \in [Pods -> [Slots -> Handlers]]

LEMMA IdleType == IdleHandler \in Handlers
BY DEF IdleHandler, Handlers

\* An answered handler is still a handler.
LEMMA AnsweredType ==
    ASSUME NEW h \in Handlers, Serving(h), NEW reply \in {"ok", "already", "error"}
    PROVE  Answered(h, reply) \in Handlers
<1>1. h.client = "waiting" => [h EXCEPT !.pc = "replied", !.reply = reply] \in Handlers
    BY DEF Handlers, Serving
<1> QED BY <1>1, IdleType DEF Answered

\* So is one whose command was cut off.
LEMMA CutOffType ==
    ASSUME NEW h \in Handlers
    PROVE  CutOff(h) \in Handlers
<1>1. h.pc = "list" => [h EXCEPT !.pc = "inline"] \in Handlers
    BY DEF Handlers
<1>2. h.pc \in {"inline", "use", "used"} => Answered(h, "error") \in Handlers
    BY AnsweredType DEF Serving
<1> QED BY <1>1, <1>2 DEF CutOff

\* Becomes changes one handler and no other.
LEMMA BecomesEffect ==
    ASSUME HandlersOK, NEW p \in Pods, NEW s \in Slots, NEW h, Becomes(p, s, h)
    PROVE  /\ handler'[p][s] = h
           /\ \A q \in Pods, t \in Slots :
                 q # p \/ t # s => handler'[q][t] = handler[q][t]
           /\ h \in Handlers => HandlersOK'
BY DEF HandlersOK, Becomes

\* A spent fault stays within the budget.
LEMMA FaultType ==
    ASSUME faults \in 0..MaxFaults, NEW kind, Fault(kind) \/ UNCHANGED faults
    PROVE  faults' \in 0..MaxFaults
BY FaultAssumption DEF Fault

\* The agent's state stays well typed, whatever faults occur: in particular
\* the number of discard goroutines never goes below zero and the active VCL
\* is always a name varnishd was given.
LEMMA AgentTypeStep == AgentTypeOK /\ [AgentNext]_agentVars => AgentTypeOK'
<1> SUFFICES ASSUME AgentTypeOK, [AgentNext]_agentVars PROVE AgentTypeOK'
    OBVIOUS
<1> USE IdleType
<1>0. HandlersOK BY DEF AgentTypeOK, HandlersOK
<1>a. ASSUME NEW p \in Pods, NEW s \in Slots, NEW reply \in {"ok", "already", "error"},
             Serving(handler[p][s]), Answer(p, s, reply)
      PROVE  HandlersOK'
    BY <1>a, <1>0, AnsweredType, BecomesEffect DEF Answer, HandlersOK
<1>b. ASSUME NEW p \in Pods, NEW s \in Slots, NEW h \in Handlers, Becomes(p, s, h)
      PROVE  HandlersOK'
    BY <1>b, <1>0, BecomesEffect
<1>f. ASSUME NEW kind, Fault(kind) \/ UNCHANGED faults PROVE faults' \in 0..MaxFaults
    BY <1>f, FaultType DEF AgentTypeOK
<1>h. ASSUME NEW p \in Pods, NEW s \in Slots PROVE handler[p][s] \in Handlers
    BY DEF AgentTypeOK
<1>1. ASSUME NEW p \in Pods, NEW s \in Slots, ListActive(p, s) PROVE AgentTypeOK'
    <2> DEFINE h == handler[p][s]
    <2>0. h \in Handlers /\ h.pc = "list" /\ active[p] \in Loadable
        BY <1>h, <1>1 DEF ListActive, AgentTypeOK
    <2>a. [h EXCEPT !.pc = "inline"] \in Handlers BY <2>0 DEF Handlers
    <2>1. [h EXCEPT !.pc = "inline", !.old = active[p]] \in Handlers
        BY <2>0 DEF Handlers
    <2>2. HandlersOK' BY <1>1, <1>b, <2>1, <2>a DEF ListActive
    <2>3. faults' \in 0..MaxFaults BY <1>1, <1>f DEF ListActive, CommandFails
    <2> QED BY <1>1, <2>2, <2>3 DEF ListActive, AgentTypeOK, HandlersOK
<1>2. ASSUME NEW p \in Pods, NEW s \in Slots, InlineVCL(p, s) PROVE AgentTypeOK'
    <2> DEFINE h == handler[p][s]
    <2>0. Serving(h) BY <1>2 DEF InlineVCL, Serving
    <2>1. [h EXCEPT !.pc = "use"] \in Handlers BY <1>h, <1>2 DEF Handlers, InlineVCL
    <2>2. HandlersOK' BY <1>2, <1>a, <1>b, <2>0, <2>1 DEF InlineVCL, Refusal
    <2>3. h.name \in Loadable BY <1>h, <1>2 DEF Handlers, Loadable, InlineVCL
    <2>4. faults' \in 0..MaxFaults BY <1>2, <1>f DEF InlineVCL, CommandFails, AnswerLost
    <2>5. loaded' \in [Pods -> SUBSET Loadable]
        BY <1>2, <2>3 DEF InlineVCL, AgentTypeOK
    <2> QED BY <1>2, <2>2, <2>4, <2>5 DEF InlineVCL, AgentTypeOK, HandlersOK
<1>3. ASSUME NEW p \in Pods, NEW s \in Slots, UseVCL(p, s) PROVE AgentTypeOK'
    <2> DEFINE h == handler[p][s]
    <2>0. Serving(h) BY <1>3 DEF UseVCL, Serving
    <2>1. [h EXCEPT !.pc = "used"] \in Handlers BY <1>h, <1>3 DEF Handlers, UseVCL
    <2>2. HandlersOK' BY <1>3, <1>a, <1>b, <2>0, <2>1 DEF UseVCL
    <2>3. h.name \in Loadable BY <1>h, <1>3 DEF Handlers, Loadable, UseVCL
    <2>4. faults' \in 0..MaxFaults BY <1>3, <1>f DEF UseVCL, CommandFails
    <2>5. active' \in [Pods -> Loadable]
        BY <1>3, <2>3 DEF UseVCL, AgentTypeOK
    <2> QED BY <1>3, <2>2, <2>4, <2>5 DEF UseVCL, AgentTypeOK, HandlersOK
<1>3a. ASSUME NEW p \in Pods, NEW s \in Slots, ReadAnswer(p, s) PROVE AgentTypeOK'
    <2>0. Serving(handler[p][s]) BY <1>3a DEF ReadAnswer, Serving
    <2>2. HandlersOK' BY <1>3a, <1>a, <2>0 DEF ReadAnswer
    <2>4. faults' \in 0..MaxFaults BY <1>3a, <1>f DEF ReadAnswer, AnswerLost
    <2>5. \/ UNCHANGED discards
          \/ discards' = [discards EXCEPT ![p][handler[p][s].old] = @ + 1]
        BY <1>3a DEF ReadAnswer
    <2>6. discards' \in [Pods -> [Loadable -> Nat]]
        BY <2>5 DEF AgentTypeOK
    <2> QED BY <1>3a, <2>2, <2>4, <2>6 DEF ReadAnswer, AgentTypeOK, HandlersOK
<1>4. ASSUME NEW p \in Pods, NEW s \in Slots, ContextDone(p, s) PROVE AgentTypeOK'
    <2> DEFINE h == handler[p][s]
    <2>1. [h EXCEPT !.ctx = "done"] \in Handlers BY <1>h DEF Handlers
    <2>2. HandlersOK' BY <1>4, <1>b, <2>1 DEF ContextDone
    <2>4. faults' \in 0..MaxFaults BY <1>4, <1>f DEF ContextDone
    <2> QED BY <1>4, <2>2, <2>4 DEF ContextDone, AgentTypeOK, HandlersOK
<1>5. ASSUME NEW p \in Pods, NEW n \in Loadable, DiscardVCL(p, n) PROVE AgentTypeOK'
    <2>1. faults' \in 0..MaxFaults BY <1>5, <1>f DEF DiscardVCL
    <2>2. loaded' \in [Pods -> SUBSET Loadable] BY <1>5 DEF DiscardVCL, AgentTypeOK
    <2>3. discards' \in [Pods -> [Loadable -> Nat]]
        <3>1. discards[p][n] \in Nat /\ discards[p][n] > 0 BY <1>5 DEF DiscardVCL, AgentTypeOK
        <3>2. discards[p][n] - 1 \in Nat BY <3>1
        <3> QED BY <1>5, <3>2 DEF DiscardVCL, AgentTypeOK
    <2> QED BY <1>5, <2>1, <2>2, <2>3 DEF DiscardVCL, AgentTypeOK
<1>6. ASSUME NEW p \in Pods, NEW t \in Temps, ValidateVCL(p, t) PROVE AgentTypeOK'
    <2>1. t \in Loadable BY DEF Loadable
    <2>2. faults' \in 0..MaxFaults BY <1>6, <1>f DEF ValidateVCL, AnswerLost
    <2>3. loaded' \in [Pods -> SUBSET Loadable] BY <1>6, <2>1 DEF ValidateVCL, AgentTypeOK
    <2>4. UNCHANGED discards \/ discards' = [discards EXCEPT ![p][t] = 1]
        BY <1>6 DEF ValidateVCL
    <2>5. discards' \in [Pods -> [Loadable -> Nat]] BY <2>4 DEF AgentTypeOK
    <2> QED BY <1>6, <2>2, <2>3, <2>5 DEF ValidateVCL, AgentTypeOK
<1>7. ASSUME NEW p \in Pods, VarnishdRestart(p) PROVE AgentTypeOK'
    <2>1. Boot \in Loadable BY DEF Loadable
    <2>2. HandlersOK'
        <3>1. PICK cut \in SUBSET Slots : handler' = [handler EXCEPT ![p] =
                 [s \in Slots |-> IF s \in cut THEN CutOff(handler[p][s])
                                               ELSE handler[p][s]]]
            BY <1>7 DEF VarnishdRestart
        <3>2. \A s \in Slots : CutOff(handler[p][s]) \in Handlers
            BY <1>h, CutOffType
        <3> QED BY <1>h, <1>0, <3>1, <3>2 DEF HandlersOK
    <2> QED BY <1>7, <1>f, <2>1, <2>2 DEF VarnishdRestart, AgentTypeOK, HandlersOK
<1>8. ASSUME NEW p \in Pods, AgentStop(p) PROVE AgentTypeOK'
    <2>1. \A s \in Slots :
             (IF Serving(handler[p][s]) THEN Answered(handler[p][s], "error")
                                        ELSE handler[p][s]) \in Handlers
        BY <1>h, AnsweredType
    <2>2. HandlersOK' BY <1>8, <2>1, <1>0 DEF AgentStop, HandlersOK
    <2>3. discards' \in [Pods -> [Loadable -> Nat]] BY <1>8 DEF AgentStop, AgentTypeOK
    <2> QED BY <1>8, <1>f, <2>2, <2>3 DEF AgentStop, AgentTypeOK, HandlersOK
<1>9. ASSUME NEW p \in Pods, AgentStart(p) PROVE AgentTypeOK'
    BY <1>9 DEF AgentStart, AgentTypeOK
<1>10. ASSUME NEW p \in Pods, NEW s \in Slots, NEW n \in Names, StartPush(p, s, n)
       PROVE  AgentTypeOK'
    <2> DEFINE up == agentUp[p]
               g == [IdleHandler EXCEPT
                         !.name = n, !.client = "waiting",
                         !.pc = IF up THEN "list" ELSE "replied",
                         !.reply = IF up THEN "none" ELSE "error"]
    <2>1. g \in Handlers BY NameAssumption DEF IdleHandler, Handlers
    <2>2. HandlersOK' BY <1>10, <1>b, <2>1 DEF StartPush
    <2> QED BY <1>10, <2>2 DEF StartPush, AgentTypeOK, HandlersOK
<1>11. ASSUME NEW p \in Pods, NEW s \in Slots, CollectReply(p, s) PROVE AgentTypeOK'
    <2>2. HandlersOK' BY <1>11, <1>b DEF CollectReply
    <2> QED BY <1>11, <2>2 DEF CollectReply, AgentTypeOK, HandlersOK
<1>12. ASSUME NEW p \in Pods, NEW s \in Slots, ClientGone(p, s) PROVE AgentTypeOK'
    <2> DEFINE h == handler[p][s]
    <2>1. h.pc # "replied" => [h EXCEPT !.client = "gone"] \in Handlers
        BY <1>h DEF Handlers
    <2>2. HandlersOK' BY <1>12, <1>b, <2>1 DEF ClientGone
    <2> QED BY <1>12, <1>f, <2>2 DEF ClientGone, AgentTypeOK, HandlersOK
<1>13. CASE UNCHANGED agentVars BY <1>13 DEF agentVars, AgentTypeOK
<1> QED
    BY <1>1, <1>2, <1>3, <1>3a, <1>4, <1>5, <1>6, <1>7, <1>8, <1>9, <1>10, <1>11, <1>12,
       <1>13
    DEF AgentNext, AgentStep, ClientStep, PushStep

LEMMA AgentTypeInit == AgentInit => AgentTypeOK
BY IdleType, FaultAssumption DEF AgentInit, AgentTypeOK, Loadable

\* AgentTypeOK is an invariant for any pods, names, faults and overlaps.
THEOREM AgentTypeCorrect == AgentSpec => []AgentTypeOK
BY AgentTypeInit, AgentTypeStep, PTL DEF AgentSpec

-----------------------------------------------------------------------------
(* No orphans.                                                             *)

\* Nothing but varnishd restarts, and the pushes of a pod do not overlap.
Undisturbed ==
    /\ FaultKinds \subseteq {"varnishd"}
    /\ \A s, t \in Slots : s = t

\* What makes NoOrphanVCL inductive: no request is cut short, and from
\* vcl.list until vcl.use the active VCL is the one that was listed, so the
\* goroutine discards what vcl.use replaces; or varnishd restarted, and what
\* it replaces is the bootstrap VCL.
Uncut(h) == Serving(h) => h.ctx = "live" /\ h.client = "waiting"

ListedStillActive(p, h) ==
    h.pc \in {"inline", "use"} => active[p] \in {h.old, Boot}

PodInv(p) ==
    /\ \A n \in loaded[p] \ {active[p], Boot} : OnItsWay(p, n)
    /\ \A s \in Slots : Uncut(handler[p][s]) /\ ListedStillActive(p, handler[p][s])

OrphanInv == AgentTypeOK /\ \A p \in Pods : PodInv(p)

LEMMA OrphanInit == AgentInit => OrphanInv
<1> SUFFICES ASSUME AgentInit PROVE OrphanInv OBVIOUS
<1>1. AgentTypeOK BY AgentTypeInit
<1>2. \A p \in Pods, s \in Slots : handler[p][s].pc = "idle"
    BY DEF AgentInit, IdleHandler
<1>3. \A p \in Pods : loaded[p] \ {active[p], Boot} = {} BY DEF AgentInit
<1> QED BY <1>1, <1>2, <1>3 DEF OrphanInv, PodInv, Uncut, Serving, ListedStillActive

\* A pod a step does not touch keeps its part of the invariant.
LEMMA PodFrame ==
    ASSUME NEW q \in Pods, PodInv(q),
           loaded'[q] = loaded[q], active'[q] = active[q],
           discards'[q] = discards[q], handler'[q] = handler[q]
    PROVE  PodInv(q)'
BY DEF PodInv, OnItsWay, ListedStillActive, Uncut, Serving

\* Under Undisturbed the only fault is a varnishd restart.
LEMMA NoOtherFault ==
    ASSUME Undisturbed, NEW kind, kind # "varnishd"
    PROVE  ~Fault(kind)
BY DEF Undisturbed, Fault

LEMMA OrphanStep ==
    ASSUME Undisturbed, OrphanInv, [AgentNext]_agentVars
    PROVE  OrphanInv'
<1>t. AgentTypeOK /\ AgentTypeOK' BY AgentTypeStep DEF OrphanInv
<1>0. HandlersOK BY <1>t DEF AgentTypeOK, HandlersOK
<1>i. \A p \in Pods : PodInv(p) BY DEF OrphanInv
<1>n. NoName \notin Loadable BY NameAssumption DEF Loadable
<1> SUFFICES \A q \in Pods : PodInv(q)' BY <1>t DEF OrphanInv
<1>h. ASSUME NEW p \in Pods, NEW s \in Slots PROVE handler[p][s] \in Handlers
    BY <1>0 DEF HandlersOK
\* An action on slot s of pod p: what is left to show of p.
<1>p. ASSUME NEW p \in Pods, NEW s \in Slots, NEW h, Becomes(p, s, h),
             \A q \in Pods \ {p} : /\ loaded'[q] = loaded[q]
                                   /\ active'[q] = active[q]
                                   /\ discards'[q] = discards[q],
             PodInv(p)'
      PROVE  \A q \in Pods : PodInv(q)'
    <2>1. \A q \in Pods \ {p} : handler'[q] = handler[q]
        BY <1>p, <1>0 DEF Becomes, HandlersOK
    <2> QED BY <1>p, <1>i, <2>1, PodFrame
\* With a single slot, what holds of s holds of all.
<1>s. \A s, t \in Slots : s = t BY DEF Undisturbed
<1>1. ASSUME NEW p \in Pods, NEW s \in Slots, ListActive(p, s)
      PROVE  \A q \in Pods : PodInv(q)'
    <2> DEFINE h == handler[p][s]
               g == [h EXCEPT !.pc = "inline", !.old = active[p]]
    <2>0. PodInv(p) BY <1>i
    <2>1. h \in Handlers /\ h.pc = "list" /\ h.ctx = "live" /\ h.client = "waiting"
        BY <1>1, <1>h, <2>0 DEF ListActive, PodInv, Uncut, Serving
    <2>2. Becomes(p, s, g) BY <1>1, <2>1, NoOtherFault DEF ListActive, CommandFails
    <2>3. UNCHANGED <<loaded, active, discards>> BY <1>1 DEF ListActive
    <2>4. handler'[p][s] = g BY <2>2, <1>0, BecomesEffect
    <2>5. /\ g.pc = "inline" /\ g.old = active[p]
          /\ g.ctx = "live" /\ g.client = "waiting"
        BY <2>1 DEF Handlers
    <2>6. active[p] # NoName BY <1>t, <1>n DEF AgentTypeOK
    <2>7. PodInv(p)'
        <3> HIDE DEF g
        <3>1. \A t \in Slots : handler'[p][t] = g BY <2>4, <1>s
        <3> QED BY <2>0, <2>1, <2>3, <2>5, <2>6, <3>1, <1>s
                DEF PodInv, OnItsWay, Uncut, Serving, ListedStillActive
    <2> QED BY <1>p, <2>2, <2>3, <2>7
<1>2. ASSUME NEW p \in Pods, NEW s \in Slots, InlineVCL(p, s)
      PROVE  \A q \in Pods : PodInv(q)'
    <2> DEFINE h == handler[p][s]
               g == [h EXCEPT !.pc = "use"]
    <2>0. PodInv(p) BY <1>i
    <2>1. h \in Handlers /\ h.pc = "inline" /\ h.ctx = "live" /\ h.client = "waiting"
        BY <1>2, <1>h, <2>0 DEF InlineVCL, PodInv, Uncut, Serving
    <2>2. UNCHANGED <<active, discards>> BY <1>2 DEF InlineVCL
    <2>3. CASE /\ loaded' = [loaded EXCEPT ![p] = @ \cup {h.name}]
               /\ Becomes(p, s, g)
        <3>1. handler'[p][s] = g BY <2>3, <1>0, BecomesEffect
        <3>2. /\ g.pc = "use" /\ g.name = h.name /\ g.old = h.old
              /\ g.ctx = "live" /\ g.client = "waiting"
            BY <2>1 DEF Handlers
        <3>3. loaded'[p] = loaded[p] \cup {h.name}
            BY <2>3, <1>t DEF AgentTypeOK
        <3>4. PodInv(p)'
            <4> HIDE DEF g
            <4>1. \A t \in Slots : handler'[p][t] = g BY <3>1, <1>s
            <4> QED BY <2>0, <2>1, <2>2, <3>2, <3>3, <4>1, <1>s
                    DEF PodInv, OnItsWay, Uncut, Serving, ListedStillActive
        <3>5. \A q \in Pods \ {p} : loaded'[q] = loaded[q]
            BY <2>3, <1>t DEF AgentTypeOK
        <3> QED BY <1>p, <2>3, <2>2, <3>4, <3>5
    <2>4. ASSUME NEW reply, Answer(p, s, reply), UNCHANGED loaded
          PROVE  \A q \in Pods : PodInv(q)'
        <3>1. handler'[p][s] = Answered(h, reply) BY <2>4, <1>0, BecomesEffect DEF Answer
        <3>2. Answered(h, reply).pc = "replied"
            BY <2>1 DEF Answered, Handlers
        <3>3. PodInv(p)'
            BY <2>0, <2>1, <2>2, <2>4, <3>1, <3>2, <1>s
            DEF PodInv, OnItsWay, Uncut, Serving, ListedStillActive
        <3> QED BY <1>p, <2>4, <2>2, <3>3 DEF Answer
    <2> QED BY <1>2, <2>1, <2>3, <2>4, NoOtherFault DEF InlineVCL, CommandFails, AnswerLost
<1>3. ASSUME NEW p \in Pods, NEW s \in Slots, UseVCL(p, s)
      PROVE  \A q \in Pods : PodInv(q)'
    <2> DEFINE h == handler[p][s]
               g == [h EXCEPT !.pc = "used"]
    <2>0. PodInv(p) BY <1>i
    <2>1. h \in Handlers /\ h.pc = "use" /\ h.ctx = "live" /\ h.client = "waiting"
        BY <1>3, <1>h, <2>0 DEF UseVCL, PodInv, Uncut, Serving
    <2>2. UNCHANGED <<loaded, discards>> BY <1>3 DEF UseVCL
    <2>3. CASE /\ active' = [active EXCEPT ![p] = h.name]
               /\ Becomes(p, s, g)
        <3>1. handler'[p][s] = g BY <2>3, <1>0, BecomesEffect
        <3>2. /\ g.pc = "used" /\ g.name = h.name /\ g.old = h.old
              /\ g.ctx = "live" /\ g.client = "waiting"
            BY <2>1 DEF Handlers
        <3>3. active'[p] = h.name BY <2>3, <1>t DEF AgentTypeOK
        <3>4. active[p] \in {h.old, Boot} BY <2>0, <2>1 DEF PodInv, ListedStillActive
        <3>5. \A n \in loaded[p] \ {h.name, Boot} : n = h.old \/ discards[p][n] > 0
            BY <2>0, <2>1, <3>4, <1>s DEF PodInv, OnItsWay
        <3>6. PodInv(p)'
            <4> HIDE DEF g
            <4>1. \A t \in Slots : handler'[p][t] = g BY <3>1, <1>s
            <4> QED BY <2>2, <3>2, <3>3, <3>5, <4>1
                    DEF PodInv, OnItsWay, Uncut, Serving, ListedStillActive
        <3>7. \A q \in Pods \ {p} : active'[q] = active[q]
            BY <2>3, <1>t DEF AgentTypeOK
        <3> QED BY <1>p, <2>2, <2>3, <3>6, <3>7
    <2>4. CASE h.name \notin loaded[p] /\ Answer(p, s, "error") /\ UNCHANGED active
        <3>1. handler'[p][s] = Answered(h, "error") BY <2>4, <1>0, BecomesEffect DEF Answer
        <3>2. Answered(h, "error").pc = "replied" BY <2>1 DEF Answered, Handlers
        <3>3. PodInv(p)'
            BY <2>0, <2>1, <2>2, <2>4, <3>1, <3>2, <1>s
            DEF PodInv, OnItsWay, Uncut, Serving, ListedStillActive
        <3> QED BY <1>p, <2>4, <2>2, <3>3 DEF Answer
    <2> QED BY <1>3, <2>1, <2>3, <2>4, NoOtherFault DEF UseVCL, CommandFails
<1>3a. ASSUME NEW p \in Pods, NEW s \in Slots, ReadAnswer(p, s)
       PROVE  \A q \in Pods : PodInv(q)'
    <2> DEFINE h == handler[p][s]
    <2>0. PodInv(p) BY <1>i
    <2>1. h \in Handlers /\ h.pc = "used" /\ h.client = "waiting"
        BY <1>3a, <1>h, <2>0 DEF ReadAnswer, PodInv, Uncut, Serving
    <2>2. /\ UNCHANGED <<loaded, active>> /\ Answer(p, s, "ok")
          /\ discards' = IF Superseded(h) THEN [discards EXCEPT ![p][h.old] = @ + 1]
                                          ELSE discards
        BY <1>3a, NoOtherFault DEF ReadAnswer, AnswerLost
    <2>3. handler'[p][s] = Answered(h, "ok") BY <2>2, <1>0, BecomesEffect DEF Answer
    <2>4. handler'[p][s].pc = "replied" BY <2>1, <2>3 DEF Answered, Handlers
    <2>5. \A n \in loaded[p] \ {active[p], Boot} : discards'[p][n] > 0
        <3> TAKE n \in loaded[p] \ {active[p], Boot}
        <3>1. n \in Loadable /\ n # NoName BY <1>t, <1>n DEF AgentTypeOK
        <3>2. discards[p][n] \in Nat BY <3>1, <1>t DEF AgentTypeOK
        <3>3. CASE n = h.old /\ n # h.name
            <4>1. discards'[p][n] = discards[p][n] + 1
                BY <2>2, <3>1, <3>3, <1>t DEF AgentTypeOK, Superseded
            <4> QED BY <3>2, <4>1
        <3>4. CASE ~(n = h.old /\ n # h.name)
            <4>1. discards[p][n] > 0 BY <2>0, <2>1, <3>4, <1>s DEF PodInv, OnItsWay
            <4>2. discards'[p][n] = discards[p][n]
                BY <2>2, <3>1, <3>4, <1>t DEF AgentTypeOK, Superseded
            <4> QED BY <4>1, <4>2
        <3> QED BY <3>3, <3>4
    <2>6. PodInv(p)'
        BY <2>2, <2>4, <2>5, <1>s DEF PodInv, OnItsWay, Uncut, Serving, ListedStillActive
    <2>7. \A q \in Pods \ {p} : discards'[q] = discards[q]
        BY <2>2, <1>t DEF AgentTypeOK
    <2> QED BY <1>p, <2>2, <2>6, <2>7 DEF Answer
<1>4. ASSUME NEW p \in Pods, NEW n \in Loadable, DiscardVCL(p, n)
      PROVE  \A q \in Pods : PodInv(q)'
    <2>1. /\ UNCHANGED <<active, handler>>
          /\ discards' = [discards EXCEPT ![p][n] = @ - 1]
          /\ loaded' = IF n = active[p] THEN loaded ELSE [loaded EXCEPT ![p] = @ \ {n}]
        BY <1>4, NoOtherFault DEF DiscardVCL
    <2>2. \A m \in loaded'[p] \ {active[p], Boot} :
             m \in loaded[p] /\ discards'[p][m] = discards[p][m]
        BY <2>1, <1>t DEF AgentTypeOK
    <2>3. PodInv(p)'
        BY <1>i, <2>1, <2>2 DEF PodInv, OnItsWay, Uncut, Serving, ListedStillActive
    <2>4. \A q \in Pods \ {p} : loaded'[q] = loaded[q] /\ discards'[q] = discards[q]
        BY <2>1, <1>t DEF AgentTypeOK
    <2> QED BY <1>i, <2>1, <2>3, <2>4, PodFrame
<1>5. ASSUME NEW p \in Pods, NEW t \in Temps, ValidateVCL(p, t)
      PROVE  \A q \in Pods : PodInv(q)'
    <2>0. t \in Loadable BY DEF Loadable
    <2>1. /\ UNCHANGED <<active, handler>>
          /\ discards' = [discards EXCEPT ![p][t] = 1]
          /\ loaded' = [loaded EXCEPT ![p] = @ \cup {t}]
        BY <1>5, NoOtherFault DEF ValidateVCL, AnswerLost
    <2>2. \A m \in loaded'[p] :
             discards'[p][m] > 0 \/ (m \in loaded[p] /\ discards'[p][m] = discards[p][m])
        BY <2>0, <2>1, <1>t DEF AgentTypeOK
    <2>3. PodInv(p)'
        BY <1>i, <2>1, <2>2 DEF PodInv, OnItsWay, Uncut, Serving, ListedStillActive
    <2>4. \A q \in Pods \ {p} : loaded'[q] = loaded[q] /\ discards'[q] = discards[q]
        BY <2>1, <1>t DEF AgentTypeOK
    <2> QED BY <1>i, <2>1, <2>3, <2>4, PodFrame
<1>6. ASSUME NEW p \in Pods, VarnishdRestart(p)
      PROVE  \A q \in Pods : PodInv(q)'
    <2>1. /\ loaded'[p] = {Boot} /\ active'[p] = Boot /\ UNCHANGED discards
          /\ \A q \in Pods \ {p} : /\ loaded'[q] = loaded[q] /\ active'[q] = active[q]
                                   /\ handler'[q] = handler[q]
        BY <1>6, <1>t DEF VarnishdRestart, AgentTypeOK
    <2>2. \A s \in Slots : handler'[p][s] \in {handler[p][s], CutOff(handler[p][s])}
        BY <1>6, <1>t DEF VarnishdRestart, AgentTypeOK
    <2>3. \A s \in Slots : Uncut(handler'[p][s])
        <3> TAKE s \in Slots
        <3> DEFINE h == handler[p][s]
        <3>0. h \in Handlers /\ Uncut(h) BY <1>h, <1>i DEF PodInv
        <3>1. h.pc = "list" => Uncut([h EXCEPT !.pc = "inline"])
            BY <3>0 DEF Uncut, Serving, Handlers
        <3>2. Uncut(Answered(h, "error"))
            BY <3>0 DEF Uncut, Serving, Handlers, Answered, IdleHandler
        <3> QED BY <2>2, <3>0, <3>1, <3>2 DEF CutOff
    <2>4. PodInv(p)' BY <2>1, <2>3 DEF PodInv, Uncut, Serving, ListedStillActive
    <2> QED BY <1>i, <2>1, <2>4, PodFrame
<1>7. ASSUME NEW p \in Pods, NEW s \in Slots, NEW h, Becomes(p, s, h),
             UNCHANGED <<loaded, active, discards>>,
             handler[p][s].pc \in {"idle", "replied"},
             h.pc \in {"idle", "replied"} \/ (h.pc = "list" /\ h.ctx = "live" /\ h.client = "waiting")
      PROVE  \A q \in Pods : PodInv(q)'
    <2>1. handler'[p][s] = h BY <1>7, <1>0, BecomesEffect
    <2>2. PodInv(p)'
        BY <1>i, <1>7, <2>1, <1>s DEF PodInv, OnItsWay, Uncut, Serving, ListedStillActive
    <2> QED BY <1>p, <1>7, <2>2
<1>8. ASSUME NEW p \in Pods, NEW s \in Slots, NEW n \in Names, StartPush(p, s, n)
      PROVE  \A q \in Pods : PodInv(q)'
    BY <1>7, <1>8 DEF StartPush, IdleHandler
<1>9. ASSUME NEW p \in Pods, NEW s \in Slots, CollectReply(p, s)
      PROVE  \A q \in Pods : PodInv(q)'
    BY <1>7, <1>9 DEF CollectReply, IdleHandler
<1>10. ASSUME NEW p \in Pods, AgentStart(p) PROVE \A q \in Pods : PodInv(q)'
    BY <1>i, <1>10, PodFrame DEF AgentStart
<1>11. ASSUME NEW p \in Pods, NEW s \in Slots
       PROVE  ~ContextDone(p, s) /\ ~ClientGone(p, s)
    <2>1. Uncut(handler[p][s]) BY <1>i DEF PodInv
    <2> QED BY <2>1, NoOtherFault DEF ContextDone, ClientGone, Uncut
<1>12. ASSUME NEW p \in Pods PROVE ~AgentStop(p)
    BY NoOtherFault DEF AgentStop
<1>13. CASE UNCHANGED agentVars BY <1>i, <1>13, PodFrame DEF agentVars
<1> QED
    BY <1>1, <1>2, <1>3, <1>3a, <1>4, <1>5, <1>6, <1>8, <1>9, <1>10, <1>11, <1>12, <1>13
    DEF AgentNext, AgentStep, ClientStep, PushStep

\* Left alone but for varnishd restarts, with one push per pod at a time, an
\* agent leaves no VCL in varnishd's table that nobody will activate or
\* discard: for any number of pods, names and restarts.
THEOREM NoOrphans == Undisturbed /\ AgentSpec => []NoOrphanVCL
<1>1. OrphanInv => NoOrphanVCL BY DEF OrphanInv, PodInv, NoOrphanVCL, Orphans
<1>2. Undisturbed /\ OrphanInv /\ [AgentNext]_agentVars => OrphanInv' BY OrphanStep
<1>3. SUFFICES ASSUME Undisturbed PROVE AgentSpec => []NoOrphanVCL OBVIOUS
<1>4. OrphanInv /\ [AgentNext]_agentVars => OrphanInv' BY <1>2, <1>3
<1> QED BY <1>1, <1>4, OrphanInit, PTL DEF AgentSpec
-----------------------------------------------------------------------------
(* Where orphans come from.                                                *)

\* What a step that leaves n orphaned must have been.
Cause(p, n) ==
    \E s \in Slots : \/ Overtook(p, s, n)
                     \/ handler[p][s].name = n /\ handler[p][s].ctx = "done"

\* A VCL stays on its way as long as the pushes and goroutines it waits for do.
LEMMA StaysOnItsWay ==
    ASSUME NEW p \in Pods, NEW n, OnItsWay(p, n), discards'[p][n] >= discards[p][n],
           discards[p][n] \in Nat, discards'[p][n] \in Nat,
           \A s \in Slots : handler[p][s].pc \in {"use", "used"} =>
               /\ handler'[p][s].pc = handler[p][s].pc
               /\ handler'[p][s].name = handler[p][s].name
               /\ handler'[p][s].old = handler[p][s].old
    PROVE  OnItsWay(p, n)'
BY DEF OnItsWay

LEMMA CauseStep ==
    ASSUME AgentTypeOK, AgentNext, UNCHANGED faults,
           NEW p \in Pods, NEW n \in Orphans(p)' \ Orphans(p)
    PROVE  Cause(p, n)
<1>t. AgentTypeOK' BY AgentTypeStep
<1>0. HandlersOK BY DEF AgentTypeOK, HandlersOK
<1>n. /\ n \in loaded'[p] /\ n # active'[p] /\ n # Boot /\ ~OnItsWay(p, n)'
      /\ n \notin loaded[p] \/ n = active[p] \/ OnItsWay(p, n)
    BY DEF Orphans
<1>l. n \in Loadable /\ n # NoName BY <1>t, <1>n, NameAssumption DEF AgentTypeOK, Loadable
<1>d. discards[p][n] \in Nat /\ discards'[p][n] \in Nat
    BY <1>l, <1>t DEF AgentTypeOK
<1>h. ASSUME NEW q \in Pods, NEW s \in Slots PROVE handler[q][s] \in Handlers
    BY <1>0 DEF HandlersOK
<1>f. \A kind : ~Fault(kind)
    BY DEF Fault, AgentTypeOK
\* Steps that leave what is loaded and active of p alone, and every push of p
\* that is at vcl.use.
<1>k. ASSUME n \in loaded[p], active'[p] = active[p], discards'[p][n] >= discards[p][n],
             \A s \in Slots : handler[p][s].pc \in {"use", "used"} =>
                 /\ handler'[p][s].pc = handler[p][s].pc
                 /\ handler'[p][s].name = handler[p][s].name
                 /\ handler'[p][s].old = handler[p][s].old
      PROVE  FALSE
    BY <1>k, <1>n, <1>d, StaysOnItsWay
\* One push of some pod moves, and it is not at vcl.use.
<1>b. ASSUME NEW q \in Pods, NEW s \in Slots, NEW h, Becomes(q, s, h),
             handler[q][s].pc \notin {"use", "used"}
      PROVE  \A t \in Slots : handler[p][t].pc \in {"use", "used"} =>
                 handler'[p][t] = handler[p][t]
    BY <1>b, <1>0, BecomesEffect
<1>1. ASSUME NEW q \in Pods, NEW s \in Slots, ListActive(q, s) PROVE FALSE
    <2>1. PICK h : Becomes(q, s, h) BY <1>1 DEF ListActive
    <2> QED BY <1>1, <2>1, <1>b, <1>k, <1>n, <1>d DEF ListActive
<1>2. ASSUME NEW q \in Pods, NEW s \in Slots, InlineVCL(q, s) PROVE FALSE
    <2> DEFINE h == handler[q][s]
    <2>0. h.pc = "inline" /\ UNCHANGED <<active, discards>> BY <1>2 DEF InlineVCL
    <2>1. PICK g : Becomes(q, s, g) BY <1>2 DEF InlineVCL, Answer
    <2>2. CASE n \in loaded[p]
        BY <2>0, <2>1, <2>2, <1>b, <1>k, <1>d
    <2>3. CASE n \notin loaded[p]
        <3>1. /\ loaded' = [loaded EXCEPT ![q] = @ \cup {h.name}]
              /\ Becomes(q, s, [h EXCEPT !.pc = "use"])
            BY <1>2, <1>n, <1>f, <2>3 DEF InlineVCL, AnswerLost
        <3>2. p = q /\ n = h.name BY <3>1, <2>3, <1>n DEF AgentTypeOK
        <3>3. handler'[p][s] = [h EXCEPT !.pc = "use"] BY <3>1, <3>2, <1>0, BecomesEffect
        <3>4. handler'[p][s].pc = "use" /\ handler'[p][s].name = n
            BY <3>2, <3>3, <1>h DEF Handlers
        <3> QED BY <3>4, <1>n DEF OnItsWay
    <2> QED BY <2>2, <2>3
<1>3. ASSUME NEW q \in Pods, NEW s \in Slots, UseVCL(q, s) PROVE Cause(p, n)
    <2> DEFINE h == handler[q][s]
    <2>0. h.pc = "use" /\ UNCHANGED <<loaded, discards>> BY <1>3 DEF UseVCL
    <2>1. n \in loaded[p] BY <2>0, <1>n
    <2>2. CASE q # p
        <3>1. PICK g : Becomes(q, s, g) BY <1>3 DEF UseVCL, Answer
        <3>2. \A t \in Slots : handler'[p][t] = handler[p][t]
            BY <2>2, <3>1, <1>0, BecomesEffect
        <3>3. active'[p] = active[p] BY <1>3, <2>2 DEF UseVCL, AgentTypeOK
        <3> QED BY <2>0, <2>1, <3>2, <3>3, <1>k, <1>d
    <2>3. CASE q = p /\ active' = [active EXCEPT ![q] = h.name]
                     /\ Becomes(q, s, [h EXCEPT !.pc = "used"])
        <3>1. /\ handler'[p][s] = [h EXCEPT !.pc = "used"]
              /\ \A t \in Slots \ {s} : handler'[p][t] = handler[p][t]
            BY <2>3, <1>0, BecomesEffect
        <3>2. /\ handler'[p][s].pc = "used" /\ handler'[p][s].name = h.name
              /\ handler'[p][s].old = h.old
            BY <3>1, <1>h DEF Handlers
        <3>3. active'[p] = h.name BY <2>3 DEF AgentTypeOK
        <3>4. n # h.name /\ h.old # n BY <3>2, <3>3, <1>n DEF OnItsWay
        <3>5. ~OnItsWay(p, n)
            <4> SUFFICES ASSUME OnItsWay(p, n) PROVE OnItsWay(p, n)' BY <1>n
            <4> QED BY <2>0, <2>3, <3>1, <3>4 DEF OnItsWay
        <3>6. n = active[p] BY <3>5, <2>1, <1>n
        <3> QED BY <2>0, <2>3, <3>2, <3>4, <3>6 DEF Cause, Overtook
    <2>4. CASE q = p /\ Answer(q, s, "error") /\ UNCHANGED active /\ h.name # n
        <3>1. \A t \in Slots \ {s} : handler'[p][t] = handler[p][t]
            BY <2>4, <1>0, BecomesEffect DEF Answer
        <3>2. OnItsWay(p, n) BY <2>1, <2>4, <1>n
        <3> QED BY <2>0, <2>4, <3>1, <3>2, <1>n DEF OnItsWay
    <2>5. CASE h.name \notin loaded[q] \/ h.ctx = "done"
        BY <1>3, <2>1, <2>2, <2>4, <2>5, <1>f, <2>3 DEF UseVCL, CommandFails, Cause
    <2> QED BY <1>3, <1>f, <1>h, <2>2, <2>3, <2>5 DEF UseVCL, CommandFails, Handlers
<1>4. ASSUME NEW q \in Pods, NEW s \in Slots, ReadAnswer(q, s) PROVE FALSE
    <2> DEFINE h == handler[q][s]
    <2>0. h.pc = "used" /\ UNCHANGED <<loaded, active>> BY <1>4 DEF ReadAnswer
    <2>1. /\ Answer(q, s, "ok")
          /\ discards' = IF Superseded(h) THEN [discards EXCEPT ![q][h.old] = @ + 1]
                                          ELSE discards
        BY <1>4, <1>f DEF ReadAnswer, AnswerLost
    <2>2. /\ \A t \in Slots : q # p \/ t # s => handler'[p][t] = handler[p][t]
        BY <2>1, <1>0, BecomesEffect DEF Answer
    <2>3. /\ discards'[p][n] >= discards[p][n]
          /\ q = p /\ n = h.old /\ Superseded(h) => discards'[p][n] > 0
        BY <2>1, <1>d, <1>l DEF AgentTypeOK
    <2>4. OnItsWay(p, n) BY <2>0, <1>n
    <2>5. CASE q = p /\ n = h.old /\ n # h.name
        BY <2>3, <2>5, <1>l, <1>n DEF Superseded, OnItsWay
    <2>6. CASE ~(q = p /\ n = h.old /\ n # h.name)
        BY <2>0, <2>2, <2>3, <2>4, <2>6, <1>d, <1>n DEF OnItsWay
    <2> QED BY <2>5, <2>6
<1>5. ASSUME NEW q \in Pods, NEW m \in Loadable, DiscardVCL(q, m) PROVE FALSE
    <2>1. /\ UNCHANGED <<active, handler>>
          /\ discards' = [discards EXCEPT ![q][m] = @ - 1]
          /\ loaded' = IF m = active[q] THEN loaded ELSE [loaded EXCEPT ![q] = @ \ {m}]
        BY <1>5, <1>f DEF DiscardVCL
    <2>2. n \in loaded[p] /\ ~(q = p /\ m = n) BY <2>1, <1>n DEF AgentTypeOK
    <2>3. discards'[p][n] = discards[p][n] BY <2>1, <2>2, <1>l DEF AgentTypeOK
    <2> QED BY <2>1, <2>2, <2>3, <1>k, <1>d
<1>6. ASSUME NEW q \in Pods, NEW t \in Temps, ValidateVCL(q, t) PROVE FALSE
    <2>1. /\ UNCHANGED <<active, handler>>
          /\ discards' = [discards EXCEPT ![q][t] = 1]
          /\ loaded' = [loaded EXCEPT ![q] = @ \cup {t}]
        BY <1>6, <1>f DEF ValidateVCL, AnswerLost
    <2>2. ~(q = p /\ t = n) BY <2>1, <1>n, <1>l DEF OnItsWay, AgentTypeOK
    <2>3. n \in loaded[p] /\ discards'[p][n] = discards[p][n]
        BY <2>1, <2>2, <1>n, <1>l DEF AgentTypeOK
    <2> QED BY <2>1, <2>3, <1>k, <1>d
<1>7. ASSUME NEW q \in Pods, NEW s \in Slots, ContextDone(q, s) PROVE FALSE
    <2> DEFINE h == handler[q][s]
               g == [h EXCEPT !.ctx = "done"]
    <2>1. UNCHANGED <<loaded, active, discards>> /\ Becomes(q, s, g)
        BY <1>7 DEF ContextDone
    <2>2. g.pc = h.pc /\ g.name = h.name /\ g.old = h.old BY <1>h DEF Handlers
    <2>3. \A t \in Slots : /\ handler'[p][t].pc = handler[p][t].pc
                           /\ handler'[p][t].name = handler[p][t].name
                           /\ handler'[p][t].old = handler[p][t].old
        <3> HIDE DEF g
        <3> QED BY <2>1, <2>2, <1>0, BecomesEffect
    <2> QED BY <2>1, <2>3, <1>k, <1>n, <1>d
<1>8. ASSUME NEW q \in Pods, AgentStart(q) PROVE FALSE
    BY <1>8, <1>k, <1>n, <1>d DEF AgentStart
<1>9. ASSUME NEW q \in Pods, NEW s \in Slots, NEW m \in Names, StartPush(q, s, m)
      PROVE  FALSE
    <2>1. PICK h : Becomes(q, s, h) BY <1>9 DEF StartPush
    <2> QED BY <1>9, <2>1, <1>b, <1>k, <1>n, <1>d DEF StartPush
<1>10. ASSUME NEW q \in Pods, NEW s \in Slots, CollectReply(q, s) PROVE FALSE
    BY <1>10, <1>b, <1>k, <1>n, <1>d DEF CollectReply
<1>11. ASSUME NEW q \in Pods, NEW s \in Slots
       PROVE  ~VarnishdRestart(q) /\ ~AgentStop(q) /\ ~ClientGone(q, s)
    BY <1>f DEF VarnishdRestart, AgentStop, ClientGone
<1> QED
    BY <1>1, <1>2, <1>3, <1>4, <1>5, <1>6, <1>7, <1>8, <1>9, <1>10, <1>11, <1>f
    DEF AgentNext, AgentStep, ClientStep, PushStep, VarnishdRestart, AgentStop

\* A VCL is orphaned by a fault, by a context that ends before vcl.use, or by a
\* push that was overtaken, and in no other way: for any number of overlapping
\* pushes and every fault.
THEOREM OrphansExplained == AgentSpec => OrphansHaveCause
<1> DEFINE Explained ==
        faults' = faults =>
            \A p \in Pods : \A n \in Orphans(p)' \ Orphans(p) : \E s \in Slots :
                \/ Overtook(p, s, n)
                \/ handler[p][s].name = n /\ handler[p][s].ctx = "done"
<1>1. AgentTypeOK /\ [AgentNext]_agentVars => [Explained]_agentVars
    BY CauseStep DEF Cause
<1> QED BY <1>1, AgentTypeCorrect, PTL DEF AgentSpec, OrphansHaveCause

-----------------------------------------------------------------------------
(* A push is atomic.                                                       *)

\* The abstract calls, and what each kind of step does to them.
AbstractCalls == [p \in Pods |-> [s \in Slots |-> AbstractCall(handler[p][s])]]

LEMMA CallBecomes ==
    ASSUME HandlersOK, NEW p \in Pods, NEW s \in Slots, NEW h, Becomes(p, s, h)
    PROVE  AbstractCalls' = [AbstractCalls EXCEPT ![p][s] = AbstractCall(h)]
<1>1. /\ handler'[p][s] = h
      /\ \A q \in Pods, t \in Slots :
            q # p \/ t # s => handler'[q][t] = handler[q][t]
    BY BecomesEffect
<1> DEFINE ac(q) == [t \in Slots |-> AbstractCall(handler[q][t])]
<1>2. ac(p)' = [ac(p) EXCEPT ![s] = AbstractCall(h)]
    BY <1>1 DEF AbstractCall, Stage
<1>3. \A q \in Pods \ {p} : ac(q)' = ac(q)
    BY <1>1 DEF AbstractCall, Stage
<1>4. AbstractCalls = [q \in Pods |-> ac(q)] /\ AbstractCalls' = [q \in Pods |-> ac(q)']
    BY DEF AbstractCalls
<1> HIDE DEF ac
<1> QED BY <1>2, <1>3, <1>4

LEMMA IdleCall == AbstractCall(IdleHandler) = Abstract!NoCall
BY DEF AbstractCall, Stage, IdleHandler, Abstract!NoCall

\* What call a handler stands for.
LEMMA CallShape ==
    ASSUME NEW h \in Handlers
    PROVE  /\ h.pc = "idle" => AbstractCall(h) = Abstract!NoCall
           /\ Abstract!Pending(AbstractCall(h)) <=> Serving(h)
           /\ AbstractCall(h).name = h.name
           /\ AbstractCall(h).caller = h.client
           /\ AbstractCall(h).stage = Stage(h)
<1>1. h.pc = "idle" => h.name = NoName /\ h.client = "gone" BY DEF Handlers
<1>2. h.pc = "idle" => AbstractCall(h) = Abstract!NoCall
    BY <1>1 DEF AbstractCall, Stage, Abstract!NoCall
<1>3. Stage(h) \in {"open", "loaded", "applied"} <=> Serving(h)
    BY DEF Stage, Serving, Handlers
<1> QED BY <1>2, <1>3 DEF AbstractCall, Abstract!Pending

\* Answering an unfinished call settles it.
LEMMA AnsweredCall ==
    ASSUME NEW h \in Handlers, NEW reply \in {"ok", "already", "error"}
    PROVE  AbstractCall(Answered(h, reply)) = Abstract!Settled(AbstractCall(h), reply)
<1>1. CASE h.client = "waiting"
    <2> DEFINE g == [h EXCEPT !.pc = "replied", !.reply = reply]
    <2>1. /\ g.pc = "replied" /\ g.reply = reply
          /\ g.name = h.name /\ g.client = h.client
        BY DEF Handlers
    <2>2. AbstractCall(g) = [stage |-> reply, caller |-> h.client, name |-> h.name]
        <3> HIDE DEF g
        <3> QED BY <2>1 DEF AbstractCall, Stage
    <2>3. Abstract!Settled(AbstractCall(h), reply)
            = [stage |-> reply, caller |-> h.client, name |-> h.name]
        BY <1>1 DEF AbstractCall, Abstract!Settled
    <2> QED BY <1>1, <2>2, <2>3 DEF Answered
<1>2. CASE h.client # "waiting"
    BY <1>2, IdleCall DEF Answered, AbstractCall, Abstract!Settled
<1> QED BY <1>1, <1>2

LEMMA AtomicInit == AgentInit => Abstract!Init
BY IdleCall DEF AgentInit, Abstract!Init

\* Every step of the agent is a step of AtomicPush or leaves it alone.
LEMMA AtomicStep ==
    ASSUME AgentTypeOK, [AgentNext]_agentVars
    PROVE  [Abstract!Next]_(Abstract!absVars)
<1> DEFINE A == AbstractCalls
<1>0. HandlersOK BY DEF AgentTypeOK, HandlersOK
<1>h. ASSUME NEW p \in Pods, NEW s \in Slots
      PROVE  handler[p][s] \in Handlers /\ A[p][s] = AbstractCall(handler[p][s])
    BY <1>0 DEF HandlersOK, AbstractCalls
<1>a. A \in [Pods -> [Slots -> {A[q][t] : q \in Pods, t \in Slots}]]
    BY DEF AbstractCalls
<1>e. ASSUME NEW p \in Pods, NEW s \in Slots, NEW h, Becomes(p, s, h)
      PROVE  A' = [A EXCEPT ![p][s] = AbstractCall(h)]
    BY <1>e, <1>0, CallBecomes
\* Rewriting a handler into one of the same abstract call is a stutter.
<1>s. ASSUME NEW p \in Pods, NEW s \in Slots, NEW h, Becomes(p, s, h),
             AbstractCall(h) = AbstractCall(handler[p][s])
      PROVE  A' = A
    <2>1. A' = [A EXCEPT ![p][s] = A[p][s]] BY <1>s, <1>e, <1>h
    <2> HIDE DEF A
    <2> QED BY <2>1, <1>a
<1>u. ASSUME A' = A, UNCHANGED <<loaded, active>> PROVE UNCHANGED Abstract!absVars
    BY <1>u DEF Abstract!absVars, AbstractCalls
\* Handlers of one pod that answer with an error.
<1>f. ASSUME NEW p \in Pods, NEW S \in SUBSET Slots,
             \A s \in S : Serving(handler[p][s]),
             \A s \in Slots : AbstractCall(handler'[p][s]) =
                 IF s \in S THEN AbstractCall(Answered(handler[p][s], "error"))
                            ELSE AbstractCall(handler[p][s]),
             \A q \in Pods \ {p} : handler'[q] = handler[q]
      PROVE  Abstract!SomeFail(p)
    <2>1. \A s \in S : Abstract!Pending(A[p][s]) BY <1>f, <1>h, CallShape
    <2>2. \A s \in Slots : AbstractCall(handler'[p][s]) =
              IF s \in S THEN Abstract!Settled(A[p][s], "error") ELSE A[p][s]
        BY <1>f, <1>h, AnsweredCall
    <2>3. A' = [A EXCEPT ![p] = [s \in Slots |->
                  IF s \in S THEN Abstract!Settled(A[p][s], "error") ELSE A[p][s]]]
        <3>1. A' = [q \in Pods |-> [s \in Slots |-> AbstractCall(handler'[q][s])]]
            BY DEF AbstractCalls, AbstractCall, Stage
        <3>2. A'[p] = [s \in Slots |->
                  IF s \in S THEN Abstract!Settled(A[p][s], "error") ELSE A[p][s]]
            BY <2>2, <3>1
        <3>3. \A q \in Pods \ {p} : A'[q] = A[q] BY <1>f, <3>1 DEF AbstractCalls
        <3>4. DOMAIN A' = Pods BY <3>1
        <3>5. A' = [q \in Pods |-> A'[q]] BY <3>1
        <3> HIDE DEF A
        <3> QED BY <3>2, <3>3, <3>4, <3>5, <1>a
    <2> QED BY <1>f, <2>1, <2>3 DEF Abstract!SomeFail, AbstractCalls
\* One handler that does.
<1>r. ASSUME NEW p \in Pods, NEW s \in Slots, Serving(handler[p][s]),
             Answer(p, s, "error"), UNCHANGED <<loaded, active>>
      PROVE  Abstract!Fail(p)
    <2>1. /\ handler'[p][s] = Answered(handler[p][s], "error")
          /\ \A q \in Pods, t \in Slots :
                q # p \/ t # s => handler'[q][t] = handler[q][t]
        BY <1>r, <1>0, BecomesEffect DEF Answer
    <2>2. \A q \in Pods \ {p} : handler'[q] = handler[q]
        BY <1>r, <1>0 DEF Answer, Becomes, HandlersOK
    <2>3. \A t \in Slots : AbstractCall(handler'[p][t]) =
              IF t \in {s} THEN AbstractCall(Answered(handler[p][t], "error"))
                           ELSE AbstractCall(handler[p][t])
        BY <2>1
    <2> QED BY <1>r, <1>f, <2>2, <2>3 DEF Abstract!Fail
<1>1. ASSUME NEW p \in Pods, NEW s \in Slots, ListActive(p, s)
      PROVE  UNCHANGED Abstract!absVars
    <2> DEFINE h == handler[p][s]
    <2>0. h \in Handlers /\ h.pc = "list" BY <1>1, <1>h DEF ListActive
    <2>1. \A g \in {[h EXCEPT !.pc = "inline", !.old = active[p]],
                    [h EXCEPT !.pc = "inline"]} : AbstractCall(g) = AbstractCall(h)
        <3> TAKE g \in {[h EXCEPT !.pc = "inline", !.old = active[p]],
                       [h EXCEPT !.pc = "inline"]}
        <3>1. g.pc = "inline" /\ g.client = h.client /\ g.name = h.name
            BY <2>0 DEF Handlers
        <3> QED BY <2>0, <3>1 DEF AbstractCall, Stage
    <2> QED BY <1>1, <1>s, <1>u, <2>1 DEF ListActive
<1>2. ASSUME NEW p \in Pods, NEW s \in Slots, InlineVCL(p, s)
      PROVE  Abstract!Load(p, s) \/ Abstract!Already(p, s) \/ Abstract!Fail(p)
    <2> DEFINE h == handler[p][s]
    <2>0. h \in Handlers /\ h.pc = "inline" /\ Serving(h) /\ UNCHANGED active
        BY <1>2, <1>h DEF InlineVCL, Serving
    <2>1. A[p][s].stage = "open" /\ A[p][s].name = h.name
        BY <2>0, <1>h, CallShape DEF Stage
    <2>2. CASE h.name \notin loaded[p] /\ loaded' = [loaded EXCEPT ![p] = @ \cup {h.name}]
        <3>1. ASSUME Becomes(p, s, [h EXCEPT !.pc = "use"])
              PROVE  A' = [A EXCEPT ![p][s] = [A[p][s] EXCEPT !.stage = "loaded"]]
            <4> DEFINE g == [h EXCEPT !.pc = "use"]
            <4>1. g.pc = "use" /\ g.client = h.client /\ g.name = h.name
                BY <2>0 DEF Handlers
            <4>2. AbstractCall(g) = [AbstractCall(h) EXCEPT !.stage = "loaded"]
                <5> HIDE DEF g
                <5> QED BY <4>1 DEF AbstractCall, Stage
            <4> QED BY <3>1, <4>2, <1>e, <1>h
        <3>2. ASSUME Answer(p, s, "error")
              PROVE  A' = [A EXCEPT ![p][s] = Abstract!Settled(A[p][s], "error")]
            BY <3>2, <1>e, <1>h, AnsweredCall DEF Answer
        <3>3. \/ Becomes(p, s, [h EXCEPT !.pc = "use"]) \/ Answer(p, s, "error")
            BY <1>2, <2>2 DEF InlineVCL, Refusal
        <3> QED BY <2>0, <2>1, <2>2, <3>1, <3>2, <3>3
                DEF Abstract!Load, Abstract!Becomes, AbstractCalls
    <2>3. CASE h.name \in loaded[p] /\ Answer(p, s, "already") /\ UNCHANGED loaded
        <3>1. A' = [A EXCEPT ![p][s] = Abstract!Settled(A[p][s], "already")]
            BY <2>3, <1>e, <1>h, AnsweredCall DEF Answer
        <3> QED BY <2>0, <2>1, <2>3, <3>1
                DEF Abstract!Already, Abstract!Becomes, AbstractCalls
    <2>4. CASE Answer(p, s, "error") /\ UNCHANGED loaded
        BY <2>0, <2>4, <1>r
    <2> QED BY <1>2, <2>2, <2>3, <2>4 DEF InlineVCL, Refusal
<1>3. ASSUME NEW p \in Pods, NEW s \in Slots, UseVCL(p, s)
      PROVE  Abstract!Activate(p, s) \/ Abstract!Fail(p)
    <2> DEFINE h == handler[p][s]
               g == [h EXCEPT !.pc = "used"]
    <2>0. h \in Handlers /\ h.pc = "use" /\ Serving(h) /\ UNCHANGED loaded
        BY <1>3, <1>h DEF UseVCL, Serving
    <2>1. A[p][s].stage = "loaded" /\ A[p][s].name = h.name
        BY <2>0, <1>h, CallShape DEF Stage
    <2>2. CASE /\ h.name \in loaded[p]
               /\ active' = [active EXCEPT ![p] = h.name] /\ Becomes(p, s, g)
        <3>1. g.pc = "used" /\ g.client = h.client /\ g.name = h.name
            BY <2>0 DEF Handlers
        <3>2. AbstractCall(g) = [AbstractCall(h) EXCEPT !.stage = "applied"]
            <4> HIDE DEF g
            <4> QED BY <3>1 DEF AbstractCall, Stage
        <3>3. A' = [A EXCEPT ![p][s] = [A[p][s] EXCEPT !.stage = "applied"]]
            BY <2>2, <3>2, <1>e, <1>h
        <3> QED BY <2>0, <2>1, <2>2, <3>3
                DEF Abstract!Activate, Abstract!Becomes, AbstractCalls
    <2>3. CASE Answer(p, s, "error") /\ UNCHANGED active
        BY <2>0, <2>3, <1>r
    <2> QED BY <1>3, <2>2, <2>3 DEF UseVCL
<1>4. ASSUME NEW p \in Pods, NEW s \in Slots, ReadAnswer(p, s)
      PROVE  Abstract!Confirm(p, s) \/ Abstract!Fail(p)
    <2> DEFINE h == handler[p][s]
    <2>0. /\ h \in Handlers /\ h.pc = "used" /\ Serving(h)
          /\ UNCHANGED <<loaded, active>>
        BY <1>4, <1>h DEF ReadAnswer, Serving
    <2>1. CASE Answer(p, s, "ok")
        <3>1. A[p][s].stage = "applied" BY <2>0, <1>h, CallShape DEF Stage
        <3>2. A' = [A EXCEPT ![p][s] = Abstract!Settled(A[p][s], "ok")]
            BY <2>1, <1>e, <1>h, AnsweredCall DEF Answer
        <3> QED BY <2>0, <3>1, <3>2 DEF Abstract!Confirm, Abstract!Becomes, AbstractCalls
    <2>2. CASE Answer(p, s, "error")
        BY <2>0, <2>2, <1>r
    <2> QED BY <1>4, <2>1, <2>2 DEF ReadAnswer
<1>5. ASSUME NEW p \in Pods, NEW s \in Slots, ContextDone(p, s)
      PROVE  UNCHANGED Abstract!absVars
    <2> DEFINE h == handler[p][s]
               g == [h EXCEPT !.ctx = "done"]
    <2>0. /\ g.pc = h.pc /\ g.client = h.client
          /\ g.reply = h.reply /\ g.name = h.name
        BY <1>h DEF Handlers
    <2>1. AbstractCall(g) = AbstractCall(h)
        <3> HIDE DEF g
        <3> QED BY <2>0 DEF AbstractCall, Stage
    <2> QED BY <1>5, <1>s, <1>u, <2>1 DEF ContextDone
<1>c. ASSUME UNCHANGED handler PROVE A' = A
    BY <1>c DEF AbstractCalls, AbstractCall, Stage
<1>6. ASSUME NEW p \in Pods, VarnishdRestart(p) PROVE Abstract!Restart(p)
    <2>1. PICK cut \in SUBSET Slots : handler' = [handler EXCEPT ![p] =
             [s \in Slots |-> IF s \in cut THEN CutOff(handler[p][s]) ELSE handler[p][s]]]
        BY <1>6 DEF VarnishdRestart
    <2> DEFINE S == {s \in cut : handler[p][s].pc \in {"inline", "use", "used"}}
    <2>2. \A q \in Pods \ {p} : handler'[q] = handler[q] BY <2>1, <1>0 DEF HandlersOK
    <2>3. \A s \in S : Serving(handler[p][s]) BY DEF Serving
    <2>4. ASSUME NEW s \in Slots
          PROVE  AbstractCall(handler'[p][s]) =
                   IF s \in S THEN AbstractCall(Answered(handler[p][s], "error"))
                              ELSE AbstractCall(handler[p][s])
        <3> DEFINE h == handler[p][s]
        <3>0. h \in Handlers BY <1>h
        <3>1. handler'[p][s] = IF s \in cut THEN CutOff(h) ELSE h
            BY <2>1, <1>0 DEF HandlersOK
        <3>2. CASE s \in S BY <3>1, <3>2 DEF CutOff
        <3>3. CASE s \in cut /\ h.pc = "list"
            <4> DEFINE g == [h EXCEPT !.pc = "inline"]
            <4>1. g.pc = "inline" /\ g.client = h.client /\ g.name = h.name
                BY <3>0 DEF Handlers
            <4>2. AbstractCall(g) = AbstractCall(h)
                <5> HIDE DEF g
                <5> QED BY <3>3, <4>1 DEF AbstractCall, Stage
            <4> QED BY <3>1, <3>3, <4>2 DEF CutOff
        <3>4. CASE s \notin S /\ ~(s \in cut /\ h.pc = "list")
            <4>1. handler'[p][s] = h BY <3>1, <3>4 DEF CutOff
            <4> QED BY <3>4, <4>1
        <3> QED BY <3>2, <3>3, <3>4
    <2>5. S \in SUBSET Slots OBVIOUS
    <2>6. Abstract!SomeFail(p)
        <3> HIDE DEF S
        <3> QED BY <1>f, <2>2, <2>3, <2>4, <2>5
    <2> QED BY <1>6, <2>6 DEF VarnishdRestart, Abstract!Restart
<1>7. ASSUME NEW p \in Pods, AgentStop(p) PROVE Abstract!Fail(p)
    <2> DEFINE S == {s \in Slots : Serving(handler[p][s])}
    <2>1. \A q \in Pods \ {p} : handler'[q] = handler[q]
        BY <1>7, <1>0 DEF AgentStop, HandlersOK
    <2>2. \A s \in Slots : handler'[p][s] = IF s \in S THEN Answered(handler[p][s], "error")
                                                       ELSE handler[p][s]
        BY <1>7, <1>0 DEF AgentStop, HandlersOK
    <2>3. S \in SUBSET Slots /\ \A s \in S : Serving(handler[p][s]) OBVIOUS
    <2>4. Abstract!SomeFail(p)
        <3> HIDE DEF S
        <3> QED BY <1>f, <2>1, <2>2, <2>3
    <2> QED BY <1>7, <2>4 DEF AgentStop, Abstract!Fail
<1>8. ASSUME NEW p \in Pods, NEW s \in Slots, NEW n \in Names, StartPush(p, s, n)
      PROVE  Abstract!Invoke(p, s, n)
    <2> DEFINE up == agentUp[p]
               g == [IdleHandler EXCEPT
                         !.name = n, !.client = "waiting",
                         !.pc = IF up THEN "list" ELSE "replied",
                         !.reply = IF up THEN "none" ELSE "error"]
    <2>1. A' = [A EXCEPT ![p][s] = AbstractCall(g)]
        BY <1>8, <1>e DEF StartPush
    <2>2. AbstractCall(g) = [stage |-> IF up THEN "open" ELSE "error",
                             caller |-> "waiting", name |-> n]
        BY DEF AbstractCall, Stage, IdleHandler
    <2>3. A[p][s] = Abstract!NoCall
        BY <1>8, <1>h, CallShape DEF StartPush
    <2> QED BY <1>8, <2>1, <2>2, <2>3
            DEF StartPush, Abstract!Invoke, Abstract!Becomes, AbstractCalls
<1>l. ASSUME NEW p \in Pods, NEW s \in Slots, handler[p][s].pc = "replied",
             Becomes(p, s, IdleHandler), UNCHANGED <<loaded, active>>
      PROVE  Abstract!Leave(p, s)
    <2>1. A' = [A EXCEPT ![p][s] = Abstract!NoCall] BY <1>l, <1>e, IdleCall
    <2>2. A[p][s].caller = "waiting" BY <1>l, <1>h, CallShape DEF Handlers
    <2>3. ~Abstract!Pending(A[p][s]) BY <1>l, <1>h, CallShape DEF Serving
    <2> QED BY <1>l, <2>1, <2>2, <2>3 DEF Abstract!Leave, Abstract!Becomes, AbstractCalls
<1>9. ASSUME NEW p \in Pods, NEW s \in Slots, CollectReply(p, s) PROVE Abstract!Leave(p, s)
    BY <1>9, <1>l DEF CollectReply
<1>10. ASSUME NEW p \in Pods, NEW s \in Slots, ClientGone(p, s) PROVE Abstract!Leave(p, s)
    <2> DEFINE h == handler[p][s]
               g == [h EXCEPT !.client = "gone"]
    <2>0. /\ h \in Handlers /\ h.pc # "idle" /\ h.client = "waiting"
          /\ UNCHANGED <<loaded, active>>
        BY <1>10, <1>h DEF ClientGone
    <2>1. CASE h.pc = "replied" BY <1>10, <2>0, <2>1, <1>l DEF ClientGone
    <2>2. CASE h.pc # "replied"
        <3>1. A' = [A EXCEPT ![p][s] = AbstractCall(g)]
            BY <1>10, <2>2, <1>e DEF ClientGone
        <3>2. g.pc = h.pc /\ g.client = "gone" /\ g.name = h.name /\ g.reply = h.reply
            BY <2>0 DEF Handlers
        <3>3. AbstractCall(g) = [AbstractCall(h) EXCEPT !.caller = "gone"]
            <4> HIDE DEF g
            <4> QED BY <3>2 DEF AbstractCall, Stage
        <3>4. A[p][s].caller = "waiting" /\ Abstract!Pending(A[p][s])
            <4>1. Serving(h) BY <2>0, <2>2 DEF Handlers, Serving
            <4> QED BY <2>0, <4>1, <1>h, CallShape
        <3>5. A' = [A EXCEPT ![p][s] = [A[p][s] EXCEPT !.caller = "gone"]]
            BY <3>1, <3>3, <1>h
        <3> QED BY <2>0, <3>4, <3>5 DEF Abstract!Leave, Abstract!Becomes, AbstractCalls
    <2> QED BY <2>1, <2>2
<1>11. ASSUME NEW p \in Pods, NEW n \in Loadable, DiscardVCL(p, n)
       PROVE  Abstract!Discard(p, n) \/ UNCHANGED Abstract!absVars
    <2>1. A' = A /\ UNCHANGED active BY <1>11, <1>c DEF DiscardVCL
    <2>2. CASE UNCHANGED loaded BY <1>u, <2>1, <2>2
    <2>3. CASE n # active[p] /\ loaded' = [loaded EXCEPT ![p] = @ \ {n}]
        BY <2>1, <2>3 DEF Abstract!Discard, AbstractCalls
    <2> QED BY <1>11, <2>2, <2>3 DEF DiscardVCL
<1>12. ASSUME NEW p \in Pods, NEW t \in Temps, ValidateVCL(p, t) PROVE Abstract!Try(p, t)
    <2>1. A' = A /\ UNCHANGED active BY <1>12, <1>c DEF ValidateVCL
    <2> QED BY <1>12, <2>1 DEF ValidateVCL, Abstract!Try, AbstractCalls
<1>13. ASSUME NEW p \in Pods, AgentStart(p) PROVE UNCHANGED Abstract!absVars
    BY <1>13, <1>c, <1>u DEF AgentStart
<1>14. CASE AgentStep
    BY <1>14, <1>1, <1>2, <1>3, <1>4, <1>5, <1>6, <1>7, <1>11, <1>12, <1>13
    DEF AgentStep, PushStep, Abstract!Next, Loadable
<1>15. CASE ClientStep
    BY <1>15, <1>8, <1>9, <1>10 DEF ClientStep, Abstract!Next
<1>16. CASE UNCHANGED agentVars BY <1>16, <1>c, <1>u DEF agentVars
<1> QED BY <1>14, <1>15, <1>16 DEF AgentNext

\* Under every fault, lost answers included, and any number of overlapping
\* pushes, PushVCL implements the atomic push.
THEOREM PushAtomicity == AgentSpec => PushIsAtomic
BY AtomicInit, AtomicStep, AgentTypeCorrect, PTL DEF AgentSpec, PushIsAtomic, Abstract!Spec

=============================================================================

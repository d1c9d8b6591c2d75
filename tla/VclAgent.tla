------------------------------ MODULE VclAgent ------------------------------
(***************************************************************************)
(* The vinyl-agent sidecar and the varnishd it administers, one pair per   *)
(* pod (internal/agent/admin.go, internal/agent/handler.go).               *)
(*                                                                         *)
(* A push is three admin commands on three connections: vcl.list to learn  *)
(* the name to discard later, vcl.inline to compile and load, vcl.use to   *)
(* activate.  Anything may happen between two of them: the request context *)
(* ends (the handler's 30 s deadline, or the operator hung up), varnishd   *)
(* restarts, the agent restarts, another push of the same pod overlaps.  A *)
(* command that fails did not reach varnishd, or its answer did not come   *)
(* back.                                                                   *)
(* The VCL that was active before is discarded by a goroutine that lives   *)
(* in the agent's memory only.                                             *)
(***************************************************************************)
EXTENDS Naturals, FiniteSets

CONSTANTS
    Pods,        \* the cache's pods
    Slots,       \* pushes of one pod that may overlap
    Names,       \* names the operator pushes VCLs under
    Broken,      \* the names among them whose VCL does not compile
    Temps,       \* names ValidateVCL makes up
    Boot,        \* the VCL varnishd starts with
    NoName,      \* the empty string: no name known
    FaultKinds,  \* which faults the environment may inject
    MaxFaults    \* bound on the faults of one behaviour

ASSUME NameAssumption ==
    /\ Broken \subseteq Names
    /\ Names \cap Temps = {}
    /\ Boot \notin Names \cup Temps
    /\ NoName \notin Names \cup Temps \cup {Boot}

ASSUME FaultAssumption ==
    /\ FaultKinds \subseteq {"varnishd", "agent", "ctx", "abandon", "admin", "operator", "status"}
    /\ MaxFaults \in Nat

VARIABLES
    loaded,    \* loaded[p]: the VCLs in varnishd's table
    active,    \* active[p]: the one that serves requests
    handler,   \* handler[p][s]: a PushVCL request the agent is serving
    discards,  \* discards[p][n]: goroutines waiting to vcl.discard n
    agentUp,   \* agentUp[p]: the agent listens
    faults     \* faults so far

agentVars == <<loaded, active, handler, discards, agentUp, faults>>

Loadable == Names \cup Temps \cup {Boot}

Handlers ==
    {h \in [pc     : {"idle", "list", "inline", "use", "used", "replied"},
            name   : Names \cup {NoName},
            old    : Loadable \cup {NoName},
            ctx    : {"live", "done"},
            client : {"waiting", "gone"},
            reply  : {"none", "ok", "already", "error"}] :
        /\ h.pc = "idle" <=> h.name = NoName
        /\ h.pc = "idle" => h.client = "gone"
        /\ h.pc = "replied" => h.client = "waiting" /\ h.reply # "none"}

IdleHandler ==
    [pc |-> "idle", name |-> NoName, old |-> NoName,
     ctx |-> "live", client |-> "gone", reply |-> "none"]

AgentTypeOK ==
    /\ loaded \in [Pods -> SUBSET Loadable]
    /\ active \in [Pods -> Loadable]
    /\ handler \in [Pods -> [Slots -> Handlers]]
    /\ discards \in [Pods -> [Loadable -> Nat]]
    /\ agentUp \in [Pods -> BOOLEAN]
    /\ faults \in 0..MaxFaults

AgentInit ==
    /\ loaded = [p \in Pods |-> {Boot}]
    /\ active = [p \in Pods |-> Boot]
    /\ handler = [p \in Pods |-> [s \in Slots |-> IdleHandler]]
    /\ discards = [p \in Pods |-> [n \in Loadable |-> 0]]
    /\ agentUp = [p \in Pods |-> TRUE]
    /\ faults = 0

-----------------------------------------------------------------------------
(* Faults.  Each one is spent from a budget, so a behaviour has finitely   *)
(* many of them and liveness can be asked of what follows the last.        *)

Fault(kind) ==
    /\ kind \in FaultKinds
    /\ faults < MaxFaults
    /\ faults' = faults + 1

\* A CLI command of request h does not reach varnishd: dialling, the handshake
\* or writing fails.  Without a context dialling always does.
CommandFails(h) == IF h.ctx = "live" THEN Fault("admin") ELSE UNCHANGED faults

\* varnishd carried the command out and readResponse fails.
AnswerLost == Fault("admin")

Serving(h) == h.pc \in {"list", "inline", "use", "used"}

\* Mutation: the handler answers 200 whatever PushVCL returned.
ErrorIgnored(h, reply) ==
    IF h.client = "waiting" THEN [h EXCEPT !.pc = "replied", !.reply = "ok"]
                            ELSE IdleHandler

\* What becomes of a handler when it answers: the answer waits for the
\* client, or is dropped with the connection.
Answered(h, reply) ==
    IF h.client = "waiting" THEN [h EXCEPT !.pc = "replied", !.reply = reply]
                            ELSE IdleHandler

Becomes(p, s, h) == handler' = [handler EXCEPT ![p][s] = h]

Answer(p, s, reply) == Becomes(p, s, Answered(handler[p][s], reply))

-----------------------------------------------------------------------------
(* A push, command by command.                                             *)

\* POST /vcl/push reaches a listening agent, or the connection is refused.
StartPush(p, s, n) ==
    /\ handler[p][s].pc = "idle"
    /\ Becomes(p, s, [IdleHandler EXCEPT
                         !.name = n, !.client = "waiting",
                         !.pc = IF agentUp[p] THEN "list" ELSE "replied",
                         !.reply = IF agentUp[p] THEN "none" ELSE "error"])
    /\ UNCHANGED <<loaded, active, discards, agentUp, faults>>

\* oldName, _ := c.ActiveVCL(ctx): an error is ignored and leaves it empty.
ListActive(p, s) ==
    LET h == handler[p][s] IN
    /\ h.pc = "list"
    /\ \/ /\ h.ctx = "live"
          /\ Becomes(p, s, [h EXCEPT !.pc = "inline", !.old = active[p]])
          /\ UNCHANGED faults
       \/ /\ CommandFails(h)
          /\ Becomes(p, s, [h EXCEPT !.pc = "inline"])
    /\ UNCHANGED <<loaded, active, discards, agentUp>>

\* varnishd refuses a name it has before it compiles anything.
Refusal(p, n) == IF n \in loaded[p] THEN "already" ELSE "error"

\* vcl.inline.
InlineVCL(p, s) ==
    LET h == handler[p][s] IN
    /\ h.pc = "inline"
    /\ \/ /\ h.ctx = "live"
          /\ h.name \notin loaded[p]
          /\ h.name \notin Broken
          /\ loaded' = [loaded EXCEPT ![p] = @ \cup {h.name}]
          /\ Becomes(p, s, [h EXCEPT !.pc = "use"])
          /\ UNCHANGED faults
       \/ /\ h.ctx = "live"
          /\ h.name \in loaded[p] \/ h.name \in Broken
          /\ Answer(p, s, Refusal(p, h.name))
          /\ UNCHANGED <<loaded, faults>>
       \/ /\ CommandFails(h)
          /\ Answer(p, s, "error")
          /\ UNCHANGED loaded
       \/ /\ h.ctx = "live"
          /\ h.name \notin loaded[p] \cup Broken
          /\ AnswerLost
          /\ loaded' = [loaded EXCEPT ![p] = @ \cup {h.name}]
          /\ Answer(p, s, "error")
    /\ UNCHANGED <<active, discards, agentUp>>

\* Mutation: the previous VCL is never discarded.
NeverSuperseded(h) == FALSE

\* oldName != "" && oldName != name
Superseded(h) == h.old \notin {NoName, h.name}

\* vcl.use, carried out by varnishd.  A failure returns at once: what vcl.inline
\* loaded stays loaded.
UseVCL(p, s) ==
    LET h == handler[p][s] IN
    /\ h.pc = "use"
    /\ \/ /\ h.ctx = "live"
          /\ h.name \in loaded[p]
          /\ active' = [active EXCEPT ![p] = h.name]
          /\ Becomes(p, s, [h EXCEPT !.pc = "used"])
          /\ UNCHANGED faults
       \/ /\ h.ctx = "live"
          /\ h.name \notin loaded[p]
          /\ Answer(p, s, "error")
          /\ UNCHANGED <<active, faults>>
       \/ /\ CommandFails(h)
          /\ Answer(p, s, "error")
          /\ UNCHANGED active
    /\ UNCHANGED <<loaded, discards, agentUp>>

\* PushVCL reads varnishd's answer to vcl.use: it starts the goroutine that
\* discards the previous VCL and returns, or the answer is lost and the VCL
\* that now serves is reported as an error, with nothing to discard the other.
ReadAnswer(p, s) ==
    LET h == handler[p][s] IN
    /\ h.pc = "used"
    /\ \/ /\ discards' = IF Superseded(h)
                         THEN [discards EXCEPT ![p][h.old] = @ + 1]
                         ELSE discards
          /\ Answer(p, s, "ok")
          /\ UNCHANGED faults
       \/ /\ AnswerLost
          /\ Answer(p, s, "error")
          /\ UNCHANGED discards
    /\ UNCHANGED <<loaded, active, agentUp>>

\* The client reads the answer.
CollectReply(p, s) ==
    /\ handler[p][s].pc = "replied"
    /\ Becomes(p, s, IdleHandler)
    /\ UNCHANGED <<loaded, active, discards, agentUp, faults>>

\* Mutation: the goroutine uses the request's context, which is over by then.
DiscardInRequestContext(p, n) ==
    /\ discards[p][n] > 0
    /\ discards' = [discards EXCEPT ![p][n] = @ - 1]
    /\ UNCHANGED <<loaded, active, handler, agentUp, faults>>

\* The discard goroutine wakes up.  varnishd refuses to discard the active
\* VCL and a name it does not have; errors are ignored, nothing is retried.
DiscardVCL(p, n) ==
    /\ discards[p][n] > 0
    /\ discards' = [discards EXCEPT ![p][n] = @ - 1]
    /\ \/ /\ loaded' = IF n = active[p] THEN loaded
                       ELSE [loaded EXCEPT ![p] = @ \ {n}]
          /\ UNCHANGED faults
       \/ Fault("admin") /\ UNCHANGED loaded
    /\ UNCHANGED <<active, handler, agentUp>>

\* POST /vcl/validate: load under a fresh name, discard in the background unless
\* the answer is lost.  A VCL that does not compile changes nothing.
ValidateVCL(p, t) ==
    /\ agentUp[p]
    /\ t \notin loaded[p]
    /\ discards[p][t] = 0
    /\ loaded' = [loaded EXCEPT ![p] = @ \cup {t}]
    /\ \/ discards' = [discards EXCEPT ![p][t] = 1] /\ UNCHANGED faults
       \/ AnswerLost /\ UNCHANGED discards
    /\ UNCHANGED <<active, handler, agentUp>>

-----------------------------------------------------------------------------
(* What the environment does to a pod.                                     *)

\* The command h waits for fails with its connection.
CutOff(h) ==
    CASE h.pc = "list" -> [h EXCEPT !.pc = "inline"]
      [] h.pc \in {"inline", "use", "used"} -> Answered(h, "error")
      [] OTHER -> h

\* The varnishd container restarts with the bootstrap VCL alone.  A command in
\* progress is cut off, or its answer was under way already.
VarnishdRestart(p) ==
    /\ Fault("varnishd")
    /\ loaded' = [loaded EXCEPT ![p] = {Boot}]
    /\ active' = [active EXCEPT ![p] = Boot]
    /\ \E cut \in SUBSET Slots :
          handler' = [handler EXCEPT ![p] =
             [s \in Slots |-> IF s \in cut THEN CutOff(handler[p][s])
                                           ELSE handler[p][s]]]
    /\ UNCHANGED <<discards, agentUp>>

\* The agent container goes down: requests in progress break off and the
\* discard goroutines are gone.  varnishd keeps its table.
AgentStop(p) ==
    /\ agentUp[p]
    /\ Fault("agent")
    /\ agentUp' = [agentUp EXCEPT ![p] = FALSE]
    /\ handler' = [handler EXCEPT ![p] =
          [s \in Slots |-> IF Serving(handler[p][s])
                           THEN Answered(handler[p][s], "error")
                           ELSE handler[p][s]]]
    /\ discards' = [discards EXCEPT ![p] = [n \in Loadable |-> 0]]
    /\ UNCHANGED <<loaded, active>>

AgentStart(p) ==
    /\ ~agentUp[p]
    /\ agentUp' = [agentUp EXCEPT ![p] = TRUE]
    /\ UNCHANGED <<loaded, active, handler, discards, faults>>

\* The handler's context ends: its 30 s are over, or net/http noticed that
\* the client hung up.  Every later dial of this request fails; after the last
\* one nothing asks for it.
ContextDone(p, s) ==
    LET h == handler[p][s] IN
    /\ Serving(h) /\ h.pc # "used"
    /\ h.ctx = "live"
    /\ IF h.client = "waiting" THEN Fault("ctx") ELSE UNCHANGED faults
    /\ Becomes(p, s, [h EXCEPT !.ctx = "done"])
    /\ UNCHANGED <<loaded, active, discards, agentUp>>

\* The client gives up (its own timeout) or dies.
ClientGone(p, s) ==
    LET h == handler[p][s] IN
    /\ h.pc # "idle"
    /\ h.client = "waiting"
    /\ Fault("abandon")
    /\ Becomes(p, s, IF h.pc = "replied" THEN IdleHandler
                                         ELSE [h EXCEPT !.client = "gone"])
    /\ UNCHANGED <<loaded, active, discards, agentUp>>

-----------------------------------------------------------------------------
PushStep(p, s) ==
    ListActive(p, s) \/ InlineVCL(p, s) \/ UseVCL(p, s) \/ ReadAnswer(p, s)

\* The steps the agent and the cluster take by themselves, whoever pushes.
AgentStep ==
    \E p \in Pods :
        \/ \E s \in Slots : PushStep(p, s) \/ ContextDone(p, s)
        \/ \E n \in Loadable : DiscardVCL(p, n)
        \/ \E t \in Temps : ValidateVCL(p, t)
        \/ VarnishdRestart(p) \/ AgentStop(p) \/ AgentStart(p)

\* An arbitrary client of the agent's push API.
ClientStep ==
    \E p \in Pods, s \in Slots :
        \/ \E n \in Names : StartPush(p, s, n)
        \/ CollectReply(p, s) \/ ClientGone(p, s)

AgentNext == AgentStep \/ ClientStep

\* A goroutine that can run does: handlers finish, timers fire.
AgentFairness ==
    \A p \in Pods :
        /\ \A s \in Slots : WF_agentVars(PushStep(p, s))
        /\ \A n \in Loadable : WF_agentVars(DiscardVCL(p, n))

AgentSpec == AgentInit /\ [][AgentNext]_agentVars /\ AgentFairness

-----------------------------------------------------------------------------
(* Properties.                                                             *)

\* A VCL that is loaded but not active is on its way out or on its way in: a
\* goroutine waits to discard it, a push that replaced it is about to start that
\* goroutine, or a push is about to vcl.use it.
OnItsWay(p, n) ==
    \/ discards[p][n] > 0
    \/ \E s \in Slots :
          \/ handler[p][s].pc = "use" /\ handler[p][s].name = n
          \/ /\ handler[p][s].pc = "used"
             /\ handler[p][s].old = n /\ handler[p][s].name # n

\* Anything else is an orphan, and an orphan is more than a leak: the name stays
\* taken, so every later push of it is answered "Already a VCL named" and never
\* reaches vcl.use.  The bootstrap VCL is never pushed, so it is exempt.
Orphans(p) == {n \in loaded[p] \ {active[p], Boot} : ~OnItsWay(p, n)}

\* PushVCL and ValidateVCL leave no orphans.
NoOrphanVCL == \A p \in Pods : Orphans(p) = {}

\* vcl.use of the push in slot s replaces n, which is not what its vcl.list said.
Overtook(p, s, n) ==
    /\ handler[p][s].pc = "use" /\ handler'[p][s].pc = "used"
    /\ n = active[p] /\ n # handler[p][s].old

\* Whatever happens, a VCL is orphaned in one of three ways only: by a fault, by
\* a context that ends between vcl.inline and vcl.use, or by a push that was
\* overtaken by another after it had asked for the name to discard.
OrphansHaveCause ==
    [][faults' = faults =>
          \A p \in Pods : \A n \in Orphans(p)' \ Orphans(p) : \E s \in Slots :
              \/ Overtook(p, s, n)
              \/ handler[p][s].name = n /\ handler[p][s].ctx = "done"]_agentVars

\* A superseded VCL leaves varnishd's table, unless it is activated again.
OldVCLDiscarded ==
    \A p \in Pods : \A n \in Names \cup Temps :
        n \in loaded[p] /\ n # active[p] ~> n \notin loaded[p] \/ n = active[p]

\* The stage of the abstract call that a request has reached.
Stage(h) ==
    CASE h.pc \in {"list", "inline"} -> "open"
      [] h.pc = "use" -> "loaded"
      [] h.pc = "used" -> "applied"
      [] h.pc = "replied" -> h.reply
      [] OTHER -> "idle"

AbstractCall(h) == [stage |-> Stage(h), caller |-> h.client, name |-> h.name]

Abstract == INSTANCE AtomicPush WITH
    call <- [p \in Pods |-> [s \in Slots |-> AbstractCall(handler[p][s])]]

\* However the commands of PushVCL interleave with restarts, cancellations, lost
\* answers, discards and other pushes, a push takes effect at one instant or not
\* at all and is answered "ok" only if it did: see AtomicPush.
PushIsAtomic == Abstract!Spec

=============================================================================

----------------------------- MODULE AtomicPush -----------------------------
(***************************************************************************)
(* What the agent's push API promises.  A push takes effect at one instant *)
(* between the call and the answer, or never.  It is answered "ok" only if *)
(* it took effect, with a VCL it loaded itself; "already" only if varnishd *)
(* had that name, and then it has no effect.  After "error" the caller     *)
(* knows nothing: the VCL may be loaded, and it may serve.  Nothing but a  *)
(* push and a varnishd restart moves the active VCL, and the active VCL is *)
(* never discarded.                                                        *)
(***************************************************************************)
CONSTANTS Pods, Slots, Names, Temps, Boot, NoName

VARIABLES
    loaded,  \* loaded[p]: the VCLs pod p has
    active,  \* active[p]: the one it serves with
    call     \* call[p][s]: the push calls

absVars == <<loaded, active, call>>

NoCall == [stage |-> "idle", caller |-> "gone", name |-> NoName]

Pending(c) == c.stage \in {"open", "loaded", "applied"}

\* An answer nobody waits for is told to nobody.
Settled(c, answer) ==
    IF c.caller = "waiting" THEN [c EXCEPT !.stage = answer] ELSE NoCall

Becomes(p, s, c) == call' = [call EXCEPT ![p][s] = c]

Init ==
    /\ loaded = [p \in Pods |-> {Boot}]
    /\ active = [p \in Pods |-> Boot]
    /\ call = [p \in Pods |-> [s \in Slots |-> NoCall]]

\* The call is accepted, or refused at once.
Invoke(p, s, n) ==
    /\ call[p][s] = NoCall
    /\ \E stage \in {"open", "error"} :
          Becomes(p, s, [stage |-> stage, caller |-> "waiting", name |-> n])
    /\ UNCHANGED <<loaded, active>>

\* A VCL is loaded under a new name; whoever asked for it may not learn of it.
Load(p, s) ==
    LET c == call[p][s] IN
    /\ c.stage = "open"
    /\ c.name \notin loaded[p]
    /\ loaded' = [loaded EXCEPT ![p] = @ \cup {c.name}]
    /\ Becomes(p, s, [c EXCEPT !.stage = "loaded"]) \/ Becomes(p, s, Settled(c, "error"))
    /\ UNCHANGED active

Already(p, s) ==
    LET c == call[p][s] IN
    /\ c.stage = "open"
    /\ c.name \in loaded[p]
    /\ Becomes(p, s, Settled(c, "already"))
    /\ UNCHANGED <<loaded, active>>

\* The instant at which the push takes effect.
Activate(p, s) ==
    LET c == call[p][s] IN
    /\ c.stage = "loaded"
    /\ c.name \in loaded[p]
    /\ active' = [active EXCEPT ![p] = c.name]
    /\ Becomes(p, s, [c EXCEPT !.stage = "applied"])
    /\ UNCHANGED loaded

Confirm(p, s) ==
    /\ call[p][s].stage = "applied"
    /\ Becomes(p, s, Settled(call[p][s], "ok"))
    /\ UNCHANGED <<loaded, active>>

\* Some pending calls of a pod end in an error, at whatever stage.
SomeFail(p) ==
    \E S \in SUBSET {s \in Slots : Pending(call[p][s])} :
        call' = [call EXCEPT ![p] = [s \in Slots |->
            IF s \in S THEN Settled(call[p][s], "error") ELSE call[p][s]]]

Fail(p) == SomeFail(p) /\ UNCHANGED <<loaded, active>>

\* The caller leaves, or has read the answer.
Leave(p, s) ==
    LET c == call[p][s] IN
    /\ c.caller = "waiting"
    /\ Becomes(p, s, IF Pending(c) THEN [c EXCEPT !.caller = "gone"] ELSE NoCall)
    /\ UNCHANGED <<loaded, active>>

\* A VCL is loaded for validation only.
Try(p, t) ==
    /\ loaded' = [loaded EXCEPT ![p] = @ \cup {t}]
    /\ UNCHANGED <<active, call>>

Discard(p, n) ==
    /\ n # active[p]
    /\ loaded' = [loaded EXCEPT ![p] = @ \ {n}]
    /\ UNCHANGED <<active, call>>

Restart(p) ==
    /\ loaded' = [loaded EXCEPT ![p] = {Boot}]
    /\ active' = [active EXCEPT ![p] = Boot]
    /\ SomeFail(p)

Next ==
    \E p \in Pods :
        \/ Fail(p) \/ Restart(p)
        \/ \E t \in Temps : Try(p, t)
        \/ \E n \in Names \cup Temps \cup {Boot} : Discard(p, n)
        \/ \E s \in Slots :
              \/ \E n \in Names : Invoke(p, s, n)
              \/ Load(p, s) \/ Already(p, s) \/ Activate(p, s) \/ Confirm(p, s)
              \/ Leave(p, s)

Spec == Init /\ [][Next]_absVars

=============================================================================

------------------------- MODULE InvalidationProxy -------------------------
(***************************************************************************)
(* The invalidation proxy (internal/proxy): it maps the Host of a PURGE,   *)
(* BAN or xkey request to a cache, takes the pods the controller published *)
(* for it, sends them one broadcast per site host or key under one         *)
(* deadline, and answers with a summary of what the pods answered.  The    *)
(* controller's worker publishes and withdraws caches meanwhile, pods come *)
(* and go, caches are paused, and the operator may restart.                *)
(*                                                                         *)
(* The table of routes, the purge hosts and the pod map each have a lock   *)
(* of their own, so a request sees them at three different moments.  A     *)
(* site host or a key is only a number here: what matters is how many      *)
(* broadcasts a request makes and whether they name a site.  cmd/operator  *)
(* registers neither an ACL nor a rate limiter.  The pod map holds IPs; a  *)
(* pod stands for its IP here, so no two pods have one after the other.    *)
(***************************************************************************)
EXTENDS Integers, FiniteSets, FiniteSetsExt

CONSTANTS
    Caches,         \* records [ns, name]
    Pods,
    PodsOf,         \* PodsOf[c]: the pods of cache c
    SpecHosts,      \* SpecHosts[c]: the number of spec.invalidation.purge.hosts
    Clients,        \* each sends one request
    Requests,       \* the requests sent
    MaxPurgeHosts,  \* 16
    MaxChanges,     \* bound on the changes of pods, caches and operator
    NoCache,
    Unknown         \* a count nobody reported

ShortHost(c) == <<c.name, c.ns>>

FqdnHost(c) == <<c.name, c.ns, "svc">>

Hosts == UNION {{ShortHost(c), FqdnHost(c), <<c.name>>} : c \in Caches}

Kinds == {"purge", "ban", "xkey", "other"}

ASSUME ProxyAssumption ==
    /\ PodsOf \in [Caches -> SUBSET Pods]
    /\ IsFiniteSet(Pods)
    /\ SpecHosts \in [Caches -> 0..MaxPurgeHosts]
    /\ MaxPurgeHosts \in Nat /\ MaxChanges \in Nat
    /\ Requests \subseteq [host : Hosts, kind : Kinds, items : Nat, bad : BOOLEAN]
    /\ NoCache \notin Caches
    /\ Unknown \notin Int

VARIABLES
    live,      \* caches that exist
    paused,    \* those whose passes end before collectPeers
    up,        \* ready pods
    routes,    \* RegisteredRouter.routes
    hosts,     \* RegisteredRouter.purgeHosts: how many
    podmap,    \* PodMap.data
    worker,    \* the controller's worker on its way through the three tables
    req,       \* the requests
    log,       \* what pods carried out, whether or not the proxy heard of it
    changes

vars == <<live, paused, up, routes, hosts, podmap, worker, req, log, changes>>

PodResult == [status : {"none", "2xx", "error"}, count : {Unknown} \cup Nat]

Pending == [status |-> "none", count |-> Unknown]

Statuses == {"none", "unknown host", "no pods", "no route", "bad", "lost",
             "ok", "partial", "failed"}

Calls(n, P) == (1..n) \X P

IdleRequest(r) ==
    [pc |-> "idle", in |-> r, cache |-> NoCache, pods |-> {}, rounds |-> 0, round |-> 0,
     expired |-> FALSE, routed |-> FALSE, results |-> [k \in {} |-> Pending],
     status |-> "none", purged |-> Unknown, unknowns |-> 0]

ProxyTypeOK ==
    /\ live \subseteq Caches /\ paused \subseteq Caches
    /\ up \subseteq Pods
    /\ routes \in [Hosts -> Caches \cup {NoCache}]
    /\ hosts \in [Caches -> 0..MaxPurgeHosts]
    /\ podmap \in [Caches -> SUBSET Pods]
    /\ worker.pc \in {"idle", "register", "hosts", "pods", "delete"}
    /\ worker.cache \in Caches \cup {NoCache} /\ worker.peers \subseteq Pods
    /\ \A cl \in Clients :
        /\ req[cl].pc \in {"idle", "lookup", "purge", "call", "answered"}
        /\ req[cl].in \in Requests
        /\ req[cl].cache \in Caches \cup {NoCache}
        /\ req[cl].pods \subseteq Pods
        /\ req[cl].rounds \in Nat /\ req[cl].round \in 0..req[cl].rounds
        /\ req[cl].results \in [Calls(req[cl].rounds, req[cl].pods) -> PodResult]
        /\ req[cl].status \in Statuses
    /\ log \subseteq [client : Clients, round : Nat, pod : Pods, removed : Nat, told : BOOLEAN]
    /\ changes \in 0..MaxChanges

IdleWorker == [pc |-> "idle", cache |-> NoCache, peers |-> {}]

ProxyInit ==
    /\ live = Caches /\ paused = {}
    /\ up = UNION {PodsOf[c] : c \in Caches}
    /\ routes = [h \in Hosts |-> NoCache]
    /\ hosts = [c \in Caches |-> 0]
    /\ podmap = [c \in Caches |-> {}]
    /\ worker = IdleWorker
    /\ req \in [Clients -> {IdleRequest(r) : r \in Requests}]
    /\ log = {}
    /\ changes = 0

clusterVars == <<live, paused, up>>
proxyTables == <<routes, hosts, podmap>>
clientVars == <<req, log>>

-----------------------------------------------------------------------------
(* The controller's worker: updateProxy and the deletion handler.          *)

\* A pass that gets as far as collectPeers: the ready pods, as the informer
\* shows them.
Collect(c) ==
    /\ worker.pc = "idle"
    /\ c \in live \ paused
    /\ worker' = [pc |-> "register", cache |-> c, peers |-> up \cap PodsOf[c]]
    /\ UNCHANGED <<clusterVars, proxyTables, clientVars, changes>>

\* Mutation: the bare Service name is routed as well.
RegisterBareName(c) ==
    [h \in Hosts |-> IF h \in {ShortHost(c), FqdnHost(c), <<c.name>>} THEN c ELSE routes[h]]

Registered(c) ==
    [h \in Hosts |-> IF h \in {ShortHost(c), FqdnHost(c)} THEN c ELSE routes[h]]

Register ==
    /\ worker.pc = "register"
    /\ routes' = Registered(worker.cache)
    /\ worker' = [worker EXCEPT !.pc = "hosts"]
    /\ UNCHANGED <<clusterVars, hosts, podmap, clientVars, changes>>

SetPurgeHosts ==
    /\ worker.pc = "hosts"
    /\ hosts' = [hosts EXCEPT ![worker.cache] = SpecHosts[worker.cache]]
    /\ worker' = [worker EXCEPT !.pc = "pods"]
    /\ UNCHANGED <<clusterVars, routes, podmap, clientVars, changes>>

\* Mutation: pods are only ever added.
PodsAdded(c) == podmap[c] \cup worker.peers

PodsReplaced(c) == worker.peers

UpdatePods ==
    /\ worker.pc = "pods"
    /\ podmap' = [podmap EXCEPT ![worker.cache] = PodsReplaced(worker.cache)]
    /\ worker' = IdleWorker
    /\ UNCHANGED <<clusterVars, routes, hosts, clientVars, changes>>

\* The deletion handler, which comes before the pause; the cache is gone when
\* its finalizer is removed.
Unregister(c) ==
    /\ worker.pc = "idle"
    /\ c \in live
    /\ changes < MaxChanges
    /\ changes' = changes + 1
    /\ routes' = [h \in Hosts |-> IF h \in {ShortHost(c), FqdnHost(c)} THEN NoCache ELSE routes[h]]
    /\ hosts' = [hosts EXCEPT ![c] = 0]
    /\ worker' = [pc |-> "delete", cache |-> c, peers |-> {}]
    /\ UNCHANGED <<clusterVars, podmap, clientVars>>

DeletePods ==
    /\ worker.pc = "delete"
    /\ podmap' = [podmap EXCEPT ![worker.cache] = {}]
    /\ live' = live \ {worker.cache} /\ paused' = paused \ {worker.cache}
    /\ worker' = IdleWorker
    /\ UNCHANGED <<up, routes, hosts, clientVars, changes>>

-----------------------------------------------------------------------------
(* A request.                                                              *)

Becomes(cl, v) == req' = [req EXCEPT ![cl] = v]

Reply(cl, status) == [req[cl] EXCEPT !.pc = "answered", !.status = status]

\* ServeHTTP: the Host names a cache, in full, or the request is refused.
Lookup(cl) ==
    LET c == routes[req[cl].in.host]
    IN  /\ req[cl].pc = "idle"
        /\ Becomes(cl, IF c = NoCache THEN Reply(cl, "unknown host")
                       ELSE [req[cl] EXCEPT !.pc = "lookup", !.cache = c])
        /\ UNCHANGED <<clusterVars, proxyTables, worker, log, changes>>

\* n broadcasts to the pods P.
Started(cl, n, P) ==
    [req[cl] EXCEPT !.pc = "call", !.pods = P, !.rounds = n, !.round = 1,
                    !.results = [k \in Calls(n, P) |-> Pending]]

\* handleBAN sends one expression, handleXkey one PURGE per key.
BanOrXkey(cl, P) ==
    LET in == req[cl].in
    IN  CASE in.bad \/ in.items = 0 -> Reply(cl, "bad")
          [] in.kind = "ban" -> Started(cl, 1, P)
          [] OTHER -> Started(cl, in.items, P)

\* ServeHTTP: a copy of the pods, then the handler.
Dispatch(cl) ==
    LET P == podmap[req[cl].cache]
    IN  /\ req[cl].pc = "lookup"
        /\ Becomes(cl, CASE P = {} -> Reply(cl, "no pods")
                         [] P # {} /\ req[cl].in.kind = "purge" ->
                              [req[cl] EXCEPT !.pc = "purge", !.pods = P,
                                              !.results = [k \in Calls(0, P) |-> Pending]]
                         [] P # {} /\ req[cl].in.kind \in {"ban", "xkey"} -> BanOrXkey(cl, P)
                         [] OTHER -> Reply(cl, "no route"))
        /\ UNCHANGED <<clusterVars, proxyTables, worker, log, changes>>

\* purgeHosts and the head of handlePurge: the hosts of the header, else those
\* of the spec, else the routing host, which no site's objects are keyed by.
PurgeHosts(cl) ==
    LET in == req[cl].in
        n == IF in.items > 0 THEN in.items ELSE hosts[req[cl].cache]
    IN  /\ req[cl].pc = "purge"
        /\ Becomes(cl, CASE in.bad \/ in.items > MaxPurgeHosts -> Reply(cl, "bad")
                         [] n > 0 -> Started(cl, n, req[cl].pods)
                         [] OTHER -> [Started(cl, 1, req[cl].pods) EXCEPT !.routed = TRUE])
        /\ UNCHANGED <<clusterVars, proxyTables, worker, log, changes>>

-----------------------------------------------------------------------------
(* Broadcast and callPod.                                                  *)

Waiting(cl) ==
    {p \in req[cl].pods : req[cl].results[<<req[cl].round, p>>].status = "none"}

Got(cl, p, status, count) ==
    Becomes(cl, [req[cl] EXCEPT !.results[<<req[cl].round, p>>] =
                    [status |-> status, count |-> count]])

Entry(cl, p, n, told) ==
    [client |-> cl, round |-> req[cl].round, pod |-> p, removed |-> n, told |-> told]

\* Only a VCL that has vcl_synth's header tells the count; the agent's answer
\* to a ban never does.
Tells(cl) == IF req[cl].in.kind = "ban" THEN {FALSE} ELSE BOOLEAN

\* Mutation: a missing or malformed header counts as zero.
ParsedAsZero(n, told) == IF told THEN n ELSE 0

ParseObjectsPurged(n, told) == IF told THEN n ELSE Unknown

\* The pod carries the request out, removes an object or none, and may say so.
PodAnswers(cl, p) ==
    /\ req[cl].pc = "call" /\ p \in Waiting(cl)
    /\ p \in up /\ ~req[cl].expired
    /\ \E told \in Tells(cl) : \E n \in IF told THEN 0..1 ELSE {1} :
        /\ Got(cl, p, "2xx", ParseObjectsPurged(n, told))
        /\ log' = log \cup {Entry(cl, p, n, told)}
    /\ UNCHANGED <<clusterVars, proxyTables, worker, changes>>

\* An answer that is not 2xx, such as 405 from the bootstrap VCL.
PodRefuses(cl, p) ==
    /\ req[cl].pc = "call" /\ p \in Waiting(cl)
    /\ p \in up /\ ~req[cl].expired
    /\ Got(cl, p, "error", Unknown)
    /\ UNCHANGED <<clusterVars, proxyTables, worker, log, changes>>

\* Mutation: the call has no deadline.
GivesUpIfGone(cl, p) == p \notin up

GivesUp(cl, p) == p \notin up \/ req[cl].expired

\* No answer: the pod was not reached, or carried the request out and the
\* proxy does not hear of it.
CallFails(cl, p) ==
    /\ req[cl].pc = "call" /\ p \in Waiting(cl)
    /\ GivesUp(cl, p)
    /\ Got(cl, p, "error", Unknown)
    /\ log' \in {log, log \cup {Entry(cl, p, 1, FALSE)}}
    /\ UNCHANGED <<clusterVars, proxyTables, worker, changes>>

\* The deadline all broadcasts of a request share.
Deadline(cl) ==
    /\ req[cl].pc = "call" /\ ~req[cl].expired
    /\ Becomes(cl, [req[cl] EXCEPT !.expired = TRUE])
    /\ UNCHANGED <<clusterVars, proxyTables, worker, log, changes>>

MoreRounds(cl) == req[cl].round < req[cl].rounds

NextRound(cl) ==
    /\ req[cl].pc = "call" /\ Waiting(cl) = {}
    /\ MoreRounds(cl)
    /\ Becomes(cl, [req[cl] EXCEPT !.round = @ + 1])
    /\ UNCHANGED <<clusterVars, proxyTables, worker, log, changes>>

-----------------------------------------------------------------------------
(* The answer.                                                             *)

Succeeded(res) == {k \in DOMAIN res : res[k].status = "2xx"}

\* Mutation: any success will do.
StatusOfAny(res) == IF Succeeded(res) # {} THEN "ok" ELSE "failed"

\* statusString.
StatusOf(res) ==
    CASE Cardinality(Succeeded(res)) = Cardinality(DOMAIN res) -> "ok"
      [] Succeeded(res) = {} -> "failed"
      [] OTHER -> "partial"

Known(res) == {k \in DOMAIN res : res[k].count # Unknown}

\* aggregateObjectsPurged.
Purged(res) ==
    IF Known(res) = {} THEN Unknown
    ELSE MapThenSumSet(LAMBDA k : res[k].count, Known(res))

\* recordInvalidation: the answers that should have told a count and did not.
Unknowns(kind, res) ==
    IF kind \in {"purge", "xkey"} THEN Cardinality(Succeeded(res) \ Known(res)) ELSE 0

\* mergeResults, and handleXkey's accumulation.
Merged(cl) == req[cl].results

Finish(cl) ==
    /\ req[cl].pc = "call" /\ Waiting(cl) = {}
    /\ ~MoreRounds(cl)
    /\ LET res == Merged(cl)
       IN  Becomes(cl, [Reply(cl, StatusOf(res)) EXCEPT
                            !.purged = Purged(res),
                            !.unknowns = Unknowns(req[cl].in.kind, res)])
    /\ UNCHANGED <<clusterVars, proxyTables, worker, log, changes>>

-----------------------------------------------------------------------------
(* The environment.                                                        *)

Change == changes < MaxChanges /\ changes' = changes + 1

\* A pod becomes ready or stops being so.
PodFlips(p) ==
    /\ Change
    /\ up' = IF p \in up THEN up \ {p} ELSE up \cup {p}
    /\ UNCHANGED <<live, paused, proxyTables, worker, clientVars>>

\* The annotation pause-vcl-push is set, or an error ends every pass of c before
\* collectPeers.
Pause(c) ==
    /\ Change
    /\ c \in live
    /\ paused' = paused \cup {c}
    /\ UNCHANGED <<live, up, proxyTables, worker, clientVars>>

Resume(c) ==
    /\ c \in paused
    /\ paused' = paused \ {c}
    /\ UNCHANGED <<live, up, proxyTables, worker, clientVars, changes>>

CreateCache(c) ==
    /\ Change
    /\ c \notin live
    /\ live' = live \cup {c}
    /\ UNCHANGED <<paused, up, proxyTables, worker, clientVars>>

\* The tables are memory; the clients' connections break.
OperatorRestart ==
    /\ Change
    /\ routes' = [h \in Hosts |-> NoCache]
    /\ hosts' = [c \in Caches |-> 0]
    /\ podmap' = [c \in Caches |-> {}]
    /\ worker' = IdleWorker
    /\ req' = [cl \in Clients |-> IF req[cl].pc \in {"idle", "answered"} THEN req[cl]
                                  ELSE Reply(cl, "lost")]
    /\ UNCHANGED <<clusterVars, log>>

-----------------------------------------------------------------------------
RequestStep(cl) ==
    \/ Lookup(cl) \/ Dispatch(cl) \/ PurgeHosts(cl)
    \/ Deadline(cl) \/ NextRound(cl) \/ Finish(cl)
    \/ \E p \in Pods : CallFails(cl, p)

PodStep(cl) == \E p \in Pods : PodAnswers(cl, p) \/ PodRefuses(cl, p)

Publish(c) == Collect(c) \/ (worker.cache = c /\ (Register \/ SetPurgeHosts \/ UpdatePods))

CacheChange(c) == CreateCache(c) \/ Unregister(c) \/ Pause(c) \/ Resume(c)

Environment ==
    \/ OperatorRestart
    \/ \E c \in Caches : CacheChange(c)
    \/ \E p \in Pods : PodFlips(p)

ProxyNext ==
    \/ \E cl \in Clients : RequestStep(cl) \/ PodStep(cl)
    \/ \E c \in Caches : Publish(c)
    \/ DeletePods
    \/ Environment

\* A handler runs and its deadline passes, whatever the pods do; the worker
\* takes up every cache again, after 5 minutes at the latest.  A paused cache it
\* takes up in vain: Collect asks for nothing of it.
ProxyFairness ==
    /\ \A cl \in Clients : WF_vars(RequestStep(cl))
    /\ \A c \in Caches : SF_vars(Collect(c))
    /\ WF_vars(Register \/ SetPurgeHosts \/ UpdatePods \/ DeletePods)

ProxySpec == ProxyInit /\ [][ProxyNext]_vars

FairProxySpec == ProxySpec /\ ProxyFairness

-----------------------------------------------------------------------------
(* Properties.                                                             *)

Did(cl, k) == \E e \in log : e.client = cl /\ e.round = k[1] /\ e.pod = k[2]

\* An answer "ok" means that every pod the cache had when the request came in
\* carried out every one of its purges, keys or bans, whichever of them timed
\* out, was refused or came from a pod that went away in between
\* (proxy/broadcast.go, mergeResults, handleXkey).
OkMeansEveryPod ==
    \A cl \in Clients : req[cl].status = "ok" =>
        \A k \in Calls(req[cl].rounds, req[cl].pods) : Did(cl, k)

\* A request reaches pods of the cache its Host names with its namespace, and
\* of no other, and a bare Service name reaches none, while caches of the same
\* name come and go in other namespaces (RegisteredRouter, PodMap).
SentToNamedCache ==
    \A e \in log : \E c \in Caches :
        /\ req[e.client].in.host \in {ShortHost(c), FqdnHost(c)}
        /\ e.pod \in PodsOf[c]

Told(cl) == {e \in log : e.client = cl /\ e.told}

\* The count in an answer is the sum of what pods said they removed, and is
\* missing, never zero, when none said it (aggregateObjectsPurged,
\* parseObjectsPurged).
CountIsConfirmed ==
    \A cl \in Clients : req[cl].status \in {"ok", "partial", "failed"} =>
        req[cl].purged = IF Told(cl) = {} THEN Unknown
                         ELSE MapThenSumSet(LAMBDA e : e.removed, Told(cl))

\* Every request is answered, also when a pod accepts the connection and never
\* answers (broadcastTimeout).
RequestsAnswered ==
    \A cl \in Clients : req[cl].pc # "idle" ~> req[cl].pc = "answered"

\* Once pods and caches stop changing, the pod map is exactly the ready pods of
\* the caches that exist, after restarts, deletions and pauses too; only a cache
\* that stays paused keeps the pods of its last pass, or none if the operator
\* restarted since (Reconcile, updateProxy, PodMap.Update, PodMap.Delete).
MapCatchesUp ==
    <>[](\A c \in Caches \ paused :
            podmap[c] = IF c \in live THEN up \cap PodsOf[c] ELSE {})

=============================================================================

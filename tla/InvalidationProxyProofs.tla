---------------------- MODULE InvalidationProxyProofs ----------------------
(***************************************************************************)
(* Theorems about InvalidationProxy, for any caches, pods, clients,        *)
(* requests and changes.                                                   *)
(***************************************************************************)
EXTENDS InvalidationProxy, FiniteSetTheorems, TLAPS

Fields == {"pc", "in", "cache", "pods", "rounds", "round", "expired", "routed",
           "results", "status", "purged", "unknowns"}

\* A request: its type, and what its state says about the parts it has.
RequestOK(r) ==
    /\ DOMAIN r = Fields
    /\ r.pc \in {"idle", "lookup", "purge", "call", "answered"}
    /\ r.in \in Requests
    /\ r.cache \in Caches \cup {NoCache}
    /\ r.pods \in SUBSET Pods
    /\ r.rounds \in Nat /\ r.round \in 0..r.rounds
    /\ r.results \in [Calls(r.rounds, r.pods) -> PodResult]
    /\ r.status \in Statuses
    /\ r.pc = "idle" => r.rounds = 0 /\ r.pods = {}
    /\ r.pc = "lookup" => r.rounds = 0 /\ r.pods = {}
    /\ r.pc \in {"lookup", "purge", "call"} => r.cache \in Caches
    /\ r.pc = "call" => r.round >= 1
    /\ r.pc # "answered" => r.status = "none"

\* The tables, the worker and the pods.
TablesOK ==
    /\ live \in SUBSET Caches /\ paused \in SUBSET Caches
    /\ up \in SUBSET Pods
    /\ routes \in [Hosts -> Caches \cup {NoCache}]
    /\ hosts \in [Caches -> 0..MaxPurgeHosts]
    /\ podmap \in [Caches -> SUBSET Pods]
    /\ worker \in [pc : {"idle", "register", "hosts", "pods", "delete"},
                   cache : Caches \cup {NoCache}, peers : SUBSET Pods]
    /\ worker.pc # "idle" => worker.cache \in Caches
    /\ changes \in 0..MaxChanges

Entries == [client : Clients, round : Nat, pod : Pods, removed : Nat, told : BOOLEAN]

TypeInv ==
    /\ TablesOK
    /\ DOMAIN req = Clients
    /\ \A cl \in Clients : RequestOK(req[cl])
    /\ log \in SUBSET Entries

LEMMA TypeInvImplies == TypeInv => ProxyTypeOK
BY DEF TypeInv, TablesOK, RequestOK, ProxyTypeOK, Entries

LEMMA PendingType == Pending \in PodResult
BY DEF Pending, PodResult

LEMMA TypeInvInit == ProxyInit => TypeInv
<1> SUFFICES ASSUME ProxyInit PROVE TypeInv OBVIOUS
<1>1. TablesOK BY ProxyAssumption DEF ProxyInit, TablesOK, IdleWorker, ProxyAssumption
<1>2. \A r \in Requests : RequestOK(IdleRequest(r))
    <2> SUFFICES ASSUME NEW r \in Requests PROVE RequestOK(IdleRequest(r)) OBVIOUS
    <2>1. Calls(0, {}) = {} BY DEF Calls
    <2> QED BY <2>1 DEF RequestOK, IdleRequest, Fields, Statuses
<1> QED BY <1>1, <1>2 DEF ProxyInit, TypeInv

-----------------------------------------------------------------------------
(* What the helpers return.                                                *)

LEMMA BecomesEffect ==
    ASSUME DOMAIN req = Clients, NEW cl \in Clients, NEW v, Becomes(cl, v)
    PROVE  /\ DOMAIN req' = Clients
           /\ req'[cl] = v
           /\ \A d \in Clients : d # cl => req'[d] = req[d]
BY DEF Becomes

LEMMA ReplyEffect ==
    ASSUME NEW cl \in Clients, RequestOK(req[cl]), NEW status \in Statuses
    PROVE  /\ RequestOK(Reply(cl, status))
           /\ Reply(cl, status).in = req[cl].in
           /\ Reply(cl, status).pc = "answered"
           /\ Reply(cl, status).status = status
           /\ Reply(cl, status).results = req[cl].results
           /\ Reply(cl, status).rounds = req[cl].rounds
           /\ Reply(cl, status).pods = req[cl].pods
BY DEF RequestOK, Reply, Fields

LEMMA StartedEffect ==
    ASSUME NEW cl \in Clients, RequestOK(req[cl]), req[cl].cache \in Caches,
           req[cl].status = "none", NEW n \in Nat, n >= 1, NEW P \in SUBSET Pods
    PROVE  /\ RequestOK(Started(cl, n, P))
           /\ RequestOK([Started(cl, n, P) EXCEPT !.routed = TRUE])
           /\ Started(cl, n, P).in = req[cl].in
           /\ Started(cl, n, P).cache = req[cl].cache
           /\ Started(cl, n, P).pc = "call"
           /\ Started(cl, n, P).pods = P
           /\ Started(cl, n, P).rounds = n
           /\ Started(cl, n, P).results = [k \in Calls(n, P) |-> Pending]
           /\ Started(cl, n, P).status = "none"
<1> DEFINE r == Started(cl, n, P)
           all == [k \in Calls(n, P) |-> Pending]
<1>0. all \in [Calls(n, P) -> PodResult] BY PendingType
<1> HIDE DEF all
<1>1. /\ DOMAIN r = Fields /\ r.in = req[cl].in /\ r.cache = req[cl].cache
      /\ r.pc = "call" /\ r.pods = P /\ r.rounds = n /\ r.round = 1
      /\ r.results = all /\ r.status = "none"
    BY DEF Started, RequestOK, Fields, all
<1>2. RequestOK(r) BY <1>0, <1>1 DEF RequestOK
<1>3. RequestOK([r EXCEPT !.routed = TRUE])
    <2> HIDE DEF r
    <2> QED BY <1>2 DEF RequestOK, Fields
<1> QED BY <1>1, <1>2, <1>3 DEF all

\* A pod's result is recorded and nothing else changes.
LEMMA GotEffect ==
    ASSUME NEW cl \in Clients, NEW p \in Pods, DOMAIN req = Clients, RequestOK(req[cl]),
           req[cl].pc = "call", p \in Waiting(cl),
           NEW status \in {"2xx", "error"}, NEW count \in {Unknown} \cup Nat,
           Got(cl, p, status, count)
    PROVE  LET k == <<req[cl].round, p>>
           IN  /\ k \in Calls(req[cl].rounds, req[cl].pods)
               /\ RequestOK(req'[cl])
               /\ req'[cl].in = req[cl].in /\ req'[cl].status = req[cl].status
               /\ req'[cl].cache = req[cl].cache /\ req'[cl].pc = "call"
               /\ req'[cl].rounds = req[cl].rounds /\ req'[cl].pods = req[cl].pods
               /\ req'[cl].results = [req[cl].results EXCEPT ![k] =
                                        [status |-> status, count |-> count]]
               /\ DOMAIN req' = Clients
               /\ \A d \in Clients : d # cl => req'[d] = req[d]
<1> DEFINE r == req[cl]
           k == <<r.round, p>>
           res == [r.results EXCEPT ![k] = [status |-> status, count |-> count]]
           v == [r EXCEPT !.results = res]
<1>1. k \in Calls(r.rounds, r.pods) BY DEF Calls, RequestOK, Waiting
<1>2. [status |-> status, count |-> count] \in PodResult BY DEF PodResult
<1>3. res \in [Calls(r.rounds, r.pods) -> PodResult] BY <1>1, <1>2 DEF RequestOK
<1>4. Becomes(cl, v) BY DEF Got
<1>5. /\ DOMAIN v = Fields /\ v.results = res /\ v.in = r.in /\ v.status = r.status
      /\ v.cache = r.cache /\ v.pc = "call" /\ v.rounds = r.rounds /\ v.pods = r.pods
      /\ v.round = r.round
    <2> HIDE DEF res
    <2> QED BY DEF RequestOK, Fields
<1>6. RequestOK(v)
    <2> HIDE DEF res, v
    <2> QED BY <1>3, <1>5 DEF RequestOK
<1> QED BY <1>1, <1>4, <1>5, <1>6, BecomesEffect

\* statusString answers with one of three statuses.
LEMMA StatusOfType == \A res : StatusOf(res) \in {"ok", "partial", "failed"}
BY DEF StatusOf

-----------------------------------------------------------------------------
(* Types.                                                                  *)

\* The steps that leave the requests alone.
LEMMA TablesStep ==
    ASSUME TablesOK, (\E c \in Caches : Publish(c) \/ CacheChange(c))
                        \/ DeletePods \/ \E p \in Pods : PodFlips(p)
    PROVE  TablesOK' /\ UNCHANGED <<req, log>>
<1> USE DEF TablesOK, clientVars, clusterVars, proxyTables
<1>a. MaxChanges \in Nat /\ MaxPurgeHosts \in Nat /\ SpecHosts \in [Caches -> 0..MaxPurgeHosts]
    BY ProxyAssumption DEF ProxyAssumption
<1>1. ASSUME NEW c \in Caches, Collect(c) PROVE TablesOK' /\ UNCHANGED <<req, log>>
    BY <1>1 DEF Collect
<1>2. CASE Register BY <1>2 DEF Register, Registered
<1>3. CASE SetPurgeHosts BY <1>3, <1>a DEF SetPurgeHosts
<1>4. CASE UpdatePods BY <1>4 DEF UpdatePods, PodsReplaced, IdleWorker
<1>5. ASSUME NEW c \in Caches, CreateCache(c) PROVE TablesOK' /\ UNCHANGED <<req, log>>
    BY <1>5, <1>a DEF CreateCache, Change
<1>6. ASSUME NEW c \in Caches, Unregister(c) PROVE TablesOK' /\ UNCHANGED <<req, log>>
    BY <1>6, <1>a DEF Unregister
<1>p. ASSUME NEW c \in Caches, Pause(c) \/ Resume(c) PROVE TablesOK' /\ UNCHANGED <<req, log>>
    BY <1>p, <1>a DEF Pause, Resume, Change
<1>7. CASE DeletePods BY <1>7 DEF DeletePods, IdleWorker
<1>8. ASSUME NEW p \in Pods, PodFlips(p) PROVE TablesOK' /\ UNCHANGED <<req, log>>
    BY <1>8, <1>a DEF PodFlips, Change
<1> QED BY <1>1, <1>2, <1>3, <1>4, <1>5, <1>6, <1>p, <1>7, <1>8 DEF Publish, CacheChange

\* The steps of one request.
LEMMA RequestStepType ==
    ASSUME TypeInv, NEW cl \in Clients, RequestStep(cl) \/ PodStep(cl)
    PROVE  TypeInv'
<1>0. RequestOK(req[cl]) /\ DOMAIN req = Clients /\ TablesOK BY DEF TypeInv
<1>a. ASSUME NEW v, Becomes(cl, v), RequestOK(v), log' \in SUBSET Entries,
             UNCHANGED <<clusterVars, routes, hosts, podmap, worker, changes>>
      PROVE  TypeInv'
    <2>1. TablesOK' BY <1>a, <1>0 DEF TablesOK, clusterVars
    <2> QED BY <1>a, <1>0, <2>1, BecomesEffect DEF TypeInv
<1>l. log \in SUBSET Entries BY DEF TypeInv
<1> USE DEF proxyTables
<1>1. CASE Lookup(cl)
    <2> DEFINE c == routes[req[cl].in.host]
               v == [req[cl] EXCEPT !.pc = "lookup", !.cache = c]
    <2>1. c \in Caches \cup {NoCache}
        <3>1. req[cl].in.host \in Hosts BY <1>0, ProxyAssumption DEF RequestOK, ProxyAssumption
        <3> QED BY <3>1, <1>0 DEF TablesOK
    <2>2. c = NoCache => RequestOK(Reply(cl, "unknown host")) BY <1>0, ReplyEffect DEF Statuses
    <2>3. c # NoCache => RequestOK(v) BY <1>0, <1>1, <2>1 DEF RequestOK, Fields, Lookup
    <2> QED BY <1>1, <1>l, <2>2, <2>3, <1>a DEF Lookup
<1>2. CASE Dispatch(cl)
    <2> DEFINE P == podmap[req[cl].cache]
               in == req[cl].in
               v == [req[cl] EXCEPT !.pc = "purge", !.pods = P,
                                    !.results = [k \in Calls(0, P) |-> Pending]]
    <2>1. /\ req[cl].pc = "lookup" /\ req[cl].cache \in Caches /\ req[cl].status = "none"
          /\ P \in SUBSET Pods /\ in.items \in Nat /\ req[cl].rounds = 0
        BY <1>0, <1>2, ProxyAssumption DEF Dispatch, RequestOK, TablesOK, ProxyAssumption
    <2>2. \A st \in Statuses : RequestOK(Reply(cl, st)) BY <1>0, ReplyEffect
    <2>3. \A n \in Nat : n >= 1 => RequestOK(Started(cl, n, P)) BY <1>0, <2>1, StartedEffect
    <2>4. RequestOK(v)
        <3> DEFINE none == [k \in Calls(0, P) |-> Pending]
        <3>1. none \in [Calls(0, P) -> PodResult] BY PendingType
        <3> HIDE DEF none
        <3>2. v = [req[cl] EXCEPT !.pc = "purge", !.pods = P, !.results = none] BY DEF none
        <3> QED BY <1>0, <2>1, <3>1, <3>2 DEF RequestOK, Fields
    <2>5. RequestOK(BanOrXkey(cl, P))
        <3>0. "bad" \in Statuses BY DEF Statuses
        <3>1. RequestOK(Reply(cl, "bad")) /\ RequestOK(Started(cl, 1, P)) BY <2>2, <2>3, <3>0
        <3>2. in.items # 0 => RequestOK(Started(cl, in.items, P)) BY <2>1, <2>3
        <3>3. \/ BanOrXkey(cl, P) = Reply(cl, "bad")
              \/ BanOrXkey(cl, P) = Started(cl, 1, P)
              \/ in.items # 0 /\ BanOrXkey(cl, P) = Started(cl, in.items, P)
            BY DEF BanOrXkey
        <3> QED BY <3>1, <3>2, <3>3
    <2> HIDE DEF v
    <2>6. \E w : Becomes(cl, w) /\ RequestOK(w)
        BY <1>2, <2>2, <2>4, <2>5 DEF Dispatch, Statuses, v
    <2> QED BY <1>2, <1>l, <2>6, <1>a DEF Dispatch
<1>3. CASE PurgeHosts(cl)
    <2> DEFINE in == req[cl].in
               n == IF in.items > 0 THEN in.items ELSE hosts[req[cl].cache]
    <2>1. /\ req[cl].cache \in Caches /\ req[cl].status = "none" /\ req[cl].pods \in SUBSET Pods
          /\ n \in Nat
        BY <1>0, <1>3, ProxyAssumption DEF PurgeHosts, RequestOK, TablesOK, ProxyAssumption
    <2>2. RequestOK(Reply(cl, "bad")) BY <1>0, ReplyEffect DEF Statuses
    <2>3. \A m \in Nat : m >= 1 => /\ RequestOK(Started(cl, m, req[cl].pods))
                                   /\ RequestOK([Started(cl, m, req[cl].pods) EXCEPT !.routed = TRUE])
        BY <1>0, <2>1, StartedEffect
    <2>4. \E w : Becomes(cl, w) /\ RequestOK(w)
        <3> DEFINE bad == in.bad \/ in.items > MaxPurgeHosts
                   S(m) == Started(cl, m, req[cl].pods)
        <3>1. Becomes(cl, CASE bad -> Reply(cl, "bad")
                            [] n > 0 -> S(n)
                            [] OTHER -> [S(1) EXCEPT !.routed = TRUE])
            BY <1>3 DEF PurgeHosts
        <3>2. RequestOK([S(1) EXCEPT !.routed = TRUE]) BY <2>3
        <3>3. n > 0 => RequestOK(S(n))
            <4> SUFFICES ASSUME n > 0 PROVE RequestOK(S(n)) OBVIOUS
            <4>1. n \in Nat /\ n >= 1 BY <2>1
            <4> HIDE DEF n
            <4> QED BY <4>1, <2>3
        <3> DEFINE w == CASE bad -> Reply(cl, "bad")
                          [] n > 0 -> S(n)
                          [] OTHER -> [S(1) EXCEPT !.routed = TRUE]
        <3>4. \/ w = Reply(cl, "bad")
              \/ n > 0 /\ w = S(n)
              \/ w = [S(1) EXCEPT !.routed = TRUE]
            <4> HIDE DEF S, n, bad
            <4> QED OBVIOUS
        <3>5. RequestOK(w)
            <4> HIDE DEF S, n, w
            <4> QED BY <2>2, <3>2, <3>3, <3>4
        <3> QED BY <3>1, <3>5
    <2> QED BY <1>3, <1>l, <2>4, <1>a DEF PurgeHosts
<1>4. CASE Deadline(cl)
    <2>1. RequestOK([req[cl] EXCEPT !.expired = TRUE]) BY <1>0 DEF RequestOK, Fields
    <2> QED BY <1>4, <1>l, <2>1, <1>a DEF Deadline
<1>5. CASE NextRound(cl)
    <2>1. RequestOK([req[cl] EXCEPT !.round = @ + 1])
        BY <1>0, <1>5 DEF RequestOK, Fields, NextRound, MoreRounds
    <2> QED BY <1>5, <1>l, <2>1, <1>a DEF NextRound
<1>6. CASE Finish(cl)
    <2> DEFINE res == Merged(cl)
               r == Reply(cl, StatusOf(res))
               v == [r EXCEPT !.purged = Purged(res),
                              !.unknowns = Unknowns(req[cl].in.kind, res)]
    <2>0. StatusOf(res) \in Statuses BY StatusOfType DEF Statuses
    <2>1. RequestOK(r) BY <1>0, <2>0, ReplyEffect
    <2> HIDE DEF r
    <2>2. RequestOK(v) BY <2>1 DEF RequestOK, Fields
    <2>3. Becomes(cl, v) BY <1>6 DEF Finish, r
    <2> HIDE DEF v
    <2> QED BY <1>6, <1>l, <2>2, <2>3, <1>a DEF Finish
<1>7. ASSUME NEW p \in Pods, CallFails(cl, p) \/ PodRefuses(cl, p) PROVE TypeInv'
    <2>1. /\ req[cl].pc = "call" /\ p \in Waiting(cl) /\ Got(cl, p, "error", Unknown)
          /\ log' \in {log, log \cup {Entry(cl, p, 1, FALSE)}}
          /\ UNCHANGED <<clusterVars, routes, hosts, podmap, worker, changes>>
        BY <1>7 DEF CallFails, PodRefuses
    <2>2. RequestOK(req'[cl]) /\ DOMAIN req' = Clients /\ \A d \in Clients : d # cl => req'[d] = req[d]
        BY <1>0, <2>1, GotEffect
    <2>3. TablesOK' BY <1>0, <2>1 DEF TablesOK, clusterVars
    <2>4. Entry(cl, p, 1, FALSE) \in Entries BY <1>0 DEF Entry, Entries, RequestOK
    <2> QED BY <1>l, <2>1, <2>2, <2>3, <2>4 DEF TypeInv
<1>8. ASSUME NEW p \in Pods, PodAnswers(cl, p) PROVE TypeInv'
    <2>1. PICK told \in Tells(cl) : \E n \in IF told THEN 0..1 ELSE {1} :
              /\ Got(cl, p, "2xx", ParseObjectsPurged(n, told))
              /\ log' = log \cup {Entry(cl, p, n, told)}
        BY <1>8 DEF PodAnswers
    <2>2. PICK n \in IF told THEN 0..1 ELSE {1} :
              /\ Got(cl, p, "2xx", ParseObjectsPurged(n, told))
              /\ log' = log \cup {Entry(cl, p, n, told)}
        BY <2>1
    <2>t. told \in BOOLEAN BY <2>1 DEF Tells
    <2>n. n \in Nat
        <3>1. CASE told BY <2>2, <3>1
        <3>2. CASE ~told BY <2>2, <3>2
        <3> QED BY <3>1, <3>2
    <2>3. n \in Nat /\ told \in BOOLEAN BY <2>t, <2>n
    <2>4. ParseObjectsPurged(n, told) \in {Unknown} \cup Nat BY <2>3 DEF ParseObjectsPurged
    <2>5. /\ req[cl].pc = "call" /\ p \in Waiting(cl)
          /\ UNCHANGED <<clusterVars, routes, hosts, podmap, worker, changes>>
        BY <1>8 DEF PodAnswers
    <2>6. RequestOK(req'[cl]) /\ DOMAIN req' = Clients /\ \A d \in Clients : d # cl => req'[d] = req[d]
        BY <1>0, <2>2, <2>4, <2>5, GotEffect
    <2>7. Entry(cl, p, n, told) \in Entries
        BY <1>0, <2>3 DEF Entry, Entries, RequestOK
    <2>8. TablesOK' BY <1>0, <2>5 DEF TablesOK, clusterVars
    <2> QED BY <1>l, <2>2, <2>6, <2>7, <2>8 DEF TypeInv
<1> QED BY <1>1, <1>2, <1>3, <1>4, <1>5, <1>6, <1>7, <1>8 DEF RequestStep, PodStep

\* A restart breaks the connections of the requests under way.
LEMMA RestartType == TypeInv /\ OperatorRestart => TypeInv'
<1> SUFFICES ASSUME TypeInv, OperatorRestart PROVE TypeInv' OBVIOUS
<1>1. TablesOK'
    BY ProxyAssumption
    DEF TypeInv, TablesOK, OperatorRestart, Change, IdleWorker, clusterVars, ProxyAssumption
<1>2. \A cl \in Clients : RequestOK(Reply(cl, "lost")) BY ReplyEffect DEF TypeInv, Statuses
<1> QED BY <1>1, <1>2 DEF TypeInv, OperatorRestart

LEMMA TypeInvStep == TypeInv /\ [ProxyNext]_vars => TypeInv'
<1> SUFFICES ASSUME TypeInv, [ProxyNext]_vars PROVE TypeInv' OBVIOUS
<1>1. CASE UNCHANGED vars
    <2>1. TablesOK' BY <1>1 DEF TypeInv, TablesOK, vars
    <2> QED BY <1>1, <2>1 DEF TypeInv, vars
<1>2. CASE (\E c \in Caches : Publish(c) \/ CacheChange(c))
             \/ DeletePods \/ \E p \in Pods : PodFlips(p)
    <2>1. TablesOK' /\ UNCHANGED <<req, log>> BY <1>2, TablesStep DEF TypeInv
    <2> QED BY <2>1 DEF TypeInv
<1> QED BY <1>1, <1>2, RequestStepType, RestartType DEF ProxyNext, Environment

\* The proxy's state is well typed for every instance: a result is recorded
\* only for a pod and a round of the request.
THEOREM ProxyTypeCorrect == ProxySpec => []ProxyTypeOK
<1>1. ProxySpec => []TypeInv BY TypeInvInit, TypeInvStep, PTL DEF ProxySpec
<1> QED BY <1>1, TypeInvImplies, PTL

-----------------------------------------------------------------------------
(* What one step of a request may change.                                  *)

Known2xx(r) == {k \in Calls(r.rounds, r.pods) : r.results[k].status = "2xx"}

InService(r) == r.pc \in {"lookup", "purge", "call"}

\* A request becomes q: it keeps what it asked for, takes its cache from the
\* routes and its pods from the pod map, counts as confirmed only what was or
\* what the log has, and is "ok" only when everything is confirmed.
Effect(cl, q) ==
    LET r == req[cl]
    IN  /\ q.in = r.in
        /\ q.status = "ok" => Known2xx(q) = Calls(q.rounds, q.pods)
        /\ \A k \in Known2xx(q) : k \in Known2xx(r) \/ Did(cl, k)'
        /\ InService(q) =>
              \/ /\ q.cache = routes[r.in.host] /\ q.cache # NoCache
                 /\ q.pods = {}
              \/ /\ InService(r) /\ q.cache = r.cache
                 /\ q.pods = r.pods \/ q.pods = podmap[r.cache]

\* Answering with anything but "ok" changes nothing else.
LEMMA ReplyIsEffect ==
    ASSUME NEW cl \in Clients, RequestOK(req[cl]), NEW st \in Statuses \ {"ok"}
    PROVE  Effect(cl, Reply(cl, st))
<1> DEFINE q == Reply(cl, st)
<1>1. /\ q.in = req[cl].in /\ q.pc = "answered" /\ q.status = st
      /\ q.results = req[cl].results /\ q.rounds = req[cl].rounds /\ q.pods = req[cl].pods
    BY ReplyEffect
<1> HIDE DEF q
<1> QED BY <1>1 DEF Effect, Known2xx, InService, q

\* A broadcast that begins has confirmed nothing.
LEMMA StartedIsEffect ==
    ASSUME NEW cl \in Clients, RequestOK(req[cl]), InService(req[cl]),
           req[cl].status = "none", NEW n \in Nat, n >= 1, NEW P \in SUBSET Pods,
           P = req[cl].pods \/ P = podmap[req[cl].cache]
    PROVE  /\ Effect(cl, Started(cl, n, P))
           /\ Effect(cl, [Started(cl, n, P) EXCEPT !.routed = TRUE])
<1> DEFINE q == Started(cl, n, P)
           w == [q EXCEPT !.routed = TRUE]
<1>0. req[cl].cache \in Caches BY DEF InService, RequestOK
<1>1. /\ RequestOK(q) /\ q.in = req[cl].in /\ q.cache = req[cl].cache
      /\ q.pc = "call" /\ q.pods = P /\ q.rounds = n
      /\ q.results = [k \in Calls(n, P) |-> Pending] /\ q.status = "none"
    <2>1. RequestOK(q) BY <1>0, StartedEffect
    <2> DEFINE all == [k \in Calls(n, P) |-> Pending]
    <2> HIDE DEF all
    <2>2. q = [req[cl] EXCEPT !.pc = "call", !.pods = P, !.rounds = n, !.round = 1, !.results = all]
        BY DEF Started, all
    <2> HIDE DEF q
    <2>3. /\ q.in = req[cl].in /\ q.cache = req[cl].cache /\ q.pc = "call"
          /\ q.pods = P /\ q.rounds = n /\ q.status = "none" /\ q.results = all
        BY <2>2 DEF RequestOK, Fields
    <2> QED BY <2>1, <2>3 DEF all
<1> HIDE DEF q
<1>2. /\ w.in = req[cl].in /\ w.cache = req[cl].cache
      /\ w.pc = "call" /\ w.pods = P /\ w.rounds = n
      /\ w.results = q.results /\ w.status = "none"
    BY <1>1 DEF RequestOK, Fields
<1> HIDE DEF w
<1>3. Known2xx(q) = {} /\ Known2xx(w) = {} BY <1>1, <1>2 DEF Known2xx, Pending
<1>4. Effect(cl, q) BY <1>1, <1>3 DEF Effect, InService
<1>5. Effect(cl, w) BY <1>2, <1>3 DEF Effect, InService
<1> QED BY <1>4, <1>5 DEF q, w

\* A finite set with as many confirmed calls as calls has them all confirmed.
LEMMA OkConfirmsAll ==
    ASSUME NEW cl \in Clients, RequestOK(req[cl]), StatusOf(req[cl].results) = "ok"
    PROVE  Known2xx(req[cl]) = Calls(req[cl].rounds, req[cl].pods)
<1> DEFINE res == req[cl].results
           D == Calls(req[cl].rounds, req[cl].pods)
<1>1. DOMAIN res = D BY DEF RequestOK
<1>2. IsFiniteSet(req[cl].pods)
    BY ProxyAssumption, FS_Subset DEF RequestOK, ProxyAssumption
<1>i. 1 \in Int /\ req[cl].rounds \in Int BY DEF RequestOK
<1>3. IsFiniteSet(1..req[cl].rounds) BY <1>i, FS_Interval
<1>4. IsFiniteSet(D) BY <1>2, <1>3, FS_Product DEF Calls
<1>5. Cardinality(Succeeded(res)) = Cardinality(D) BY <1>1 DEF StatusOf
<1>6. Succeeded(res) \in SUBSET D BY <1>1 DEF Succeeded
<1>7. Succeeded(res) = D BY <1>4, <1>5, <1>6, FS_Subset
<1> QED BY <1>1, <1>7 DEF Succeeded, Known2xx

Sent(cl, e) == e.client = cl /\ req[cl].pc = "call" /\ e.pod \in req[cl].pods

\* What all the steps of a request have in common.
LEMMA RequestStepEffect ==
    ASSUME TypeInv, NEW cl \in Clients, RequestStep(cl) \/ PodStep(cl)
    PROVE  /\ Effect(cl, req'[cl])
           /\ \A d \in Clients : d # cl => req'[d] = req[d]
           /\ log \subseteq log'
           /\ \A e \in log' : e \in log \/ Sent(cl, e)
           /\ UNCHANGED <<routes, podmap, worker>>
<1> DEFINE Goal == /\ Effect(cl, req'[cl])
                   /\ \A d \in Clients : d # cl => req'[d] = req[d]
                   /\ log \subseteq log'
                   /\ \A e \in log' : e \in log \/ Sent(cl, e)
                   /\ UNCHANGED <<routes, podmap, worker>>
           r == req[cl]
<1>0. RequestOK(r) /\ DOMAIN req = Clients /\ TablesOK BY DEF TypeInv
<1>a. ASSUME NEW v, Becomes(cl, v), Effect(cl, v), UNCHANGED <<routes, podmap, worker, log>>
      PROVE  Goal
    BY <1>a, <1>0, BecomesEffect
<1>b. \A st \in Statuses \ {"ok"} : Effect(cl, Reply(cl, st)) BY <1>0, ReplyIsEffect
<1> USE DEF proxyTables
<1>1. CASE Lookup(cl)
    <2> DEFINE c == routes[r.in.host]
               v == [r EXCEPT !.pc = "lookup", !.cache = c]
    <2>1. r.pc = "idle" /\ r.pods = {} /\ r.status = "none" BY <1>0, <1>1 DEF Lookup, RequestOK
    <2>2. /\ v.in = r.in /\ v.status = "none" /\ v.pods = {} /\ v.cache = c
          /\ v.results = r.results /\ v.rounds = r.rounds
        BY <1>0, <2>1 DEF RequestOK, Fields
    <2>3. Known2xx(v) = Known2xx(r)
        <3> HIDE DEF v
        <3> QED BY <2>1, <2>2 DEF Known2xx
    <2>4. c # NoCache => Effect(cl, v)
        <3> HIDE DEF v
        <3> QED BY <2>2, <2>3 DEF Effect
    <2>5. Effect(cl, Reply(cl, "unknown host")) BY <1>b DEF Statuses
    <2> HIDE DEF v
    <2> QED BY <1>1, <2>4, <2>5, <1>a DEF Lookup, v
<1>2. CASE Dispatch(cl)
    <2> DEFINE P == podmap[r.cache]
               none == [k \in Calls(0, P) |-> Pending]
               v == [r EXCEPT !.pc = "purge", !.pods = P, !.results = none]
    <2>1. /\ InService(r) /\ r.cache \in Caches /\ r.status = "none"
          /\ P \in SUBSET Pods /\ r.in.items \in Nat /\ r.rounds = 0
        BY <1>0, <1>2, ProxyAssumption
        DEF Dispatch, RequestOK, TablesOK, ProxyAssumption, InService
    <2>2. \A n \in Nat : n >= 1 => Effect(cl, Started(cl, n, P)) BY <1>0, <2>1, StartedIsEffect
    <2>3. Effect(cl, v)
        <3> HIDE DEF none
        <3>1. /\ v.in = r.in /\ v.status = "none" /\ v.cache = r.cache /\ v.pods = P
              /\ v.rounds = 0
            BY <1>0, <2>1 DEF RequestOK, Fields
        <3> HIDE DEF v
        <3>2. Known2xx(v) = {} /\ Calls(v.rounds, v.pods) = {} BY <3>1 DEF Known2xx, Calls
        <3> QED BY <2>1, <3>1, <3>2 DEF Effect
    <2>4. Effect(cl, BanOrXkey(cl, P))
        <3>0. 1 \in Nat /\ 1 >= 1 /\ "bad" \in Statuses \ {"ok"} BY DEF Statuses
        <3>1. Effect(cl, Reply(cl, "bad")) /\ Effect(cl, Started(cl, 1, P))
            BY <1>b, <2>2, <3>0
        <3>2. r.in.items # 0 => Effect(cl, Started(cl, r.in.items, P)) BY <2>1, <2>2
        <3>3. \/ BanOrXkey(cl, P) = Reply(cl, "bad")
              \/ BanOrXkey(cl, P) = Started(cl, 1, P)
              \/ r.in.items # 0 /\ BanOrXkey(cl, P) = Started(cl, r.in.items, P)
            BY DEF BanOrXkey
        <3> QED BY <3>1, <3>2, <3>3
    <2>5. Effect(cl, Reply(cl, "no pods")) /\ Effect(cl, Reply(cl, "no route"))
        BY <1>b DEF Statuses
    <2> HIDE DEF v
    <2>6. \E w : Becomes(cl, w) /\ Effect(cl, w)
        BY <1>2, <2>3, <2>4, <2>5 DEF Dispatch, v
    <2> QED BY <1>2, <2>6, <1>a DEF Dispatch
<1>3. CASE PurgeHosts(cl)
    <2> DEFINE in == r.in
               n == IF in.items > 0 THEN in.items ELSE hosts[r.cache]
               S(m) == Started(cl, m, r.pods)
               bad == in.bad \/ in.items > MaxPurgeHosts
               w == CASE bad -> Reply(cl, "bad")
                      [] n > 0 -> S(n)
                      [] OTHER -> [S(1) EXCEPT !.routed = TRUE]
    <2>1. InService(r) /\ r.status = "none" /\ r.pods \in SUBSET Pods /\ n \in Nat
        BY <1>0, <1>3, ProxyAssumption
        DEF PurgeHosts, RequestOK, TablesOK, ProxyAssumption, InService
    <2>2. \A m \in Nat : m >= 1 => Effect(cl, S(m)) /\ Effect(cl, [S(m) EXCEPT !.routed = TRUE])
        BY <1>0, <2>1, StartedIsEffect
    <2>3. Effect(cl, Reply(cl, "bad")) BY <1>b DEF Statuses
    <2>4. Effect(cl, [S(1) EXCEPT !.routed = TRUE]) BY <2>2
    <2>5. n > 0 => Effect(cl, S(n))
        <3> SUFFICES ASSUME n > 0 PROVE Effect(cl, S(n)) OBVIOUS
        <3>1. n \in Nat /\ n >= 1 BY <2>1
        <3> HIDE DEF n
        <3> QED BY <3>1, <2>2
    <2>6. \/ w = Reply(cl, "bad")
          \/ n > 0 /\ w = S(n)
          \/ w = [S(1) EXCEPT !.routed = TRUE]
        <3> HIDE DEF S, n, bad
        <3> QED OBVIOUS
    <2>7. Effect(cl, w)
        <3> HIDE DEF S, n, w
        <3> QED BY <2>3, <2>4, <2>5, <2>6
    <2>8. Becomes(cl, w) BY <1>3 DEF PurgeHosts
    <2> HIDE DEF w
    <2> QED BY <1>3, <2>7, <2>8, <1>a DEF PurgeHosts
<1>4. CASE Deadline(cl)
    <2> DEFINE v == [r EXCEPT !.expired = TRUE]
    <2>1. r.status = "none" /\ InService(r) BY <1>0, <1>4 DEF Deadline, RequestOK, InService
    <2>2. /\ v.in = r.in /\ v.status = "none" /\ v.pods = r.pods /\ v.cache = r.cache
          /\ v.results = r.results /\ v.rounds = r.rounds
        BY <1>0, <2>1 DEF RequestOK, Fields
    <2>3. Becomes(cl, v) BY <1>4 DEF Deadline
    <2> HIDE DEF v
    <2>4. Effect(cl, v) BY <2>1, <2>2 DEF Effect, Known2xx
    <2> QED BY <1>4, <2>3, <2>4, <1>a DEF Deadline
<1>5. CASE NextRound(cl)
    <2> DEFINE v == [r EXCEPT !.round = @ + 1]
    <2>1. r.status = "none" /\ InService(r) BY <1>0, <1>5 DEF NextRound, RequestOK, InService
    <2>2. /\ v.in = r.in /\ v.status = "none" /\ v.pods = r.pods /\ v.cache = r.cache
          /\ v.results = r.results /\ v.rounds = r.rounds
        BY <1>0, <2>1 DEF RequestOK, Fields
    <2>3. Becomes(cl, v) BY <1>5 DEF NextRound
    <2> HIDE DEF v
    <2>4. Effect(cl, v) BY <2>1, <2>2 DEF Effect, Known2xx
    <2> QED BY <1>5, <2>3, <2>4, <1>a DEF NextRound
<1>6. CASE Finish(cl)
    <2> DEFINE st == StatusOf(Merged(cl))
               q == Reply(cl, st)
               v == [q EXCEPT !.purged = Purged(Merged(cl)),
                              !.unknowns = Unknowns(r.in.kind, Merged(cl))]
    <2>1. Becomes(cl, v) BY <1>6 DEF Finish
    <2>2. st \in Statuses BY StatusOfType DEF Statuses
    <2>3. st = "ok" => Known2xx(r) = Calls(r.rounds, r.pods)
        BY <1>0, OkConfirmsAll DEF Merged
    <2> HIDE DEF st
    <2>4. /\ RequestOK(q) /\ q.in = r.in /\ q.pc = "answered" /\ q.status = st
          /\ q.results = r.results /\ q.rounds = r.rounds /\ q.pods = r.pods
        BY <1>0, <2>2, ReplyEffect
    <2> HIDE DEF q
    <2>5. /\ v.in = r.in /\ v.status = st /\ v.pods = r.pods /\ v.pc = "answered"
          /\ v.results = r.results /\ v.rounds = r.rounds
        BY <2>4 DEF RequestOK, Fields
    <2> HIDE DEF v
    <2>6. Known2xx(v) = Known2xx(r) BY <2>5 DEF Known2xx
    <2>7. Effect(cl, v) BY <2>3, <2>5, <2>6 DEF Effect, InService
    <2> QED BY <1>6, <2>1, <2>7, <1>a DEF Finish
<1>7. ASSUME NEW p \in Pods, NEW status \in {"2xx", "error"}, NEW count \in {Unknown} \cup Nat,
             r.pc = "call", p \in Waiting(cl), Got(cl, p, status, count),
             log \subseteq log', \A e \in log' : e \in log \/ Sent(cl, e),
             status = "2xx" => \E e \in log' : e.client = cl /\ e.round = r.round /\ e.pod = p,
             UNCHANGED <<routes, podmap, worker>>
      PROVE  Goal
    <2> DEFINE q == req'[cl]
               k == <<r.round, p>>
    <2>1. /\ k \in Calls(r.rounds, r.pods)
          /\ q.in = r.in /\ q.status = r.status /\ q.cache = r.cache /\ q.pc = "call"
          /\ q.rounds = r.rounds /\ q.pods = r.pods
          /\ q.results = [r.results EXCEPT ![k] = [status |-> status, count |-> count]]
          /\ \A d \in Clients : d # cl => req'[d] = req[d]
        <3>1. r.pc = "call" /\ p \in Waiting(cl) /\ Got(cl, p, status, count) BY <1>7
        <3> QED BY <1>0, <3>1, GotEffect
    <2>2. r.status = "none" /\ InService(r) BY <1>0, <1>7 DEF RequestOK, InService
    <2>3. \A j \in Known2xx(q) : j \in Known2xx(r) \/ Did(cl, j)'
        <3> SUFFICES ASSUME NEW j \in Known2xx(q), j # k PROVE j \in Known2xx(r)
            <4>1. k \in Known2xx(q) => status = "2xx"
                BY <1>0, <2>1 DEF Known2xx, RequestOK
            <4>2. ASSUME NEW j, j = k, status = "2xx" PROVE Did(cl, j)'
                BY <1>7, <4>2 DEF Did
            <4> HIDE DEF q, k
            <4> QED BY <4>1, <4>2
        <3> QED BY <1>0, <2>1 DEF Known2xx, RequestOK
    <2> HIDE DEF q
    <2>4. Effect(cl, q) BY <2>1, <2>2, <2>3 DEF Effect
    <2> QED BY <1>7, <2>1, <2>4 DEF q
<1>8. ASSUME NEW p \in Pods, CallFails(cl, p) \/ PodRefuses(cl, p) PROVE Goal
    <2>1. /\ r.pc = "call" /\ p \in Waiting(cl) /\ Got(cl, p, "error", Unknown)
          /\ log' \in {log, log \cup {Entry(cl, p, 1, FALSE)}}
          /\ UNCHANGED <<routes, podmap, worker>>
        BY <1>8 DEF CallFails, PodRefuses
    <2> DEFINE u == Entry(cl, p, 1, FALSE)
    <2>2. Sent(cl, u) BY <2>1 DEF Sent, Waiting, Entry
    <2>3. log' \in {log, log \cup {u}} BY <2>1
    <2> HIDE DEF u
    <2>4. log \subseteq log' /\ \A e \in log' : e \in log \/ Sent(cl, e) BY <2>2, <2>3
    <2> QED BY <2>1, <2>4, <1>7
<1>9. ASSUME NEW p \in Pods, PodAnswers(cl, p) PROVE Goal
    <2>1. PICK told \in Tells(cl) : \E n \in IF told THEN 0..1 ELSE {1} :
              /\ Got(cl, p, "2xx", ParseObjectsPurged(n, told))
              /\ log' = log \cup {Entry(cl, p, n, told)}
        BY <1>9 DEF PodAnswers
    <2>2. PICK n \in IF told THEN 0..1 ELSE {1} :
              /\ Got(cl, p, "2xx", ParseObjectsPurged(n, told))
              /\ log' = log \cup {Entry(cl, p, n, told)}
        BY <2>1
    <2>t. told \in BOOLEAN BY <2>1 DEF Tells
    <2>n. n \in Nat
        <3>1. CASE told BY <2>2, <3>1
        <3>2. CASE ~told BY <2>2, <3>2
        <3> QED BY <3>1, <3>2
    <2>3. ParseObjectsPurged(n, told) \in {Unknown} \cup Nat BY <2>n, <2>t DEF ParseObjectsPurged
    <2>4. r.pc = "call" /\ p \in Waiting(cl) /\ UNCHANGED <<routes, podmap, worker>>
        BY <1>9 DEF PodAnswers
    <2> DEFINE e == Entry(cl, p, n, told)
    <2>5. e.client = cl /\ e.round = r.round /\ e.pod = p BY DEF Entry
    <2>6. log' = log \cup {e} BY <2>2
    <2> HIDE DEF e
    <2>7. \E f \in log' : f.client = cl /\ f.round = r.round /\ f.pod = p BY <2>5, <2>6
    <2>8. Sent(cl, e) BY <2>4, <2>5 DEF Sent, Waiting
    <2>9. log \subseteq log' /\ \A f \in log' : f \in log \/ Sent(cl, f) BY <2>6, <2>8
    <2> QED BY <2>2, <2>3, <2>4, <2>7, <2>9, <1>7
<1> QED BY <1>1, <1>2, <1>3, <1>4, <1>5, <1>6, <1>8, <1>9 DEF RequestStep, PodStep

-----------------------------------------------------------------------------
(* An answer "ok".                                                         *)

\* Every result 2xx is in the log, and "ok" is answered on nothing else.
ConfirmedInv ==
    \A cl \in Clients :
        /\ \A k \in Known2xx(req[cl]) : Did(cl, k)
        /\ req[cl].status = "ok" => Known2xx(req[cl]) = Calls(req[cl].rounds, req[cl].pods)

LEMMA ConfirmedImplies == ConfirmedInv => OkMeansEveryPod
BY DEF ConfirmedInv, OkMeansEveryPod

LEMMA ConfirmedInit == ProxyInit => ConfirmedInv
<1> SUFFICES ASSUME ProxyInit, NEW cl \in Clients
             PROVE  req[cl].status = "none" /\ Known2xx(req[cl]) = {}
    BY DEF ConfirmedInv
<1>1. PICK r \in Requests : req[cl] = IdleRequest(r) BY DEF ProxyInit
<1> QED BY <1>1 DEF IdleRequest, Known2xx, Calls

\* The steps that leave the requests and the log alone, and a restart.
LEMMA OtherSteps ==
    ASSUME TypeInv, ProxyNext, ~\E cl \in Clients : RequestStep(cl) \/ PodStep(cl)
    PROVE  /\ log' = log
           /\ \A cl \in Clients :
                \/ req'[cl] = req[cl]
                \/ req'[cl] = Reply(cl, "lost")
<1>1. CASE OperatorRestart BY <1>1 DEF OperatorRestart
<1>2. CASE (\E c \in Caches : Publish(c) \/ CacheChange(c))
             \/ DeletePods \/ \E p \in Pods : PodFlips(p)
    BY <1>2, TablesStep DEF TypeInv
<1> QED BY <1>1, <1>2 DEF ProxyNext, Environment

LEMMA ConfirmedStep == TypeInv /\ ConfirmedInv /\ [ProxyNext]_vars => ConfirmedInv'
<1> SUFFICES ASSUME TypeInv, ConfirmedInv, [ProxyNext]_vars, NEW d \in Clients
             PROVE  /\ \A k \in Known2xx(req'[d]) : Did(d, k)'
                    /\ req'[d].status = "ok" =>
                            Known2xx(req'[d]) = Calls(req'[d].rounds, req'[d].pods)
    BY DEF ConfirmedInv, Known2xx
<1>0. /\ \A k \in Known2xx(req[d]) : Did(d, k)
      /\ req[d].status = "ok" => Known2xx(req[d]) = Calls(req[d].rounds, req[d].pods)
    BY DEF ConfirmedInv
<1>1. CASE UNCHANGED vars BY <1>0, <1>1 DEF vars, Did
<1>2. ASSUME NEW cl \in Clients, RequestStep(cl) \/ PodStep(cl)
      PROVE  /\ \A k \in Known2xx(req'[d]) : Did(d, k)'
             /\ req'[d].status = "ok" =>
                    Known2xx(req'[d]) = Calls(req'[d].rounds, req'[d].pods)
    <2>1. /\ Effect(cl, req'[cl]) /\ log \subseteq log'
          /\ d # cl => req'[d] = req[d]
        BY <1>2, RequestStepEffect
    <2>2. \A k : Did(d, k) => Did(d, k)' BY <2>1 DEF Did
    <2>3. CASE d # cl BY <1>0, <2>1, <2>2, <2>3
    <2>4. CASE d = cl BY <1>0, <2>1, <2>2, <2>4 DEF Effect
    <2> QED BY <2>3, <2>4
<1>3. CASE ProxyNext /\ ~\E cl \in Clients : RequestStep(cl) \/ PodStep(cl)
    <2>1. log' = log /\ (req'[d] = req[d] \/ req'[d] = Reply(d, "lost")) BY <1>3, OtherSteps
    <2>2. \A k : Did(d, k) => Did(d, k)' BY <2>1 DEF Did
    <2>3. CASE req'[d] = req[d] BY <1>0, <2>2, <2>3
    <2>4. CASE req'[d] = Reply(d, "lost")
        <3>1. Effect(d, Reply(d, "lost")) BY ReplyIsEffect DEF TypeInv, Statuses
        <3>2. Effect(d, req'[d]) BY <3>1, <2>4
        <3> QED BY <1>0, <2>2, <3>2 DEF Effect
    <2> QED BY <2>1, <2>3, <2>4
<1> QED BY <1>1, <1>2, <1>3

\* An answer "ok" means every pod of the cache carried every part of the
\* request out, for any number of pods, site hosts and keys (Broadcast,
\* mergeResults, statusString).
THEOREM OkIsEveryPod == ProxySpec => []OkMeansEveryPod
<1>1. ProxySpec => [](TypeInv /\ ConfirmedInv)
    BY TypeInvInit, TypeInvStep, ConfirmedInit, ConfirmedStep, PTL DEF ProxySpec
<1> QED BY <1>1, ConfirmedImplies, PTL

-----------------------------------------------------------------------------
(* The cache a Host names.                                                 *)

Names(c) == {ShortHost(c), FqdnHost(c)}

\* What the tables hold belongs to the cache they hold it for.
TablesNamed ==
    /\ \A h \in Hosts : routes[h] # NoCache => h \in Names(routes[h])
    /\ \A c \in Caches : podmap[c] \in SUBSET PodsOf[c]
    /\ worker.pc # "idle" => worker.peers \in SUBSET PodsOf[worker.cache]

RequestNamed(r) ==
    InService(r) => r.in.host \in Names(r.cache) /\ r.pods \in SUBSET PodsOf[r.cache]

NamedInv ==
    /\ TablesNamed
    /\ \A cl \in Clients : RequestNamed(req[cl])
    /\ SentToNamedCache

LEMMA NamedInit == ProxyInit => NamedInv
<1> SUFFICES ASSUME ProxyInit PROVE NamedInv OBVIOUS
<1>1. TablesNamed BY DEF ProxyInit, TablesNamed, IdleWorker
<1>2. \A r \in Requests : RequestNamed(IdleRequest(r)) BY DEF RequestNamed, InService, IdleRequest
<1> QED BY <1>1, <1>2 DEF ProxyInit, NamedInv, SentToNamedCache

\* The worker publishes the pods and the Hosts of the cache it reconciles.
LEMMA TablesNamedStep ==
    ASSUME TablesOK, TablesNamed, ProxyNext,
           ~\E cl \in Clients : RequestStep(cl) \/ PodStep(cl)
    PROVE  TablesNamed'
<1> USE DEF proxyTables
<1>a. PodsOf \in [Caches -> SUBSET Pods] /\ NoCache \notin Caches
    BY ProxyAssumption DEF ProxyAssumption
<1>1. ASSUME NEW c \in Caches, Collect(c) PROVE TablesNamed'
    BY <1>1, <1>a DEF Collect, TablesNamed
<1>2. CASE Register
    <2>1. worker.cache \in Caches BY <1>2 DEF Register, TablesOK
    <2>2. \A h \in Hosts : routes'[h] # NoCache => h \in Names(routes'[h])
        BY <1>2, <2>1 DEF Register, Registered, TablesNamed, Names
    <2>3. worker'.peers = worker.peers /\ worker'.cache = worker.cache /\ worker.pc # "idle"
        BY <1>2 DEF Register, TablesOK
    <2> QED BY <1>2, <2>2, <2>3 DEF Register, TablesNamed
<1>3. CASE SetPurgeHosts
    <2>1. worker'.peers = worker.peers /\ worker'.cache = worker.cache /\ worker.pc # "idle"
        BY <1>3 DEF SetPurgeHosts, TablesOK
    <2> QED BY <1>3, <2>1 DEF SetPurgeHosts, TablesNamed
<1>4. CASE UpdatePods
    BY <1>4 DEF UpdatePods, PodsReplaced, IdleWorker, TablesNamed, TablesOK
<1>5. ASSUME NEW c \in Caches, CreateCache(c) PROVE TablesNamed'
    BY <1>5 DEF CreateCache, TablesNamed
<1>6. ASSUME NEW c \in Caches, Unregister(c) PROVE TablesNamed'
    BY <1>6, <1>a DEF Unregister, TablesNamed
<1>p. ASSUME NEW c \in Caches, Pause(c) \/ Resume(c) PROVE TablesNamed'
    BY <1>p DEF Pause, Resume, TablesNamed
<1>7. CASE DeletePods BY <1>7 DEF DeletePods, IdleWorker, TablesNamed, TablesOK
<1>8. ASSUME NEW p \in Pods, PodFlips(p) PROVE TablesNamed'
    BY <1>8 DEF PodFlips, TablesNamed
<1>9. CASE OperatorRestart BY <1>9 DEF OperatorRestart, IdleWorker, TablesNamed
<1> QED
    BY <1>1, <1>2, <1>3, <1>4, <1>5, <1>6, <1>p, <1>7, <1>8, <1>9
    DEF ProxyNext, Environment, Publish, CacheChange

LEMMA NamedStep == TypeInv /\ NamedInv /\ [ProxyNext]_vars => NamedInv'
<1> SUFFICES ASSUME TypeInv, NamedInv, [ProxyNext]_vars PROVE NamedInv' OBVIOUS
<1>0. TablesOK /\ TablesNamed /\ \A cl \in Clients : RequestOK(req[cl]) /\ RequestNamed(req[cl])
    BY DEF TypeInv, NamedInv
<1>1. CASE UNCHANGED vars
    BY <1>1 DEF vars, NamedInv, TablesNamed, SentToNamedCache
<1>2. ASSUME NEW cl \in Clients, RequestStep(cl) \/ PodStep(cl) PROVE NamedInv'
    <2>1. /\ Effect(cl, req'[cl]) /\ log \subseteq log'
          /\ \A d \in Clients : d # cl => req'[d] = req[d]
          /\ \A e \in log' : e \in log \/ Sent(cl, e)
          /\ UNCHANGED <<routes, podmap, worker>>
        BY <1>2, RequestStepEffect
    <2>2. TablesNamed' BY <1>0, <2>1 DEF TablesNamed
    <2>h. req[cl].in.host \in Hosts
        BY <1>0, ProxyAssumption DEF RequestOK, ProxyAssumption
    <2>3. RequestNamed(req'[cl])
        <3> DEFINE q == req'[cl]
        <3> SUFFICES ASSUME InService(q)
                     PROVE  q.in.host \in Names(q.cache) /\ q.pods \in SUBSET PodsOf[q.cache]
            BY DEF RequestNamed
        <3>1. q.in = req[cl].in BY <2>1 DEF Effect
        <3>2. \/ q.cache = routes[req[cl].in.host] /\ q.cache # NoCache /\ q.pods = {}
              \/ /\ InService(req[cl]) /\ q.cache = req[cl].cache
                 /\ q.pods = req[cl].pods \/ q.pods = podmap[req[cl].cache]
            BY <2>1 DEF Effect
        <3>3. InService(req[cl]) => /\ req[cl].in.host \in Names(req[cl].cache)
                                    /\ req[cl].pods \in SUBSET PodsOf[req[cl].cache]
                                    /\ req[cl].cache \in Caches
            BY <1>0 DEF RequestNamed, RequestOK, InService
        <3> HIDE DEF q
        <3> QED BY <1>0, <2>h, <3>1, <3>2, <3>3 DEF TablesNamed
    <2>4. \A d \in Clients : RequestNamed(req'[d]) BY <1>0, <2>1, <2>3
    <2>5. \A d \in Clients : req'[d].in = req[d].in BY <2>1 DEF Effect
    <2>6. SentToNamedCache'
        <3> SUFFICES ASSUME NEW e \in log'
                     PROVE  \E c \in Caches : /\ req'[e.client].in.host \in {ShortHost(c), FqdnHost(c)}
                                              /\ e.pod \in PodsOf[c]
            BY DEF SentToNamedCache
        <3>1. CASE e \in log
            <4>1. e.client \in Clients BY <3>1 DEF TypeInv, Entries
            <4> QED BY <3>1, <4>1, <2>5 DEF NamedInv, SentToNamedCache
        <3>2. CASE Sent(cl, e)
            <4>1. /\ e.client = cl /\ e.pod \in req[cl].pods /\ req[cl].cache \in Caches
                  /\ InService(req[cl])
                BY <1>0, <3>2 DEF Sent, RequestOK, InService
            <4> QED BY <1>0, <2>5, <4>1 DEF RequestNamed, Names
        <3> QED BY <2>1, <3>1, <3>2
    <2>7. \A d \in Clients : RequestNamed(req[d])' BY <2>4 DEF RequestNamed, InService
    <2> QED BY <2>2, <2>6, <2>7 DEF NamedInv
<1>3. CASE ProxyNext /\ ~\E cl \in Clients : RequestStep(cl) \/ PodStep(cl)
    <2>1. /\ log' = log
          /\ \A d \in Clients : req'[d] = req[d] \/ req'[d] = Reply(d, "lost")
        BY <1>3, OtherSteps
    <2>2. TablesNamed' BY <1>0, <1>3, TablesNamedStep
    <2>3. \A d \in Clients : Reply(d, "lost").in = req[d].in /\ Reply(d, "lost").pc = "answered"
        BY <1>0, ReplyEffect DEF Statuses
    <2>4. \A d \in Clients : RequestNamed(req'[d]) /\ req'[d].in = req[d].in
        BY <1>0, <2>1, <2>3 DEF RequestNamed, InService
    <2>5. SentToNamedCache'
        <3>1. \A e \in log : e.client \in Clients BY DEF TypeInv, Entries
        <3> QED BY <2>1, <2>4, <3>1 DEF NamedInv, SentToNamedCache
    <2>6. \A d \in Clients : RequestNamed(req[d])' BY <2>4 DEF RequestNamed, InService
    <2> QED BY <2>2, <2>5, <2>6 DEF NamedInv
<1> QED BY <1>1, <1>2, <1>3

\* No request reaches a pod of a cache its Host does not name in full, for any
\* caches in any namespaces, also while they are deleted, created again and
\* registered (RegisteredRouter, PodMap, ServeHTTP).
THEOREM ReachesNamedCache == ProxySpec => []SentToNamedCache
<1>1. ProxySpec => [](TypeInv /\ NamedInv)
    BY TypeInvInit, TypeInvStep, NamedInit, NamedStep, PTL DEF ProxySpec
<1> QED BY <1>1, PTL DEF NamedInv

=============================================================================

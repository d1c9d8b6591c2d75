------------------------------- MODULE Linker -------------------------------
(***************************************************************************)
(* spans.Linker of the tracer (internal/tracer/spans/linker.go): spans of  *)
(* one transaction group are linked to spans of others, through two        *)
(* bounded caches of identities that expire and a parking lot for hits     *)
(* whose fetch has not been logged yet.                                    *)
(*                                                                         *)
(* varnishlog emits groups as they complete, so a coalescing request and   *)
(* the request that fetches for it come in either order; groups are lost   *)
(* when the log overruns; a new varnishd starts counting vxids afresh.     *)
(* Build is called by one goroutine.  Its loops over fetches and links are *)
(* steps here, and nothing else happens to the linker in between.          *)
(***************************************************************************)
EXTENDS Integers, FiniteSets

CONSTANTS
    Groups,      \* the top-level groups varnishlog may emit
    Tx,          \* Tx[g]: what the linker reads of group g
    Vxids,       \* transaction numbers
    NoGroup,     \* no group
    Capacity,    \* capacity of each identity cache (4096)
    TTL,         \* how long a cached identity lives (5 min)
    MaxParked,   \* capacity of the parking lot (256)
    AgeLimit,    \* how long a group is parked (10 s)
    MaxTime      \* bound on the clock

\* What BuildWithOutcome makes of a group: spans, or nothing because it is
\* unsampled, unusable or no request.
Outcomes == {"spans", "unsampled", "unusable", "other"}

\* fetches: the vxids of the BeReqs that got a span.  hit: the vxid of the Hit
\* record, if any.  waiter: there is a Waitinglist timestamp.  continues: the
\* Begin record says restart.  restarts: the vxids of the "Link req restart"
\* records.  life: which varnishd wrote the group.
Transactions ==
    [vxid : Vxids, life : Nat, outcome : Outcomes, fetches : SUBSET Vxids,
     hit : {{}} \cup {{v} : v \in Vxids}, waiter : BOOLEAN,
     continues : BOOLEAN, restarts : SUBSET Vxids]

ASSUME LinkerAssumption ==
    /\ Tx \in [Groups -> Transactions]
    /\ NoGroup \notin Groups
    /\ IsFiniteSet(Groups)
    /\ {Capacity, MaxParked} \subseteq Nat \ {0}
    /\ {TTL, AgeLimit, MaxTime} \subseteq Nat

VARIABLES
    now,        \* the wall clock
    fetches,    \* identities of fetch spans, by vxid
    restarts,   \* identities of restarted requests, by vxid of the next one
    fate,       \* fate[g]: what became of group g
    at,         \* at[g]: when g was built
    turn,       \* turn[g]: how many groups had been read before g
    trace,      \* trace[g]: the trace of g's spans, named by its root group
    parent,     \* parent[g]: the restarted request g continues
    link,       \* link[g]: the cached identity g's request span links to
    misses,     \* link-cache misses counted
    puts,       \* how often an identity was cached
    call,       \* the Build call in progress
    out         \* the groups whose spans the last call returned

linkerVars == <<now, fetches, restarts, fate, at, turn, trace, parent, link,
                misses, puts, call, out>>

\* A cached identity: the span of vxid in group by, known as part of a trace,
\* cached at a time and in a position of the ring.
Entries == [vxid : Vxids, by : Groups, trace : Groups, at : Nat, pos : Nat]

Degraded == {"warm", "aged", "evicted", "flushed"}

Fates == {"unread", "unsampled", "unusable", "other",
          "building", "parked", "plain", "linked"} \cup Degraded

Calls == [group : Groups \cup {NoGroup}, fetches : SUBSET Vxids, restarts : SUBSET Vxids]

LinkerTypeOK ==
    /\ now \in Nat
    /\ fetches \in SUBSET Entries
    /\ restarts \in SUBSET Entries
    /\ fate \in [Groups -> Fates]
    /\ at \in [Groups -> Nat]
    /\ turn \in [Groups -> Nat]
    /\ trace \in [Groups -> Groups]
    /\ parent \in [Groups -> Groups \cup {NoGroup}]
    /\ link \in [Groups -> SUBSET Entries]
    /\ misses \in Nat
    /\ puts \in Nat
    /\ call \in Calls
    /\ out \in SUBSET Groups

NoCall == [group |-> NoGroup, fetches |-> {}, restarts |-> {}]

LinkerInit ==
    /\ now = 0
    /\ fetches = {}
    /\ restarts = {}
    /\ fate = [g \in Groups |-> "unread"]
    /\ at = [g \in Groups |-> 0]
    /\ turn = [g \in Groups |-> 0]
    /\ trace = [g \in Groups |-> g]
    /\ parent = [g \in Groups |-> NoGroup]
    /\ link = [g \in Groups |-> {}]
    /\ misses = 0
    /\ puts = 0
    /\ call = NoCall
    /\ out = {}

-----------------------------------------------------------------------------
(* vxidCache: a map with a ring of its keys.  Both have the same keys, so  *)
(* a cache is a set of entries, the ring being the order of their pos.     *)

Alive(e) == now - e.at <= TTL

\* get.
Lookup(c, V) == {e \in c : e.vxid \in V /\ Alive(e)}

\* The scan for expired entries stops at the first one that is alive.
DropExpired(c) == {e \in c : \E f \in c : f.pos <= e.pos /\ Alive(f)}

Oldest(c) == {e \in c : \A f \in c : e.pos <= f.pos}

\* set: a vxid that is cached keeps its place in the ring.
Put(c, v, g, t) ==
    LET d == DropExpired(c)
        old == {e \in d : e.vxid = v}
        new == [vxid |-> v, by |-> g, trace |-> t, at |-> now,
                pos |-> IF old = {} THEN puts ELSE (CHOOSE e \in old : TRUE).pos]
        all == (d \ old) \cup {new}
    IN  IF Cardinality(all) > Capacity THEN all \ Oldest(all) ELSE all

-----------------------------------------------------------------------------
(* The parking lot.                                                        *)

Parked == {g \in Groups : fate[g] = "parked"}

\* Mutation: off by one.
AgedEarly == {g \in Parked : now - at[g] >= AgeLimit}

\* releaseAgedParked.
AgedParked == {g \in Parked : now - at[g] > AgeLimit}

Found(g) == Lookup(fetches, Tx[g].hit)

\* resolveParked.
ResolvedParked == {g \in Parked : Found(g) # {}}

FirstParked(P) == {g \in P : \A h \in P : turn[g] <= turn[h]}

\* What becomes of a group by its Hit record: resolveHit.
Resolution(g) ==
    CASE Tx[g].hit = {} -> "plain"
      [] Tx[g].hit # {} /\ Found(g) # {} -> "linked"
      [] Tx[g].hit # {} /\ Found(g) = {} /\ ~Tx[g].waiter -> "warm"
      [] OTHER -> "parked"

\* park at the capacity of the lot releases the oldest.
Overflow(g, P) ==
    IF Resolution(g) = "parked" /\ Cardinality(P) >= MaxParked
    THEN FirstParked(P) ELSE {}

-----------------------------------------------------------------------------
(* Build and Flush.                                                        *)

\* varnishlog emits g; groups of an earlier varnishd come no more.
Emitted(g) ==
    /\ fate[g] = "unread"
    /\ \A h \in Groups : fate[h] # "unread" => Tx[h].life <= Tx[g].life

Numbered(g) ==
    /\ at' = [at EXCEPT ![g] = now]
    /\ turn' = [turn EXCEPT ![g] = Cardinality({h \in Groups : fate[h] # "unread"})]

Released(G, f) == [h \in Groups |-> IF h \in G THEN f ELSE fate[h]]

\* A group without spans still ages the parking lot.
BuildNothing(g) ==
    /\ call.group = NoGroup
    /\ Emitted(g)
    /\ Tx[g].outcome # "spans"
    /\ Numbered(g)
    /\ fate' = [Released(AgedParked, "aged") EXCEPT ![g] = Tx[g].outcome]
    /\ misses' = misses + Cardinality(AgedParked)
    /\ out' = AgedParked
    /\ UNCHANGED <<now, fetches, restarts, trace, parent, link, puts, call>>

Originals(g) == Lookup(restarts, {Tx[g].vxid})

\* Age-out first; then a restarted request joins the one it continues.
BeginBuild(g) ==
    /\ call.group = NoGroup
    /\ Emitted(g)
    /\ Tx[g].outcome = "spans"
    /\ Numbered(g)
    /\ fate' = [Released(AgedParked, "aged") EXCEPT ![g] = "building"]
    /\ out' = AgedParked
    /\ IF Tx[g].continues
       THEN \/ \E o \in Originals(g) :
                  /\ parent' = [parent EXCEPT ![g] = o.by]
                  /\ trace' = [trace EXCEPT ![g] = o.trace]
                  /\ misses' = misses + Cardinality(AgedParked)
            \/ /\ Originals(g) = {}
               /\ misses' = misses + Cardinality(AgedParked) + 1
               /\ UNCHANGED <<parent, trace>>
       ELSE /\ misses' = misses + Cardinality(AgedParked)
            /\ UNCHANGED <<parent, trace>>
    /\ call' = [group |-> g, fetches |-> Tx[g].fetches, restarts |-> Tx[g].restarts]
    /\ UNCHANGED <<now, fetches, restarts, link, puts>>

\* Mutation: the identity is recorded as built, before the request was moved
\* into the trace it continues.
BuiltTrace(g) == g

\* The trace of the spans that are recorded.
RecordedTrace(g) == trace[g]

RecordFetch(v) ==
    /\ call.group # NoGroup
    /\ v \in call.fetches
    /\ fetches' = Put(fetches, v, call.group, RecordedTrace(call.group))
    /\ puts' = puts + 1
    /\ call' = [call EXCEPT !.fetches = @ \ {v}]
    /\ UNCHANGED <<now, restarts, fate, at, turn, trace, parent, link, misses, out>>

\* recordRestartLinks.
RecordRestart(v) ==
    /\ call.group # NoGroup
    /\ call.fetches = {}
    /\ v \in call.restarts
    /\ restarts' = Put(restarts, v, call.group, RecordedTrace(call.group))
    /\ puts' = puts + 1
    /\ call' = [call EXCEPT !.restarts = @ \ {v}]
    /\ UNCHANGED <<now, fetches, fate, at, turn, trace, parent, link, misses, out>>


\* Mutation: what the lot evicts is not counted.
UncountedOverflow(g, P) == IF Resolution(g) = "warm" THEN 1 ELSE 0

\* degradeRelease and the immediate degradation of a warm hit.
DegradedNow(g, P) ==
    Cardinality(Overflow(g, P)) + (IF Resolution(g) = "warm" THEN 1 ELSE 0)

EndBuild ==
    /\ call.group # NoGroup
    /\ call.fetches = {} /\ call.restarts = {}
    /\ LET g == call.group
           resolved == ResolvedParked
           staying == Parked \ resolved
       IN  /\ fate' = [h \in Groups |->
                         CASE h = g -> Resolution(g)
                           [] h \in resolved -> "linked"
                           [] h \in Overflow(g, staying) -> "evicted"
                           [] OTHER -> fate[h]]
           /\ link' = [h \in Groups |->
                         IF h \in resolved \cup {g} THEN Found(h) ELSE link[h]]
           /\ misses' = misses + DegradedNow(g, staying)
           /\ out' = out \cup resolved \cup Overflow(g, staying)
                         \cup (IF Resolution(g) = "parked" THEN {} ELSE {g})
    /\ call' = NoCall
    /\ UNCHANGED <<now, fetches, restarts, at, turn, trace, parent, puts>>

Flush ==
    /\ call.group = NoGroup
    /\ fate' = Released(Parked, "flushed")
    /\ misses' = misses + Cardinality(Parked)
    /\ out' = Parked
    /\ UNCHANGED <<now, fetches, restarts, at, turn, trace, parent, link, puts, call>>

\* Build reads the clock once, so time passes between calls.
Tick ==
    /\ call.group = NoGroup
    /\ now < MaxTime
    /\ now' = now + 1
    /\ UNCHANGED <<fetches, restarts, fate, at, turn, trace, parent, link,
                   misses, puts, call, out>>

BuildStep ==
    \/ \E v \in Vxids : RecordFetch(v) \/ RecordRestart(v)
    \/ EndBuild

LinkerNext ==
    \/ Tick
    \/ \E g \in Groups : BuildNothing(g) \/ BeginBuild(g)
    \/ BuildStep
    \/ Parked # {} /\ Flush

LinkerSpec == LinkerInit /\ [][LinkerNext]_linkerVars

-----------------------------------------------------------------------------
(* Properties.                                                             *)

Built(g) == fate[g] \in {"parked", "plain", "linked"} \cup Degraded

\* No capacity is reached by the groups of the instance.
Ample ==
    /\ Cardinality(UNION {Tx[g].fetches : g \in Groups}) <= Capacity
    /\ Cardinality(UNION {Tx[g].restarts : g \in Groups}) <= Capacity

\* The fetch span of f was known, or became known, in time for the hit of g.
InTime(f, g) ==
    /\ at[f] >= at[g] - TTL
    /\ IF Tx[g].waiter THEN at[f] <= at[g] + AgeLimit ELSE turn[f] < turn[g]

\* A hit is given up as unlinked only if its fetch was not seen in time: a
\* coalescing request is linked whichever of the two groups is logged first,
\* as the parking lot of Build promises.
LinkedEitherWay ==
    Ample => \A f, g \in Groups :
        fate[g] \in {"warm", "aged"} /\ Built(f) /\ Tx[g].hit \subseteq Tx[f].fetches
            => ~InTime(f, g)

\* The identity in a link is the one its target is exported under, although
\* reparentRestart moves spans to another trace after they were built.
LinksMatchExports ==
    \A g \in Groups : \A e \in link[g] :
        /\ e.vxid \in Tx[g].hit \cap Tx[e.by].fetches
        /\ Built(e.by)
        /\ e.trace = trace[e.by]

\* A request restarted twice is one trace: a continuation joins the trace
\* its original itself joined, unless that was cached too long ago.
RestartsShareTrace ==
    Ample => \A o, c \in Groups :
        (/\ Built(o) /\ Built(c)
         /\ Tx[c].continues /\ Tx[c].vxid \in Tx[o].restarts
         /\ turn[o] < turn[c] /\ at[c] - at[o] <= TTL)
        => parent[c] = o /\ trace[c] = trace[o]

\* Every correlation that failed, and no other, is counted by OnCacheMiss,
\* whether the lot overflowed, aged, was flushed or was never entered.
MissesCounted ==
    call.group = NoGroup =>
        misses = Cardinality({g \in Groups : fate[g] \in Degraded})
                 + Cardinality({g \in Groups :
                       Built(g) /\ Tx[g].continues /\ parent[g] = NoGroup})

=============================================================================

------------------------------ MODULE VclData -------------------------------
(***************************************************************************)
(* The data the VCL templates render (internal/generator/generator.go,     *)
(* buildTemplateData) and the endpoints the controller resolves for it     *)
(* (internal/controller/endpoints.go).                                     *)
(*                                                                         *)
(* A VCL identifier is the sequence of its parts between underscores, and  *)
(* sanitizeName makes hyphens underscores, so that is what a name is here. *)
(* Addresses are numbers in their order.  Timeouts are left out.           *)
(***************************************************************************)
EXTENDS Admission

CONSTANTS
    CacheName   \* the parts of the cache's name

-----------------------------------------------------------------------------
(* Endpoints.                                                              *)

EndpointReady(e) == ~e.terminating /\ e.ready # "no"

PickPort(e, b) == IF b.port > 0 THEN b.port ELSE e.port

\* Mutation: the endpoints stay in the order of the listing.
InListingOrder(eps) == eps

ByAddress(eps) == SortSeq(eps, LAMBDA e, f : e.ip < f.ip)

\* listBackendEndpoints, with the order in which the cache lists the slices.
ListBackendEndpoints(listing, b) ==
    LET usable == SelectSeq(listing[b.service],
                            LAMBDA e : EndpointReady(e) /\ PickPort(e, b) # 0)
    IN  ByAddress([i \in DOMAIN usable |->
                      [ip |-> usable[i].ip, port |-> PickPort(usable[i], b)]])

\* resolveBackendEndpoints: a map, so of two backends of one name the last.
ResolveBackendEndpoints(s, listing, name) ==
    LET last == Max({i \in DOMAIN s.backends : s.backends[i].name = name})
    IN  ListBackendEndpoints(listing, s.backends[last])

\* backendsWithoutEndpoints.
BackendsWithoutEndpoints(s, listing) ==
    {n \in {s.backends[i].name : i \in DOMAIN s.backends} :
        ResolveBackendEndpoints(s, listing, n) = <<>>}

-----------------------------------------------------------------------------
(* Groups.                                                                 *)

\* A probe with a URL: window and threshold as rendered.
ProbeOf(b) ==
    IF b.probe.url THEN [url |-> TRUE, window |-> OrElse(b.probe.window, 5),
                         threshold |-> OrElse(b.probe.threshold, 3)]
    ELSE [url |-> FALSE, window |-> 0, threshold |-> 0]

\* resolveDirectorInfo.
ResolveDirectorInfo(d) ==
    [type |-> IF d.type \in {"nil", ""} THEN "shard" ELSE d.type,
     healthy |-> IF d.type = "nil" THEN "" ELSE d.shard.healthy,
     header |-> IF d.type # "nil" /\ d.header = "token" THEN "token" ELSE ""]

BackendDefs(b, eps) ==
    [i \in DOMAIN eps |->
        [name |-> b.name \o <<ToString(i - 1)>>, ip |-> eps[i].ip, port |-> eps[i].port,
         probe |-> ProbeOf(b)]]

ResolveMaxRetries(retries) == IF retries = -1 THEN 1 ELSE retries

\* setGroupRetry: directors that may pick another backend.
ReselectingDirectors == {"shard", "round_robin", "random"}

\* The backends whose failed fetch is retried; round_robin and random are
\* themselves the backend of a fetch.
RetryMatch(b, info, defs) ==
    {defs[i].name : i \in DOMAIN defs}
      \cup (IF info.type \in {"round_robin", "random"} THEN {b.name} ELSE {})

\* Mutation: a group without endpoints is left empty.
NoPlaceholder(b, defs) == <<>>

Placeholder(b, defs) == IF defs = <<>> THEN <<"noendpoints">> \o b.name ELSE <<>>

BackendGroup(b, eps) ==
    LET info == ResolveDirectorInfo(b.director)
        defs == BackendDefs(b, eps)
        retries == IF defs # <<>> /\ info.type \in ReselectingDirectors
                   THEN ResolveMaxRetries(b.retries) ELSE 0
    IN  [name |-> b.name, director |-> info, backends |-> defs,
         placeholder |-> Placeholder(b, defs),
         retries |-> retries,
         match |-> IF retries > 0 THEN RetryMatch(b, info, defs) ELSE {}]

NoHint == [director |-> <<>>, argument |-> "", healthy |-> ""]

\* defaultBackendHint: a director and its argument.
DefaultBackendHint(g) ==
    [director |-> g.name,
     argument |-> CASE g.director.type = "shard" -> "URL"
                    [] g.director.type = "hash" /\ g.director.header # "" -> "header"
                    [] g.director.type = "hash" /\ g.director.header = "" -> "url"
                    [] OTHER -> "",
     healthy |-> IF g.director.type = "shard" THEN g.director.healthy ELSE ""]

\* Only an explicit URL is passed on; anything else is read as URL.
ClusterShardBy(s) == IF s.director.shard.by = "URL" THEN s.director.shard.by ELSE "URL"

PeerName(ordinal) == CacheName \o <<ToString(ordinal)>>

\* buildTemplateData; peers is a sequence of ordinals.
BuildTemplateData(s, listing, peers) ==
    LET groups == [i \in DOMAIN s.backends |->
                      BackendGroup(s.backends[i],
                                   ResolveBackendEndpoints(s, listing, s.backends[i].name))]
        hasCluster == s.cluster.enabled /\ peers # <<>>
        peerRetries == IF hasCluster THEN ResolveMaxRetries(s.cluster.retries) ELSE 0
    IN  [groups |-> groups,
         hint |-> IF groups = <<>> THEN NoHint ELSE DefaultBackendHint(groups[1]),
         shardBy |-> ClusterShardBy(s),
         healthy |-> s.director.shard.healthy,
         hasCluster |-> hasCluster,
         peers |-> [i \in DOMAIN peers |-> PeerName(peers[i])],
         peerRetries |-> peerRetries,
         peerMatch |-> IF peerRetries > 0 THEN {PeerName(peers[i]) : i \in DOMAIN peers} ELSE {},
         hasFetchRetry |-> peerRetries > 0 \/ \E i \in DOMAIN groups : groups[i].retries > 0]

=============================================================================

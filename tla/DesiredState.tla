---------------------------- MODULE DesiredState ----------------------------
(***************************************************************************)
(* From an edit of a VinylCache to what runs: the webhooks admit and store *)
(* it, and the reconciler derives Services, policies, the pod template and *)
(* the VCL's data from what is stored, from the catalog and from the       *)
(* endpoints it lists.                                                     *)
(*                                                                         *)
(* The stored object may be older than the webhook's rules.                *)
(***************************************************************************)
EXTENDS Network, VclData

CONSTANTS
    BaseSpecs,      \* objects a user first applies
    LegacySpecs,    \* objects stored before the rules of today
    EditValues,     \* EditValues[f]: values a user may give field f
    RawCatalogs,    \* catalogs the chart may configure
    OperatorIP,     \* the operator's address, "" when POD_IP is not set
    Services,       \* the Services the backends name
    Listings,       \* Listings[x]: the endpoints of service x at some time
    MaxChanges      \* bound on edits and on changes of the surroundings

\* The fields the defaults reach into are the records of the CRD.
IsShard(h) == h = [warmup |-> h.warmup, rampup |-> h.rampup, by |-> h.by, healthy |-> h.healthy]

IsDirector(d) == IsShard(d.shard) /\ d = [type |-> d.type, shard |-> d.shard, header |-> d.header]

FieldTyped(f, v) ==
    /\ f = "director" => IsDirector(v)
    /\ f = "proxy" => v = [enabled |-> v.enabled, port |-> v.port]
    /\ f = "backends" =>
        \A i \in DOMAIN v : "director" \in DOMAIN v[i] /\ IsDirector(v[i].director)

ASSUME SpecAssumption ==
    /\ \A s \in BaseSpecs \cup LegacySpecs :
        "proxy" \in DOMAIN s /\ \A f \in DOMAIN s : FieldTyped(f, s[f])
    /\ \A f \in DOMAIN EditValues : \A v \in EditValues[f] : FieldTyped(f, v)

VARIABLES
    stored,      \* <<>>, or the stored object
    admitted,    \* the stored object passed today's webhooks
    catalog,     \* <<>> while the operator is down, or the catalog it loaded
    endpoints,   \* endpoints[x]: the endpoints of service x
    ready,       \* ordinals of the ready pods
    network,     \* <<>>, or the Services and the rules of the policies
    template,    \* <<>>, or the StatefulSet's pod template
    vcl,         \* <<>>, or the VCL's data
    missing,     \* the backends the condition BackendsAvailable names
    basis,       \* what template and vcl were derived from, and whether that
                 \* passed today's webhooks
    changes

desiredVars ==
    <<stored, admitted, catalog, endpoints, ready, network, template, vcl, missing, basis, changes>>

\* Replicas are no part of the template.
Basis(s, cat) ==
    [template |-> <<[s EXCEPT !.replicas = 0], Resolve(cat, s.flavor, s.version)>>,
     vcl |-> <<[s EXCEPT !.replicas = 0], endpoints>>,
     admitted |-> admitted]

DesiredInit ==
    /\ \/ stored = <<>> /\ admitted = TRUE
       \/ \E s \in LegacySpecs : stored = <<s>> /\ admitted = FALSE
    /\ \E raw \in RawCatalogs : ParseOk(raw) /\ catalog = <<raw>>
    /\ endpoints \in [Services -> UNION {Listings[x] : x \in Services}]
    /\ \A x \in Services : endpoints[x] = {}
    /\ ready = {}
    /\ network = <<>> /\ template = <<>> /\ vcl = <<>> /\ missing = {}
    /\ basis = [template |-> <<>>, vcl |-> <<>>, admitted |-> TRUE]
    /\ changes = 0

-----------------------------------------------------------------------------
(* Users and surroundings.                                                 *)

Change == changes < MaxChanges /\ changes' = changes + 1

Store(s) ==
    /\ stored' = <<s>>
    /\ admitted' = TRUE
    /\ UNCHANGED <<catalog, endpoints, ready, network, template, vcl, missing, basis>>

\* The API server calls the webhooks, so the operator has to run.
Create ==
    /\ Change
    /\ stored = <<>> /\ catalog # <<>>
    /\ \E spec \in BaseSpecs :
        LET s == DefaultVinylCache(spec)
        IN  ProbesAdmitted(s) /\ ValidateCreate(s, catalog[1]) /\ Store(s)

Update ==
    /\ Change
    /\ stored # <<>> /\ catalog # <<>>
    /\ \E f \in DOMAIN EditValues : \E v \in EditValues[f] :
        LET s == DefaultVinylCache([stored[1] EXCEPT ![f] = v])
        IN  ProbesAdmitted(s) /\ ValidateUpdate(stored[1], s, catalog[1]) /\ Store(s)

\* main loads the catalog and exits when it does not parse.
OperatorStart(raw) == catalog' = IF ParseOk(raw) THEN <<raw>> ELSE <<>>

ChartUpgrade ==
    /\ Change
    /\ \E raw \in RawCatalogs : OperatorStart(raw)
    /\ UNCHANGED <<stored, admitted, endpoints, ready, network, template, vcl, missing, basis>>

EndpointsChange ==
    /\ Change
    /\ \E x \in Services : \E l \in Listings[x] : endpoints' = [endpoints EXCEPT ![x] = l]
    /\ UNCHANGED <<stored, admitted, catalog, ready, network, template, vcl, missing, basis>>

PodsChange ==
    /\ Change
    /\ ready' \in SUBSET {0, 1}
    /\ UNCHANGED <<stored, admitted, catalog, endpoints, network, template, vcl, missing, basis>>

-----------------------------------------------------------------------------
(* The reconciler.                                                         *)

\* Maps are iterated and informers list in any order.  A runtime that left
\* the catalog leaves the StatefulSet alone.
Reconcile ==
    /\ stored # <<>> /\ catalog # <<>>
    /\ LET s == stored[1]
           resolved == Resolves(catalog[1], s.flavor, s.version)
       IN  /\ IF resolved
              THEN /\ \E order \in SetToSeqs(s.params) :
                        template' = <<Template(s, Resolve(catalog[1], s.flavor, s.version), order)>>
                   /\ basis' = Basis(s, catalog[1])
              ELSE /\ UNCHANGED template
                   /\ basis' = [basis EXCEPT !.vcl = <<[s EXCEPT !.replicas = 0], endpoints>>]
           /\ network' = <<[services |-> ServicesOf,
                            policies |-> NetworkPolicies(s, OperatorIP)]>>
           /\ \E listing \in [Services -> UNION {SetToSeqs(endpoints[x]) : x \in Services}] :
              \E peers \in SetToSeqs(ready) :
                /\ \A x \in Services : ToSet(listing[x]) = endpoints[x]
                /\ vcl' = <<BuildTemplateData(s, listing, peers)>>
                /\ missing' = BackendsWithoutEndpoints(s, listing)
    /\ UNCHANGED <<stored, admitted, catalog, endpoints, ready, changes>>

DesiredNext ==
    \/ Create
    \/ Update
    \/ ChartUpgrade
    \/ EndpointsChange
    \/ PodsChange
    \/ Reconcile

DesiredSpec == DesiredInit /\ [][DesiredNext]_desiredVars

-----------------------------------------------------------------------------
(* Properties.                                                             *)

\* What the webhooks stored they admit again, unchanged and whatever happened
\* to the catalog: an update of the metadata, such as the removal of the
\* finalizer, never fails on the spec (DefaultVinylCache, ValidateRuntime).
ResubmitAdmitted ==
    stored # <<>> /\ admitted /\ catalog # <<>> =>
        /\ DefaultVinylCache(stored[1]) = stored[1]
        /\ ValidateUpdate(stored[1], stored[1], catalog[1])

Containers == ToSet(template[1].containers)

\* varnishd's PROXY listener never takes a port that another process of the
\* pod listens on, also where the port or the exporter's is a default
\* (DefaultVinylCache, validateProxyProtocolPort, reconcileStatefulSet).
ProxyListenerAlone ==
    template # <<>> /\ basis.admitted /\ Len(template[1].args.listen) = 2 =>
        /\ template[1].args.listen[2] \notin {8080, 6082}
        /\ \A c \in Containers :
            c.name # "varnish" => template[1].args.listen[2] \notin ToSet(c.ports)

Listening == UNION {ToSet(c.ports) : c \in Containers}

\* Whoever has business with a pod is let in and finds a listener: a Service's
\* clients, the operator at the cache and at the agent, Prometheus at the
\* exporter, at the port of the headless Service unless the spec moves it; and
\* no policy opens a port that nothing listens on (reconcileServices,
\* reconcileNetworkPolicies, reconcileStatefulSet).
Reachable ==
    template # <<>> /\ basis.template[1] = basis.vcl[1] =>
        LET policies == network[1].policies
            s == basis.vcl[1]
            ports == UNION {v.ports : v \in {w \in network[1].services : w.selects = "pods"}}
        IN  /\ \A p \in ports : p.name = "cache-http" =>
                Admits(policies, "anybody", p.target) /\ p.target \in Listening
            /\ OperatorIP # "" => \A port \in {8080, 9090} :
                Admits(policies, OperatorIP, port) /\ port \in Listening
            /\ s.exporter.enabled /\ s.exporter.port = 0 =>
                \A port \in ServiceMonitorTargets(network[1].services) :
                    Admits(policies, "anybody", port) /\ port \in Listening
            /\ {r.port : r \in policies} \subseteq Listening

Nested(p, q) == IsPrefix(p, q) \/ IsPrefix(q, p)

\* The directory a path names: doubled and trailing slashes do not count.
Directory(p) == SelectSeq(p, LAMBDA segment : segment # "")

\* No two storages have one name, and no user's volume that of a provisioned one:
\* the webhook asks for neither.
StoragesApart(s) ==
    /\ IsInjective([i \in DOMAIN s.storage |-> s.storage[i].name])
    /\ \A v \in ToSet(FileStorageVolumes(s)) : v.name \notin ToSet(s.volumes \o s.claims)

\* Every mount of every container names a volume or claim of the pod, and no user's
\* mount covers or enters one of the operator's if its path is written without
\* doubled or trailing slashes.  Volumes and claims have one name each, file
\* storages with names that sanitize alike included, as long as the storages are
\* apart (ValidateVinylCache, fileStorageVolumeName, reconcileStatefulSet).
MountsSound ==
    template # <<>> /\ basis.admitted =>
        LET names == [i \in DOMAIN template[1].volumes |-> template[1].volumes[i].name]
                       \o template[1].claims
            mounts == template[1].containers[1].mounts
            users == basis.template[1].mounts
            own == SubSeq(mounts, 1, Len(mounts) - Len(users))
        IN  /\ StoragesApart(basis.template[1]) => IsInjective(names)
            /\ \A c \in Containers : \A m \in ToSet(c.mounts) : m.name \in ToSet(names)
            /\ \A m \in ToSet(users), o \in ToSet(own) :
                m.path = Directory(m.path) => ~Nested(Directory(m.path), o.path)

\* Every cache file the operator places lies in a volume of its own that
\* outgrows it, as long as the storages are apart, and the pod requests the disk
\* for all of them unless the user set a request (provisionFileStorage,
\* storageArgs, varnishResources).
CacheFilesFit ==
    template # <<>> /\ StoragesApart(basis.template[1]) =>
        LET t == template[1]
            volume(m) == CHOOSE v \in ToSet(t.volumes) : v.name = m.name
            placed == {a \in ToSet(t.args.storage) :
                          a.type = "file" /\ IsPrefix(<<"var", "lib", "vinyl-storage">>, a.path)}
            home(a) == {m \in ToSet(t.containers[1].mounts) : IsPrefix(m.path, a.path)}
        IN  /\ \A a \in placed :
                /\ Cardinality(home(a)) = 1
                /\ \A m \in home(a) : volume(m).limit >= a.size + 64
            /\ \A a, b \in placed : a # b => home(a) \cap home(b) = {}
            /\ basis.template[1].ephemeral = 0 =>
                t.ephemeral >= FoldSet(LAMBDA v, sum : v.limit + sum, 0, ToSet(t.volumes))

\* Reconciling again, or after scaling, does not touch the pod template: no
\* restart without a reason (varnishParamArgs, podAffinity, varnishEnv).
TemplateStable ==
    [][template # <<>> /\ basis'.template = basis.template => template' = template]_desiredVars

\* An address stands in one endpoint of a Service only.
AddressesApart ==
    \A x \in Services : \A e, f \in endpoints[x] : e.ip = f.ip => e = f

\* Nor does it touch the backends of the VCL while the endpoints are the same,
\* whatever order they are listed in; the order is that of the addresses, so an
\* address with two ports is exempt (listBackendEndpoints).
BackendsStable ==
    [][vcl # <<>> /\ basis'.vcl = basis.vcl /\ AddressesApart =>
          vcl'[1].groups = vcl[1].groups]_desiredVars

\* Every director has a backend, if only the placeholder, which is no ready
\* endpoint's name and which the condition BackendsAvailable tells of, varnishd
\* compiles every probe, and requests without a snippet go to a director of the
\* VCL (buildTemplateData, backendsWithoutEndpoints, defaultBackendHint).
DirectorsServed ==
    vcl # <<>> =>
        LET groups == ToSet(vcl[1].groups)
        IN  /\ \A g \in groups : (g.backends = <<>>) <=> (g.placeholder # <<>>)
            /\ missing = {g.name : g \in {h \in groups : h.placeholder # <<>>}}
            /\ \A g, h \in groups : \A b \in ToSet(h.backends) : g.placeholder # b.name
            /\ \A g \in groups : \A b \in ToSet(g.backends) : b.probe.threshold <= b.probe.window
            /\ vcl[1].hint.director \in {g.name : g \in groups}
            /\ vcl[1].hint.argument = "header" => vcl[1].groups[1].director.header = "token"

=============================================================================

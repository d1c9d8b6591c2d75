----------------------------- MODULE Admission ------------------------------
(***************************************************************************)
(* What the API server does with a VinylCache before it stores it: the     *)
(* defaulting webhook (internal/webhook/vinylcache_defaulter.go), the      *)
(* validating webhook (vinylcache_validator.go, runtime.go) and the        *)
(* runtime catalog both the webhook and the controller resolve against     *)
(* (internal/catalog).                                                     *)
(*                                                                         *)
(* A path is the sequence of what its slashes separate, so one that ends   *)
(* with a slash ends with an empty segment.  A name is the sequence of the *)
(* parts its uses tell apart; a varnishd parameter is a number in the      *)
(* order of the names.  Zero, "" and <<>> are unset.  The CRD's enums and  *)
(* patterns are in the sets of values an edit may choose.                  *)
(***************************************************************************)
EXTENDS Integers, Sequences, FiniteSets, FiniteSetsExt, SequencesExt

CONSTANTS
    ForbiddenParams,   \* forbiddenVarnishParams
    MalformedParams    \* keys that are no bare parameter name

-----------------------------------------------------------------------------
(* The runtime catalog.                                                    *)

\* Load, Parse and validateEntry: a catalog the operator starts with.  A
\* catalog maps flavors to a default and to the versions whose three images
\* are given.
ParseOk(raw) ==
    /\ DOMAIN raw # {}
    /\ DOMAIN raw \subseteq {"varnish", "vinyl"}
    /\ \A f \in DOMAIN raw : raw[f].default \in raw[f].versions /\ raw[f].complete

EffectiveFlavor(f) == IF f = "" THEN "varnish" ELSE f

VersionOf(cat, f, v) == IF v = 0 THEN cat[EffectiveFlavor(f)].default ELSE v

\* Catalog.Resolve succeeds.
Resolves(cat, f, v) ==
    /\ EffectiveFlavor(f) \in DOMAIN cat
    /\ VersionOf(cat, f, v) \in cat[EffectiveFlavor(f)].versions

Resolve(cat, f, v) ==
    LET images == [flavor |-> EffectiveFlavor(f), version |-> VersionOf(cat, f, v)]
    IN  [flavor |-> images.flavor, version |-> images.version,
         daemon |-> images, exporter |-> images, tracer |-> images]

-----------------------------------------------------------------------------
(* Defaults.                                                               *)

OrElse(value, default) == IF value = 0 THEN default ELSE value

\* applyShardDefaults.  Durations in seconds; warmup in percent, -1 for nil.
ApplyShardDefaults(d) ==
    IF d.type # "shard" THEN d
    ELSE [d EXCEPT !.shard =
            [warmup |-> IF @.warmup = -1 THEN 10 ELSE @.warmup,
             rampup |-> OrElse(@.rampup, 30),
             by |-> IF @.by = "" THEN "URL" ELSE @.by,
             healthy |-> IF @.healthy = "" THEN "CHOSEN" ELSE @.healthy]]

DefaultDirector(d) ==
    ApplyShardDefaults([d EXCEPT !.type = IF @ = "" THEN "shard" ELSE @])

DefaultProxyPort(proxy) ==
    IF proxy.enabled THEN [proxy EXCEPT !.port = OrElse(@, 8081)] ELSE proxy

\* A backend without a director of its own has director.type "nil".
DefaultBackend(b) ==
    [b EXCEPT !.director = IF @.type = "nil" THEN @ ELSE DefaultDirector(@)]

DefaultVinylCache(s) ==
    [s EXCEPT !.purge = TRUE,
              !.director = DefaultDirector(@),
              !.peerRouting = IF @ = "" THEN "shard" ELSE @,
              !.backends = [i \in DOMAIN @ |-> DefaultBackend(@[i])],
              !.debounce = OrElse(@, 1),
              !.backoffBase = OrElse(@, 30),
              !.backoffMax = OrElse(@, 300),
              !.proxy = DefaultProxyPort(@)]

-----------------------------------------------------------------------------
(* Validation.  Each operator says that a rule has no complaint.           *)

ParamsValid(s) == s.params \cap (ForbiddenParams \cup MalformedParams) = {}

StorageValid(s) ==
    \A i \in DOMAIN s.storage : /\ s.storage[i].type \notin {"persistent", "umem", "default"}
                                /\ s.storage[i].name # <<"s", "y", "n", "t", "h">>

\* validateHashHeaders; a token is a header name VCL accepts.
HashHeadersValid(s) ==
    \A d \in {s.director} \cup {s.backends[i].director : i \in DOMAIN s.backends} :
        d.header \in {"", "token"}

SourcesValid(s) == s.sources \subseteq {"cidr"}

ReservedVolumeNames ==
    {<<"agent-token">>, <<"varnish-secret">>, <<"varnish-workdir">>, <<"varnish-tmp">>,
     <<"bootstrap-vcl">>}

\* Names of volumes and claim templates together.
VolumesValid(s) ==
    /\ IsInjective(s.volumes \o s.claims)
    /\ ToSet(s.volumes \o s.claims) \cap ReservedVolumeNames = {}

ReservedMountPaths ==
    {<<"run", "vinyl">>, <<"etc", "varnish", "secret">>, <<"etc", "varnish", "default.vcl">>,
     <<"var", "lib", "varnish">>, <<"tmp">>, <<"var", "lib", "vinyl-storage">>}

\* The strings are compared as they are written.
PathIsReserved(p) == \E r \in ReservedMountPaths : IsPrefix(r, p)

PathConflictsWithReserved(p) ==
    PathIsReserved(p) \/ p = <<"">> \/ \E r \in ReservedMountPaths : IsPrefix(p, r)

\* Mutation: an ancestor of a reserved path may be mounted.
MountsBesideReserved(s) ==
    \A i \in DOMAIN s.mounts :
        /\ ~PathIsReserved(s.mounts[i].path)
        /\ s.mounts[i].name \in ToSet(s.volumes \o s.claims) \cup ReservedVolumeNames

MountsValid(s) ==
    \A i \in DOMAIN s.mounts :
        /\ ~PathConflictsWithReserved(s.mounts[i].path)
        /\ s.mounts[i].name \in ToSet(s.volumes \o s.claims) \cup ReservedVolumeNames

\* validatePodEnv.
EnvValid(s) == IsInjective(s.env)

\* validatePodAntiAffinity.
AntiAffinityValid(s) == s.antiAffinity.set => s.affinity # "anti"

ReservedPodPorts == {8080, 6082, 9090, 9131, 9464}

\* Mutation: the exporter's own port is not compared.
ProxyPortUnreserved(s) == s.proxy.enabled => s.proxy.port \notin ReservedPodPorts

\* validateProxyProtocolPort.
ProxyPortValid(s) ==
    s.proxy.enabled => /\ s.proxy.port \notin ReservedPodPorts
                       /\ s.exporter.enabled => s.exporter.port # s.proxy.port

\* validateFileStorage.
FileStorageValid(s) ==
    \A i \in DOMAIN s.storage : s.storage[i].type = "file" =>
        IF s.storage[i].path = <<>> THEN s.storage[i].size > 0
                                    ELSE ~PathIsReserved(s.storage[i].path)

\* An endpoint is host:port, something else, or missing.
TracingValid(s) == s.tracing.enabled => s.tracing.endpoint = "host:port"

\* The CRD's rule on probes, which the API server checks before the webhooks: it
\* has the generator's defaults written into it.
ProbesAdmitted(s) ==
    \A i \in DOMAIN s.backends :
        OrElse(s.backends[i].probe.threshold, 3) <= OrElse(s.backends[i].probe.window, 5)

ValidateVinylCache(s) ==
    /\ ParamsValid(s) /\ StorageValid(s) /\ HashHeadersValid(s) /\ SourcesValid(s)
    /\ VolumesValid(s) /\ MountsValid(s) /\ EnvValid(s) /\ AntiAffinityValid(s)
    /\ ProxyPortValid(s) /\ FileStorageValid(s) /\ TracingValid(s)

\* Mutation: the runtime is checked on every update.
RuntimeAlwaysChecked(old, s, cat) == Resolves(cat, s.flavor, s.version)

\* ValidateRuntime: on create, when old is <<>>, or when the runtime changed.
ValidateRuntime(old, s, cat) ==
    \/ /\ old # <<>>
       /\ EffectiveFlavor(old[1].flavor) = EffectiveFlavor(s.flavor)
       /\ old[1].version = s.version
    \/ Resolves(cat, s.flavor, s.version)

ValidateCreate(s, cat) == ValidateVinylCache(s) /\ ValidateRuntime(<<>>, s, cat)

\* ValidateVinylCacheUpdate and the runtime: claim templates never change.
ValidateUpdate(old, s, cat) ==
    /\ ValidateVinylCache(s)
    /\ old.claims = s.claims
    /\ ValidateRuntime(<<old>>, s, cat)

=============================================================================

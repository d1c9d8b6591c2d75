---------------------------- MODULE PodTemplate -----------------------------
(***************************************************************************)
(* The StatefulSet's pod template as reconcileStatefulSet builds it from a *)
(* stored VinylCache and its runtime (internal/controller/statefulset.go,  *)
(* affinity.go, filestorage.go, flavor.go).                                *)
(*                                                                         *)
(* A change of the template restarts every pod, so what goes into it, and  *)
(* in which order, matters.  Sizes are in MiB.                             *)
(***************************************************************************)
EXTENDS Admission

CONSTANTS
    OperatorAntiAffinity   \* the operator's flags: type, topology key, weight

-----------------------------------------------------------------------------
(* File storages without a path (filestorage.go).                          *)

IsProvisioned(st) == st.type = "file" /\ st.path = <<>>

Provisioned(s) == SelectSeq(s.storage, IsProvisioned)

Lower(c) == CASE c = "A" -> "a" [] c = "B" -> "b" [] OTHER -> c

Sanitized(name) ==
    [i \in DOMAIN name |-> IF Lower(name[i]) \in {"a", "b", "0", "1"} THEN Lower(name[i]) ELSE "-"]

\* The sanitized name and a hash of the name itself, taken to tell any two names
\* apart.  No rule keeps a user's volume from having this name.
FileStorageVolumeName(name) == <<"storage">> \o Sanitized(name) \o <<"#">> \o name

FileStorageMinMargin == 64

FileStorageSizeLimit(size) == size + Max({(size * 5) \div 100, FileStorageMinMargin})

FileStorageMount(st) == <<"var", "lib", "vinyl-storage">> \o <<ToString(st.name)>>

FileStoragePath(st) ==
    IF IsProvisioned(st) THEN FileStorageMount(st) \o <<"bin">> ELSE st.path

FileStorageVolumes(s) ==
    [i \in DOMAIN Provisioned(s) |->
        [name |-> FileStorageVolumeName(Provisioned(s)[i].name),
         limit |-> FileStorageSizeLimit(Provisioned(s)[i].size)]]

FileStorageMounts(s) ==
    [i \in DOMAIN Provisioned(s) |->
        [name |-> FileStorageVolumeName(Provisioned(s)[i].name),
         path |-> FileStorageMount(Provisioned(s)[i])]]

\* Mutation: the request covers the sizes, not the volumes' limits.
SizesRequested(s) ==
    IF s.ephemeral # 0 \/ Provisioned(s) = <<>> THEN s.ephemeral
    ELSE FoldLeft(LAMBDA sum, st : sum + st.size, 0, Provisioned(s))

\* varnishResources: the ephemeral-storage request, unless the user set one.
VarnishResources(s) ==
    IF s.ephemeral # 0 \/ Provisioned(s) = <<>> THEN s.ephemeral
    ELSE FoldLeft(LAMBDA sum, v : sum + v.limit, 0, FileStorageVolumes(s))

-----------------------------------------------------------------------------
(* Affinity (affinity.go).                                                 *)

BuiltinAntiAffinity == [type |-> "preferred", key |-> "hostname", weight |-> 100]

Layered(below, above) ==
    [type |-> IF above.type = "" THEN below.type ELSE above.type,
     key |-> IF above.key = "" THEN below.key ELSE above.key,
     weight |-> OrElse(above.weight, below.weight)]

\* AntiAffinityDefaults.resolve.
ResolveAntiAffinity(s) ==
    LET op == Layered(BuiltinAntiAffinity, OperatorAntiAffinity)
    IN  IF s.antiAffinity.set THEN Layered(op, s.antiAffinity.spec) ELSE op

\* podAntiAffinity, with the weight a preference has.
PodAntiAffinity(rule) ==
    IF rule.type = "preferred" THEN rule
    ELSE IF rule.type = "required" THEN [rule EXCEPT !.weight = 0]
    ELSE [type |-> "none", key |-> "", weight |-> 0]

\* podAffinity: the user's own anti-affinity stays as it is.
PodAffinity(s) ==
    IF s.affinity = "anti"
    THEN [user |-> s.affinity, anti |-> [type |-> "none", key |-> "", weight |-> 0]]
    ELSE [user |-> s.affinity, anti |-> PodAntiAffinity(ResolveAntiAffinity(s))]

-----------------------------------------------------------------------------
(* varnishd and its sidecars (statefulset.go, flavor.go).                  *)

Traits(flavor) ==
    IF flavor = "vinyl" THEN [daemon |-> "vinyld", stat |-> "vinylstat", log |-> "vinyllog"]
                        ELSE [daemon |-> "varnishd", stat |-> "", log |-> "varnishlog"]

\* effectiveRuntime.
EffectiveRuntime(s, rt) ==
    [rt EXCEPT !.daemon = IF s.image THEN [flavor |-> "image", version |-> 0] ELSE @,
               !.exporter = IF s.exporter.image THEN [flavor |-> "image", version |-> 0] ELSE @]

ProxyProtocolPort(s) == OrElse(s.proxy.port, 8081)

StorageArgs(s) ==
    [i \in DOMAIN s.storage |->
        [name |-> s.storage[i].name, type |-> s.storage[i].type, size |-> s.storage[i].size,
         path |-> IF s.storage[i].type = "file" THEN FileStoragePath(s.storage[i]) ELSE <<>>]]

\* Mutation: the map's own order.
UnsortedParamArgs(order) == order

\* varnishParamArgs, with the order in which the map is iterated.
VarnishParamArgs(order) == SortSeq(order, <)

\* varnishdArgs: listeners, storages and parameters.
VarnishdArgs(s, order) ==
    [listen |-> <<8080>> \o (IF s.proxy.enabled THEN <<ProxyProtocolPort(s)>> ELSE <<>>),
     storage |-> StorageArgs(s),
     params |-> VarnishParamArgs(order)]

\* defaultMallocConf: narenas, 0 for jemalloc's own choice; cpu in thousandths.
DefaultMallocConf(s) == 4 * ((s.cpu + 999) \div 1000)

\* varnishEnv: a user's entry replaces the default in place.
VarnishEnv(s) ==
    LET users == [i \in DOMAIN s.env |-> [name |-> s.env[i], value |-> -1]]
        others == SelectSeq(users, LAMBDA e : e.name # "MALLOC_CONF")
        conf == IF "MALLOC_CONF" \in ToSet(s.env) THEN -1 ELSE DefaultMallocConf(s)
    IN  <<[name |-> "MALLOC_CONF", value |-> conf]>> \o others

SecretMounts ==
    <<[name |-> <<"agent-token">>, path |-> <<"run", "vinyl">>],
      [name |-> <<"varnish-secret">>, path |-> <<"etc", "varnish", "secret">>]>>

WorkdirMounts == <<[name |-> <<"varnish-workdir">>, path |-> <<"var", "lib", "varnish">>]>>

OperatorMounts ==
    SecretMounts \o WorkdirMounts
      \o <<[name |-> <<"varnish-tmp">>, path |-> <<"tmp">>],
           [name |-> <<"bootstrap-vcl">>, path |-> <<"etc", "varnish", "default.vcl">>]>>

OperatorVolumes ==
    [i \in DOMAIN OperatorMounts |-> [name |-> OperatorMounts[i].name, limit |-> 0]]

Container(name, image, command, ports, mounts) ==
    [name |-> name, image |-> image, command |-> command, ports |-> ports, mounts |-> mounts]

VarnishContainer(s, rt) ==
    Container("varnish", rt.daemon, Traits(rt.flavor).daemon,
              <<8080>> \o (IF s.proxy.enabled THEN <<ProxyProtocolPort(s)>> ELSE <<>>),
              OperatorMounts \o FileStorageMounts(s) \o s.mounts)

\* AGENT_IMAGE is set by the chart.
AgentContainer ==
    Container("vinyl-agent", [flavor |-> "agent", version |-> 0], "", <<9090>>, SecretMounts)

BuildExporterContainer(s, rt) ==
    Container("vinyl-exporter", rt.exporter, Traits(rt.flavor).stat,
              <<OrElse(s.exporter.port, 9131)>>, WorkdirMounts)

BuildTracerContainer(s, rt) ==
    Container("vinyl-tracer", rt.tracer, Traits(rt.flavor).log, <<9464>>, WorkdirMounts)

\* What reconcileStatefulSet writes into the template.
Template(s, base, order) ==
    LET rt == EffectiveRuntime(s, base)
    IN  [containers |->
            <<VarnishContainer(s, rt), AgentContainer>>
              \o (IF s.exporter.enabled THEN <<BuildExporterContainer(s, rt)>> ELSE <<>>)
              \o (IF s.tracing.enabled THEN <<BuildTracerContainer(s, rt)>> ELSE <<>>),
         args |-> VarnishdArgs(s, order),
         env |-> VarnishEnv(s),
         ephemeral |-> VarnishResources(s),
         volumes |-> OperatorVolumes \o FileStorageVolumes(s)
                       \o [i \in DOMAIN s.volumes |-> [name |-> s.volumes[i], limit |-> 0]],
         claims |-> s.claims,
         affinity |-> PodAffinity(s)]

=============================================================================

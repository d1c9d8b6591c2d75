------------------------------ MODULE Network -------------------------------
(***************************************************************************)
(* The Services, the NetworkPolicies and the ServiceMonitor of a cache     *)
(* (internal/controller/service.go, networkpolicy.go, monitoring.go).      *)
(* Every Service carries the label the monitor selects; the invalidation   *)
(* Service has no selector, its endpoint is the operator.  A policy that   *)
(* selects the pods closes every port no policy admits.                    *)
(***************************************************************************)
EXTENDS PodTemplate

ServicePort(name, port) == [name |-> name, port |-> port, target |-> port]

HeadlessService ==
    [selects |-> "pods", ports |-> {ServicePort("cache-http", 8080), ServicePort("exporter", 9131)}]

TrafficService == [selects |-> "pods", ports |-> {ServicePort("cache-http", 8080)}]

InvalidationService == [selects |-> "none", ports |-> {ServicePort("invalidation", 8090)}]

ServicesOf == {HeadlessService, TrafficService, InvalidationService}

\* What a ServiceMonitor reaches: the port of that name of any Service.
ServiceMonitorTargets(services) ==
    {p.target : p \in {q \in UNION {v.ports : v \in services} : q.name = "exporter"}}

-----------------------------------------------------------------------------
\* The namespace with the label, and the operator's address when it has one.
OperatorPeers(ip) == {"labelled namespace"} \cup (IF ip = "" THEN {} ELSE {ip})

Ingress(port, from) == {[port |-> port, from |-> from]}

Anybody == {"anybody"}

TrafficPolicy == Ingress(8080, Anybody)

InvalidationPolicy(ip) == Ingress(8080, OperatorPeers(ip))

AgentPolicy(ip) == Ingress(9090, OperatorPeers(ip))

\* Mutation: the default port, whatever the spec says.
DefaultExporterPolicy(s) == IF s.exporter.enabled THEN Ingress(9131, Anybody) ELSE {}

ExporterPolicy(s) ==
    IF s.exporter.enabled THEN Ingress(OrElse(s.exporter.port, 9131), Anybody) ELSE {}

TracerPolicy(s) == IF s.tracing.enabled THEN Ingress(9464, Anybody) ELSE {}

NetworkPolicies(s, ip) ==
    UNION {TrafficPolicy, InvalidationPolicy(ip), AgentPolicy(ip), ExporterPolicy(s), TracerPolicy(s)}

Admits(policies, who, port) ==
    \E r \in policies : r.port = port /\ r.from \cap {who, "anybody"} # {}

=============================================================================

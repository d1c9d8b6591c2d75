------------------------- MODULE DesiredStateProofs -------------------------
(***************************************************************************)
(* What the webhooks stored they admit again, for any spec, edit and       *)
(* catalog.                                                                *)
(***************************************************************************)
EXTENDS DesiredState, TLAPS

-----------------------------------------------------------------------------
(* Defaulting twice is defaulting once.                                    *)

\* The defaults of a shard director are set values.
LEMMA ShardDefaulted ==
    ASSUME NEW d, IsDirector(d)
    PROVE  /\ IsDirector(ApplyShardDefaults(d))
           /\ ApplyShardDefaults(d).type = d.type
           /\ ApplyShardDefaults(ApplyShardDefaults(d)) = ApplyShardDefaults(d)
<1>1. CASE d.type # "shard" BY <1>1 DEF ApplyShardDefaults
<1>2. CASE d.type = "shard"
  <2> DEFINE w == IF d.shard.warmup = -1 THEN 10 ELSE d.shard.warmup
             r == IF d.shard.rampup = 0 THEN 30 ELSE d.shard.rampup
             b == IF d.shard.by = "" THEN "URL" ELSE d.shard.by
             h == IF d.shard.healthy = "" THEN "CHOSEN" ELSE d.shard.healthy
             filled == [warmup |-> w, rampup |-> r, by |-> b, healthy |-> h]
             e == [type |-> "shard", shard |-> filled, header |-> d.header]
  <2>1. ApplyShardDefaults(d) = [d EXCEPT !.shard = filled]
    BY <1>2 DEF ApplyShardDefaults, OrElse
  <2>w. w # -1 OBVIOUS
  <2>r. r # 0 OBVIOUS
  <2>b. b # "" OBVIOUS
  <2>h. h # "" OBVIOUS
  <2> HIDE DEF w, r, b, h
  <2>2. IsShard(filled) BY DEF IsShard
  <2>3. filled.warmup # -1 /\ filled.rampup # 0 /\ filled.by # "" /\ filled.healthy # ""
    BY <2>w, <2>r, <2>b, <2>h
  <2> HIDE DEF filled
  <2>4. [d EXCEPT !.shard = filled] = e BY <1>2 DEF IsDirector
  <2>5. IsDirector(e) BY <2>2 DEF IsDirector
  <2>6. [warmup |-> filled.warmup, rampup |-> filled.rampup, by |-> filled.by,
         healthy |-> filled.healthy] = filled
    BY <2>2 DEF IsShard
  <2>7. ApplyShardDefaults(e) = [e EXCEPT !.shard = filled]
    BY <2>3, <2>6 DEF ApplyShardDefaults, OrElse
  <2>8. [e EXCEPT !.shard = filled] = e OBVIOUS
  <2>9. e.type = d.type BY <1>2
  <2> HIDE DEF e
  <2> QED BY <2>1, <2>4, <2>5, <2>7, <2>8, <2>9
<1> QED BY <1>1, <1>2

\* DefaultDirector fills in only what is unset.
LEMMA DirectorDefaulted ==
    ASSUME NEW d, IsDirector(d)
    PROVE  /\ IsDirector(DefaultDirector(d))
           /\ DefaultDirector(DefaultDirector(d)) = DefaultDirector(d)
           /\ d.type # "nil" => DefaultDirector(d).type # "nil"
<1> DEFINE t == IF d.type = "" THEN "shard" ELSE d.type
           typed == [type |-> t, shard |-> d.shard, header |-> d.header]
           e == ApplyShardDefaults(typed)
<1>1. t # "" /\ (d.type # "nil" => t # "nil") OBVIOUS
<1> HIDE DEF t
<1>2. [d EXCEPT !.type = t] = typed BY DEF IsDirector
<1>3. DefaultDirector(d) = e BY <1>2 DEF DefaultDirector, t
<1>4. IsDirector(typed) /\ typed.type = t BY DEF IsDirector
<1> HIDE DEF typed
<1>5. IsDirector(e) /\ e.type = t /\ ApplyShardDefaults(e) = e
  BY <1>4, ShardDefaulted
<1> HIDE DEF e
<1>6. [e EXCEPT !.type = e.type] = e BY <1>5 DEF IsDirector
<1>7. DefaultDirector(e) = e BY <1>1, <1>5, <1>6 DEF DefaultDirector
<1> QED BY <1>3, <1>1, <1>5, <1>7

LEMMA ProxyDefaulted ==
    ASSUME NEW p, p = [enabled |-> p.enabled, port |-> p.port]
    PROVE  LET q == DefaultProxyPort(p)
           IN  q = [enabled |-> q.enabled, port |-> q.port] /\ DefaultProxyPort(q) = q
<1>1. CASE ~p.enabled BY <1>1 DEF DefaultProxyPort
<1>2. CASE p.enabled
  <2> DEFINE n == IF p.port = 0 THEN 8081 ELSE p.port
             q == [enabled |-> p.enabled, port |-> n]
  <2>1. [p EXCEPT !.port = n] = q OBVIOUS
  <2>2. DefaultProxyPort(p) = q BY <1>2, <2>1 DEF DefaultProxyPort, OrElse
  <2>3. n # 0 OBVIOUS
  <2> HIDE DEF n
  <2>4. q.enabled = p.enabled /\ q.port = n /\ [q EXCEPT !.port = n] = q OBVIOUS
  <2> HIDE DEF q
  <2>5. q = [enabled |-> q.enabled, port |-> q.port] BY <2>4 DEF q
  <2>6. DefaultProxyPort(q) = q BY <1>2, <2>3, <2>4 DEF DefaultProxyPort, OrElse
  <2> QED BY <2>2, <2>5, <2>6
<1> QED BY <1>1, <1>2

\* Nor does it a second time in a backend.
LEMMA BackendDefaulted ==
    ASSUME NEW b, "director" \in DOMAIN b, IsDirector(b.director)
    PROVE  /\ "director" \in DOMAIN DefaultBackend(b)
           /\ IsDirector(DefaultBackend(b).director)
           /\ DefaultBackend(DefaultBackend(b)) = DefaultBackend(b)
<1> DEFINE own(d) == IF d.type = "nil" THEN d ELSE DefaultDirector(d)
           e == [b EXCEPT !.director = own(b.director)]
<1>1. IsDirector(own(b.director)) /\ own(own(b.director)) = own(b.director)
  BY DirectorDefaulted
<1>2. DefaultBackend(b) = e /\ DefaultBackend(e) = [e EXCEPT !.director = own(e.director)]
  BY DEF DefaultBackend
<1> HIDE DEF own
<1>3. "director" \in DOMAIN e /\ e.director = own(b.director) OBVIOUS
<1>4. [e EXCEPT !.director = e.director] = e OBVIOUS
<1> HIDE DEF e
<1> QED BY <1>1, <1>2, <1>3, <1>4

BackendsDefaults(v) == [i \in DOMAIN v |-> DefaultBackend(v[i])]

LEMMA BackendsDefaulted ==
    ASSUME NEW v, FieldTyped("backends", v)
    PROVE  /\ FieldTyped("backends", BackendsDefaults(v))
           /\ BackendsDefaults(BackendsDefaults(v)) = BackendsDefaults(v)
<1>1. \A i \in DOMAIN v : "director" \in DOMAIN v[i] /\ IsDirector(v[i].director)
  BY DEF FieldTyped
<1>2. DOMAIN BackendsDefaults(v) = DOMAIN v
      /\ \A i \in DOMAIN v : BackendsDefaults(v)[i] = DefaultBackend(v[i])
  BY DEF BackendsDefaults
<1>3. \A i \in DOMAIN v : DefaultBackend(DefaultBackend(v[i])) = DefaultBackend(v[i])
  BY <1>1, BackendDefaulted
<1>4. FieldTyped("backends", BackendsDefaults(v))
  BY <1>1, <1>2, BackendDefaulted DEF FieldTyped
<1>5. BackendsDefaults(BackendsDefaults(v)) = [i \in DOMAIN v |-> DefaultBackend(v[i])]
  BY <1>2, <1>3 DEF BackendsDefaults
<1> QED BY <1>4, <1>5 DEF BackendsDefaults

\* DefaultVinylCache, field by field.
FieldDefault(f, v) ==
    CASE f = "purge" -> TRUE
      [] f = "director" -> DefaultDirector(v)
      [] f = "peerRouting" -> IF v = "" THEN "shard" ELSE v
      [] f = "backends" -> BackendsDefaults(v)
      [] f = "debounce" -> OrElse(v, 1)
      [] f = "backoffBase" -> OrElse(v, 30)
      [] f = "backoffMax" -> OrElse(v, 300)
      [] f = "proxy" -> DefaultProxyPort(v)
      [] OTHER -> v

LEMMA DefaultsByField ==
    ASSUME NEW s
    PROVE  DefaultVinylCache(s) = [f \in DOMAIN s |-> FieldDefault(f, s[f])]
<1> DEFINE d == DefaultDirector(s.director)
           r == IF s.peerRouting = "" THEN "shard" ELSE s.peerRouting
           b == BackendsDefaults(s.backends)
           w == OrElse(s.debounce, 1)
           base == OrElse(s.backoffBase, 30)
           max == OrElse(s.backoffMax, 300)
           p == DefaultProxyPort(s.proxy)
           e == [s EXCEPT !.purge = TRUE, !.director = d, !.peerRouting = r, !.backends = b,
                          !.debounce = w, !.backoffBase = base, !.backoffMax = max, !.proxy = p]
<1>1. DefaultVinylCache(s) = e
  BY DEF DefaultVinylCache, BackendsDefaults
<1>2. ASSUME NEW f \in DOMAIN s
      PROVE  FieldDefault(f, s[f]) =
                CASE f = "purge" -> TRUE [] f = "director" -> d [] f = "peerRouting" -> r
                  [] f = "backends" -> b [] f = "debounce" -> w [] f = "backoffBase" -> base
                  [] f = "backoffMax" -> max [] f = "proxy" -> p [] OTHER -> s[f]
  BY DEF FieldDefault
<1> HIDE DEF d, r, b, w, base, max, p
<1>3. DOMAIN e = DOMAIN s /\ e = [f \in DOMAIN s |-> e[f]] OBVIOUS
<1>4. ASSUME NEW f \in DOMAIN s
      PROVE  e[f] =
                CASE f = "purge" -> TRUE [] f = "director" -> d [] f = "peerRouting" -> r
                  [] f = "backends" -> b [] f = "debounce" -> w [] f = "backoffBase" -> base
                  [] f = "backoffMax" -> max [] f = "proxy" -> p [] OTHER -> s[f]
  OBVIOUS
<1> HIDE DEF e
<1>5. \A f \in DOMAIN s : e[f] = FieldDefault(f, s[f]) BY <1>2, <1>4
<1> QED BY <1>1, <1>3, <1>5

LEMMA FieldDefaulted ==
    ASSUME NEW f, NEW v, FieldTyped(f, v)
    PROVE  FieldTyped(f, FieldDefault(f, v)) /\ FieldDefault(f, FieldDefault(f, v)) = FieldDefault(f, v)
<1>1. CASE f = "director" BY <1>1, DirectorDefaulted DEF FieldTyped, FieldDefault
<1>2. CASE f = "backends" BY <1>2, BackendsDefaulted DEF FieldTyped, FieldDefault
<1>3. CASE f = "proxy" BY <1>3, ProxyDefaulted DEF FieldTyped, FieldDefault
<1>4. CASE f \notin {"director", "backends", "proxy"}
  BY <1>4 DEF FieldTyped, FieldDefault, OrElse
<1> QED BY <1>1, <1>2, <1>3, <1>4

SpecTyped(s) == "proxy" \in DOMAIN s /\ \A f \in DOMAIN s : FieldTyped(f, s[f])

\* Defaulting is idempotent (DefaultVinylCache).
LEMMA DefaultsIdempotent ==
    ASSUME NEW s, SpecTyped(s)
    PROVE  /\ SpecTyped(DefaultVinylCache(s))
           /\ DefaultVinylCache(DefaultVinylCache(s)) = DefaultVinylCache(s)
<1> DEFINE e == DefaultVinylCache(s)
<1>1. e = [f \in DOMAIN s |-> FieldDefault(f, s[f])] BY DefaultsByField
<1>2. DefaultVinylCache(e) = [f \in DOMAIN e |-> FieldDefault(f, e[f])] BY DefaultsByField
<1> HIDE DEF e
<1>3. DOMAIN e = DOMAIN s /\ \A f \in DOMAIN s : e[f] = FieldDefault(f, s[f]) BY <1>1
<1>4. \A f \in DOMAIN s : FieldTyped(f, e[f]) /\ FieldDefault(f, e[f]) = e[f]
  BY <1>3, FieldDefaulted DEF SpecTyped
<1>5. DefaultVinylCache(e) = [f \in DOMAIN s |-> FieldDefault(f, s[f])] BY <1>2, <1>3, <1>4
<1>6. SpecTyped(e) BY <1>3, <1>4 DEF SpecTyped
<1> QED BY <1>1, <1>5, <1>6 DEF e

-----------------------------------------------------------------------------
(* What is stored.                                                         *)

\* The stored object is typed, and what today's webhooks stored is defaulted
\* and has passed every rule but the one on the runtime.
StoredInv ==
    stored # <<>> =>
        /\ SpecTyped(stored[1])
        /\ admitted => /\ DefaultVinylCache(stored[1]) = stored[1]
                       /\ ValidateVinylCache(stored[1])

LEMMA StoredInit == DesiredInit => StoredInv
<1> SUFFICES ASSUME DesiredInit, stored # <<>> PROVE StoredInv
  BY DEF StoredInv
<1>1. PICK s \in LegacySpecs : stored = <<s>> /\ admitted = FALSE BY DEF DesiredInit
<1>2. stored[1] = s BY <1>1
<1> QED BY <1>1, <1>2, SpecAssumption DEF StoredInv, SpecAssumption, SpecTyped

\* Storing a defaulted and validated object.
LEMMA StoreStep ==
    ASSUME NEW s, SpecTyped(s), Store(DefaultVinylCache(s)),
           ValidateVinylCache(DefaultVinylCache(s))
    PROVE  StoredInv'
<1> DEFINE e == DefaultVinylCache(s)
<1>1. SpecTyped(e) /\ DefaultVinylCache(e) = e /\ ValidateVinylCache(e) BY DefaultsIdempotent
<1>2. stored' = <<e>> BY DEF Store
<1> HIDE DEF e
<1>3. stored'[1] = e BY <1>2
<1> QED BY <1>1, <1>3 DEF StoredInv

LEMMA StoredStep == StoredInv /\ [DesiredNext]_desiredVars => StoredInv'
<1> SUFFICES ASSUME StoredInv, [DesiredNext]_desiredVars PROVE StoredInv'
  OBVIOUS
<1>1. CASE Create
  <2>1. PICK spec \in BaseSpecs :
            ValidateCreate(DefaultVinylCache(spec), catalog[1]) /\ Store(DefaultVinylCache(spec))
    BY <1>1 DEF Create
  <2>2. SpecTyped(spec) BY SpecAssumption DEF SpecAssumption, SpecTyped
  <2> QED BY <2>1, <2>2, StoreStep DEF ValidateCreate
<1>2. CASE Update
  <2>1. PICK f \in DOMAIN EditValues : \E v \in EditValues[f] :
            LET s == DefaultVinylCache([stored[1] EXCEPT ![f] = v])
            IN  ValidateUpdate(stored[1], s, catalog[1]) /\ Store(s)
    BY <1>2 DEF Update
  <2>2. PICK v \in EditValues[f] :
            LET s == DefaultVinylCache([stored[1] EXCEPT ![f] = v])
            IN  ValidateUpdate(stored[1], s, catalog[1]) /\ Store(s)
    BY <2>1
  <2>3. SpecTyped(stored[1]) BY <1>2 DEF Update, StoredInv
  <2>4. FieldTyped(f, v) BY SpecAssumption DEF SpecAssumption
  <2>5. SpecTyped([stored[1] EXCEPT ![f] = v]) BY <2>3, <2>4 DEF SpecTyped
  <2> QED BY <2>2, <2>5, StoreStep DEF ValidateUpdate
<1>3. CASE ChartUpgrade \/ EndpointsChange \/ PodsChange \/ Reconcile \/ UNCHANGED desiredVars
  <2>1. stored' = stored /\ admitted' = admitted
    BY <1>3 DEF ChartUpgrade, EndpointsChange, PodsChange, Reconcile, desiredVars
  <2> QED BY <2>1 DEF StoredInv
<1> QED BY <1>1, <1>2, <1>3 DEF DesiredNext

\* What the webhooks stored they admit again, unchanged and under every
\* catalog, for every spec and edit (DefaultVinylCache, ValidateRuntime).
THEOREM ResubmitIsAdmitted == DesiredSpec => []ResubmitAdmitted
<1>1. StoredInv => ResubmitAdmitted
  <2> SUFFICES ASSUME StoredInv, stored # <<>>, admitted
               PROVE  /\ DefaultVinylCache(stored[1]) = stored[1]
                      /\ ValidateUpdate(stored[1], stored[1], catalog[1])
    BY DEF ResubmitAdmitted
  <2>1. DefaultVinylCache(stored[1]) = stored[1] /\ ValidateVinylCache(stored[1])
    BY DEF StoredInv
  <2>2. ValidateRuntime(<<stored[1]>>, stored[1], catalog[1]) BY DEF ValidateRuntime
  <2> QED BY <2>1, <2>2 DEF ValidateUpdate
<1> QED BY <1>1, StoredInit, StoredStep, PTL DEF DesiredSpec

-----------------------------------------------------------------------------
(* The PROXY listener.                                                     *)

\* A defaulted spec names the port of its PROXY listener.
LEMMA ProxyPortSet ==
    ASSUME NEW s, SpecTyped(s), DefaultVinylCache(s) = s, s.proxy.enabled
    PROVE  s.proxy.port # 0
<1>1. s.proxy = DefaultProxyPort(s.proxy)
  <2>1. s = [f \in DOMAIN s |-> FieldDefault(f, s[f])] BY DefaultsByField
  <2>2. s["proxy"] = FieldDefault("proxy", s["proxy"]) BY <2>1 DEF SpecTyped
  <2> QED BY <2>2 DEF FieldDefault
<1> DEFINE p == s.proxy
<1>2. p = [enabled |-> p.enabled, port |-> p.port] BY DEF SpecTyped, FieldTyped
<1>3. p = [p EXCEPT !.port = IF p.port = 0 THEN 8081 ELSE p.port]
  BY <1>1 DEF DefaultProxyPort, OrElse
<1> HIDE DEF p
<1>4. p.port = IF p.port = 0 THEN 8081 ELSE p.port BY <1>2, <1>3
<1>5. p.port # 0 BY <1>4
<1> QED BY <1>5 DEF p

\* No other container of the template has that port.
LEMMA ListenerAlone ==
    ASSUME NEW s, NEW base, NEW order, SpecTyped(s), DefaultVinylCache(s) = s, ProxyPortValid(s),
           NEW T, T = Template(s, base, order), Len(T.args.listen) = 2
    PROVE  /\ T.args.listen[2] \notin {8080, 6082}
           /\ \A c \in ToSet(T.containers) :
                c.name # "varnish" => T.args.listen[2] \notin ToSet(c.ports)
<1> DEFINE rt == EffectiveRuntime(s, base)
           v == VarnishContainer(s, rt)
           x == BuildExporterContainer(s, rt)
           t == BuildTracerContainer(s, rt)
           n == s.proxy.port
<1>1. T.args.listen = <<8080>> \o (IF s.proxy.enabled THEN <<ProxyProtocolPort(s)>> ELSE <<>>)
  BY DEF Template, VarnishdArgs
<1>2. T.containers = <<v, AgentContainer>> \o (IF s.exporter.enabled THEN <<x>> ELSE <<>>)
                       \o (IF s.tracing.enabled THEN <<t>> ELSE <<>>)
  BY DEF Template
<1>3. s.proxy.enabled BY <1>1
<1>4. n # 0 /\ n \notin ReservedPodPorts /\ (s.exporter.enabled => s.exporter.port # n)
  BY <1>3, ProxyPortSet DEF ProxyPortValid
<1>5. T.args.listen[2] = n BY <1>1, <1>3, <1>4 DEF ProxyProtocolPort, OrElse
<1>6. v.name = "varnish" BY DEF VarnishContainer, Container
<1>7. n \notin ToSet(AgentContainer.ports)
  BY <1>4 DEF AgentContainer, Container, ToSet, ReservedPodPorts
<1>8. s.exporter.enabled => n \notin ToSet(x.ports)
  BY <1>4 DEF BuildExporterContainer, Container, ToSet, ReservedPodPorts, OrElse
<1>9. n \notin ToSet(t.ports)
  BY <1>4 DEF BuildTracerContainer, Container, ToSet, ReservedPodPorts
<1> HIDE DEF v, x, t, n
<1>10. \A c \in ToSet(T.containers) :
          c \in {v, AgentContainer, t} \/ (s.exporter.enabled /\ c = x)
  BY <1>2 DEF ToSet
<1>11. n \notin {8080, 6082} BY <1>4 DEF ReservedPodPorts
<1> QED BY <1>5, <1>6, <1>7, <1>8, <1>9, <1>10, <1>11

\* ProxyListenerAlone carries over from pass to pass: what it is about changes
\* in Reconcile only.
AloneInv ==
    /\ basis = [template |-> basis.template, vcl |-> basis.vcl, admitted |-> basis.admitted]
    /\ ProxyListenerAlone

LEMMA AloneInit == DesiredInit => AloneInv
BY DEF DesiredInit, AloneInv, ProxyListenerAlone

LEMMA AloneReconcile ==
    ASSUME StoredInv, AloneInv, Reconcile
    PROVE  AloneInv'
<1> DEFINE s == stored[1]
<1>1. CASE Resolves(catalog[1], s.flavor, s.version)
  <2>1. PICK order : template' = <<Template(s, Resolve(catalog[1], s.flavor, s.version), order)>>
    BY <1>1 DEF Reconcile
  <2>2. basis' = Basis(s, catalog[1]) BY <1>1 DEF Reconcile
  <2> DEFINE T == Template(s, Resolve(catalog[1], s.flavor, s.version), order)
  <2>3. template'[1] = T BY <2>1
  <2>4. ASSUME basis'.admitted, Len(T.args.listen) = 2
        PROVE  /\ T.args.listen[2] \notin {8080, 6082}
               /\ \A c \in ToSet(T.containers) :
                    c.name # "varnish" => T.args.listen[2] \notin ToSet(c.ports)
    <3>1. admitted BY <2>2, <2>4 DEF Basis
    <3>2. SpecTyped(s) /\ DefaultVinylCache(s) = s /\ ValidateVinylCache(s)
      BY <3>1 DEF Reconcile, StoredInv
    <3>3. ProxyPortValid(s) BY <3>2 DEF ValidateVinylCache
    <3> HIDE DEF s
    <3> QED BY <2>4, <3>2, <3>3, ListenerAlone
  <2> HIDE DEF T
  <2>5. basis' = [template |-> basis'.template, vcl |-> basis'.vcl, admitted |-> basis'.admitted]
    BY <2>2 DEF Basis
  <2> QED BY <2>3, <2>4, <2>5 DEF AloneInv, ProxyListenerAlone, Containers
<1>2. CASE ~Resolves(catalog[1], s.flavor, s.version)
  <2>1. template' = template /\ \E e : basis' = [basis EXCEPT !.vcl = e]
    BY <1>2 DEF Reconcile
  <2>2. basis' = [template |-> basis'.template, vcl |-> basis'.vcl, admitted |-> basis'.admitted]
        /\ basis'.admitted = basis.admitted
    BY <2>1 DEF AloneInv
  <2> QED BY <2>1, <2>2 DEF AloneInv, ProxyListenerAlone, Containers
<1> QED BY <1>1, <1>2

LEMMA AloneStep == StoredInv /\ AloneInv /\ [DesiredNext]_desiredVars => AloneInv'
<1> SUFFICES ASSUME StoredInv, AloneInv, [DesiredNext]_desiredVars PROVE AloneInv'
  OBVIOUS
<1>1. CASE Reconcile BY <1>1, AloneReconcile
<1>2. CASE Create \/ Update \/ ChartUpgrade \/ EndpointsChange \/ PodsChange \/ UNCHANGED desiredVars
  <2>1. template' = template /\ basis' = basis
    BY <1>2 DEF Create, Update, Store, ChartUpgrade, EndpointsChange, PodsChange, desiredVars
  <2> QED BY <2>1 DEF AloneInv, ProxyListenerAlone, Containers
<1> QED BY <1>1, <1>2 DEF DesiredNext

\* The PROXY listener of an admitted spec has its port to itself, for every
\* spec, edit and catalog (validateProxyProtocolPort, DefaultVinylCache).
THEOREM ProxyListenerIsAlone == DesiredSpec => []ProxyListenerAlone
<1>1. AloneInv => ProxyListenerAlone BY DEF AloneInv
<1> QED BY <1>1, StoredInit, StoredStep, AloneInit, AloneStep, PTL DEF DesiredSpec

=============================================================================

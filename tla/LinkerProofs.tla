---------------------------- MODULE LinkerProofs ----------------------------
(***************************************************************************)
(* Theorems about Linker, for any log, any capacities and any times.       *)
(***************************************************************************)
EXTENDS Linker, FiniteSetTheorems, TLAPS

\* The parking lot and the groups read are finite, so that counting them
\* gives a number.
LEMMA SubsetCount ==
    ASSUME NEW S \in SUBSET Groups
    PROVE  Cardinality(S) \in Nat
BY LinkerAssumption, FS_Subset, FS_CardinalityType DEF LinkerAssumption

\* What set leaves in a cache was there before or is the new identity.
LEMMA PutEntries ==
    ASSUME NEW c \in SUBSET Entries, NEW v \in Vxids, NEW g \in Groups,
           NEW t \in Groups, now \in Nat, puts \in Nat
    PROVE  /\ Put(c, v, g, t) \in SUBSET Entries
           /\ \A e \in Put(c, v, g, t) :
                 e \in c \/ (e.vxid = v /\ e.by = g /\ e.trace = t)
<1> DEFINE d == DropExpired(c)
           old == {e \in d : e.vxid = v}
           p == IF old = {} THEN puts ELSE (CHOOSE e \in old : TRUE).pos
           new == [vxid |-> v, by |-> g, trace |-> t, at |-> now, pos |-> p]
           all == (d \ old) \cup {new}
<1>1. d \in SUBSET c BY DEF DropExpired
<1>2. p \in Nat
    <2>1. CASE old = {} BY <2>1
    <2>2. CASE old # {}
        <3>1. (CHOOSE e \in old : TRUE) \in old BY <2>2
        <3>2. (CHOOSE e \in old : TRUE) \in Entries BY <3>1, <1>1
        <3> QED BY <2>2, <3>2 DEF Entries
    <2> QED BY <2>1, <2>2
<1>3. new \in Entries BY <1>2 DEF Entries
<1>4. new.vxid = v /\ new.by = g /\ new.trace = t OBVIOUS
<1>5. Put(c, v, g, t) \in SUBSET all BY DEF Put, Oldest
<1> HIDE DEF new
<1> QED BY <1>1, <1>3, <1>4, <1>5

\* The initial state is well typed.
LEMMA LinkerTypeInit == LinkerInit => LinkerTypeOK
BY LinkerAssumption DEF LinkerInit, LinkerTypeOK, Fates, Calls, NoCall

\* Every step of the linker keeps the types.
LEMMA LinkerTypeStep == LinkerTypeOK /\ [LinkerNext]_linkerVars => LinkerTypeOK'
<1> SUFFICES ASSUME LinkerTypeOK, [LinkerNext]_linkerVars PROVE LinkerTypeOK'
    OBVIOUS
<1> USE DEF LinkerTypeOK
<1>p. Parked \in SUBSET Groups /\ AgedParked \in SUBSET Groups
    BY DEF Parked, AgedParked
<1>c. Cardinality(Parked) \in Nat /\ Cardinality(AgedParked) \in Nat
    BY <1>p, SubsetCount
<1>n. ASSUME NEW g \in Groups, Numbered(g)
      PROVE  at' \in [Groups -> Nat] /\ turn' \in [Groups -> Nat]
    <2>1. Cardinality({h \in Groups : fate[h] # "unread"}) \in Nat BY SubsetCount
    <2> QED BY <1>n, <2>1 DEF Numbered
<1>r. \A f \in Fates, G \in SUBSET Groups : Released(G, f) \in [Groups -> Fates]
    BY DEF Released
<1>t. \A g \in Groups : Tx[g] \in Transactions
    BY LinkerAssumption DEF LinkerAssumption
<1>1. ASSUME NEW g \in Groups, BuildNothing(g) PROVE LinkerTypeOK'
    <2>1. Tx[g].outcome \in Fates BY <1>1, <1>t DEF BuildNothing, Transactions, Outcomes, Fates
    <2>2. Released(AgedParked, "aged") \in [Groups -> Fates]
        BY <1>r, <1>p DEF Fates, Degraded
    <2>3. fate' \in [Groups -> Fates] BY <1>1, <2>1, <2>2 DEF BuildNothing
    <2> QED BY <1>1, <1>n, <1>c, <1>p, <2>3 DEF BuildNothing
<1>2. ASSUME NEW g \in Groups, BeginBuild(g) PROVE LinkerTypeOK'
    <2>1. Released(AgedParked, "aged") \in [Groups -> Fates]
        BY <1>r, <1>p DEF Fates, Degraded
    <2>2. fate' \in [Groups -> Fates] BY <1>2, <2>1 DEF BeginBuild, Fates
    <2>3. call' \in Calls BY <1>2, <1>t DEF BeginBuild, Calls, Transactions
    <2>4. Originals(g) \in SUBSET Entries BY DEF Originals, Lookup
    <2>5. /\ parent' \in [Groups -> Groups \cup {NoGroup}]
          /\ trace' \in [Groups -> Groups]
          /\ misses' \in Nat
        BY <1>2, <1>c, <2>4 DEF BeginBuild, Entries
    <2> QED BY <1>2, <1>n, <1>p, <2>2, <2>3, <2>5 DEF BeginBuild
<1>3. ASSUME NEW v \in Vxids, RecordFetch(v) PROVE LinkerTypeOK'
    <2>1. call.group \in Groups /\ trace[call.group] \in Groups
        BY <1>3 DEF RecordFetch, Calls
    <2>2. fetches' \in SUBSET Entries
        BY <1>3, <2>1, PutEntries DEF RecordFetch, RecordedTrace
    <2>3. call' \in Calls BY <1>3 DEF RecordFetch, Calls
    <2> QED BY <1>3, <2>2, <2>3 DEF RecordFetch
<1>4. ASSUME NEW v \in Vxids, RecordRestart(v) PROVE LinkerTypeOK'
    <2>1. call.group \in Groups /\ trace[call.group] \in Groups
        BY <1>4 DEF RecordRestart, Calls
    <2>2. restarts' \in SUBSET Entries
        BY <1>4, <2>1, PutEntries DEF RecordRestart, RecordedTrace
    <2>3. call' \in Calls BY <1>4 DEF RecordRestart, Calls
    <2> QED BY <1>4, <2>2, <2>3 DEF RecordRestart
<1>5. ASSUME EndBuild PROVE LinkerTypeOK'
    <2> DEFINE g == call.group
               staying == Parked \ ResolvedParked
    <2>1. g \in Groups BY <1>5 DEF EndBuild, Calls
    <2>2. ResolvedParked \in SUBSET Groups /\ Overflow(g, staying) \in SUBSET Groups
        BY <1>p DEF ResolvedParked, Overflow, FirstParked
    <2>3. Cardinality(Overflow(g, staying)) \in Nat BY <2>2, SubsetCount
    <2>4. DegradedNow(g, staying) \in Nat BY <2>3 DEF DegradedNow
    <2>5. Resolution(g) \in Fates BY DEF Resolution, Fates, Degraded
    <2>6. \A h \in Groups : Found(h) \in SUBSET Entries BY DEF Found, Lookup
    <2>7. fate' \in [Groups -> Fates]
        <3>1. \A h \in Groups :
                 (CASE h = g -> Resolution(g)
                    [] h \in ResolvedParked -> "linked"
                    [] h \in Overflow(g, staying) -> "evicted"
                    [] OTHER -> fate[h]) \in Fates
            BY <2>5 DEF Fates, Degraded
        <3> QED BY <1>5, <3>1 DEF EndBuild
    <2>8. link' \in [Groups -> SUBSET Entries] BY <1>5, <2>6 DEF EndBuild
    <2>9. misses' \in Nat BY <1>5, <2>4 DEF EndBuild
    <2>10. out' \in SUBSET Groups BY <1>5, <2>1, <2>2 DEF EndBuild
    <2>11. call' \in Calls BY <1>5 DEF EndBuild, NoCall, Calls
    <2> QED BY <1>5, <2>7, <2>8, <2>9, <2>10, <2>11 DEF EndBuild
<1>6. ASSUME Flush PROVE LinkerTypeOK'
    <2>1. fate' \in [Groups -> Fates] BY <1>6, <1>r, <1>p DEF Flush, Fates, Degraded
    <2> QED BY <1>6, <1>c, <1>p, <2>1 DEF Flush
<1>7. ASSUME Tick PROVE LinkerTypeOK'
    BY <1>7 DEF Tick
<1>8. ASSUME UNCHANGED linkerVars PROVE LinkerTypeOK'
    BY <1>8 DEF linkerVars
<1> QED
    BY <1>1, <1>2, <1>3, <1>4, <1>5, <1>6, <1>7, <1>8 DEF LinkerNext, BuildStep

\* The linker's state is well typed.
THEOREM LinkerTypeCorrect == LinkerSpec => []LinkerTypeOK
BY LinkerTypeInit, LinkerTypeStep, PTL DEF LinkerSpec

-----------------------------------------------------------------------------
(* Links and exports.                                                      *)

\* A cached fetch is one of its group's, and the group has kept the trace it
\* was cached with: only the group of the call in progress is not built yet,
\* and its trace was settled before anything of it was cached.
CacheInv ==
    /\ call.group # NoGroup => /\ fate[call.group] = "building"
                               /\ call.fetches \subseteq Tx[call.group].fetches
    /\ \A e \in fetches :
          /\ e.vxid \in Tx[e.by].fetches
          /\ e.trace = trace[e.by]
          /\ Built(e.by) \/ e.by = call.group

LinkInv == LinkerTypeOK /\ CacheInv /\ LinksMatchExports

\* A group that is built stays built, whatever releases it.
LEMMA BuiltStays ==
    ASSUME LinkerTypeOK, CacheInv, LinkerNext, NEW h \in Groups, Built(h)
    PROVE  Built(h)'
<1> USE DEF Built, Degraded
<1>1. ASSUME NEW g \in Groups, BuildNothing(g) PROVE Built(h)'
    BY <1>1 DEF BuildNothing, Emitted, Released, LinkerTypeOK
<1>2. ASSUME NEW g \in Groups, BeginBuild(g) PROVE Built(h)'
    BY <1>2 DEF BeginBuild, Emitted, Released, LinkerTypeOK
<1>3. ASSUME NEW v \in Vxids, RecordFetch(v) \/ RecordRestart(v) PROVE Built(h)'
    BY <1>3 DEF RecordFetch, RecordRestart
<1>4. ASSUME EndBuild PROVE Built(h)'
    <2>1. h # call.group BY <1>4 DEF EndBuild, CacheInv
    <2> QED BY <1>4, <2>1 DEF EndBuild
<1>5. ASSUME Flush PROVE Built(h)'
    BY <1>5 DEF Flush, Released
<1>6. ASSUME Tick PROVE Built(h)'
    BY <1>6 DEF Tick
<1> QED BY <1>1, <1>2, <1>3, <1>4, <1>5, <1>6 DEF LinkerNext, BuildStep

\* The initial state satisfies the invariant: nothing is cached or linked.
LEMMA LinkInit == LinkerInit => LinkInv
BY LinkerTypeInit DEF LinkerInit, LinkInv, CacheInv, LinksMatchExports, NoCall

\* Every step keeps the invariant.
LEMMA LinkStep == LinkInv /\ [LinkerNext]_linkerVars => LinkInv'
<1> SUFFICES ASSUME LinkInv, [LinkerNext]_linkerVars PROVE CacheInv' /\ LinksMatchExports'
    BY LinkerTypeStep DEF LinkInv
<1> USE DEF LinkInv
<1>e. /\ \A e \in fetches : e.by \in Groups
      /\ \A g \in Groups : \A e \in link[g] : e.by \in Groups
    BY DEF LinkerTypeOK, Entries
<1>1. ASSUME NEW g \in Groups, BuildNothing(g) PROVE CacheInv' /\ LinksMatchExports'
    <2>1. \A h \in Groups : Built(h) => Built(h)' BY <1>1, BuiltStays DEF LinkerNext
    <2>2. call.group = NoGroup /\ UNCHANGED <<fetches, trace, link, call>>
        BY <1>1 DEF BuildNothing
    <2>3. CacheInv' BY <2>1, <2>2, <1>e, LinkerAssumption DEF CacheInv, LinkerAssumption
    <2> QED BY <2>1, <2>2, <2>3, <1>e DEF LinksMatchExports
<1>2. ASSUME NEW g \in Groups, BeginBuild(g) PROVE CacheInv' /\ LinksMatchExports'
    <2>1. \A h \in Groups : Built(h) => Built(h)' BY <1>2, BuiltStays DEF LinkerNext
    <2>2. call.group = NoGroup /\ UNCHANGED <<fetches, link>> BY <1>2 DEF BeginBuild
    <2>3. ~Built(g) BY <1>2 DEF BeginBuild, Emitted, Built, Degraded
    <2>4. \A h \in Groups : h # g => trace'[h] = trace[h]
        BY <1>2 DEF BeginBuild, LinkerTypeOK
    <2>5. fate'[g] = "building" BY <1>2 DEF BeginBuild, Released
    <2>6. call'.group = g /\ call'.fetches = Tx[g].fetches BY <1>2 DEF BeginBuild
    <2>7. \A e \in fetches : Built(e.by) /\ e.by # g
        BY <1>e, <2>2, <2>3, LinkerAssumption DEF CacheInv, LinkerAssumption
    <2>8. CacheInv'
        BY <2>1, <2>2, <2>4, <2>5, <2>6, <2>7, <1>e DEF CacheInv
    <2>9. LinksMatchExports'
        BY <2>1, <2>2, <2>3, <2>4, <1>e DEF LinksMatchExports
    <2> QED BY <2>8, <2>9
<1>3. ASSUME NEW v \in Vxids, RecordFetch(v) PROVE CacheInv' /\ LinksMatchExports'
    <2>1. UNCHANGED <<fate, trace, link>> BY <1>3 DEF RecordFetch
    <2>2. call.group \in Groups /\ trace[call.group] \in Groups
        BY <1>3 DEF RecordFetch, LinkerTypeOK, Calls
    <2>3. v \in Tx[call.group].fetches BY <1>3 DEF RecordFetch, CacheInv
    <2>4. \A e \in fetches' :
             e \in fetches \/ (e.vxid = v /\ e.by = call.group /\ e.trace = trace[call.group])
        BY <1>3, <2>2, PutEntries DEF RecordFetch, RecordedTrace, LinkerTypeOK
    <2>5. call'.group = call.group /\ call'.fetches \subseteq call.fetches
        BY <1>3 DEF RecordFetch, LinkerTypeOK, Calls
    <2>6. CacheInv' BY <2>1, <2>2, <2>3, <2>4, <2>5 DEF CacheInv, Built
    <2> QED BY <2>1, <2>6 DEF LinksMatchExports, Built
<1>4. ASSUME NEW v \in Vxids, RecordRestart(v) PROVE CacheInv' /\ LinksMatchExports'
    <2>1. UNCHANGED <<fate, fetches, trace, link>> BY <1>4 DEF RecordRestart
    <2>2. call'.group = call.group /\ call'.fetches = call.fetches
        BY <1>4 DEF RecordRestart, LinkerTypeOK, Calls
    <2> QED BY <2>1, <2>2 DEF CacheInv, LinksMatchExports, Built
<1>5. ASSUME EndBuild PROVE CacheInv' /\ LinksMatchExports'
    <2>1. call.group \in Groups /\ call'.group = NoGroup /\ UNCHANGED <<fetches, trace>>
        BY <1>5 DEF EndBuild, NoCall, LinkerTypeOK, Calls
    <2>2. \A g \in Groups : g = call.group => Built(g)'
        <3> SUFFICES ASSUME NEW g \in Groups, g = call.group PROVE Built(g)'
            OBVIOUS
        <3>1. g \notin Parked BY <1>5, <2>1 DEF CacheInv, Parked, EndBuild
        <3>2. g \notin ResolvedParked BY <3>1 DEF ResolvedParked
        <3>3. g \notin Overflow(g, Parked \ ResolvedParked)
            BY <3>1 DEF Overflow, FirstParked
        <3>4. fate'[g] = Resolution(g) BY <1>5, <2>1, <3>2, <3>3 DEF EndBuild
        <3>5. Resolution(g) \in {"plain", "linked", "warm", "parked"} BY DEF Resolution
        <3> QED BY <3>4, <3>5 DEF Built, Degraded
    <2>3. \A h \in Groups : Built(h) => Built(h)' BY <1>5, BuiltStays DEF LinkerNext, BuildStep
    <2>4. \A e \in fetches : Built(e.by)' BY <1>e, <2>2, <2>3 DEF CacheInv
    <2>5. CacheInv' BY <2>1, <2>4 DEF CacheInv
    <2>6. \A h \in Groups : link'[h] = link[h] \/ link'[h] = Found(h) BY <1>5 DEF EndBuild
    <2>7. \A h \in Groups : \A e \in Found(h) : e \in fetches /\ e.vxid \in Tx[h].hit
        BY DEF Found, Lookup
    <2>8. SUFFICES ASSUME NEW h \in Groups, NEW e \in link'[h]
                   PROVE  /\ e.vxid \in Tx[h].hit \cap Tx[e.by].fetches
                          /\ Built(e.by)'
                          /\ e.trace = trace'[e.by]
        BY <2>5 DEF LinksMatchExports
    <2>9. CASE link'[h] = link[h] BY <2>9, <2>8, <2>1, <2>3, <1>e DEF LinksMatchExports
    <2>10. CASE link'[h] = Found(h) BY <2>10, <2>8, <2>1, <2>4, <2>7 DEF CacheInv
    <2> QED BY <2>6, <2>9, <2>10
<1>6. ASSUME Flush PROVE CacheInv' /\ LinksMatchExports'
    <2>1. \A h \in Groups : Built(h) => Built(h)'
        BY <1>6 DEF Flush, Released, Built, Degraded
    <2>2. call.group = NoGroup /\ UNCHANGED <<fetches, trace, link, call>>
        BY <1>6 DEF Flush
    <2>3. CacheInv' BY <2>1, <2>2, <1>e, LinkerAssumption DEF CacheInv, LinkerAssumption
    <2> QED BY <2>1, <2>2, <2>3, <1>e DEF LinksMatchExports
<1>7. ASSUME Tick PROVE CacheInv' /\ LinksMatchExports'
    BY <1>7 DEF Tick, CacheInv, LinksMatchExports, Built
<1>8. ASSUME UNCHANGED linkerVars PROVE CacheInv' /\ LinksMatchExports'
    BY <1>8 DEF linkerVars, CacheInv, LinksMatchExports, Built
<1> QED
    BY <1>1, <1>2, <1>3, <1>4, <1>5, <1>6, <1>7, <1>8 DEF LinkerNext, BuildStep

\* Whatever is logged in whatever order, a link carries the identity under
\* which its target is exported, and the target is exported.
THEOREM LinksAreRight == LinkerSpec => []LinksMatchExports
<1>1. LinkInv => LinksMatchExports BY DEF LinkInv
<1> QED BY <1>1, LinkInit, LinkStep, PTL DEF LinkerSpec

=============================================================================

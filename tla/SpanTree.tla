------------------------------ MODULE SpanTree ------------------------------
(***************************************************************************)
(* From varnishlog's lines to spans (internal/tracer/vsl, .../spans): the  *)
(* parser attaches each transaction to the latest one a level above, a     *)
(* blank line, the next group or the end of the input completes a group,   *)
(* and Build walks the finished tree and gives every usable transaction a  *)
(* span below that of its parent.                                          *)
(*                                                                         *)
(* varnishlog writes groups in preorder: the header of a transaction, its  *)
(* records (one line here), then its children.  Lines may be lost, records *)
(* may lack the timestamps a span needs, and varnishlog may end anywhere.  *)
(***************************************************************************)
EXTENDS Integers, Sequences, FiniteSets, FiniteSetsExt, SequencesExt

CONSTANTS
    MaxTx,     \* bound on the transactions written
    MaxLost,   \* bound on the lines lost
    MaxLevel   \* bound on the nesting

VARIABLES
    tx,        \* the transactions written
    open,      \* the path of transactions the writer is below
    body,      \* the records of the last transaction are still to be written
    lost,      \* lines that did not arrive: <<kind, transaction>>
    byLevel,   \* Parser.byLevel
    pending,   \* Parser.pending, 0 for nil
    up,        \* up[t]: the transaction whose Children has t, 0 for none
    got,       \* got[t]: the transactions whose records are in t's Records
    done       \* the groups returned, with what Build made of them

parsed == <<byLevel, pending, up, got, done>>
spanTreeVars == <<tx, open, body, lost, byLevel, pending, up, got, done>>

Txs == DOMAIN tx

\* times: the records have the timestamps of a span.  ctx: the traceparent,
\* which for a request is the client's, and for a fetch the client's as it
\* came ("forwarded"), with a span id of its own ("joined"), or one that
\* starts a trace ("own").
TxRecords ==
    [type : {"Request", "BeReq"}, parent : 0..MaxTx, times : BOOLEAN,
     ctx : {"none", "sampled", "unsampled", "forwarded", "joined", "own"}]

\* Every variable has its type, and the parser's levels are a path of the tree
\* it builds (Parser.Next cuts the levels below a new transaction).
SpanTreeTypeOK ==
    /\ \A t \in Txs : tx[t] \in TxRecords
    /\ \A i \in DOMAIN open : open[i] \in Txs
    /\ body \in BOOLEAN
    /\ lost \subseteq {"head", "body", "blank", "cut"} \X Txs
    /\ pending \in Txs \cup {0}
    /\ up \in [Txs -> 0..MaxTx]
    /\ got \in [Txs -> SUBSET Txs]
    /\ \A i \in DOMAIN byLevel :
        up[byLevel[i]] = IF i = 1 THEN 0 ELSE byLevel[i - 1]

SpanTreeInit ==
    /\ tx = <<>> /\ open = <<>> /\ body = FALSE /\ lost = {}
    /\ byLevel = <<>> /\ pending = 0
    /\ up = <<>> /\ got = <<>>
    /\ done = <<>>

-----------------------------------------------------------------------------
(* Reading a parsed transaction.                                           *)

Children(t) == {c \in Txs : up[c] = t}

\* Records of the transaction's own kind: the labels and tags of a request's
\* and a fetch's records differ.
OfItsKind(t) == {j \in got[t] : tx[j].type = tx[t].type}

\* Tx.Timestamp, respEnd: start and end are there.
Timestamp(t) == \E j \in OfItsKind(t) : tx[j].times

\* Tx.Header: the record with the traceparent, the last one, or 0.
Header(t) ==
    LET having == {j \in OfItsKind(t) : tx[j].ctx # "none"}
    IN  IF having = {} THEN 0 ELSE Max(having)

\* The Begin record, the first one, tells an ESI subrequest.
BeginsEsi(t) == got[t] # {} /\ LET j == Min(got[t])
                               IN  tx[j].type = "Request" /\ tx[j].parent # 0

\* The trace a fetch started: a retry inherits its first attempt's.
StartedTrace(j) ==
    LET first[s \in Txs] == IF tx[s].parent = 0 \/ tx[tx[s].parent].type # "BeReq"
                            THEN s ELSE first[tx[s].parent]
    IN  first[j]

\* parseTraceparent of a fetch: 0 stands for the client's trace and span.
TraceparentTrace(j) == IF tx[j].ctx = "own" THEN StartedTrace(j) ELSE 0

TraceparentSpan(j) == IF tx[j].ctx = "forwarded" THEN <<"client", 0>> ELSE <<"minted", j>>

-----------------------------------------------------------------------------
(* Build.                                                                  *)

\* Mutation: the client's own span id is taken for a minted one.
MintedOrForwarded(t) == tx[t].type = "BeReq" /\ Header(t) # 0

\* collectMinted.
Minted(t) ==
    /\ tx[t].type = "BeReq"
    /\ Header(t) # 0
    /\ TraceparentSpan(Header(t)) # <<"client", 0>>

SpanID(t) == IF Minted(t) THEN TraceparentSpan(Header(t)) ELSE <<"fresh", t>>

RECURSIVE Descendants(_)
Descendants(t) == Children(t) \cup UNION {Descendants(c) : c \in Children(t)}

\* The client's trace, else the first one minted, depth first and so in the
\* order of the log, else a new one.
TraceID(t) ==
    LET minted == {c \in Descendants(t) : Minted(c)}
    IN  IF Header(t) # 0 THEN 0
        ELSE IF minted # {} THEN TraceparentTrace(Header(Min(minted)))
        ELSE t

\* buildChildren: fetches and ESI subrequests that have their timestamps.
Usable(c) == (tx[c].type = "BeReq" \/ BeginsEsi(c)) /\ Timestamp(c)

ChildSpan(c, parent, trace, depth) ==
    [tx |-> c, id |-> SpanID(c), parent |-> parent, trace |-> trace,
     retry |-> IF tx[c].type = "BeReq" THEN depth ELSE 0,
     mismatch |-> Minted(c) /\ TraceparentTrace(Header(c)) # trace]

\* Mutation: the depth is not reset below an ESI subrequest.
DepthKept(c, depth) == depth + 1

DepthBelow(c, depth) == IF tx[c].type = "BeReq" THEN depth + 1 ELSE 0

RECURSIVE BuildChildren(_, _, _, _)
BuildChildren(t, parent, trace, depth) ==
    UNION {{ChildSpan(c, parent, trace, depth)}
             \cup BuildChildren(c, SpanID(c), trace, DepthBelow(c, depth)) :
           c \in {d \in Children(t) : Usable(d)}}

RequestSpan(t) ==
    [tx |-> t, id |-> <<"fresh", t>>, trace |-> TraceID(t),
     parent |-> IF Header(t) # 0 THEN <<"client", 0>> ELSE <<"none", 0>>,
     retry |-> 0, mismatch |-> FALSE]

Unsampled(t) == Header(t) # 0 /\ tx[Header(t)].ctx = "unsampled"

BuildWithOutcome(t) ==
    LET isRequest == tx[t].type = "Request"
        spans == {RequestSpan(t)} \cup BuildChildren(t, <<"fresh", t>>, TraceID(t), 0)
    IN  [root |-> t,
         outcome |-> IF isRequest /\ ~Timestamp(t) THEN "unusable"
                     ELSE IF isRequest /\ Unsampled(t) THEN "unsampled"
                     ELSE "spans",
         spans |-> IF isRequest /\ Timestamp(t) /\ ~Unsampled(t) THEN spans ELSE {}]

-----------------------------------------------------------------------------
(* Parser.Next, on the line just written.                                  *)

\* The pending group is complete.
Returned == IF pending = 0 THEN done ELSE Append(done, BuildWithOutcome(pending))

\* Mutation: a blank line leaves the levels.
LevelsKept == byLevel

LevelsCleared == IF pending = 0 THEN byLevel ELSE <<>>

ReadBlank ==
    /\ done' = Returned
    /\ byLevel' = LevelsCleared
    /\ pending' = 0
    /\ UNCHANGED <<up, got>>

\* Mutation: a new group replaces the pending one.
Replaced == done

\* A new group before a blank line.
Flushed == Returned

\* Mutation: the levels below the new transaction stay.
LevelsUncut(level, t) ==
    IF level <= Len(byLevel) THEN [byLevel EXCEPT ![level] = t] ELSE Append(byLevel, t)

LevelsCut(level, t) == Append(SubSeq(byLevel, 1, level - 1), t)

\* A header too deep for the levels is skipped.
ReadHeader(level, t) ==
    /\ got' = Append(got, {})
    /\ IF level = 1
       THEN /\ done' = Flushed
            /\ pending' = t
            /\ byLevel' = <<t>>
            /\ up' = Append(up, 0)
       ELSE /\ up' = Append(up, IF level - 1 <= Len(byLevel) THEN byLevel[level - 1] ELSE 0)
            /\ byLevel' = IF level - 1 <= Len(byLevel) THEN LevelsCut(level, t) ELSE byLevel
            /\ UNCHANGED <<done, pending>>

ReadRecords(level, t) ==
    /\ got' = IF level <= Len(byLevel) THEN [got EXCEPT ![byLevel[level]] = @ \cup {t}]
              ELSE got
    /\ UNCHANGED <<byLevel, pending, up, done>>

ReadEof ==
    /\ done' = Returned
    /\ pending' = 0
    /\ byLevel' = <<>>
    /\ UNCHANGED <<up, got>>

-----------------------------------------------------------------------------
(* varnishlog.                                                             *)

Loses(kind, t) ==
    /\ Cardinality({l \in lost : l[1] # "cut"}) < MaxLost
    /\ lost' = lost \cup {<<kind, t>>}

\* What may be logged below p: at the top a request or a stray fetch, below a
\* request its fetches and ESI subrequests, below a fetch its retry.  Of what
\* Build does not look at (a stray fetch's timestamps, the context of a request
\* without them) one case stands for all.
Follows(p) ==
    {r \in TxRecords :
        /\ r.parent = p
        /\ IF p = 0
           THEN IF r.type = "BeReq" THEN r.times /\ r.ctx = "own"
                ELSE r.ctx \in {"none"} \cup IF r.times THEN {"sampled", "unsampled"} ELSE {}
           ELSE IF tx[p].type = "BeReq"
           THEN r.type = "BeReq" /\ r.ctx = tx[p].ctx
           ELSE IF r.type = "Request" THEN r.ctx = "none"
           ELSE r.ctx \in {"own"}
                  \cup (IF tx[p].ctx = "none" THEN {"none"} ELSE {})
                  \cup (IF tx[p].ctx = "sampled" THEN {"forwarded", "joined"} ELSE {})}

WriteHeader(level) ==
    /\ ~body
    /\ Len(tx) < MaxTx
    /\ IF level = 1 THEN open = <<>> ELSE level <= Len(open) + 1
    /\ LET t == Len(tx) + 1
       IN  /\ \E r \in Follows(IF level = 1 THEN 0 ELSE open[level - 1]) : tx' = Append(tx, r)
           /\ open' = Append(SubSeq(open, 1, level - 1), t)
           /\ body' = TRUE
           /\ \/ ReadHeader(level, t) /\ UNCHANGED lost
              \/ /\ Loses("head", t)
                 /\ up' = Append(up, 0)
                 /\ got' = Append(got, {})
                 /\ UNCHANGED <<byLevel, pending, done>>

WriteRecords ==
    /\ body
    /\ body' = FALSE
    /\ \/ ReadRecords(Len(open), Len(tx)) /\ UNCHANGED lost
       \/ Loses("body", Len(tx)) /\ UNCHANGED parsed
    /\ UNCHANGED <<tx, open>>

WriteBlank ==
    /\ ~body
    /\ open # <<>>
    /\ open' = <<>>
    /\ \/ ReadBlank /\ UNCHANGED lost
       \/ Loses("blank", Len(tx)) /\ UNCHANGED parsed
    /\ UNCHANGED <<tx, body>>

\* varnishlog ends, and a group it was writing is cut off.  The next one gets
\* a new parser.
Eof ==
    /\ open # <<>> \/ pending # 0
    /\ ReadEof
    /\ open' = <<>>
    /\ body' = FALSE
    /\ lost' = IF body THEN lost \cup {<<"cut", Len(tx)>>} ELSE lost
    /\ UNCHANGED tx

SpanTreeNext ==
    \/ \E level \in 1..MaxLevel : WriteHeader(level)
    \/ WriteRecords
    \/ WriteBlank
    \/ Eof

SpanTreeSpec == SpanTreeInit /\ [][SpanTreeNext]_spanTreeVars

-----------------------------------------------------------------------------
(* What the log says.                                                      *)

Ancestors(t) ==
    LET path[s \in {0} \cup Txs] == IF s = 0 THEN {} ELSE {s} \cup path[tx[s].parent]
    IN  path[tx[t].parent]

GroupOf(t) == Min({t} \cup Ancestors(t))

Complete(g) ==
    \A t \in Txs : GroupOf(t) = g => {<<"head", t>>, <<"body", t>>, <<"cut", t>>} \cap lost = {}

-----------------------------------------------------------------------------
(* Properties.                                                             *)

\* One lost line never puts a transaction, or its records, into the tree of
\* another group: a lost header orphans what follows it, a lost blank line is
\* made good by the next header (Parser.Next).
GroupsApart ==
    \A t \in Txs : /\ up[t] # 0 => GroupOf(up[t]) = GroupOf(t)
                   /\ \A j \in got[t] : GroupOf(j) = GroupOf(t)

\* Every group whose header was read is returned exactly once, whether a blank
\* line, the next group or the end of the input completes it (Parser.Next).
ReturnedOnce ==
    \A t \in Txs : tx[t].parent = 0 /\ <<"head", t>> \notin lost =>
        Cardinality({i \in DOMAIN done : done[i].root = t}) = IF pending = t THEN 0 ELSE 1

\* Whatever was lost, the spans of a group are one tree in one trace: no two
\* have one id, none has the client's, and each but the request's is below
\* another that started earlier (BuildWithOutcome, buildChildren).
SpansFormTree ==
    \A i \in DOMAIN done :
        LET spans == done[i].spans
        IN  /\ \A s, u \in spans : s.trace = u.trace /\ (s.id = u.id => s = u)
            /\ \A s \in spans :
                /\ s.id # <<"client", 0>>
                /\ s.tx # done[i].root => \E u \in spans : u.id = s.parent /\ u.tx < s.tx

\* A group that arrived completely has exactly the spans the log calls for:
\* one for each transaction with timestamps whose ancestors have theirs, below
\* its own parent's, numbered by its attempts, with the id the backend saw;
\* the trace is the client's, or one that a fetch of the group started, and a
\* fetch the backend saw in another trace is marked (BuildWithOutcome).
CompleteGroupExact ==
    \A i \in DOMAIN done :
        LET g == done[i].root
            spans == done[i].spans
            group == {t \in Txs : GroupOf(t) = g}
            own == {StartedTrace(t) : t \in {u \in group : tx[u].ctx = "own"}}
        IN  Complete(g) /\ spans # {} =>
            /\ {s.tx : s \in spans} =
                   {t \in group : \A a \in {t} \cup Ancestors(t) : tx[a].times}
            /\ \A s \in spans : s.trace \in IF tx[g].ctx = "sampled" THEN {0}
                                            ELSE IF own # {} THEN own ELSE {g}
            /\ \A s \in {u \in spans : u.tx # g} :
                /\ \E u \in spans : u.tx = tx[s.tx].parent /\ u.id = s.parent
                /\ s.retry = Cardinality({a \in Ancestors(s.tx) : tx[a].type = "BeReq"})
                /\ tx[s.tx].ctx \in {"joined", "own"} => s.id = <<"minted", s.tx>>
                /\ s.mismatch <=> tx[s.tx].ctx = "own" /\ StartedTrace(s.tx) # s.trace

=============================================================================

------------------------------- MODULE Tracer -------------------------------
(***************************************************************************)
(* The tracer process (cmd/tracer, internal/tracer/export): the supervisor *)
(* keeps a varnishlog running and hands its groups to the linker, the      *)
(* spans it returns go through a bounded queue to the batcher, a goroutine *)
(* that exports them; a signal ends the supervisor, flushes the linker and *)
(* then lets the batcher drain.                                            *)
(*                                                                         *)
(* Trace loss must be visible: a span that does not arrive was counted.    *)
(***************************************************************************)
EXTENDS Linker, Sequences

CONSTANTS
    QueueLen,   \* capacity of the batcher's channel (2048)
    MaxBatch,   \* spans exported at once (512)
    MaxErrors   \* bound on the exports that fail

ASSUME TracerAssumption ==
    {QueueLen, MaxBatch} \subseteq Nat \ {0} /\ MaxErrors \in Nat

VARIABLES
    main,        \* where the main goroutine is
    ctxDone,     \* the signal's context is cancelled
    stopped,     \* the batcher's context is cancelled
    pending,     \* spans returned by the linker and not enqueued yet
    queue,       \* the batcher's channel
    batcher,     \* where the batcher's goroutine is
    buf,         \* the batch being collected or exported
    handed,      \* handed[s]: how often span s was handed to the exporter
    arrived,     \* spans the collector received, once or more often
    dropped,     \* spans counted as dropped
    errors       \* failed exports counted

mainVars == <<main, ctxDone, stopped, pending>>
batcherVars == <<batcher, buf, handed, arrived, errors>>
tracerVars == <<now, fetches, restarts, fate, at, turn, trace, parent, link,
                misses, puts, call, out, main, ctxDone, stopped, pending, queue,
                batcher, buf, handed, arrived, dropped, errors>>

\* The request span of a group, and one per fetch.
SpansOf(G) == UNION {{g} \X ({0} \cup Tx[g].fetches) : g \in G}

AllSpans == SpansOf(Groups)

TracerTypeOK ==
    /\ LinkerTypeOK
    /\ main \in {"spawn", "reading", "reap", "backoff", "flush", "enqueue", "wait", "exit"}
    /\ ctxDone \in BOOLEAN
    /\ stopped \in BOOLEAN
    /\ pending \in SUBSET AllSpans
    /\ queue \in Seq(AllSpans) /\ Len(queue) <= QueueLen
    /\ batcher \in {"select", "export", "drain", "last", "done"}
    /\ buf \in Seq(AllSpans) /\ Len(buf) < MaxBatch + QueueLen
    /\ handed \in [AllSpans -> Nat]
    /\ arrived \in SUBSET AllSpans
    /\ dropped \in Nat
    /\ errors \in 0..MaxErrors

TracerInit ==
    /\ LinkerInit
    /\ main = "spawn"
    /\ ctxDone = FALSE
    /\ stopped = FALSE
    /\ pending = {}
    /\ queue = <<>>
    /\ batcher = "select"
    /\ buf = <<>>
    /\ handed = [s \in AllSpans |-> 0]
    /\ arrived = {}
    /\ dropped = 0
    /\ errors = 0

-----------------------------------------------------------------------------
(* The supervisor and main.                                                *)

\* SIGTERM.
Signal ==
    /\ ~ctxDone
    /\ ctxDone' = TRUE
    /\ UNCHANGED <<linkerVars, main, stopped, pending, queue, batcherVars, dropped>>

\* The head of the loop; varnishlog starts or does not.
Spawn ==
    /\ main = "spawn"
    /\ main' \in IF ctxDone THEN {"flush"} ELSE {"reading", "backoff"}
    /\ UNCHANGED <<linkerVars, ctxDone, stopped, pending, queue, batcherVars, dropped>>

\* varnishlog emits a group.  A killed one may have some left in the pipe.
Read(g) ==
    /\ main = "reading"
    /\ pending = {}
    /\ \/ BuildNothing(g) /\ pending' = SpansOf(out')
       \/ BeginBuild(g) /\ UNCHANGED pending
    /\ UNCHANGED <<main, ctxDone, stopped, queue, batcherVars, dropped>>

Build ==
    /\ \/ EndBuild /\ pending' = SpansOf(out')
       \/ /\ \E v \in Vxids : RecordFetch(v) \/ RecordRestart(v)
          /\ UNCHANGED pending
    /\ UNCHANGED <<main, ctxDone, stopped, queue, batcherVars, dropped>>

\* Enqueue never blocks.
Enqueue(s) ==
    /\ s \in pending
    /\ pending' = pending \ {s}
    /\ IF Len(queue) < QueueLen
       THEN queue' = Append(queue, s) /\ UNCHANGED dropped
       ELSE dropped' = dropped + 1 /\ UNCHANGED queue
    /\ UNCHANGED <<linkerVars, main, ctxDone, stopped, batcherVars>>

\* A line the parser cannot take ends the loop, not varnishlog: the supervisor
\* waits for it and reads no more.
ParserFails ==
    /\ main = "reading"
    /\ call.group = NoGroup /\ pending = {}
    /\ main' = "reap"
    /\ UNCHANGED <<linkerVars, ctxDone, stopped, pending, queue, batcherVars, dropped>>

\* varnishlog ends by itself or, once the context is done, is killed.
Eof ==
    /\ main \in {"reading", "reap"}
    /\ call.group = NoGroup /\ pending = {}
    /\ main' = "backoff"
    /\ UNCHANGED <<linkerVars, ctxDone, stopped, pending, queue, batcherVars, dropped>>

Backoff ==
    /\ main = "backoff"
    /\ main' = IF ctxDone THEN "flush" ELSE "spawn"
    /\ UNCHANGED <<linkerVars, ctxDone, stopped, pending, queue, batcherVars, dropped>>

FlushLinker ==
    /\ main = "flush"
    /\ Flush
    /\ pending' = SpansOf(out')
    /\ main' = "enqueue"
    /\ UNCHANGED <<ctxDone, stopped, queue, batcherVars, dropped>>

StopBatcher ==
    /\ main = "enqueue" /\ pending = {}
    /\ stopped' = TRUE
    /\ main' = "wait"
    /\ UNCHANGED <<linkerVars, ctxDone, pending, queue, batcherVars, dropped>>

\* wg.Wait.
Exit ==
    /\ main = "wait" /\ batcher = "done"
    /\ main' = "exit"
    /\ UNCHANGED <<linkerVars, ctxDone, stopped, pending, queue, batcherVars, dropped>>

-----------------------------------------------------------------------------
(* Batcher.Run.                                                            *)

\* Mutation: the batcher runs on the signal's context.
SharedContext == ctxDone

BatcherContext == stopped

\* Mutation: off by one.
BatchOverfull(b) == Len(b) > MaxBatch

BatchFull(b) == Len(b) >= MaxBatch

Take ==
    /\ batcher = "select"
    /\ queue # <<>>
    /\ buf' = Append(buf, Head(queue))
    /\ queue' = Tail(queue)
    /\ batcher' = IF BatchFull(buf') THEN "export" ELSE "select"
    /\ UNCHANGED <<linkerVars, mainVars, handed, arrived, errors, dropped>>

\* The ticker.
FlushTimer ==
    /\ batcher = "select"
    /\ buf # <<>>
    /\ batcher' = "export"
    /\ UNCHANGED <<linkerVars, mainVars, queue, buf, handed, arrived, errors, dropped>>

Done ==
    /\ batcher = "select"
    /\ BatcherContext
    /\ batcher' = "drain"
    /\ UNCHANGED <<linkerVars, mainVars, queue, buf, handed, arrived, errors, dropped>>

\* Mutation: break instead of return.
DrainAndGoOn ==
    /\ batcher = "drain"
    /\ IF queue # <<>>
       THEN /\ buf' = Append(buf, Head(queue))
            /\ queue' = Tail(queue)
            /\ UNCHANGED batcher
       ELSE /\ batcher' = IF buf = <<>> THEN "select" ELSE "export"
            /\ UNCHANGED <<buf, queue>>
    /\ UNCHANGED <<linkerVars, mainVars, handed, arrived, errors, dropped>>

Drain ==
    /\ batcher = "drain"
    /\ IF queue # <<>>
       THEN /\ buf' = Append(buf, Head(queue))
            /\ queue' = Tail(queue)
            /\ UNCHANGED batcher
       ELSE /\ batcher' = IF buf = <<>> THEN "done" ELSE "last"
            /\ UNCHANGED <<buf, queue>>
    /\ UNCHANGED <<linkerVars, mainVars, handed, arrived, errors, dropped>>

HandedOver ==
    [s \in AllSpans |-> handed[s] + Cardinality({i \in DOMAIN buf : buf[i] = s})]

Received == arrived \cup {buf[i] : i \in DOMAIN buf}

\* Mutation: the batch is not reset.
BatchKept == buf

BatchReset == <<>>

\* ExportSpans returns.  It resends on its own, so what arrived did so any number
\* of times; also a call that failed may have reached the collector.
Export ==
    /\ batcher \in {"export", "last"}
    /\ handed' = HandedOver
    /\ \/ arrived' = Received /\ UNCHANGED errors
       \/ /\ errors < MaxErrors
          /\ errors' = errors + 1
          /\ arrived' \in {arrived, Received}
    /\ buf' = BatchReset
    /\ batcher' = IF batcher = "export" THEN "select" ELSE "done"
    /\ UNCHANGED <<linkerVars, mainVars, queue, dropped>>

-----------------------------------------------------------------------------
MainStep ==
    \/ Spawn \/ Build \/ Backoff \/ FlushLinker \/ StopBatcher \/ Exit
    \/ \E s \in AllSpans : Enqueue(s)

BatcherStep == Take \/ FlushTimer \/ Done \/ Drain \/ Export

Environment ==
    \/ Signal \/ Eof \/ ParserFails
    \/ \E g \in Groups : Read(g)
    \/ Tick /\ UNCHANGED <<mainVars, queue, batcherVars, dropped>>

Terminated == main = "exit" /\ UNCHANGED tracerVars

TracerNext == MainStep \/ BatcherStep \/ Environment \/ Terminated

\* The goroutines run; an export has a timeout; cancelling the context kills
\* varnishlog, so that its output ends.
TracerFairness ==
    /\ WF_tracerVars(MainStep)
    /\ WF_tracerVars(BatcherStep)
    /\ WF_tracerVars(ctxDone /\ Eof)

TracerSpec == TracerInit /\ [][TracerNext]_tracerVars /\ TracerFairness

-----------------------------------------------------------------------------
(* Properties.                                                             *)

BuiltSpans == SpansOf({g \in Groups : Built(g)})

Missing == BuiltSpans \ arrived

\* When the process has ended, the spans that were built and did not arrive
\* are exactly those counted as dropped, unless an export failed: also the
\* spans parked in the linker and those of the last groups before the signal
\* are exported.
NoSilentLoss ==
    main = "exit" /\ errors = 0 => Cardinality(Missing) = dropped

\* No span is handed to the exporter twice, whether it was parked, resolved,
\* evicted, aged out or flushed and whether the export of its batch failed
\* (Linker.Build, Linker.Flush, Batcher.Run).
ExportedOnce == \A s \in AllSpans : handed[s] <= 1

\* A signal ends the process, with varnishlog running, failing to start, waiting
\* for its next start or no longer read (supervisor.run, Batcher.Run).
SignalEnds == ctxDone ~> (main = "exit")

=============================================================================

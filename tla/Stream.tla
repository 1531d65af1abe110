------------------------------- MODULE Stream -------------------------------
(***************************************************************************)
(* One rxc stream, end to end: a source logic, the connection of logic.c,  *)
(* optionally the map operator (ops/map.c, ops/wrapper.c), optionally the  *)
(* scheduler adapter of rxc_pipeline_start with its trampoline worker      *)
(* (pipeline.c, schedulers/trampoline.c), and a sink logic.                *)
(*                                                                         *)
(* All of it runs on one thread by nested synchronous calls, so the model  *)
(* keeps the C call stack: `stack` is a sequence of frames, the last one   *)
(* running.  A step runs the top frame up to its next call, which pushes   *)
(* the callee, or to its return, which pops it.  A call in tail position   *)
(* replaces its caller's frame (the caller has nothing left to do).        *)
(*                                                                         *)
(* The initial state is the one rxc_pipeline_start (or a direct            *)
(* source->connect) reaches: both logics and the connection created,       *)
(* requested = 0, the sink logic's on_connect about to run.                *)
(***************************************************************************)
EXTENDS Integers, Sequences, SequencesExt

CONSTANTS
    W,              \* width of a C long in bits
    From, To,       \* rxc_source_count(from, to)
    MaxChunks,      \* data chunks the WAV file holds before end of file
    PullSizes,      \* amounts the arbitrary sink may pull
    AnyBudget,      \* inlet calls the arbitrary sink may make
    RecordPull,     \* the single pull of the recording sink of spec 8
    Sources,        \* source logics to start with: "count", "empty", "wav"
    Sinks,          \* sink logics: "foreach", "canceled", "oss", "session",
                    \*   "record", "any"
    Maps,           \* whether the map operator is in between (BOOLEAN set)
    Schedulers,     \* TRUE: rxc_pipeline_start; FALSE: source->connect
    Unbounded       \* model value, for the demand refinement

VARIABLES
    cfg,            \* the pipeline that was built (fixed)
    requested,      \* rxc_connection.requested
    delivered,      \* history: callbacks the connection made, in order
    stack,          \* the C call stack
    queue,          \* trampoline_worker queue: amounts of queued pulls
    wip,            \* trampoline_worker.wip
    parentNull,     \* rxc_inlet_scheduler.parent == NULL
    count,          \* rxc_source_logic_count.count
    wav,            \* wav source: chunks read, `finished`
    oss,            \* oss_sink_logic fd/finished: "unopened", "open", "finished"
    budget,         \* calls left to the arbitrary sink
    crashed,        \* the process died (NULL dereference, wild call)
    sinkLog,        \* history: signals the user sink's logic received
    issued          \* history: pull/cancel calls the user sink made

vars == <<cfg, requested, delivered, stack, queue, wip, parentNull, count,
          wav, oss, budget, crashed, sinkLog, issued>>

Conn == INSTANCE Connection WITH PullSizes <- {}, MaxCalls <- 0, calls <- 0

LongMin == Conn!LongMin
LongMax == Conn!LongMax

Frame(f, a) == [fn |-> f, arg |-> a]
Signal(s, v) == [sig |-> s, val |-> v]

Top == stack[Len(stack)]

\* The thread is running frame f: nothing crashed, and f is on top.
Running(f) == ~crashed /\ stack # <<>> /\ Top.fn = f
Rest == SubSeq(stack, 1, Len(stack) - 1)       \* the stack once Top returns
WithTop(f) == Append(Rest, f)                  \* Top continues as f

\* The mapping function of the map operator, as in the example of spec 8.
Mapping(e) == 2 * e

(***************************************************************************)
(* The inlet the user sink holds: the scheduler inlet of pipeline.c when   *)
(* the pipeline adapter is there, else the connection itself (map.c:30    *)
(* hands the connection's inlet through).                                  *)
(***************************************************************************)
UserPull(n) ==
    IF cfg.scheduler THEN Frame("pipeline_inlet_pull", n)
                     ELSE Frame("rxc_connection_inlet_pull", n)
UserCancel ==
    IF cfg.scheduler THEN Frame("pipeline_inlet_cancel", 0)
                     ELSE Frame("rxc_connection_inlet_cancel", 0)

(***************************************************************************)
(* The outlet, called by a source logic whose frame, once the call         *)
(* returns, is `rest`.  Each delivers to the sink chain: map (which maps   *)
(* the element), the adapter (which forwards), the user sink logic.        *)
(***************************************************************************)
\* map.c:34-40: map's on_push hands the inner logic mapping(element).
MapOnPushIdentity(e) == e
MapOnPush(e) == IF cfg.map THEN Mapping(e) ELSE e

\* Variant: emit tests only for a zero demand.
EmitUnguarded(e, rest) ==
    /\ \/ /\ requested = 0
          /\ stack' = rest
          /\ UNCHANGED <<requested, delivered>>
       \/ /\ requested # 0
          /\ requested' = Conn!Decrement(requested)
          /\ delivered' = Append(delivered, Signal("on_push", e))
          /\ stack' = Append(rest, Frame("on_push", MapOnPush(e)))
    /\ UNCHANGED crashed

Emit(e, rest) ==
    /\ \/ /\ ~Conn!Available(requested)
          /\ stack' = rest
          /\ UNCHANGED <<requested, delivered>>
       \/ /\ Conn!Available(requested)
          /\ requested' = Conn!Decrement(requested)
          /\ delivered' = Append(delivered, Signal("on_push", e))
          /\ stack' = Append(rest, Frame("on_push", MapOnPush(e)))
    /\ UNCHANGED crashed

Complete(rest) ==
    /\ \/ /\ Conn!Closed(requested)
          /\ stack' = rest
          /\ UNCHANGED <<requested, delivered>>
       \/ /\ ~Conn!Closed(requested)
          /\ requested' = LongMin
          /\ delivered' = Append(delivered, Signal("on_upstream_finish", 0))
          /\ stack' = Append(rest, Frame("on_upstream_finish", 0))
    /\ UNCHANGED crashed

\* map.c:49-53 reads `inner` through self->sink cast to the logic struct,
\* beyond the end of the rxc_sink_map it really is: the pointer called is
\* whatever lies there on the heap.  The build either faults or calls a stray
\* function; in neither case does the inner logic get the failure.
MapForwardFailure(rest) ==
    \/ /\ crashed' = TRUE
       /\ stack' = rest
    \/ /\ stack' = rest
       /\ UNCHANGED crashed

Fail(rest) ==
    \/ /\ Conn!Closed(requested)
       /\ stack' = rest
       /\ UNCHANGED <<requested, delivered, crashed>>
    \/ /\ ~Conn!Closed(requested)
       /\ requested' = LongMin
       /\ delivered' = Append(delivered, Signal("on_upstream_failure", 0))
       /\ IF cfg.map
             THEN MapForwardFailure(rest)
             ELSE /\ stack' = Append(rest, Frame("on_upstream_failure", 0))
                  /\ UNCHANGED crashed

sourceVars == <<count, wav>>
schedVars == <<queue, wip, parentNull>>
sinkVars == <<oss, budget, sinkLog, issued>>

(***************************************************************************)
(* The connection's inlet (logic.c:19-51).                                 *)
(***************************************************************************)
ConnectionInletPull ==
    /\ Running("rxc_connection_inlet_pull")
    /\ \/ /\ Conn!Closed(requested)
          /\ stack' = Rest
          /\ UNCHANGED <<requested, delivered>>
       \/ /\ ~Conn!Closed(requested)
          /\ requested' = Conn!AddSaturating(requested, Top.arg)
          /\ delivered' = Append(delivered, Signal("on_pull", Top.arg))
          /\ stack' = WithTop(Frame("on_pull", Top.arg))
    /\ UNCHANGED <<cfg, crashed, sourceVars, schedVars, sinkVars>>

\* Every source here has an empty on_downstream_finish.
ConnectionInletCancel ==
    /\ Running("rxc_connection_inlet_cancel")
    /\ \/ /\ Conn!Closed(requested)
          /\ UNCHANGED <<requested, delivered>>
       \/ /\ ~Conn!Closed(requested)
          /\ requested' = LongMin
          /\ delivered' = Append(delivered, Signal("on_downstream_finish", 0))
    /\ stack' = Rest
    /\ UNCHANGED <<cfg, crashed, sourceVars, schedVars, sinkVars>>

(***************************************************************************)
(* The scheduler inlet of the pipeline adapter and the trampoline worker.  *)
(***************************************************************************)
\* pipeline.c:91-106, then worker_schedule (trampoline.c:78-97): enqueue
\* the request, and drain the queue unless a drain is already running.
\* Variant: schedule without the wip test, draining re-entrantly.
PipelineInletPullReentrant ==
    /\ Running("pipeline_inlet_pull")
    /\ \/ /\ parentNull
          /\ stack' = Rest
          /\ UNCHANGED <<queue, wip>>
       \/ /\ ~parentNull
          /\ queue' = Append(queue, Top.arg)
          /\ wip' = TRUE
          /\ stack' = WithTop(Frame("worker_drain", 0))
    /\ UNCHANGED <<cfg, requested, delivered, crashed, parentNull,
                   sourceVars, sinkVars>>

PipelineInletPull ==
    /\ Running("pipeline_inlet_pull")
    /\ \/ /\ parentNull
          /\ stack' = Rest
          /\ UNCHANGED <<queue, wip>>
       \/ /\ ~parentNull
          /\ queue' = Append(queue, Top.arg)
          /\ \/ /\ wip
                /\ stack' = Rest
                /\ UNCHANGED wip
             \/ /\ ~wip
                /\ wip' = TRUE
                /\ stack' = WithTop(Frame("worker_drain", 0))
    /\ UNCHANGED <<cfg, requested, delivered, crashed, parentNull,
                   sourceVars, sinkVars>>

\* The drain loop of worker_schedule (trampoline.c:89-96): each queued
\* request runs pipeline_executor, i.e. the connection's pull.
\* Variant: dequeue from the tail.
WorkerDrainLifo ==
    /\ Running("worker_drain")
    /\ \/ /\ queue = <<>>
          /\ wip' = FALSE
          /\ stack' = Rest
          /\ UNCHANGED queue
       \/ /\ queue # <<>>
          /\ queue' = Front(queue)
          /\ stack' = Append(stack, Frame("rxc_connection_inlet_pull",
                                          Last(queue)))
          /\ UNCHANGED wip
    /\ UNCHANGED <<cfg, requested, delivered, crashed, parentNull,
                   sourceVars, sinkVars>>

\* Variant: `if` for `while`, one task per schedule call (the frame's arg
\* counts the tasks run).
WorkerDrainOnce ==
    /\ Running("worker_drain")
    /\ \/ /\ queue = <<>> \/ Top.arg > 0
          /\ wip' = FALSE
          /\ stack' = Rest
          /\ UNCHANGED queue
       \/ /\ queue # <<>>
          /\ Top.arg = 0
          /\ queue' = Tail(queue)
          /\ stack' = Append(WithTop(Frame("worker_drain", 1)),
                             Frame("rxc_connection_inlet_pull", Head(queue)))
          /\ UNCHANGED wip
    /\ UNCHANGED <<cfg, requested, delivered, crashed, parentNull,
                   sourceVars, sinkVars>>

WorkerDrain ==
    /\ Running("worker_drain")
    /\ \/ /\ queue = <<>>
          /\ wip' = FALSE
          /\ stack' = Rest
          /\ UNCHANGED queue
       \/ /\ queue # <<>>
          /\ queue' = Tail(queue)
          /\ stack' = Append(stack, Frame("rxc_connection_inlet_pull",
                                          Head(queue)))
          /\ UNCHANGED wip
    /\ UNCHANGED <<cfg, requested, delivered, crashed, parentNull,
                   sourceVars, sinkVars>>

\* pipeline.c:108-115: cancel is not scheduled.  It clears `parent` and
\* calls parent->cancel, through NULL if parent was already cleared.
PipelineInletCancel ==
    /\ Running("pipeline_inlet_cancel")
    /\ \/ /\ parentNull
          /\ crashed' = TRUE
          /\ UNCHANGED <<stack, parentNull>>
       \/ /\ ~parentNull
          /\ parentNull' = TRUE
          /\ stack' = WithTop(Frame("rxc_connection_inlet_cancel", 0))
          /\ UNCHANGED crashed
    /\ UNCHANGED <<cfg, requested, delivered, queue, wip, sourceVars,
                   sinkVars>>

(***************************************************************************)
(* Source logics: on_pull(n), the frame's arg being the n still to serve.  *)
(***************************************************************************)
\* Variant: the exhaustion test off by one (count > to).
CountOnPullOffByOne ==
    /\ Running("on_pull")
    /\ cfg.source = "count"
    /\ \/ /\ Top.arg <= 0
          /\ stack' = Rest
          /\ UNCHANGED <<requested, delivered, crashed, count>>
       \/ /\ Top.arg > 0
          /\ count > To
          /\ Complete(Rest)
          /\ UNCHANGED count
       \/ /\ Top.arg > 0
          /\ count <= To
          /\ count' = count + 1
          /\ Emit(count, WithTop(Frame("on_pull", Top.arg - 1)))
    /\ UNCHANGED <<cfg, wav, schedVars, sinkVars>>

\* ops/count.c:22-38
CountOnPull ==
    /\ Running("on_pull")
    /\ cfg.source = "count"
    /\ \/ /\ Top.arg <= 0
          /\ stack' = Rest
          /\ UNCHANGED <<requested, delivered, crashed, count>>
       \/ /\ Top.arg > 0
          /\ count >= To
          /\ Complete(Rest)
          /\ UNCHANGED count
       \/ /\ Top.arg > 0
          /\ count < To
          /\ count' = count + 1
          /\ Emit(count, WithTop(Frame("on_pull", Top.arg - 1)))
    /\ UNCHANGED <<cfg, wav, schedVars, sinkVars>>

\* ops/empty.c:9-10
EmptyOnPull ==
    /\ Running("on_pull")
    /\ cfg.source = "empty"
    /\ stack' = Rest
    /\ UNCHANGED <<cfg, requested, delivered, crashed, sourceVars,
                   schedVars, sinkVars>>

\* formats/wav.c:50-92.  read() returns a chunk while the file has data,
\* 0 at its end, or fails.  After a failure the code calls fail first and
\* sets `finished` after; the connection is closed by then, so no re-entrant
\* on_pull can observe the order.
WavOnPull ==
    /\ Running("on_pull")
    /\ cfg.source = "wav"
    /\ \/ /\ wav.finished
          /\ Complete(Rest)
          /\ UNCHANGED wav
       \/ /\ ~wav.finished
          /\ Top.arg <= 0
          /\ stack' = Rest
          /\ UNCHANGED <<requested, delivered, crashed, wav>>
       \/ /\ ~wav.finished
          /\ Top.arg > 0
          /\ wav.read < MaxChunks
          /\ wav' = [wav EXCEPT !.read = @ + 1]
          /\ Emit(wav.read + 1, WithTop(Frame("on_pull", Top.arg - 1)))
       \/ /\ ~wav.finished
          /\ Top.arg > 0
          /\ wav' = [wav EXCEPT !.finished = TRUE]
          /\ \/ Complete(Rest)
             \/ Fail(Rest)
    /\ UNCHANGED <<cfg, count, schedVars, sinkVars>>

(***************************************************************************)
(* Sink logics.  The adapter and map logics forward to the user logic      *)
(* without state of their own; the user logic's handler runs here and ends *)
(* by returning or by a tail call on its inlet.                            *)
(***************************************************************************)
Handlers == {"on_connect", "on_push", "on_upstream_finish",
             "on_upstream_failure"}

Receive == sinkLog' = Append(sinkLog, Signal(Top.fn, Top.arg))

Return ==
    /\ stack' = Rest
    /\ UNCHANGED issued

IssuePull(n) ==
    /\ stack' = WithTop(UserPull(n))
    /\ issued' = Append(issued, Signal("pull", n))

IssueCancel ==
    /\ stack' = WithTop(UserCancel)
    /\ issued' = Append(issued, Signal("cancel", 0))

\* ops/foreach.c:21-31
ForeachSink ==
    /\ cfg.sink = "foreach"
    /\ IF Top.fn \in {"on_connect", "on_push"} THEN IssuePull(1) ELSE Return
    /\ UNCHANGED <<oss, budget>>

\* ops/canceled.c:14-29
CanceledSink ==
    /\ cfg.sink = "canceled"
    /\ IF Top.fn = "on_connect" THEN IssueCancel ELSE Return
    /\ UNCHANGED <<oss, budget>>

\* oss.c:43-92 open_audio_fd: the device opens and every ioctl succeeds,
\* giving an fd, or a step fails and -1 is returned (the fd left open by a
\* failed ioctl is closed first).
OpenAudioFd == {"open", "unopened"}

\* drivers/oss.c:38-41, 94-117.  The first chunk opens the audio device (which
\* may fail, leaving fd = -1 and a retry on the next chunk) and is not
\* played; a failed write marks the logic finished, closes fd and cancels.
OssSink ==
    /\ cfg.sink = "oss"
    /\ \/ /\ Top.fn = "on_connect"
          /\ IssuePull(1)
          /\ UNCHANGED oss
       \/ /\ Top.fn = "on_push"
          /\ oss = "unopened"
          /\ oss' \in OpenAudioFd
          /\ IssuePull(1)
       \/ /\ Top.fn = "on_push"
          /\ oss = "open"
          /\ IssuePull(1)
          /\ UNCHANGED oss
       \/ /\ Top.fn = "on_push"
          /\ oss \in {"open", "finished"}
          /\ oss' = "finished"
          /\ IssueCancel
       \/ /\ Top.fn \in {"on_upstream_finish", "on_upstream_failure"}
          /\ Return
          /\ UNCHANGED oss
    /\ UNCHANGED budget

\* sas-server/src/sink.c:14-41: every handler sends a datagram (a chunk,
\* FIN|RST, ERR|RST) and returns; demand comes from AckPull.
SessionSink ==
    /\ cfg.sink = "session"
    /\ Return
    /\ UNCHANGED <<oss, budget>>

\* The recording sink of the round-trip tests of spec 8: one pull on
\* connect, then it only records.
RecordSink ==
    /\ cfg.sink = "record"
    /\ IF Top.fn = "on_connect" THEN IssuePull(RecordPull) ELSE Return
    /\ UNCHANGED <<oss, budget>>

\* Any sink logic the API of logic.h admits: a handler makes up to
\* AnyBudget inlet calls in all, pull or cancel, one after the other (each
\* returns to the rest of the handler, "any_continue"), then returns.
AnyCall(f, s) ==
    /\ stack' = Append(WithTop(Frame("any_continue", 0)), f)
    /\ issued' = Append(issued, s)

AnyStep ==
    \/ /\ Return
       /\ UNCHANGED budget
    \/ /\ budget > 0
       /\ budget' = budget - 1
       /\ \/ \E n \in PullSizes : AnyCall(UserPull(n), Signal("pull", n))
          \/ AnyCall(UserCancel, Signal("cancel", 0))

AnySink ==
    /\ cfg.sink = "any"
    /\ AnyStep
    /\ UNCHANGED oss

SinkHandler ==
    /\ \E f \in Handlers : Running(f)
    /\ Receive
    /\ \/ ForeachSink
       \/ CanceledSink
       \/ OssSink
       \/ SessionSink
       \/ RecordSink
       \/ AnySink
    /\ UNCHANGED <<cfg, requested, delivered, crashed, sourceVars,
                   schedVars>>

\* The rest of an arbitrary sink's handler, after an inlet call returned.
AnyContinue ==
    /\ Running("any_continue")
    /\ AnyStep
    /\ UNCHANGED <<cfg, requested, delivered, crashed, sourceVars,
                   schedVars, oss, sinkLog>>

\* session.c:356-362: an ACK from the client, handled when the server is
\* back in its select loop (empty stack), pulls one chunk.  The real client
\* sends three ACKs for the configuration and two per chunk (client.c); here
\* the ACKs are bounded to one more than the chunks sent, which keeps the
\* model small.  An ACK beyond that pulls on a connection the sink already
\* closed, or adds demand the wav source serves in the same way; Transport
\* models the client's real ACK pattern.
AckPull ==
    /\ cfg.sink = "session"
    /\ ~crashed
    /\ stack = <<>>
    /\ Len(issued) <= Len(SelectSeq(sinkLog, LAMBDA s : s.sig = "on_push"))
    /\ stack' = <<UserPull(1)>>
    /\ issued' = Append(issued, Signal("pull", 1))
    /\ UNCHANGED <<cfg, requested, delivered, crashed, sourceVars,
                   schedVars, oss, budget, sinkLog>>

-----------------------------------------------------------------------------
(***************************************************************************)
(* Construction: what rxc_pipeline_start or a direct source->connect       *)
(* leaves behind, before the sink logic's on_connect runs.                 *)
(***************************************************************************)
\* count.c:43-58 create_logic: the counter starts at `from`.
CountCreateLogic == From

\* wav.c:133-173 sas_formats_wav: a header that passes the RIFF, PCM and
\* channel checks gives a source with finished = 0 and no chunk read (the
\* sample format is not modelled; a failed check is Transport.tla's SYN
\* error).
WavSource == [read |-> 0, finished |-> FALSE]

\* wav.c:124-131 connect (count.c and empty.c are the same): both logics
\* and the connection are created, then the sink logic's on_connect runs.
SourceConnect == <<Frame("on_connect", 0)>>

\* trampoline.c:99-110 scheduler_create_worker: empty queue, wip = 0.
CreateWorker == [queue |-> <<>>, wip |-> FALSE]

\* pipeline.c:166-213 pipeline_sink and its create_logic: the adapter's
\* logic wraps the user's and takes a new worker; its on_connect (138-144)
\* gives the user logic a scheduler inlet whose parent is the connection.
AdapterCreate == CreateWorker @@ [parentNull |-> FALSE]

\* oss.c:128-146 create_logic: fd = -1, finished = 0.
OssCreateLogic == "unopened"

\* pipeline.h:9-104: a pipeline is a source and a sink (struct
\* rxc_pipeline, rxc_source, rxc_sink), with or without the map flow
\* (struct rxc_flow) connected in between; it runs on the trampoline
\* scheduler or is connected directly.
Pipelines == [source : Sources, sink : Sinks, map : Maps,
              scheduler : Schedulers]

Init ==
    /\ cfg \in Pipelines
    /\ requested = 0
    /\ delivered = <<>>
    /\ stack = SourceConnect
    /\ queue = AdapterCreate.queue
    /\ wip = AdapterCreate.wip
    /\ parentNull = AdapterCreate.parentNull
    /\ count = CountCreateLogic
    /\ wav = WavSource
    /\ oss = OssCreateLogic
    /\ budget = AnyBudget
    /\ crashed = FALSE
    /\ sinkLog = <<>>
    /\ issued = <<>>

Next ==
    \/ ConnectionInletPull
    \/ ConnectionInletCancel
    \/ PipelineInletPull
    \/ WorkerDrain
    \/ PipelineInletCancel
    \/ CountOnPull
    \/ EmptyOnPull
    \/ WavOnPull
    \/ SinkHandler
    \/ AnyContinue
    \/ AckPull

\* One thread runs the stack; it never stops while there is a frame on it.
\* The client of the session sink acks every chunk it gets.
Spec == Init /\ [][Next]_vars /\ WF_vars(Next)

-----------------------------------------------------------------------------
(***************************************************************************)
(* Properties.                                                             *)
(***************************************************************************)
Vals(s) == [i \in DOMAIN s |-> s[i].val]
Sent(s) == s.sig = "on_pull"
IsPush(s) == s.sig = "on_push"
IsPullCall(s) == s.sig = "pull"

\* The elements the source produces, as the user sink should see them.
Produced ==
    CASE cfg.source = "count" -> [i \in 1..(To - From) |-> From + i - 1]
      [] cfg.source = "wav"   -> [i \in 1..MaxChunks |-> i]
      [] OTHER                -> <<>>
Expected ==
    IF cfg.map THEN [i \in DOMAIN Produced |-> Mapping(Produced[i])]
               ELSE Produced

Terminal(s) == s.sig \in {"on_upstream_finish", "on_upstream_failure"}
SinkFinished == \E i \in 1..Len(sinkLog) : Terminal(sinkLog[i])

Frames == {"on_connect", "on_push", "on_upstream_finish",
           "on_upstream_failure", "rxc_connection_inlet_pull",
           "rxc_connection_inlet_cancel", "pipeline_inlet_pull",
           "pipeline_inlet_cancel", "worker_drain", "on_pull",
           "any_continue"}

TypeOK ==
    /\ requested \in LongMin..LongMax
    /\ stack \in Seq([fn : Frames, arg : Int])
    /\ queue \in Seq(PullSizes \cup {1, RecordPull})
    /\ wip \in BOOLEAN
    /\ parentNull \in BOOLEAN
    /\ count \in From..To
    /\ wav \in [read : 0..MaxChunks, finished : BOOLEAN]
    /\ oss \in {"unopened", "open", "finished"}
    /\ budget \in 0..AnyBudget
    /\ crashed \in BOOLEAN

\* Spec 8: the user sink receives the source's elements, transformed by the
\* map, in order, each once: the count loop (count.c:27-36) and the wav
\* loop (wav.c:59-91) resume after re-entrant pulls and cancels without
\* skipping or repeating an element.
InOrder == IsPrefix(Vals(SelectSeq(sinkLog, IsPush)), Expected)

\* Spec 4.1, invariant 2, across the whole composition: once the connection
\* delivered a terminal signal, no callback follows in either direction,
\* however the source's loop, the adapter and the sink re-enter it.
QuietAfterTerminal == Conn!QuietAfterTerminal

\* Spec 4.5: under the trampoline adapter the call stack does not grow with
\* the number of elements: a pull made while the worker drains is queued
\* (wip, trampoline.c:89), so the deepest stack is the handler whose pull
\* started the drain, the drain, on_pull, a sink handler and an inlet call
\* it makes.
StackBounded == cfg.scheduler => Len(stack) <= 5

\* Spec 4.5 and 5: the source's on_pull calls carry the amounts the user
\* sink pulled, in the order it pulled them (FIFO trampoline queue,
\* trampoline.c:33-71); pulls may only be dropped at the end, once the
\* stream is over.
PullsInOrder ==
    IsPrefix(Vals(SelectSeq(delivered, Sent)),
             Vals(SelectSeq(issued, IsPullCall)))

\* A stream from a finite source into a sink of this repository that keeps
\* pulling (foreach, oss, the session sink driven by acks) or cancels ends:
\* the connection is closed eventually.  The loop of worker_schedule must
\* run every queued pull, and count/wav must complete when pulled after
\* their last element.
Terminates ==
    cfg.source \in {"count", "wav"} /\ cfg.sink \in {"foreach", "canceled",
                                                      "oss", "session"}
        ~> Conn!Closed(requested)

(***************************************************************************)
(* What the spec says and the code does not do (runs expected to fail).    *)
(***************************************************************************)
\* Spec 7(b) and 8 (idempotence): a second cancel on the same inlet has no observable effect.  The
\* scheduler inlet's second cancel calls through the NULL parent
\* (pipeline.c:113-114).
CancelIdempotent ==
    (\E i, j \in 1..Len(issued) :
        i # j /\ issued[i].sig = "cancel" /\ issued[j].sig = "cancel")
        => ~crashed

\* Spec 7(c) (payload failure): the failure the source signals is carried to
\* the sink that ends the chain.  map's on_upstream_failure (map.c:49-53)
\* looks its inner logic up through the wrong struct.
FailureDelivered ==
    (\E i \in 1..Len(delivered) : delivered[i].sig = "on_upstream_failure")
        ~> (\E i \in 1..Len(sinkLog) : sinkLog[i].sig = "on_upstream_failure")

\* Spec 8, round trip: count(from, to) wired directly to a recording sink
\* that pulls to - from once yields the elements followed by exactly one
\* completion.  count.c:27-31 only completes on a pull made after the last
\* element.
RoundTripCompletes == <>SinkFinished

=============================================================================

-------------------------------- MODULE Runner --------------------------------
(***************************************************************************)
(* The lifecycle of a Runner (runner.py): the listener that initialises    *)
(* the processors and starts the pipeline, one transform() task and one    *)
(* produce() task per processor, run_processors() which gathers them, the  *)
(* future processors_ended and run_with_channel() itself, which waits for  *)
(* it, tears the rest down and flushes the log stream (logger.py).         *)
(* Messages of the channels go to Reader and Writer and change nothing     *)
(* here.  A task whose cancel() was called raises where it is suspended    *)
(* the next time it runs ("cancelling", then "cancelled").                 *)
(***************************************************************************)
EXTENDS Naturals, FiniteSets

CONSTANTS
  MaxProcs,   \* bound: the processors the orchestrator asks for
  MaxPending, \* bound: the log records in the queue
  Fails       \* stages that may raise: "init", "transform", "produce", "message"

ASSUME RunnerAssumption ==
  /\ MaxProcs \in Nat /\ MaxPending \in Nat
  /\ Fails \subseteq {"init", "transform", "produce", "message"}

VARIABLES
  up,         \* the normal stream is open (external)
  listener,   \* where the listener task is suspended
  initing,    \* the processors whose init() is under way (one at most)
  transform,  \* transform[p]: the task in _processor_transforms
  produce,    \* produce[p]: the task gather() made of p.produce()
  start,      \* start_task: run_processors()
  stage,      \* the tasks it gathers: "none", "produces", "transforms"
  gather,     \* the future gather() returned
  ended,      \* processors_ended
  main,       \* run_with_channel()
  pending,    \* the log records in the queue that came before its end mark
  marked,     \* the end mark (None) is in the queue
  logTask,    \* _log_stream_task
  gaveUp      \* history variable: the flush timed out or was cancelled

Procs == 1..MaxProcs  \* numbered in the order they are asked for

tasks == <<transform, produce>>
running == <<start, stage, gather>>
logVars == <<pending, marked, logTask, gaveUp>>
runnerVars == <<up, listener, initing, tasks, running, ended, main, logVars>>

Outcome == {"done", "failed", "cancelled"}
TaskStates == {"none", "running", "cancelling"} \cup Outcome

\* _processors: those with a transform task.
Added == {p \in Procs : transform[p] # "none"}
Over == main \in {"returned", "raised"}
TornDown == main \in {"flushing", "raising", "returned", "raised"}

\* The variables hold what the code can put in them; only a processor that was
\* added produces, and one is initialised at a time.
TypeOK ==
  /\ up \in BOOLEAN
  /\ listener \in {"none", "reading", "init", "reporting", "failing", "over"}
  /\ initing \subseteq Procs /\ Cardinality(initing) <= 1
  /\ listener \in {"none", "reading", "reporting"} => initing = {}
  /\ transform \in [Procs -> TaskStates] /\ produce \in [Procs -> TaskStates]
  /\ \A p \in Procs : produce[p] # "none" => p \in Added
  /\ start \in TaskStates
  /\ stage \in {"none", "produces", "transforms"}
  /\ gather \in {"pending"} \cup Outcome
  /\ ended \in {"pending"} \cup Outcome
  /\ main \in {"connecting", "waiting", "cancelling", "closing",
               "flushing", "raising", "returned", "raised"}
  /\ pending \in 0..MaxPending /\ marked \in BOOLEAN /\ gaveUp \in BOOLEAN
  /\ logTask \in {"streaming", "awaiting", "done", "broken"}
  /\ marked <=> TornDown

Init ==
  /\ up = TRUE /\ listener = "none" /\ initing = {}
  /\ transform = [p \in Procs |-> "none"] /\ produce = [p \in Procs |-> "none"]
  /\ start = "none" /\ stage = "none" /\ gather = "pending"
  /\ ended = "pending" /\ main = "connecting"
  /\ pending = 0 /\ marked = FALSE /\ logTask = "streaming" /\ gaveUp = FALSE

\* set_exception(), set_result() and cancel() of processors_ended if not done.
Settle(outcome) == ended' = IF ended = "pending" THEN outcome ELSE ended
-----------------------------------------------------------------------------
(* The listener: strictly one message at a time *)

\* The orchestrator asks for processors before it starts the pipeline.
Proc(p) ==
  /\ listener = "reading" /\ start = "none"
  /\ p \notin Added /\ 1..(p - 1) \subseteq Added
  /\ listener' = "init" /\ initing' = {p}
  /\ UNCHANGED <<up, logVars, tasks, running, ended, main>>

InitReturns(p) ==
  /\ listener = "init" /\ p \in initing
  /\ initing' = {}
  /\ transform' = [transform EXCEPT ![p] = "running"]
  /\ listener' = "reporting"
  /\ UNCHANGED <<up, logVars, produce, running, ended, main>>

\* init() raised: the error is reported, then raised again.
InitRaises(p) ==
  /\ listener = "init" /\ p \in initing /\ "init" \in Fails
  /\ listener' = "failing"
  /\ UNCHANGED <<up, logVars, initing, tasks, running, ended, main>>

Reported ==
  /\ listener = "reporting" /\ up
  /\ listener' = "reading"
  /\ UNCHANGED <<up, logVars, initing, tasks, running, ended, main>>

\* Mutant: the end of the stream is no failure of the pipeline.
ListenerEndsQuietly ==
  /\ \/ listener = "reading" /\ ~up
     \/ listener = "reading" /\ "message" \in Fails
     \/ listener = "reporting" /\ ~up
     \/ listener = "failing"
  /\ listener' = "over"
  /\ IF up THEN Settle("failed") ELSE UNCHANGED ended
  /\ UNCHANGED <<up, logVars, initing, tasks, running, main>>

\* The stream is over, a handler or a write raised: the pipeline has failed.
ListenerEnds ==
  /\ \/ listener = "reading" /\ ~up
     \/ listener = "reading" /\ "message" \in Fails
     \/ listener = "reporting" /\ ~up
     \/ listener = "failing"
  /\ listener' = "over"
  /\ Settle("failed")
  /\ UNCHANGED <<up, logVars, initing, tasks, running, main>>

Start ==
  /\ listener = "reading" /\ start = "none"
  /\ start' = "running"
  /\ UNCHANGED <<up, logVars, listener, initing, tasks, stage, gather, ended, main>>
-----------------------------------------------------------------------------
(* run_processors() and the tasks of the processors *)

\* Mutant: produce() is called for the whole pipeline.
StartRunsAll ==
  /\ start = "running" /\ stage = "none"
  /\ stage' = "produces"
  /\ produce' = [p \in Procs |-> "running"]
  /\ UNCHANGED <<up, logVars, listener, initing, transform, start, gather, ended, main>>

StartRuns ==
  /\ start = "running" /\ stage = "none"
  /\ stage' = "produces"
  /\ produce' = [p \in Procs |-> IF p \in Added THEN "running" ELSE "none"]
  /\ UNCHANGED <<up, logVars, listener, initing, transform, start, gather, ended, main>>

Gathered == IF stage = "produces" THEN produce ELSE transform

\* Mutant: the tasks that are through are enough.
GatherSettlesFirst ==
  /\ stage # "none" /\ gather = "pending"
  /\ \/ \E p \in Added : Gathered[p] \in Outcome /\ gather' = Gathered[p]
     \/ Added = {} /\ gather' = "done"
  /\ UNCHANGED <<up, logVars, listener, initing, tasks, start, stage, ended, main>>

\* gather() is over with its first failure, or when all its tasks are done.
GatherSettles ==
  /\ stage # "none" /\ gather = "pending"
  /\ \/ \E p \in Added : /\ Gathered[p] \in {"failed", "cancelled"}
                         /\ gather' = Gathered[p]
     \/ /\ \A p \in Added : Gathered[p] = "done"
        /\ gather' = "done"
  /\ UNCHANGED <<up, logVars, listener, initing, tasks, start, stage, ended, main>>

\* All produce() calls are over: wait for the transforms.
StartGoesOn ==
  /\ start = "running" /\ stage = "produces" /\ gather = "done"
  /\ stage' = "transforms" /\ gather' = "pending"
  /\ UNCHANGED <<up, logVars, listener, initing, tasks, start, ended, main>>

StartEnds ==
  /\ start = "running"
  /\ (stage = "transforms" /\ gather = "done") \/ gather = "failed"
  /\ start' = gather
  /\ UNCHANGED <<up, logVars, listener, initing, tasks, stage, gather, ended, main>>

StartCancelled ==
  /\ start = "cancelling" /\ (stage = "none" \/ gather # "pending")
  /\ start' = IF gather = "failed" THEN "failed" ELSE "cancelled"
  /\ UNCHANGED <<up, logVars, listener, initing, tasks, stage, gather, ended, main>>

\* Mutant: any end of run_processors() is a completion.
OnStartDoneAlways ==
  /\ start \in Outcome /\ ended = "pending"
  /\ Settle("done")
  /\ UNCHANGED <<up, logVars, listener, initing, tasks, running, main>>

\* A callback of the event loop, after the task is over.
OnStartDone ==
  /\ start \in Outcome /\ ended = "pending"
  /\ Settle(start)
  /\ UNCHANGED <<up, logVars, listener, initing, tasks, running, main>>

\* How a call of a processor may end.
Ends(call) == IF call \in Fails THEN {"done", "failed"} ELSE {"done"}

TransformEnds(p) ==
  /\ transform[p] = "running"
  /\ \E o \in Ends("transform") : transform' = [transform EXCEPT ![p] = o]
  /\ UNCHANGED <<up, logVars, listener, initing, produce, running, ended, main>>

ProduceEnds(p) ==
  /\ produce[p] = "running"
  /\ \E o \in Ends("produce") : produce' = [produce EXCEPT ![p] = o]
  /\ UNCHANGED <<up, logVars, listener, initing, transform, running, ended, main>>

TaskCancelled(p) ==
  /\ \/ /\ transform[p] = "cancelling"
        /\ transform' = [transform EXCEPT ![p] = "cancelled"]
        /\ UNCHANGED produce
     \/ /\ produce[p] = "cancelling"
        /\ produce' = [produce EXCEPT ![p] = "cancelled"]
        /\ UNCHANGED transform
  /\ UNCHANGED <<up, logVars, listener, initing, running, ended, main>>
-----------------------------------------------------------------------------
(* run_with_channel() *)

Cancel(task) == IF task = "running" THEN "cancelling" ELSE task
CancelAll(ts) == [p \in Procs |-> Cancel(ts[p])]

\* Mutant: run_processors() is cancelled, the transforms are not.
CancelPipelineTasksStart ==
  /\ start' = Cancel(start)
  /\ UNCHANGED tasks

\* start_task passes its cancellation on to what it waits for.
CancelPipelineTasks ==
  /\ start' = Cancel(start)
  /\ transform' = CancelAll(transform)
  /\ produce' = IF start = "running" /\ stage = "produces" /\ gather = "pending"
                THEN CancelAll(produce) ELSE produce

\* _run_with_stub() is over: the end mark is put in the log queue, and main waits
\* until the log stream is over, or for LOG_FLUSH_TIMEOUT.
Flush(next) ==
  /\ main' = next /\ marked' = TRUE
  /\ UNCHANGED <<pending, logTask, gaveUp>>

\* The runner is identified: the listener starts.
Connected ==
  /\ main = "connecting" /\ up
  /\ main' = "waiting" /\ listener' = "reading"
  /\ UNCHANGED <<up, logVars, initing, tasks, running, ended>>

\* The first write raised, or the server cancels the runner meanwhile.
ConnectFails ==
  /\ main = "connecting"
  /\ Flush("raising")
  /\ UNCHANGED <<up, listener, initing, tasks, running, ended>>

\* processors_ended is done: the normal stream is closed.
MainGoesOn ==
  /\ main = "waiting" /\ ended = "done"
  /\ main' = "closing"
  /\ UNCHANGED <<up, logVars, listener, initing, tasks, running, ended>>

\* Mutant: the listener is left to itself.
MainRaisesListening ==
  /\ \/ main = "waiting" /\ ended \in {"failed", "cancelled"}
     \/ main = "cancelling"
  /\ Flush("raising")
  /\ CancelPipelineTasks
  /\ UNCHANGED <<up, listener, initing, stage, gather, ended>>

\* The wait raised: the listener and the pipeline are torn down.
MainRaises ==
  /\ \/ main = "waiting" /\ ended \in {"failed", "cancelled"}
     \/ main = "cancelling"
  /\ Flush("raising")
  /\ listener' = "over"
  /\ CancelPipelineTasks
  /\ UNCHANGED <<up, initing, stage, gather, ended>>

MainCloses ==
  /\ main = "closing"
  /\ Flush("flushing")
  /\ listener' = "over"
  /\ UNCHANGED <<up, initing, tasks, running, ended>>

\* The server cancels the runner while the normal stream is being closed: the
\* pipeline counts as completed and is left alone (external).
CancelClosing ==
  /\ main = "closing"
  /\ Flush("raising")
  /\ listener' = "over"
  /\ UNCHANGED <<up, initing, tasks, running, ended>>

\* The server cancels the runner while it waits for the pipeline (external).
CancelMain ==
  /\ main = "waiting"
  /\ Settle("cancelled")
  /\ main' = "cancelling"
  /\ UNCHANGED <<up, logVars, listener, initing, tasks, running>>

\* Mutant: the run is over as soon as the end mark is put.
FlushedAtOnce ==
  /\ main \in {"flushing", "raising"}
  /\ main' = IF main = "flushing" THEN "returned" ELSE "raised"
  /\ UNCHANGED <<up, logVars, listener, initing, tasks, running, ended>>

Flushed ==
  /\ main \in {"flushing", "raising"} /\ logTask \in {"done", "broken"}
  /\ main' = IF main = "flushing" THEN "returned" ELSE "raised"
  /\ UNCHANGED <<up, logVars, listener, initing, tasks, running, ended>>

\* LOG_FLUSH_TIMEOUT is over.
FlushTimesOut ==
  /\ main \in {"flushing", "raising"} /\ logTask \in {"streaming", "awaiting"}
  /\ main' = IF main = "flushing" THEN "returned" ELSE "raised"
  /\ gaveUp' = TRUE
  /\ UNCHANGED <<up, pending, marked, logTask, listener, initing, tasks, running, ended>>

\* The server cancels the runner while it flushes (external): a run that was
\* complete raises, too.
CancelFlush ==
  /\ main \in {"flushing", "raising"}
  /\ main' = "raised" /\ gaveUp' = TRUE
  /\ UNCHANGED <<up, pending, marked, logTask, listener, initing, tasks, running, ended>>
-----------------------------------------------------------------------------
(* The log stream: a queue, and a task that reads it and writes to an RPC *)

lifeVars == <<up, listener, initing, tasks, running, ended, main>>

\* A record of any task of this runner; behind the end mark nobody reads it.
Logs ==
  /\ ~marked /\ pending < MaxPending
  /\ pending' = pending + 1
  /\ UNCHANGED <<lifeVars, marked, logTask, gaveUp>>

LogSent ==
  /\ logTask = "streaming" /\ pending > 0
  /\ pending' = pending - 1
  /\ UNCHANGED <<lifeVars, marked, logTask, gaveUp>>

\* The end mark: the requests are over, the answer is awaited.
LogEnds ==
  /\ logTask = "streaming" /\ pending = 0 /\ marked
  /\ logTask' = "awaiting"
  /\ UNCHANGED <<lifeVars, pending, marked, gaveUp>>

\* The orchestrator answers, or the RPC terminates with an error (external).
LogAnswered ==
  /\ logTask = "awaiting"
  /\ logTask' = "done"
  /\ UNCHANGED <<lifeVars, pending, marked, gaveUp>>

LogBreaks ==
  /\ logTask \in {"streaming", "awaiting"}
  /\ logTask' = "broken"
  /\ UNCHANGED <<lifeVars, pending, marked, gaveUp>>
-----------------------------------------------------------------------------
(* The environment *)

\* The orchestrator closes the normal stream or is lost (external).
Disconnect ==
  /\ up /\ up' = FALSE
  /\ UNCHANGED <<logVars, listener, initing, tasks, running, ended, main>>
-----------------------------------------------------------------------------
Listen == ListenerEnds \/ Reported \/ \E p \in Procs : InitReturns(p)

Loop == \/ StartRuns \/ GatherSettles \/ StartGoesOn \/ StartEnds
        \/ StartCancelled \/ OnStartDone
        \/ Connected \/ ConnectFails \/ MainGoesOn \/ MainRaises \/ MainCloses
        \/ Flushed \/ FlushTimesOut

Log == Logs \/ LogSent \/ LogEnds \/ LogAnswered \/ LogBreaks

Next == \/ Listen \/ Loop \/ Start \/ Log
        \/ Disconnect \/ CancelMain \/ CancelClosing \/ CancelFlush
        \/ \E p \in Procs :
             \/ Proc(p) \/ InitRaises(p)
             \/ TransformEnds(p) \/ ProduceEnds(p) \/ TaskCancelled(p)

Spec == Init /\ [][Next]_runnerVars

\* The event loop runs what is ready: the listener that was answered or lost its
\* stream, tasks whose cancel() was called, callbacks.  No call of a processor need
\* end, init() included, and no message need be one that raises.
LoopFairness ==
  /\ WF_runnerVars(Reported)
  /\ WF_runnerVars((~up \/ listener = "failing") /\ ListenerEnds)
  /\ WF_runnerVars(Loop)
  /\ \A p \in Procs : WF_runnerVars(TaskCancelled(p))

LoopSpec == Spec /\ LoopFairness

\* Every init() returns or raises; the listener awaits it.
InitFairness == WF_runnerVars(\E p \in Procs : InitReturns(p) \/ InitRaises(p))

\* Every produce() and transform() ends.
ProcessorFairness ==
  \A p \in Procs : /\ WF_runnerVars(TransformEnds(p))
                   /\ WF_runnerVars(ProduceEnds(p))
-----------------------------------------------------------------------------
(* Safety *)

\* run() returns normally only when every processor that was added is through,
\* both in produce() and in transform(), and none of them failed.
CleanReturn ==
  main = "returned" =>
    \A p \in Added : produce[p] = "done" /\ transform[p] = "done"

\* When the run is over, what was logged before its teardown has been sent to the
\* orchestrator, unless the log stream broke, the flush timed out or was cancelled.
TrailingLogsSent == Over /\ logTask # "broken" /\ ~gaveUp => pending = 0

\* Once run() tore the pipeline down no processor is initialised or started.
NothingStartsAfterwards ==
  [][TornDown => \A p \in Procs :
               /\ transform[p] = "none" => transform'[p] = "none"
               /\ produce[p] = "none" => produce'[p] = "none"]_runnerVars
-----------------------------------------------------------------------------
(* Liveness *)

\* If init() ends, the loss of the orchestrator ends run(), whether produce() and
\* transform() end or not.  (The listener notices the loss when it reads on: an
\* init() that hangs hides it.)
LossEndsRun == InitFairness => (~up ~> Over)

\* If processors end, one that fails in a started pipeline makes run() raise.
FailureRaises ==
  ProcessorFairness =>
  ((start # "none" /\ \E p \in Procs : "failed" \in {transform[p], produce[p]})
    ~> main = "raised")

\* When run() raised, every transform task comes to an end.
TransformsEnd ==
  main = "raised" ~> \A p \in Procs : transform[p] \notin {"running", "cancelling"}

\* When run() raised, every task of the pipeline comes to an end.
PipelineEnds ==
  main = "raised" ~> \A p \in Procs :
                       {transform[p], produce[p]} \cap {"running", "cancelling"} = {}
=============================================================================

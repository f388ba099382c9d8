----------------------------- MODULE RunnerProofs -----------------------------
(***************************************************************************)
(* Proofs about Runner, for any number of processors, whichever of their   *)
(* calls may fail, and wherever the run is cancelled.                      *)
(***************************************************************************)
EXTENDS Runner, FiniteSetTheorems, TLAPS

-----------------------------------------------------------------------------
(* The inductive invariant, in parts. *)

Types ==
  /\ up \in BOOLEAN
  /\ listener \in {"none", "reading", "init", "reporting", "failing", "over"}
  /\ initing = {} \/ \E p \in Procs : initing = {p}
  /\ listener \in {"none", "reading", "reporting"} => initing = {}
  /\ transform \in [Procs -> TaskStates] /\ produce \in [Procs -> TaskStates]
  /\ \A p \in Procs : produce[p] # "none" => transform[p] # "none"
  /\ start \in TaskStates
  /\ stage \in {"none", "produces", "transforms"}
  /\ gather \in {"pending"} \cup Outcome
  /\ ended \in {"pending"} \cup Outcome
  /\ main \in {"connecting", "waiting", "cancelling", "closing",
               "flushing", "raising", "returned", "raised"}

\* The listener does nothing before the runner is identified, starts nothing while
\* a processor is initialised, and is gone when the run was torn down.
Listening ==
  /\ main = "connecting" => listener = "none"
  /\ listener \in {"none", "init"} => start = "none"
  /\ TornDown => listener \in {"none", "over"}

\* run_processors() goes from stage to stage when all its tasks are through.
Stages ==
  /\ start = "none" => stage = "none"
  /\ stage = "none" => gather = "pending"
  /\ (stage = "produces" /\ gather = "done") \/ stage = "transforms" =>
       \A p \in Added : produce[p] = "done"
  /\ stage = "transforms" /\ gather = "done" =>
       \A p \in Added : transform[p] = "done"
  /\ start = "done" => stage = "transforms" /\ gather = "done"

\* Only a complete pipeline lets the run close, and none runs on after it.
Endings ==
  /\ ended = "done" => start = "done"
  /\ main \in {"closing", "flushing", "returned"} => ended = "done"
  /\ TornDown => start # "running"

\* The log stream ends behind its end mark, and the run behind the log stream.
Logging ==
  /\ pending \in 0..MaxPending /\ marked \in BOOLEAN /\ gaveUp \in BOOLEAN
  /\ logTask \in {"streaming", "awaiting", "done", "broken"}
  /\ marked <=> TornDown
  /\ logTask \in {"awaiting", "done"} => pending = 0 /\ marked
  /\ Over /\ ~gaveUp => logTask \in {"done", "broken"}

RunnerInv == Types /\ Listening /\ Stages /\ Endings /\ Logging

LEMMA InitRunnerInv == Init => RunnerInv
<1> SUFFICES ASSUME Init PROVE RunnerInv
  OBVIOUS
<1>1. Types
  BY DEF Init, Types, TaskStates, Outcome
<1>2. Listening /\ Stages /\ Endings
  BY DEF Init, Listening, Stages, Endings, TornDown, Added
<1>3. Logging
  <2>1. marked = FALSE /\ gaveUp = FALSE
    BY Zenon DEF Init
  <2>2. ~TornDown /\ ~Over /\ pending \in 0..MaxPending /\ logTask = "streaming"
    BY RunnerAssumption DEF Init, TornDown, Over, RunnerAssumption
  <2> QED BY <2>1, <2>2 DEF Logging
<1> QED BY <1>1, <1>2, <1>3 DEF RunnerInv
-----------------------------------------------------------------------------
(* What the steps do, part by part *)

\* The steps that leave the tasks of the processors alone.
Aside == \/ \E p \in Procs : Proc(p) \/ InitRaises(p)
         \/ Reported \/ ListenerEnds \/ Connected \/ ConnectFails
         \/ MainGoesOn \/ MainCloses \/ CancelClosing \/ CancelMain
         \/ Flushed \/ FlushTimesOut \/ CancelFlush \/ Log \/ Disconnect
         \/ UNCHANGED runnerVars

LEMMA NextCases ==
  ASSUME [Next]_runnerVars
  PROVE  \/ Aside \/ Start \/ StartRuns \/ GatherSettles \/ StartGoesOn \/ StartEnds
         \/ StartCancelled \/ OnStartDone \/ MainRaises
         \/ \E p \in Procs : \/ InitReturns(p) \/ TransformEnds(p) \/ ProduceEnds(p)
                             \/ TaskCancelled(p)
BY DEF Next, Listen, Loop, Aside

LEMMA AsideFrame == Aside => UNCHANGED <<tasks, running>>
BY DEF Aside, Proc, InitRaises, Reported, ListenerEnds, Connected, ConnectFails,
       MainGoesOn, MainCloses, CancelClosing, CancelMain, Flushed, FlushTimesOut,
       CancelFlush, Log, Logs, LogSent, LogEnds, LogAnswered, LogBreaks, lifeVars,
       Disconnect, runnerVars

\* A cancellation that is asked for changes tasks that run, and no others.
LEMMA CancelEffect ==
  ASSUME Types, MainRaises
  PROVE  /\ start' \in TaskStates /\ start' # "running"
         /\ start' \in {start, "cancelling"} /\ (start # "running" => start' = start)
         /\ transform' \in [Procs -> TaskStates] /\ produce' \in [Procs -> TaskStates]
         /\ \A p \in Procs : /\ transform[p] # "running" => transform'[p] = transform[p]
                             /\ transform'[p] \in {transform[p], "cancelling"}
                             /\ produce[p] # "running" => produce'[p] = produce[p]
                             /\ produce'[p] \in {produce[p], "cancelling"}
<1>1. \A t \in TaskStates : Cancel(t) \in TaskStates /\ Cancel(t) # "running"
                            /\ Cancel(t) \in {t, "cancelling"}
                            /\ (t # "running" => Cancel(t) = t)
  BY DEF Cancel, TaskStates, Outcome
<1>2. start' = Cancel(start) /\ transform' = CancelAll(transform)
      /\ produce' \in {produce, CancelAll(produce)}
  BY DEF MainRaises, CancelPipelineTasks
<1> QED BY <1>1, <1>2 DEF Types, CancelAll

LEMMA StepTypes == Types /\ Listening /\ [Next]_runnerVars => Types'
<1> SUFFICES ASSUME Types, Listening, [Next]_runnerVars PROVE Types'
  OBVIOUS
<1>1. CASE Aside
  <2>1. UNCHANGED <<transform, produce, start, stage, gather>>
    BY <1>1, AsideFrame DEF tasks, running
  <2>2. ASSUME NEW p \in Procs, Proc(p) PROVE Types'
    BY <2>1, <2>2 DEF Types, Proc, logVars
  <2>3. ASSUME NEW p \in Procs, InitRaises(p) PROVE Types'
    BY <2>1, <2>3 DEF Types, InitRaises
  <2>4. CASE ListenerEnds \/ Reported
    BY <2>1, <2>4 DEF Types, ListenerEnds, Reported, Settle, Outcome
  <2>5. CASE Connected \/ ConnectFails
    BY <2>1, <2>5 DEF Types, Listening, Connected, ConnectFails, Flush
  <2>6. CASE MainGoesOn \/ MainCloses \/ CancelClosing
    BY <2>1, <2>6 DEF Types, MainGoesOn, MainCloses, CancelClosing, Flush
  <2>7. CASE CancelMain
    BY <2>1, <2>7 DEF Types, CancelMain, Settle, Outcome
  <2>8. CASE Flushed \/ FlushTimesOut \/ CancelFlush
    BY <2>1, <2>8 DEF Types, Flushed, FlushTimesOut, CancelFlush
  <2>9. CASE Log \/ Disconnect \/ UNCHANGED runnerVars
    <3>1. UNCHANGED <<listener, initing, ended, main>> /\ (up' = up \/ up' = FALSE)
      BY <2>9 DEF Log, Logs, LogSent, LogEnds, LogAnswered, LogBreaks, lifeVars,
                  Disconnect, runnerVars
    <3> QED BY <2>1, <3>1, ZenonT(40) DEF Types
  <2> QED BY <1>1, <2>2, <2>3, <2>4, <2>5, <2>6, <2>7, <2>8, <2>9 DEF Aside
<1>2. ASSUME NEW p \in Procs, InitReturns(p) PROVE Types'
  BY <1>2 DEF Types, InitReturns, running, TaskStates
<1>3. CASE Start
  BY <1>3 DEF Types, Start, tasks, TaskStates
<1>4. CASE StartRuns
  <2>1. produce' \in [Procs -> TaskStates]
    BY <1>4 DEF StartRuns, TaskStates
  <2>2. \A p \in Procs : produce'[p] # "none" => transform'[p] # "none"
    BY <1>4 DEF StartRuns, Added
  <2> QED BY <1>4, <2>1, <2>2 DEF Types, StartRuns
<1>5. CASE GatherSettles \/ StartGoesOn
  BY <1>5 DEF Types, GatherSettles, StartGoesOn, tasks, Added, Gathered, TaskStates, Outcome
<1>6. CASE StartEnds \/ StartCancelled
  BY <1>6 DEF Types, StartEnds, StartCancelled, tasks, TaskStates, Outcome
<1>7. CASE OnStartDone
  BY <1>7 DEF Types, OnStartDone, Settle, tasks, running, Outcome
<1>8. CASE MainRaises
  <2>1. /\ UNCHANGED <<up, initing, stage, gather, ended>>
        /\ main' = "raising" /\ listener' = "over"
    BY <1>8 DEF MainRaises, Flush
  <2>2. \A p \in Procs : produce'[p] # "none" => transform'[p] # "none"
    BY <1>8, CancelEffect DEF Types
  <2> QED BY <1>8, <2>1, <2>2, CancelEffect DEF Types
<1>9. ASSUME NEW p \in Procs, TransformEnds(p) \/ ProduceEnds(p) \/ TaskCancelled(p)
      PROVE  Types'
  <2>1. /\ transform' \in [Procs -> TaskStates] /\ produce' \in [Procs -> TaskStates]
        /\ \A q \in Procs : /\ transform'[q] = "none" => transform[q] = "none"
                            /\ produce[q] = "none" => produce'[q] = "none"
    BY <1>9 DEF Types, TransformEnds, ProduceEnds, TaskCancelled, Ends, TaskStates, Outcome
  <2>2. UNCHANGED <<up, listener, initing, start, stage, gather, ended, main>>
    BY <1>9 DEF TransformEnds, ProduceEnds, TaskCancelled, running
  <2> QED BY <2>1, <2>2 DEF Types
<1> QED BY <1>1, <1>2, <1>3, <1>4, <1>5, <1>6, <1>7, <1>8, <1>9, NextCases

LEMMA StepListening ==
  Types /\ Listening /\ [Next]_runnerVars => Listening'
<1> SUFFICES ASSUME Types, Listening, [Next]_runnerVars PROVE Listening'
  OBVIOUS
<1>1. CASE Aside
  <2>1. start' = start
    BY <1>1, AsideFrame DEF running
  <2>2. ASSUME NEW p \in Procs, Proc(p) \/ InitRaises(p) PROVE Listening'
    BY <2>1, <2>2 DEF Listening, Proc, InitRaises, TornDown
  <2>3. CASE ListenerEnds \/ Reported
    BY <2>1, <2>3 DEF Listening, ListenerEnds, Reported, TornDown
  <2>4. CASE Connected \/ ConnectFails
    BY <2>1, <2>4 DEF Listening, Connected, ConnectFails, Flush, TornDown
  <2>5. CASE MainGoesOn \/ MainCloses \/ CancelClosing \/ CancelMain
    BY <2>1, <2>5 DEF Listening, MainGoesOn, MainCloses, CancelClosing, CancelMain, Flush,
                      TornDown
  <2>6. CASE Flushed \/ FlushTimesOut \/ CancelFlush
    BY <2>1, <2>6 DEF Listening, Flushed, FlushTimesOut, CancelFlush, TornDown
  <2>7. CASE Log \/ Disconnect \/ UNCHANGED runnerVars
    <3>1. UNCHANGED <<listener, main>>
      BY <2>7 DEF Log, Logs, LogSent, LogEnds, LogAnswered, LogBreaks, lifeVars,
                  Disconnect, runnerVars
    <3> QED BY <2>1, <3>1 DEF Listening, TornDown
  <2> QED BY <1>1, <2>2, <2>3, <2>4, <2>5, <2>6, <2>7 DEF Aside
<1>2. ASSUME NEW p \in Procs,
             \/ InitReturns(p) \/ TransformEnds(p) \/ ProduceEnds(p) \/ TaskCancelled(p)
      PROVE  Listening'
  BY <1>2 DEF Listening, InitReturns, TransformEnds, ProduceEnds, TaskCancelled, running,
              TornDown
<1>3. CASE Start \/ StartRuns \/ StartEnds \/ StartCancelled
  BY <1>3 DEF Listening, Start, StartRuns, StartEnds, StartCancelled, TornDown
<1>4. CASE GatherSettles \/ StartGoesOn \/ OnStartDone
  BY <1>4 DEF Listening, GatherSettles, StartGoesOn, OnStartDone, running, TornDown
<1>5. CASE MainRaises
  BY <1>5 DEF Listening, MainRaises, Flush, TornDown
<1> QED BY <1>1, <1>2, <1>3, <1>4, <1>5, NextCases

LEMMA StepStages ==
  Types /\ Listening /\ Stages /\ [Next]_runnerVars => Stages'
<1> SUFFICES ASSUME Types, Listening, Stages, [Next]_runnerVars PROVE Stages'
  OBVIOUS
<1>1. CASE Aside
  BY <1>1, AsideFrame DEF Stages, Added, tasks, running
<1>2. ASSUME NEW p \in Procs, InitReturns(p) PROVE Stages'
  BY <1>2 DEF Listening, Stages, InitReturns, running
<1>3. CASE Start
  BY <1>3 DEF Stages, Start, tasks, Added
<1>4. CASE StartRuns
  BY <1>4 DEF Stages, StartRuns
<1>5. CASE GatherSettles
  <2>1. /\ UNCHANGED <<transform, produce, start, stage>> /\ gather = "pending"
        /\ stage # "none"
        /\ gather' = "done" => \A p \in Added : Gathered[p] = "done"
    BY <1>5 DEF GatherSettles, tasks
  <2>2. gather' = "done" =>
          /\ stage = "produces" => \A p \in Added : produce[p] = "done"
          /\ stage = "transforms" => \A p \in Added : transform[p] = "done"
    BY <2>1 DEF Gathered
  <2> QED BY <2>1, <2>2 DEF Stages, Added
<1>6. CASE StartGoesOn
  BY <1>6 DEF Stages, StartGoesOn, tasks, Added
<1>7. CASE StartEnds \/ StartCancelled
  BY <1>7 DEF Types, Stages, StartEnds, StartCancelled, tasks, Added
<1>8. CASE OnStartDone
  BY <1>8 DEF Stages, OnStartDone, tasks, running, Added
\* What is through stays so, and no processor is added to a pipeline that runs.
<1>9. ASSUME UNCHANGED <<stage, gather>>, start = "none" => start' = "none",
             start' = "done" => start = "done",
             start' = "none" => start = "none",
             \A p \in Procs : /\ transform'[p] # "none" => transform[p] # "none"
                              /\ transform[p] = "done" => transform'[p] = "done"
                              /\ produce[p] = "done" => produce'[p] = "done"
      PROVE  Stages'
  BY <1>9 DEF Stages, Added
<1>10. CASE MainRaises
  <2>1. UNCHANGED <<stage, gather>>
    BY <1>10 DEF MainRaises
  <2> QED BY <1>9, <1>10, <2>1, CancelEffect DEF Types, TaskStates
<1>11. ASSUME NEW p \in Procs, TransformEnds(p) \/ ProduceEnds(p) \/ TaskCancelled(p)
       PROVE  Stages'
  BY <1>9, <1>11 DEF Types, TransformEnds, ProduceEnds, TaskCancelled, running
<1> QED
  BY <1>1, <1>2, <1>3, <1>4, <1>5, <1>6, <1>7, <1>8, <1>10, <1>11, NextCases

LEMMA StepEndings ==
  Types /\ Listening /\ Stages /\ Endings /\ [Next]_runnerVars => Endings'
<1> SUFFICES ASSUME Types, Listening, Stages, Endings, [Next]_runnerVars PROVE Endings'
  OBVIOUS
<1>1. CASE Aside
  <2>1. start' = start
    BY <1>1, AsideFrame DEF running
  <2>2. ASSUME NEW p \in Procs, Proc(p) \/ InitRaises(p) PROVE Endings'
    BY <2>1, <2>2 DEF Endings, Proc, InitRaises, TornDown
  <2>3. CASE ListenerEnds \/ Reported
    BY <2>1, <2>3 DEF Endings, ListenerEnds, Reported, Settle, TornDown
  <2>4. CASE Connected \/ ConnectFails
    BY <2>1, <2>4 DEF Endings, Listening, Connected, ConnectFails, Flush, TornDown
  <2>5. CASE MainGoesOn \/ MainCloses \/ CancelClosing \/ CancelMain
    BY <2>1, <2>5 DEF Endings, MainGoesOn, MainCloses, CancelClosing, CancelMain, Flush,
                      Settle, TornDown
  <2>6. CASE Flushed \/ FlushTimesOut \/ CancelFlush
    BY <2>1, <2>6 DEF Endings, Flushed, FlushTimesOut, CancelFlush, TornDown
  <2>7. CASE Log \/ Disconnect \/ UNCHANGED runnerVars
    <3>1. UNCHANGED <<ended, main>>
      BY <2>7 DEF Log, Logs, LogSent, LogEnds, LogAnswered, LogBreaks, lifeVars,
                  Disconnect, runnerVars
    <3> QED BY <2>1, <3>1 DEF Endings, TornDown
  <2> QED BY <1>1, <2>2, <2>3, <2>4, <2>5, <2>6, <2>7 DEF Aside
<1>2. ASSUME NEW p \in Procs,
             \/ InitReturns(p) \/ TransformEnds(p) \/ ProduceEnds(p) \/ TaskCancelled(p)
      PROVE  Endings'
  BY <1>2 DEF Endings, InitReturns, TransformEnds, ProduceEnds, TaskCancelled, running,
              TornDown
<1>3. CASE Start
  BY <1>3 DEF Listening, Endings, Start, TornDown
<1>4. CASE StartRuns \/ GatherSettles \/ StartGoesOn
  BY <1>4 DEF Endings, StartRuns, GatherSettles, StartGoesOn, TornDown
<1>5. CASE StartEnds \/ StartCancelled
  BY <1>5 DEF Types, Endings, StartEnds, StartCancelled, TornDown, Outcome
<1>6. CASE OnStartDone
  BY <1>6 DEF Endings, OnStartDone, Settle, running, TornDown
<1>7. CASE MainRaises
  <2>1. main' = "raising" /\ ended' = ended
    BY <1>7 DEF MainRaises, Flush
  <2>2. start' # "running" /\ (start # "running" => start' = start)
    BY <1>7, CancelEffect
  <2> QED BY <2>1, <2>2 DEF Endings, TornDown
<1> QED BY <1>1, <1>2, <1>3, <1>4, <1>5, <1>6, <1>7, NextCases

LEMMA StepLogging == Logging /\ [Next]_runnerVars => Logging'
<1> SUFFICES ASSUME Logging, [Next]_runnerVars PROVE Logging'
  OBVIOUS
<1>1. CASE Logs
  <2>1. pending' \in 0..MaxPending
    BY <1>1, RunnerAssumption DEF Logging, Logs, RunnerAssumption
  <2>2. ~marked /\ UNCHANGED <<main, marked, logTask, gaveUp>>
    BY <1>1 DEF Logs, lifeVars
  <2> QED BY <2>1, <2>2 DEF Logging, TornDown, Over
<1>2. CASE LogSent
  <2>1. pending' \in 0..MaxPending
    BY <1>2, RunnerAssumption DEF Logging, LogSent, RunnerAssumption
  <2>2. logTask = "streaming" /\ UNCHANGED <<main, marked, logTask, gaveUp>>
    BY <1>2 DEF LogSent, lifeVars
  <2> QED BY <2>1, <2>2 DEF Logging, TornDown, Over
<1>3. CASE LogEnds \/ LogAnswered \/ LogBreaks
  BY <1>3 DEF Logging, LogEnds, LogAnswered, LogBreaks, lifeVars, TornDown, Over
<1>4. CASE Flushed \/ FlushTimesOut \/ CancelFlush
  <2>1. /\ TornDown /\ TornDown' /\ UNCHANGED <<pending, marked, logTask>>
        /\ (gaveUp' = gaveUp /\ logTask \in {"done", "broken"}) \/ gaveUp' = TRUE
    BY <1>4 DEF Flushed, FlushTimesOut, CancelFlush, logVars, TornDown
  <2>2. gaveUp' \in BOOLEAN
    BY <2>1 DEF Logging
  <2> QED BY <2>1, <2>2 DEF Logging
<1>5. ASSUME Flush("raising") \/ Flush("flushing") PROVE Logging'
  BY <1>5 DEF Logging, Flush, TornDown, Over
<1>6. CASE ConnectFails \/ MainRaises \/ MainCloses \/ CancelClosing
  BY <1>5, <1>6 DEF ConnectFails, MainRaises, MainCloses, CancelClosing
\* The other steps neither log nor tear down.
<1>7. ASSUME UNCHANGED <<pending, marked, logTask, gaveUp>>,
             TornDown' = TornDown, Over' => Over
      PROVE  Logging'
  BY <1>7 DEF Logging
<1>8. CASE Connected \/ MainGoesOn \/ CancelMain
  BY <1>7, <1>8 DEF Connected, MainGoesOn, CancelMain, logVars, TornDown, Over
<1>9. ASSUME UNCHANGED <<main, logVars>> PROVE Logging'
  BY <1>7, <1>9 DEF logVars, TornDown, Over
<1>10. ASSUME NEW p \in Procs,
              \/ Proc(p) \/ InitRaises(p) \/ InitReturns(p) \/ TransformEnds(p)
              \/ ProduceEnds(p) \/ TaskCancelled(p)
       PROVE  Logging'
  BY <1>9, <1>10 DEF Proc, InitRaises, InitReturns, TransformEnds, ProduceEnds, TaskCancelled
<1>11. CASE \/ Reported \/ ListenerEnds \/ Start \/ StartRuns \/ GatherSettles
            \/ StartGoesOn \/ StartEnds \/ StartCancelled \/ OnStartDone
  BY <1>9, <1>11 DEF Reported, ListenerEnds, Start, StartRuns, GatherSettles, StartGoesOn,
                     StartEnds, StartCancelled, OnStartDone
<1>12. CASE Disconnect \/ UNCHANGED runnerVars
  BY <1>9, <1>12 DEF Disconnect, runnerVars
<1> QED
  BY <1>1, <1>2, <1>3, <1>4, <1>6, <1>8, <1>10, <1>11, <1>12, NextCases DEF Aside, Log
-----------------------------------------------------------------------------
(* The theorems *)

LEMMA Invariance == Spec => []RunnerInv
<1>1. RunnerInv /\ [Next]_runnerVars => RunnerInv'
  BY StepTypes, StepListening, StepStages, StepEndings, StepLogging DEF RunnerInv
<1> QED BY InitRunnerInv, <1>1, PTL DEF Spec

\* runner.py: the variables hold what the code can put in them; only a processor
\* that was added produces, and one is initialised at a time.
THEOREM TypeCorrect == Spec => []TypeOK
<1>1. RunnerInv => TypeOK
  <2> SUFFICES ASSUME RunnerInv PROVE TypeOK
    OBVIOUS
  <2>T. Types /\ Logging
    BY DEF RunnerInv
  <2>1. initing \subseteq Procs /\ Cardinality(initing) <= 1
    <3>1. initing = {} \/ \E p \in Procs : initing = {p}
      BY <2>T DEF Types
    <3>2. CASE initing = {}
      BY <3>2, FS_EmptySet
    <3>3. ASSUME NEW p \in Procs, initing = {p}
          PROVE  initing \subseteq Procs /\ Cardinality(initing) <= 1
      <4>1. Cardinality(initing) = 1
        BY <3>3, FS_Singleton
      <4> QED BY <3>3, <4>1
    <3> QED BY <3>1, <3>2, <3>3
  <2>2. \A p \in Procs : produce[p] # "none" => p \in Added
    BY <2>T DEF Types, Added
  <2> QED BY <2>T, <2>1, <2>2 DEF TypeOK, Types, Logging
<1> QED BY Invariance, <1>1, PTL

\* runner.py:185-187, 228-298: run() returns normally only when every processor that
\* was added is through with produce() and transform(), without a failure.
THEOREM NormalReturnIsComplete == Spec => []CleanReturn
<1>1. RunnerInv => CleanReturn
  BY DEF RunnerInv, CleanReturn, Endings, Stages
<1> QED BY Invariance, <1>1, PTL

\* runner.py:208-221: when the run is over everything that was logged has been
\* sent, unless the log stream broke or the flush was given up.
THEOREM LogsAreFlushed == Spec => []TrailingLogsSent
<1>1. RunnerInv => TrailingLogsSent
  BY DEF RunnerInv, TrailingLogsSent, Logging
<1> QED BY Invariance, <1>1, PTL

\* runner.py:290-309: once the run is torn down no processor is added or started.
THEOREM NothingIsStartedLate == Spec => NothingStartsAfterwards
<1> DEFINE Quiet == TornDown => \A p \in Procs :
               /\ transform[p] = "none" => transform'[p] = "none"
               /\ produce[p] = "none" => produce'[p] = "none"
<1>1. RunnerInv /\ [Next]_runnerVars => [Quiet]_runnerVars
  <2> SUFFICES ASSUME RunnerInv, [Next]_runnerVars, TornDown, NEW p \in Procs
               PROVE  /\ transform[p] = "none" => transform'[p] = "none"
                      /\ produce[p] = "none" => produce'[p] = "none"
    OBVIOUS
  <2>T. Types /\ listener \in {"none", "over"} /\ start # "running"
    BY DEF RunnerInv, Listening, Endings
  <2>1. CASE Aside
    BY <2>1, AsideFrame DEF tasks
  <2>2. ~Start /\ ~StartRuns /\ \A q \in Procs : ~InitReturns(q)
    BY <2>T DEF Start, StartRuns, InitReturns
  <2>3. CASE GatherSettles \/ StartGoesOn \/ StartEnds \/ StartCancelled \/ OnStartDone
    BY <2>3 DEF GatherSettles, StartGoesOn, StartEnds, StartCancelled, OnStartDone, tasks
  <2>4. CASE MainRaises
    BY <2>T, <2>4, CancelEffect
  <2>5. ASSUME NEW q \in Procs, TransformEnds(q) \/ ProduceEnds(q) \/ TaskCancelled(q)
        PROVE  /\ transform[p] = "none" => transform'[p] = "none"
               /\ produce[p] = "none" => produce'[p] = "none"
    BY <2>T, <2>5 DEF Types, TransformEnds, ProduceEnds, TaskCancelled
  <2> QED BY <2>1, <2>2, <2>3, <2>4, <2>5, NextCases
<1>2. [][Quiet]_runnerVars => NothingStartsAfterwards
  BY DEF NothingStartsAfterwards
<1> QED BY Invariance, <1>1, <1>2, PTL DEF Spec
=============================================================================

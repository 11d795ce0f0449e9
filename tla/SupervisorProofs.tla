--------------------------- MODULE SupervisorProofs ---------------------------
(***************************************************************************)
(* Proofs about Supervisor, for every set of orphans and configurations    *)
(* and every bound on signals and restarts.                                *)
(*                                                                         *)
(* The argument: until doMain sends its first request nothing reaps        *)
(* (NoEarlyReaping), and afterwards doMain has no child but ffstsummary    *)
(* (OneCommand), which it runs only if its last step fails; the            *)
(* stopping goroutine exists only after startupCtx is cancelled            *)
(* (StartupFirst), is started once (StopOnce), and alone cancels           *)
(* shutdownCtx, which precedes the close (ShutdownOrder).  The readiness   *)
(* file is absent throughout start-up (ReadyCleared), which does not end   *)
(* well without strmqm (StrmqmOnce).                                       *)
(***************************************************************************)
EXTENDS Supervisor, TLAPS

\* Type correctness is preserved by every step.
LEMMA TypeStep == TypeOK /\ [Next]_vars => TypeOK'
<1> USE DEF TypeOK, mainVars, sigVars, taskVars, envVars, DiagnosisStages, AfterDiagnosis
<1> SUFFICES ASSUME TypeOK, Next PROVE TypeOK'
  BY DEF vars
<1>1. CASE MainCheckFails
  BY <1>1 DEF MainCheckFails, MainStages, StartupStages, CommandStages, AfterCommand,
      DeferStages
<1>2. CASE MainCheck
  BY <1>2 DEF MainCheck, MainStages, StartupStages, CommandStages, AfterCommand,
      DeferStages
<1>3. CASE MainRun
  BY <1>3 DEF MainRun, MainStages, StartupStages, CommandStages, AfterCommand,
      DeferStages, ProcStates, Procs, Owners
<1>4. CASE MainCommandOK
  BY <1>4 DEF MainCommandOK, Return, BeforeMirroring, MainStages, StartupStages, CommandStages,
      AfterCommand, DeferStages, ProcStates, Procs, Owners
<1>5. CASE MainCommandFails
  BY <1>5 DEF MainCommandFails, Fail, Return, BeforeMirroring, MainStages, StartupStages, CommandStages,
      AfterCommand, DeferStages, ProcStates, Procs, Owners
<1>6. CASE MainMirror
  <2>1. mpc \in {"webmirror", "qmmirror", "mqscmirror"}
    BY <1>6 DEF MainMirror, SourceOf
  <2>2. AfterMirror[mpc] \in MainStages
    BY <2>1 DEF AfterMirror, MainStages, StartupStages, CommandStages, AfterCommand, DeferStages
  <2>3. SourceOf[mpc] \in Sources
    BY <2>1 DEF SourceOf, Sources
  <2> QED
    BY <1>6, <2>2, <2>3 DEF MainMirror
<1>7. CASE MainFails
  BY <1>7 DEF MainFails, Fail, Return, BeforeMirroring, MainStages, StartupStages, CommandStages,
      AfterCommand, DeferStages, SourceOf
<1>8. CASE MainProbes
  BY <1>8 DEF MainProbes, MainStages, StartupStages, CommandStages, AfterCommand,
      DeferStages
<1>9. CASE MainMetrics
  BY <1>9 DEF MainMetrics, MainStages, StartupStages, CommandStages, AfterCommand,
      DeferStages
<1>10. CASE MainComplete
  BY <1>10 DEF MainComplete, MainStages, StartupStages, CommandStages, AfterCommand,
      DeferStages
<1>11. CASE MainReady
  BY <1>11 DEF MainReady, Fail, Return, BeforeMirroring, MainStages, StartupStages, CommandStages,
      AfterCommand, DeferStages
<1>12. CASE MainStopped
  BY <1>12 DEF MainStopped, MainStages, StartupStages, CommandStages, AfterCommand,
      DeferStages
<1>13. CASE MainProbeWait
  BY <1>13 DEF MainProbeWait, Return, BeforeMirroring, MainStages, StartupStages, CommandStages,
      AfterCommand, DeferStages
<1>14. CASE MainDefer
  BY <1>14 DEF MainDefer, MainStages, StartupStages, CommandStages, AfterCommand,
      DeferStages
<1>15. CASE MainExit
  BY <1>15 DEF MainExit, MainStages, StartupStages, CommandStages, AfterCommand,
      DeferStages
<1>16. CASE SendStartReaping
  BY <1>16 DEF SendStartReaping, Receiving, MainStages, StartupStages, CommandStages,
      AfterCommand, DeferStages
<1>17. CASE SendReapNow
  BY <1>17 DEF SendReapNow, Receiving, MainStages, StartupStages, CommandStages,
      AfterCommand, DeferStages
<1>18. CASE HandleStop
  BY <1>18 DEF HandleStop, stopTriggered
<1>19. CASE StopListening
  BY <1>19 DEF StopListening
<1>20. CASE DrainDone
  BY <1>20 DEF DrainDone
<1>21. CASE StopMetrics
  BY <1>21 DEF StopMetrics
<1>22. CASE HandleShutdown
  BY <1>22 DEF HandleShutdown
<1>23. CASE HandleChild
  BY <1>23 DEF HandleChild
<1>24. CASE ReapEnd
  BY <1>24 DEF ReapEnd
<1>25. CASE StopRun
  BY <1>25 DEF StopRun, ProcStates, Procs, Owners
<1>26. CASE StopWait
  BY <1>26 DEF StopWait, ProcStates, Procs, Owners
<1>27. CASE GatherRun
  BY <1>27 DEF GatherRun, ProcStates, Procs, Owners
<1>28. CASE GatherWait
  BY <1>28 DEF GatherWait, ProcStates, Procs, Owners
<1>29. CASE GatherRetry
  BY <1>29 DEF GatherRetry
<1>30. CASE WebRun
  BY <1>30 DEF WebRun, ProcStates, Procs, Owners
<1>31. CASE WebWait
  BY <1>31 DEF WebWait, ProcStates, Procs, Owners
<1>32. CASE StopSignal
  BY <1>32, BoundAssumption DEF StopSignal, MainStages, StartupStages, CommandStages,
      AfterCommand, DeferStages
<1>33. CASE Crash
  BY <1>33 DEF Crash, MainStages, StartupStages, CommandStages, AfterCommand,
      DeferStages
<1>34. CASE Restart
  BY <1>34, BoundAssumption DEF Restart, MainStages, StartupStages, CommandStages,
      AfterCommand, DeferStages, ProcStates, Procs, Owners
<1>35. CASE Stopped
  BY <1>35 DEF Stopped, vars
<1>36. ASSUME NEW p \in Procs, ReapOne(p) PROVE TypeOK'
  BY <1>36 DEF ReapOne, Zombie, ProcStates
<1>37. ASSUME NEW m \in Sources, MirrorEnds(m) PROVE TypeOK'
  BY <1>37 DEF MirrorEnds
<1>38. ASSUME NEW p \in Procs, NEW o \in {"ok", "err"}, ChildExits(p, o) PROVE TypeOK'
  BY <1>38 DEF ChildExits, ProcStates
<1>39. ASSUME NEW p \in Orphans, OrphanArrives(p) PROVE TypeOK'
  BY <1>39 DEF OrphanArrives, ProcStates, Procs, Owners
<1>40. CASE DiagnoseRun
  BY <1>40 DEF DiagnoseRun, ProcStates, Procs, Owners
<1>41. CASE DiagnoseWait
  BY <1>41 DEF DiagnoseWait, MainStages, StartupStages, CommandStages, AfterCommand,
      DeferStages, ProcStates, Procs, Owners
<1> HIDE DEF TypeOK, mainVars, sigVars, taskVars, envVars, DiagnosisStages, AfterDiagnosis
<1> QED
  BY <1>1, <1>2, <1>3, <1>4, <1>5, <1>6, <1>7, <1>8, <1>9, <1>10, <1>11, <1>12, <1>13,
      <1>14, <1>15, <1>16, <1>17, <1>18, <1>19, <1>20, <1>21, <1>22, <1>23, <1>24,
      <1>25, <1>26, <1>27, <1>28, <1>29, <1>30, <1>31, <1>32, <1>33, <1>34, <1>35,
      <1>36, <1>37, <1>38, <1>39, <1>40, <1>41 DEF Next, MainStep, ControlStep, SignalStep, ReapStep,
      TaskStep, EnvStep

\* The variables have their types in every reachable state of runmqserver.
THEOREM TypeCorrect == Spec => []TypeOK
<1>1. Init => TypeOK
  BY BoundAssumption DEF Init, Fresh, TypeOK, MainStages, StartupStages, ProcStates
<1> QED
  BY <1>1, TypeStep, PTL DEF Spec

-------------------------------------------------------------------------------
Strengthening ==
    /\ StartupStatusKept
    /\ OneCommand
    /\ NoEarlyReaping
    /\ StartupFirst
    /\ StopOnce
    /\ ShutdownOrder
    /\ StrmqmOnce
    /\ ReadyCleared
    /\ ReadyMeansStarted

\* The strengthening is preserved by every step of every thread, of the
\* children and of the platform.
LEMMA StrengtheningStep == TypeOK /\ Strengthening /\ [Next]_vars => Strengthening'
<1> USE DEF TypeOK, Strengthening, StartupStatusKept, OneCommand, NoEarlyReaping,
        StartupFirst, StopOnce, Stopping, ShutdownOrder, StrmqmOnce, Alive, Started,
        ReadyCleared, ReadyMeansStarted, BeforeReaping, MainStages, StartupStages,
        CommandStages, AfterCommand, DiagnosisStages, AfterDiagnosis, DeferStages,
        mainVars, sigVars, taskVars, envVars
<1> SUFFICES ASSUME TypeOK, Strengthening, Next PROVE Strengthening'
  BY DEF vars
<1>1. CASE MainCheckFails
  BY <1>1 DEF MainCheckFails
<1>2. CASE MainCheck
  BY <1>2 DEF MainCheck
<1>3. CASE MainRun
  BY <1>3 DEF MainRun, ProcStates, Procs, Owners
<1>4. CASE MainCommandOK
  BY <1>4 DEF MainCommandOK, Return, BeforeMirroring, ProcStates, Procs, Owners
<1>5. CASE MainCommandFails
  BY <1>5 DEF MainCommandFails, Fail, Return, BeforeMirroring, ProcStates, Procs, Owners
<1>6. CASE MainMirror
  BY <1>6 DEF MainMirror, SourceOf, AfterMirror
<1>7. CASE MainFails
  BY <1>7 DEF MainFails, Fail, Return, BeforeMirroring, SourceOf, AfterMirror
<1>8. CASE MainProbes
  BY <1>8 DEF MainProbes
<1>9. CASE MainMetrics
  BY <1>9 DEF MainMetrics
<1>10. CASE MainComplete
  BY <1>10 DEF MainComplete
<1>11. CASE MainReady
  BY <1>11 DEF MainReady, Fail, Return, BeforeMirroring
<1>12. CASE MainStopped
  BY <1>12 DEF MainStopped
<1>13. CASE MainProbeWait
  BY <1>13 DEF MainProbeWait, Return, BeforeMirroring
<1>14. CASE MainDefer
  BY <1>14 DEF MainDefer
<1>15. CASE MainExit
  BY <1>15 DEF MainExit
<1>16. CASE SendStartReaping
  BY <1>16 DEF SendStartReaping, Receiving
<1>17. CASE SendReapNow
  BY <1>17 DEF SendReapNow, Receiving
<1>18. CASE HandleStop
  BY <1>18 DEF HandleStop, stopTriggered
<1>19. CASE StopListening
  BY <1>19 DEF StopListening
<1>20. CASE DrainDone
  BY <1>20 DEF DrainDone
<1>21. CASE StopMetrics
  BY <1>21 DEF StopMetrics
<1>22. CASE HandleShutdown
  BY <1>22 DEF HandleShutdown
<1>23. CASE HandleChild
  BY <1>23 DEF HandleChild
<1>24. CASE ReapEnd
  BY <1>24 DEF ReapEnd
<1>25. CASE StopRun
  BY <1>25 DEF StopRun, ProcStates, Procs, Owners
<1>26. CASE StopWait
  BY <1>26 DEF StopWait, ProcStates, Procs, Owners
<1>27. CASE GatherRun
  BY <1>27 DEF GatherRun, ProcStates, Procs, Owners
<1>28. CASE GatherWait
  BY <1>28 DEF GatherWait, ProcStates, Procs, Owners
<1>29. CASE GatherRetry
  BY <1>29 DEF GatherRetry
<1>30. CASE WebRun
  BY <1>30 DEF WebRun, ProcStates, Procs, Owners
<1>31. CASE WebWait
  BY <1>31 DEF WebWait, ProcStates, Procs, Owners
<1>32. CASE StopSignal
  BY <1>32 DEF StopSignal
<1>33. CASE Crash
  BY <1>33 DEF Crash
<1>34. CASE Restart
  BY <1>34 DEF Restart, ProcStates, Procs, Owners
<1>35. CASE Stopped
  BY <1>35 DEF Stopped, vars
<1>36. ASSUME NEW p \in Procs, ReapOne(p) PROVE Strengthening'
  BY <1>36, OrphanAssumption DEF ReapOne, Zombie, ProcStates, Procs, Owners
<1>37. ASSUME NEW m \in Sources, MirrorEnds(m) PROVE Strengthening'
  BY <1>37 DEF MirrorEnds
<1>38. ASSUME NEW p \in Procs, NEW o \in {"ok", "err"}, ChildExits(p, o) PROVE Strengthening'
  BY <1>38, OrphanAssumption DEF ChildExits, ProcStates, Procs, Owners
<1>39. ASSUME NEW p \in Orphans, OrphanArrives(p) PROVE Strengthening'
  BY <1>39, OrphanAssumption DEF OrphanArrives, ProcStates, Procs, Owners
<1>40. CASE DiagnoseRun
  BY <1>40 DEF DiagnoseRun, ProcStates, Procs, Owners
<1>41. CASE DiagnoseWait
  BY <1>41 DEF DiagnoseWait, ProcStates, Procs, Owners
<1> HIDE DEF TypeOK, Strengthening, StartupStatusKept, OneCommand, NoEarlyReaping,
        StartupFirst, StopOnce, Stopping, ShutdownOrder, StrmqmOnce, Alive, Started,
        ReadyCleared, ReadyMeansStarted, BeforeReaping, MainStages, StartupStages,
        CommandStages, AfterCommand, DiagnosisStages, AfterDiagnosis, DeferStages,
        mainVars, sigVars, taskVars, envVars
<1> QED
  BY <1>1, <1>2, <1>3, <1>4, <1>5, <1>6, <1>7, <1>8, <1>9, <1>10, <1>11, <1>12, <1>13,
      <1>14, <1>15, <1>16, <1>17, <1>18, <1>19, <1>20, <1>21, <1>22, <1>23, <1>24,
      <1>25, <1>26, <1>27, <1>28, <1>29, <1>30, <1>31, <1>32, <1>33, <1>34, <1>35,
      <1>36, <1>37, <1>38, <1>39, <1>40, <1>41 DEF Next, MainStep, ControlStep, SignalStep, ReapStep,
      TaskStep, EnvStep

\* The inductive invariant holds in every reachable state.
THEOREM Inductive == Spec => []IInv
<1>1. Init => Strengthening
  BY DEF Init, Fresh, Strengthening, StartupStatusKept, OneCommand, NoEarlyReaping,
      StartupFirst, StopOnce, Stopping, ShutdownOrder, StrmqmOnce, Started,
      ReadyCleared, ReadyMeansStarted, BeforeReaping, StartupStages, CommandStages,
      AfterCommand, DiagnosisStages, AfterDiagnosis, Procs, Owners
<1>2. TypeOK /\ Strengthening => IInv
  BY DEF Strengthening, IInv
<1> QED
  BY <1>1, <1>2, TypeCorrect, StrengtheningStep, PTL DEF Spec

-------------------------------------------------------------------------------
\* doMain never sends on the control channel after signalHandler closed it.
THEOREM ControlSafe == Spec => []NoSendOnClosedControl
<1>1. IInv => NoSendOnClosedControl
  BY DEF IInv, ShutdownOrder, StartupFirst, StartupStages, NoSendOnClosedControl
<1> QED
  BY <1>1, Inductive, PTL

\* reapZombies never takes the status of a command that decides about start-up: of doMain's
\* commands only ffstsummary can lose it, after a failure to write the readiness file.
THEOREM StartupStatusSafe == Spec => []StartupStatusKept
<1>1. IInv => StartupStatusKept
  BY DEF IInv
<1> QED
  BY <1>1, Inductive, PTL

\* stopQueueManager never runs next to a start-up command of doMain; only the diagnostics of
\* a failed ready.Set may run beside it.
THEOREM MutualExclusion == Spec => []StartupExcludesShutdown
<1>1. IInv => StartupExcludesShutdown
  BY DEF IInv, OneCommand, StartupFirst, StartupStages, DiagnosisStages, AfterDiagnosis,
      StartupExcludesShutdown
<1> QED
  BY <1>1, Inductive, PTL

\* The control channel is closed only after stopQueueManager has returned.
THEOREM CloseOrder == Spec => []ClosedAfterStop
<1>1. IInv => ClosedAfterStop
  BY DEF IInv, ShutdownOrder, StartupFirst, ClosedAfterStop
<1> QED
  BY <1>1, Inductive, PTL

\* The readiness file never speaks of a queue manager of an earlier life.
THEOREM ReadySafe == Spec => []ReadyMeansStarted
<1>1. IInv => ReadyMeansStarted
  BY DEF IInv
<1> QED
  BY <1>1, Inductive, PTL

-------------------------------------------------------------------------------
\* No mirror runs before the first one is started, nor once wg.Wait has returned.
NoMirror == mpc \in {"check", "volumes", "tls", "ffstEarly", "unwind", "return", "exited"} => mirrors = {}

\* A step that leaves the mirrors alone comes to a stage without mirrors only from such a
\* stage, or through wg.Wait.
LEMMA NoMirrorStep == NoMirror /\ [Next]_vars => NoMirror'
<1> SUFFICES ASSUME NoMirror, Next PROVE NoMirror'
  BY DEF vars, mainVars, NoMirror
<1> USE DEF NoMirror, mainVars
<1>1. CASE MainCheckFails \/ MainCheck
  BY <1>1 DEF MainCheckFails, MainCheck
<1>2. CASE MainRun \/ MainProbes \/ MainMetrics \/ MainComplete \/ MainStopped \/ MainExit
      \/ DiagnoseRun
  BY <1>2 DEF DiagnoseRun, MainRun, MainProbes, MainMetrics, MainComplete, MainStopped, MainExit
<1>3. CASE MainCommandOK
  BY <1>3 DEF MainCommandOK, Return, BeforeMirroring, CommandStages, AfterCommand
<1>4. CASE MainCommandFails \/ MainFails \/ MainReady \/ MainProbeWait
  BY <1>4 DEF MainCommandFails, MainFails, MainReady, MainProbeWait, Fail, Return, BeforeMirroring
<1>5. CASE MainMirror
  BY <1>5 DEF MainMirror, SourceOf, AfterMirror
<1>6. CASE MainDefer
  BY <1>6 DEF MainDefer
<1>7. CASE ControlStep
  BY <1>7 DEF ControlStep, SendStartReaping, SendReapNow
<1>8. CASE SignalStep
  BY <1>8 DEF SignalStep, ReapStep, HandleStop, StopListening, DrainDone, StopMetrics,
      HandleShutdown, HandleChild, ReapEnd, ReapOne
<1>9. CASE TaskStep
  BY <1>9 DEF TaskStep, StopRun, StopWait, GatherRun, GatherWait, GatherRetry, WebRun,
      WebWait, MirrorEnds
<1>10. CASE StopSignal \/ Crash \/ Restart \/ Stopped
  BY <1>10 DEF StopSignal, Crash, Restart, Stopped, vars
<1>11. ASSUME NEW p \in Procs, NEW o \in {"ok", "err"}, ChildExits(p, o) PROVE NoMirror'
  BY <1>11 DEF ChildExits
<1>12. ASSUME NEW p \in Orphans, OrphanArrives(p) PROVE NoMirror'
  BY <1>12 DEF OrphanArrives
<1>13. CASE DiagnoseWait
  BY <1>13 DEF DiagnoseWait, DiagnosisStages, AfterDiagnosis
<1> QED
  BY <1>1, <1>2, <1>3, <1>4, <1>5, <1>6, <1>7, <1>8, <1>9, <1>10, <1>11, <1>12, <1>13
     DEF Next, MainStep, EnvStep

\* doMain returns only when every log mirror has ended, also when start-up fails before or
\* after some of the mirrors are started.
THEOREM MirrorsSafe == Spec => []MirrorsDrained
<1>1. Init => NoMirror
  BY DEF Init, Fresh, NoMirror
<1>2. NoMirror => MirrorsDrained
  BY DEF NoMirror, MirrorsDrained
<1> QED
  BY <1>1, <1>2, NoMirrorStep, PTL DEF Spec

-------------------------------------------------------------------------------
\* Every step of the threads, the children and the platform is a step of the
\* life cycle promised to the platform, or none.
LEMMA LifecycleStep == IInv /\ [Next]_vars => [Abs!Next]_Abs!vars
<1> DEFINE Goal == [Abs!Next]_Abs!vars
<1> USE DEF IInv, TypeOK, StartupStatusKept, OneCommand, StartupFirst, StrmqmOnce,
        ReadyCleared, StopOnce, Alive, LifePhase, Started, MainStages, StartupStages, CommandStages,
        AfterCommand, DiagnosisStages, AfterDiagnosis, DeferStages, mainVars, sigVars, taskVars, envVars, Abs!Next,
        Abs!vars, Abs!ClearReady, Abs!StartQM, Abs!Release, Abs!MarkReady, Abs!EndQM,
        Abs!Exit, Abs!Restart
<1> SUFFICES ASSUME IInv, Next PROVE Goal
  BY DEF vars
<1>1. CASE MainCheckFails
  BY <1>1 DEF MainCheckFails
<1>2. CASE MainCheck
  BY <1>2 DEF MainCheck
<1>3. CASE MainRun
  BY <1>3 DEF MainRun, Procs, Owners, ProcStates
<1>4. CASE MainCommandOK
  BY <1>4 DEF MainCommandOK, Return, BeforeMirroring, Procs, Owners, ProcStates
<1>5. CASE MainCommandFails
  BY <1>5 DEF MainCommandFails, Fail, Return, BeforeMirroring, Procs, Owners, ProcStates
<1>6. CASE MainMirror
  BY <1>6 DEF MainMirror, SourceOf, AfterMirror
<1>7. CASE MainFails
  BY <1>7 DEF MainFails, Fail, Return, BeforeMirroring, SourceOf, AfterMirror
<1>8. CASE MainProbes
  BY <1>8 DEF MainProbes
<1>9. CASE MainMetrics
  BY <1>9 DEF MainMetrics
<1>10. CASE MainComplete
  BY <1>10 DEF MainComplete
<1>11. CASE MainReady
  BY <1>11 DEF MainReady, Fail, Return, BeforeMirroring
<1>12. CASE MainStopped
  BY <1>12 DEF MainStopped
<1>13. CASE MainProbeWait
  BY <1>13 DEF MainProbeWait, Return, BeforeMirroring
<1>14. CASE MainDefer
  BY <1>14 DEF MainDefer
<1>15. CASE MainExit
  BY <1>15 DEF MainExit
<1>16. CASE SendStartReaping
  BY <1>16 DEF SendStartReaping, Receiving
<1>17. CASE SendReapNow
  BY <1>17 DEF SendReapNow, Receiving
<1>18. CASE HandleStop
  BY <1>18 DEF HandleStop, stopTriggered
<1>19. CASE StopListening
  BY <1>19 DEF StopListening
<1>20. CASE DrainDone
  BY <1>20 DEF DrainDone
<1>21. CASE StopMetrics
  BY <1>21 DEF StopMetrics
<1>22. CASE HandleShutdown
  BY <1>22 DEF HandleShutdown
<1>23. CASE HandleChild
  BY <1>23 DEF HandleChild
<1>24. CASE ReapEnd
  BY <1>24 DEF ReapEnd
<1>25. CASE StopRun
  BY <1>25 DEF StopRun, Procs, Owners, ProcStates
<1>26. CASE StopWait
  BY <1>26 DEF StopWait, Procs, Owners, ProcStates
<1>27. CASE GatherRun
  BY <1>27 DEF GatherRun, Procs, Owners, ProcStates
<1>28. CASE GatherWait
  BY <1>28 DEF GatherWait, Procs, Owners, ProcStates
<1>29. CASE GatherRetry
  BY <1>29 DEF GatherRetry
<1>30. CASE WebRun
  BY <1>30 DEF WebRun, Procs, Owners, ProcStates
<1>31. CASE WebWait
  BY <1>31 DEF WebWait, Procs, Owners, ProcStates
<1>32. CASE StopSignal
  BY <1>32 DEF StopSignal
<1>33. CASE Crash
  BY <1>33 DEF Crash
<1>34. CASE Restart
  BY <1>34 DEF Restart, Procs, Owners, ProcStates
<1>35. CASE Stopped
  BY <1>35 DEF Stopped, vars
<1>36. ASSUME NEW p \in Procs, ReapOne(p) PROVE Goal
  BY <1>36 DEF ReapOne, Zombie, Procs, Owners, ProcStates
<1>37. ASSUME NEW m \in Sources, MirrorEnds(m) PROVE Goal
  BY <1>37 DEF MirrorEnds
<1>38. ASSUME NEW p \in Procs, NEW o \in {"ok", "err"}, ChildExits(p, o) PROVE Goal
  BY <1>38 DEF ChildExits, Procs, Owners, ProcStates
<1>39. ASSUME NEW p \in Orphans, OrphanArrives(p) PROVE Goal
  BY <1>39 DEF OrphanArrives, Procs, Owners, ProcStates
<1>40. CASE DiagnoseRun
  BY <1>40 DEF DiagnoseRun, ProcStates, Procs, Owners
<1>41. CASE DiagnoseWait
  BY <1>41 DEF DiagnoseWait, ProcStates, Procs, Owners
<1> QED
  BY <1>1, <1>2, <1>3, <1>4, <1>5, <1>6, <1>7, <1>8, <1>9, <1>10, <1>11, <1>12, <1>13,
      <1>14, <1>15, <1>16, <1>17, <1>18, <1>19, <1>20, <1>21, <1>22, <1>23, <1>24,
      <1>25, <1>26, <1>27, <1>28, <1>29, <1>30, <1>31, <1>32, <1>33, <1>34, <1>35,
      <1>36, <1>37, <1>38, <1>39, <1>40, <1>41 DEF Next, MainStep, ControlStep, SignalStep, ReapStep,
      TaskStep, EnvStep

\* runmqserver implements the life cycle: the queue manager is started only
\* during start-up, ended only after it, and readiness is never stale.
THEOREM Implementation == Spec => ImplementsLifecycle
<1>1. Init => Abs!Init
  BY DEF Init, Fresh, Abs!Init, LifePhase, Alive
<1> QED
  BY <1>1, LifecycleStep, Inductive, PTL DEF Spec, ImplementsLifecycle, Abs!Spec
==============================================================================

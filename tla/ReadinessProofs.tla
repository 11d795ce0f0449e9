---------------------------- MODULE ReadinessProofs -----------------------------
(***************************************************************************)
(* Theorems about the readiness files and the commands that answer from    *)
(* them, for any number of startup probes at a time, any time-out, and any *)
(* number of faults and restarts.                                          *)
(***************************************************************************)
EXTENDS Readiness, TLAPS

Before == {"unused", "clear", "clearSync", "clean", "strmqm"}
After == {"configuring", "ready"}

\* The queue manager and the probes that have got past dspmq belong to a life in which
\* strmqm has been run.
RunsAfterStart ==
    /\ process1 \in Before => qmStatus = "down"
    /\ process1 \in After => upFor \in Ages
    /\ \A p \in StartupProbes : started[p].at # "no" => process1 \in After

\* From the moment the files have been cleared, no time that is in the file or that a
\* probe has taken or read is before the start of the queue manager.
TimesOfThisLife ==
    /\ process1 = "strmqm" => syncFile = Absent
    /\ process1 \in After => syncFile <= upFor
    /\ \A p \in StartupProbes :
         started[p].at \in {"create", "write", "compare"} => started[p].age <= upFor

\* The readiness file is there after it was set or before it is cleared; a run of
\* chkmqready that has seen it has looked at one of these moments.
ReadyFileTruthful ==
    /\ readyFile => process1 \in {"clear", "ready"}
    /\ readyRun.at # "no" /\ ~readyRun.early => process1 = "ready"

\* The inductive invariant.
ReadinessIInv == RunsAfterStart /\ TimesOfThisLife /\ ReadyFileTruthful /\ TimeoutCounted

-------------------------------------------------------------------------------
\* An age stays an age.
LEMMA OlderAge ==
    ASSUME NEW age \in {Absent, Empty} \cup Ages
    PROVE  /\ Older(age) \in {Absent, Empty} \cup Ages
           /\ age \in Ages => Older(age) \in Ages
           /\ age = Absent => Older(age) = Absent
           /\ age <= Older(age)
           /\ \A b \in {Absent, Empty} \cup Ages : age <= b /\ b \in Ages => Older(age) <= Older(b)
  BY TimeoutAssumption DEF Older, Ages, Absent, Empty

\* One step of doMain, of the queue manager or of a probe keeps the types.
LEMMA ReadinessTypeStep ==
    ASSUME ReadinessTypeOK, [ReadinessNext]_readinessVars
    PROVE  ReadinessTypeOK'
<1> USE TimeoutAssumption DEF ReadinessTypeOK, fileState, lifeVars, Stages, UpStatuses, Runs,
      NoRun, NoReadyRun, StartedPlaces, StartedAnswers, ReadyAnswers
<1>1. CASE MainStep
  <2> USE DEF MainGoes, Ages, Absent, Empty
  <2>1. CASE ClearReady
    BY <2>1, readyFile' \in BOOLEAN DEF ClearReady
  <2>2. CASE ClearReadyToSync
    BY <2>2 DEF ClearReadyToSync
  <2>3. CASE CleanScratch
    BY <2>3, readyFile' \in BOOLEAN DEF CleanScratch
  <2>4. CASE StartQM
    BY <2>4 DEF StartQM
  <2>5. CASE SetReady
    BY <2>5, readyFile' \in BOOLEAN DEF SetReady
  <2> QED
    BY <1>1, <2>1, <2>2, <2>3, <2>4, <2>5 DEF MainStep
<1>2. CASE QMChanges
  BY <1>2 DEF QMChanges
<1>3. CASE Restart
  <2>1. cutOff' \in BOOLEAN
    BY <1>3, Zenon DEF Restart
  <2>2. readyRun' \in [at: {"status", "port"} \cup ReadyAnswers, early: BOOLEAN]
    BY <1>3 DEF Restart
  <2>3. started' \in [StartupProbes -> Runs]
    BY <1>3 DEF Restart, Ages
  <2> QED
    BY <1>3, <2>1, <2>2, <2>3 DEF Restart, Absent
<1>4. CASE Tick
  <2>1. syncFile' \in {Absent, Empty} \cup Ages /\ upFor' \in {Absent} \cup Ages
    BY <1>4, OlderAge DEF Tick
  <2>2. started' \in [StartupProbes -> Runs]
    BY <1>4, OlderAge DEF Tick
  <2> QED
    BY <1>4, <2>1, <2>2 DEF Tick
<1>5. ASSUME NEW p \in StartupProbes, RunStep(p) PROVE ReadinessTypeOK'
  <2> USE DEF StartedKeeps, StartedGoes, NoFault, Ages, Absent, Empty
  <2>1. CASE FindStatus(p)
    BY <2>1 DEF FindStatus
  <2>2. CASE StatReadyToSync(p)
    BY <2>2 DEF StatReadyToSync
  <2>3. CASE CreateReadyToSync(p)
    BY <2>3 DEF CreateReadyToSync
  <2>4. CASE WriteReadyToSync(p)
    BY <2>4 DEF WriteReadyToSync
  <2>5. CASE ReadReadyToSync(p)
    BY <2>5 DEF ReadReadyToSync
  <2>6. CASE Compare(p)
    BY <2>6 DEF Compare
  <2> QED
    BY <1>5, <2>1, <2>2, <2>3, <2>4, <2>5, <2>6 DEF RunStep
<1>6. ASSUME NEW p \in StartupProbes, FindStatusFails(p) \/ WriteFails(p) \/ KillProbe(p)
      PROVE  ReadinessTypeOK'
  <2>1. cutOff' \in BOOLEAN
    BY <1>6, Zenon DEF FindStatusFails, WriteFails, KillProbe
  <2>2. started' \in [StartupProbes -> Runs]
    BY <1>6 DEF FindStatusFails, WriteFails, KillProbe, StartedGoes, Ages
  <2>3. probeFaults' \in 0..MaxProbeFaults
    BY <1>6 DEF FindStatusFails, WriteFails, KillProbe, ProbeFault
  <2> QED
    BY <1>6, <2>1, <2>2, <2>3 DEF FindStatusFails, WriteFails, KillProbe, StartedKeeps
<1>7. CASE Check \/ CheckStatus \/ CheckPort
  <2>1. readyRun' \in [at: {"status", "port"} \cup ReadyAnswers, early: BOOLEAN]
    <3>1. CASE Check
      <4>1. (process1 = "clear") \in BOOLEAN
        BY Zenon
      <4> QED
        BY <3>1, <4>1 DEF Check
    <3>2. CASE CheckStatus \/ CheckPort
      BY <3>2 DEF CheckStatus, CheckPort, ReadyGoes
    <3> QED
      BY <1>7, <3>1, <3>2
  <2> QED
    BY <1>7, <2>1 DEF Check, CheckStatus, CheckPort, ReadyKeeps
<1>8. CASE UNCHANGED readinessVars
  BY <1>8 DEF readinessVars
<1> QED
  BY <1>1, <1>2, <1>3, <1>4, <1>5, <1>6, <1>7, <1>8 DEF ReadinessNext

\* Type correctness of the readiness files and of the runs of both commands: an empty
\* ready-to-sync file, say, is never taken for a time.
THEOREM ReadinessTypeCorrect == ReadinessSpec => []ReadinessTypeOK
<1>1. ReadinessInit => ReadinessTypeOK
  <2> SUFFICES ASSUME ReadinessInit PROVE ReadinessTypeOK
    OBVIOUS
  <2> USE DEF ReadinessInit
  <2>1. nativeHA \in BOOLEAN /\ readyFile \in BOOLEAN /\ cutOff \in BOOLEAN
    BY Zenon
  <2>2. readyRun \in [at: {"status", "port"} \cup ReadyAnswers, early: BOOLEAN]
    BY DEF NoReadyRun, ReadyAnswers
  <2>3. started \in [StartupProbes -> Runs]
    BY TimeoutAssumption DEF NoRun, Runs, StartedPlaces, StartedAnswers, Ages
  <2>4. process1 \in Stages /\ starts \in 0..MaxStarts /\ probeFaults \in 0..MaxProbeFaults
    BY TimeoutAssumption DEF Stages
  <2> QED
    BY <2>1, <2>2, <2>3, <2>4 DEF ReadinessTypeOK
<1> QED
  BY <1>1, ReadinessTypeStep, PTL DEF ReadinessSpec

-------------------------------------------------------------------------------
\* A step of doMain or of the platform keeps the invariant.
LEMMA MainKeeps ==
    ASSUME ReadinessTypeOK, ReadinessIInv, MainStep \/ QMChanges \/ Restart
    PROVE  ReadinessIInv'
<1> USE TimeoutAssumption DEF ReadinessTypeOK, ReadinessIInv, RunsAfterStart, TimesOfThisLife,
      ReadyFileTruthful, TimeoutCounted, Before, After, fileState, lifeVars, Stages, UpStatuses,
      Ages, Absent, Empty, Runs
<1>1. CASE ClearReady
  BY <1>1 DEF ClearReady, MainGoes
<1>2. CASE ClearReadyToSync
  BY <1>2 DEF ClearReadyToSync, MainGoes
<1>3. CASE CleanScratch
  BY <1>3 DEF CleanScratch, MainGoes
<1>4. CASE StartQM
  BY <1>4 DEF StartQM, MainGoes
<1>5. CASE SetReady
  BY <1>5 DEF SetReady, MainGoes
<1>6. CASE QMChanges
  BY <1>6 DEF QMChanges
<1>7. CASE Restart
  BY <1>7 DEF Restart, NoRun, NoReadyRun
<1> QED
  BY <1>1, <1>2, <1>3, <1>4, <1>5, <1>6, <1>7 DEF MainStep

\* The passing of time keeps the order of the points in time.
LEMMA TickKeeps ==
    ASSUME ReadinessTypeOK, ReadinessIInv, Tick
    PROVE  ReadinessIInv'
<1> USE DEF ReadinessTypeOK, ReadinessIInv
<1>1. RunsAfterStart'
  BY OlderAge DEF Tick, RunsAfterStart, Before, After, Runs
<1>2. TimesOfThisLife'
  BY OlderAge DEF Tick, TimesOfThisLife, RunsAfterStart, Before, After, Runs
<1>3. ReadyFileTruthful'
  BY DEF Tick, ReadyFileTruthful
<1>4. TimeoutCounted'
  BY TimeoutAssumption DEF Tick, TimeoutCounted, Older, Runs
<1> QED
  BY <1>1, <1>2, <1>3, <1>4

\* A step of a startup probe keeps the invariant, whatever becomes of the probe.
LEMMA StartedStepKeeps ==
    ASSUME ReadinessTypeOK, ReadinessIInv, NEW p \in StartupProbes,
           RunStep(p) \/ FindStatusFails(p) \/ WriteFails(p) \/ KillProbe(p)
    PROVE  ReadinessIInv'
<1> USE TimeoutAssumption DEF ReadinessTypeOK, ReadinessIInv, RunsAfterStart, TimesOfThisLife,
      TimeoutCounted, Before, After, lifeVars, Stages, UpStatuses, Ages, Absent, Empty, Runs,
      StartedKeeps, StartedGoes
<1>1. CASE FindStatus(p)
  BY <1>1 DEF FindStatus, ReadyFileTruthful
<1>2. CASE StatReadyToSync(p)
  BY <1>2 DEF StatReadyToSync, ReadyFileTruthful
<1>3. CASE CreateReadyToSync(p)
  BY <1>3 DEF CreateReadyToSync, ReadyFileTruthful
<1>4. CASE WriteReadyToSync(p)
  BY <1>4 DEF WriteReadyToSync, ReadyFileTruthful
<1>5. CASE ReadReadyToSync(p)
  BY <1>5 DEF ReadReadyToSync, ReadyFileTruthful
<1>6. CASE Compare(p)
  BY <1>6 DEF Compare, ReadyFileTruthful
<1>7. CASE FindStatusFails(p) \/ WriteFails(p) \/ KillProbe(p)
  BY <1>7 DEF FindStatusFails, WriteFails, KillProbe, ReadyFileTruthful
<1> QED
  BY <1>1, <1>2, <1>3, <1>4, <1>5, <1>6, <1>7 DEF RunStep

\* A step of chkmqready keeps the invariant.
LEMMA ReadyStepKeeps ==
    ASSUME ReadinessTypeOK, ReadinessIInv, Check \/ CheckStatus \/ CheckPort
    PROVE  ReadinessIInv'
<1>1. UNCHANGED <<process1, qmStatus, upFor, syncFile, started, readyFile>>
  BY DEF Check, CheckStatus, CheckPort, ReadyKeeps, lifeVars, fileState
<1>2. RunsAfterStart' /\ TimesOfThisLife' /\ TimeoutCounted'
  BY <1>1 DEF ReadinessIInv, RunsAfterStart, TimesOfThisLife, TimeoutCounted
<1>3. ReadyFileTruthful'
  BY <1>1 DEF ReadinessIInv, ReadyFileTruthful, ReadinessTypeOK, Check, CheckStatus, CheckPort,
     ReadyGoes, NoReadyRun, ReadyAnswers
<1> QED
  BY <1>2, <1>3 DEF ReadinessIInv

\* The files, the probes and the queue manager tell the same life of the container.
THEOREM ReadinessInductive == ReadinessSpec => []ReadinessIInv
<1>1. ReadinessInit => ReadinessIInv
  BY TimeoutAssumption DEF ReadinessInit, ReadinessIInv, RunsAfterStart, TimesOfThisLife,
     ReadyFileTruthful, TimeoutCounted, Before, After, NoRun, NoReadyRun
<1>2. ReadinessTypeOK /\ ReadinessIInv /\ [ReadinessNext]_readinessVars => ReadinessIInv'
  <2> SUFFICES ASSUME ReadinessTypeOK, ReadinessIInv, [ReadinessNext]_readinessVars
               PROVE  ReadinessIInv'
    OBVIOUS
  <2>1. CASE UNCHANGED readinessVars
    BY <2>1 DEF readinessVars, lifeVars, fileState, ReadinessIInv, RunsAfterStart,
       TimesOfThisLife, ReadyFileTruthful, TimeoutCounted
  <2> QED
    BY <2>1, MainKeeps, TickKeeps, StartedStepKeeps, ReadyStepKeeps DEF ReadinessNext
<1> QED
  BY <1>1, <1>2, ReadinessTypeCorrect, PTL DEF ReadinessSpec

\* However many startup probes write the ready-to-sync file at a time, chkmqstarted
\* succeeds by the time-out only if the queue manager of this life is up that long.
THEOREM ReadinessTimeout == ReadinessSpec => []TimeoutCounted
  BY ReadinessInductive, PTL DEF ReadinessIInv

\* chkmqready answers for a configuration that was completed in this life, unless it has
\* looked before the file was cleared.
THEOREM ReadinessTruthful == ReadinessSpec => []ReadyTruthful
<1>1. ReadinessIInv => ReadyTruthful
  BY DEF ReadinessIInv, ReadyFileTruthful, ReadyTruthful
<1> QED
  BY <1>1, ReadinessInductive, PTL
===============================================================================

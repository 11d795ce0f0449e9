-------------------------------- MODULE Readiness -------------------------------
(***************************************************************************)
(* The readiness files (internal/ready/ready.go) and the two commands that *)
(* answer from them: chkmqstarted, for the startup probe, which may run    *)
(* several times at once, and chkmqready, for the readiness probe.         *)
(*                                                                         *)
(* A point in time is its age: seconds that have begun since then, no more *)
(* than the time-out.  The files outlive process 1; probes do not, they    *)
(* run inside the container.                                               *)
(***************************************************************************)
EXTENDS Integers

CONSTANTS
    StartupProbes,      \* runs of chkmqstarted at a time
    Timeout,            \* MQ_NATIVE_HA_IN_SYNC_TIMEOUT, a number; one below 0 acts like 0
    MaxProbeFaults,     \* bound: probes killed, failures of commands and writes
    MaxStarts           \* bound: starts of the container

ASSUME TimeoutAssumption ==
    /\ Timeout \in Nat
    /\ {MaxProbeFaults, MaxStarts} \subseteq Nat

VARIABLES
    process1,       \* the place of doMain
    nativeHA,       \* MQ_NATIVE_HA
    qmStatus,       \* the status of the queue manager
    readyFile,      \* /run/runmqserver/ready exists
    syncFile,       \* /run/runmqserver/ready-to-sync: Absent, Empty or the age of its time
    started,        \* started[p]: a run of chkmqstarted
    readyRun,       \* the run of chkmqready
    starts,         \* starts of the container
    probeFaults,    \* faults so far
    upFor,          \* history: the age of the first start of the queue manager in this life
    cutOff          \* history: a write of ready-to-sync was cut off in this life

fileState == <<readyFile, syncFile>>
lifeVars == <<process1, nativeHA, qmStatus, starts, upFor>>
readinessVars == <<lifeVars, fileState, started, readyRun, probeFaults, cutOff>>

Absent == -2
Empty == -1
Ages == 0..Timeout
Stages == {"unused", "clear", "clearSync", "clean", "strmqm", "configuring", "ready"}
UpStatuses == {"STARTING", "RUNNING", "STANDBY", "REPLICA", "RECOVERY"}
StartedPlaces == {"stat", "create", "write", "read", "compare"}
\* Exit status 0, by the time-out or not, and any other.
StartedAnswers == {"no", "started", "expired"}
Runs == [at: StartedPlaces \cup StartedAnswers, age: Ages]
NoRun == [at |-> "no", age |-> 0]
\* Exit status 0, 10 and any other.
ReadyAnswers == {"no", "ready", "standby"}
NoReadyRun == [at |-> "no", early |-> FALSE]

ReadinessTypeOK ==
    /\ process1 \in Stages /\ nativeHA \in BOOLEAN
    /\ qmStatus \in UpStatuses \cup {"down", "ended"}
    /\ readyFile \in BOOLEAN /\ syncFile \in {Absent, Empty} \cup Ages
    /\ started \in [StartupProbes -> Runs]
    /\ readyRun \in [at: {"status", "port"} \cup ReadyAnswers, early: BOOLEAN]
    /\ starts \in 0..MaxStarts /\ probeFaults \in 0..MaxProbeFaults
    /\ upFor \in {Absent} \cup Ages /\ cutOff \in BOOLEAN

ReadinessInit ==
    /\ \/ process1 = "unused" /\ starts = 0 /\ nativeHA = FALSE
       \/ process1 = "clear" /\ starts = 1 /\ MaxStarts > 0 /\ nativeHA \in BOOLEAN
    /\ qmStatus = "down" /\ upFor = Absent
    /\ readyFile = FALSE /\ syncFile = Absent
    /\ started = [p \in StartupProbes |-> NoRun] /\ readyRun = NoReadyRun
    /\ probeFaults = 0 /\ cutOff = FALSE

-------------------------------------------------------------------------------
(***************************************************************************)
(* Process 1 and the queue manager.                                        *)
(***************************************************************************)

MainGoes(from, to) == process1 = from /\ process1' = to

ClearReady ==
    /\ MainGoes("clear", "clearSync")
    /\ readyFile' = FALSE
    /\ UNCHANGED <<nativeHA, qmStatus, starts, upFor, syncFile, started, readyRun, probeFaults, cutOff>>

ClearReadyToSync ==
    /\ MainGoes("clearSync", "clean")
    /\ syncFile' = Absent
    /\ UNCHANGED <<nativeHA, qmStatus, starts, upFor, readyFile, started, readyRun, probeFaults, cutOff>>

\* cleanVolume("/run/scratch"), where /run/runmqserver points to.
CleanScratch ==
    /\ MainGoes("clean", "strmqm")
    /\ readyFile' = FALSE /\ syncFile' = Absent
    /\ UNCHANGED <<nativeHA, qmStatus, starts, upFor, started, readyRun, probeFaults, cutOff>>

StartQM ==
    /\ MainGoes("strmqm", "configuring")
    /\ qmStatus' = "STARTING" /\ upFor' = 0
    /\ UNCHANGED <<nativeHA, starts, fileState, started, readyRun, probeFaults, cutOff>>

\* What the queue manager becomes, or that it ends, is not up to process 1.
QMChanges ==
    /\ qmStatus \in UpStatuses
    /\ qmStatus' \in {"RUNNING", "ended"}
         \cup IF nativeHA THEN {"REPLICA", "RECOVERY"} ELSE {"STANDBY"}
    /\ qmStatus' # qmStatus
    /\ UNCHANGED <<process1, nativeHA, starts, upFor, fileState, started, readyRun, probeFaults, cutOff>>

\* A fault: the file is written before the queue manager is started.
SetReady_Early ==
    /\ process1 \in {"strmqm", "configuring"} /\ ~readyFile
    /\ process1' = IF process1 = "strmqm" THEN process1 ELSE "ready"
    /\ readyFile' = TRUE
    /\ UNCHANGED <<nativeHA, qmStatus, starts, upFor, syncFile, started, readyRun, probeFaults, cutOff>>

SetReady ==
    /\ MainGoes("configuring", "ready")
    /\ readyFile' = TRUE
    /\ UNCHANGED <<nativeHA, qmStatus, starts, upFor, syncFile, started, readyRun, probeFaults, cutOff>>

\* Process 1 ends, by a failure or by a signal, and the container starts again.
Restart ==
    /\ process1 # "unused"
    /\ starts < MaxStarts
    /\ starts' = starts + 1
    /\ process1' = "clear"
    /\ qmStatus' = "down" /\ upFor' = Absent /\ cutOff' = FALSE
    /\ started' = [p \in StartupProbes |-> NoRun] /\ readyRun' = NoReadyRun
    /\ UNCHANGED <<nativeHA, fileState, probeFaults>>

Older(age) == IF age < 0 \/ age = Timeout THEN age ELSE age + 1

Tick ==
    /\ process1 # "unused"
    /\ syncFile' = Older(syncFile) /\ upFor' = Older(upFor)
    /\ started' = [p \in StartupProbes |->
                     IF started[p].at \in {"create", "write", "compare"}
                       THEN [started[p] EXCEPT !.age = Older(@)] ELSE started[p]]
    /\ UNCHANGED <<process1, nativeHA, qmStatus, starts, readyFile, readyRun, probeFaults, cutOff>>

-------------------------------------------------------------------------------
(***************************************************************************)
(* chkmqstarted                                                            *)
(***************************************************************************)

StartedKeeps == UNCHANGED <<lifeVars, readyFile, readyRun>>
StartedGoes(p, place) == started' = [started EXCEPT ![p] = [at |-> place, age |-> 0]]
NoFault == UNCHANGED <<probeFaults, cutOff>>
Idle(p) == process1 # "unused" /\ started[p].at \in StartedAnswers

\* A fault: the file is made whether or not the queue manager is up.
FindStatus_Anyway(p) ==
    /\ Idle(p)
    /\ \/ nativeHA /\ StartedGoes(p, "stat")
       \/ qmStatus \in UpStatuses /\ StartedGoes(p, "started")
    /\ UNCHANGED syncFile /\ StartedKeeps /\ NoFault

\* A run begins, and dspmq tells that the queue manager is down, or is up or, with
\* Native HA, in sync.
FindStatus(p) ==
    /\ Idle(p)
    /\ \/ qmStatus \notin UpStatuses /\ StartedGoes(p, "no")
       \/ qmStatus \in UpStatuses /\ nativeHA /\ StartedGoes(p, "stat")
       \/ qmStatus \in UpStatuses /\ StartedGoes(p, "started")
    /\ UNCHANGED syncFile /\ StartedKeeps /\ NoFault

ProbeFault == probeFaults < MaxProbeFaults /\ probeFaults' = probeFaults + 1

FindStatusFails(p) ==
    /\ Idle(p)
    /\ ProbeFault
    /\ StartedGoes(p, "no")
    /\ UNCHANGED <<syncFile, cutOff>> /\ StartedKeeps

\* A fault: a time that is in the file is replaced.
StatReadyToSync_Always(p) ==
    /\ started[p].at = "stat"
    /\ StartedGoes(p, "create")
    /\ UNCHANGED syncFile /\ StartedKeeps /\ NoFault

\* SetReadyToSync: nothing if the file exists, ...
StatReadyToSync(p) ==
    /\ started[p].at = "stat"
    /\ StartedGoes(p, IF syncFile = Absent THEN "create" ELSE "read")
    /\ UNCHANGED syncFile /\ StartedKeeps /\ NoFault

\* ... otherwise os.WriteFile, which makes an empty file, also of one that another
\* run has made in the meantime, ...
CreateReadyToSync(p) ==
    /\ started[p].at = "create"
    /\ syncFile' = Empty
    /\ started' = [started EXCEPT ![p].at = "write"]
    /\ StartedKeeps /\ NoFault

\* ... and writes the time that was taken before.
WriteReadyToSync(p) ==
    /\ started[p].at = "write"
    /\ syncFile' = started[p].age
    /\ StartedGoes(p, "read")
    /\ StartedKeeps /\ NoFault

\* The write fails, and the file stays as it is.
WriteFails(p) ==
    /\ started[p].at = "write"
    /\ ProbeFault
    /\ cutOff' = TRUE
    /\ StartedGoes(p, "no")
    /\ UNCHANGED syncFile /\ StartedKeeps

\* A fault: what is wrong with the content of the file is ignored.
ReadReadyToSync_Anything(p) ==
    /\ started[p].at = "read"
    /\ started' = [started EXCEPT ![p] = [at |-> "compare", age |-> syncFile]]
    /\ UNCHANGED syncFile /\ StartedKeeps /\ NoFault

\* GetReadyToSyncStartTime: an empty file is not a number.
ReadReadyToSync(p) ==
    /\ started[p].at = "read"
    /\ IF syncFile >= 0 THEN started' = [started EXCEPT ![p] = [at |-> "compare", age |-> syncFile]]
                        ELSE StartedGoes(p, "no")
    /\ UNCHANGED syncFile /\ StartedKeeps /\ NoFault

\* hasInSyncTimePeriodExpired
Compare(p) ==
    /\ started[p].at = "compare"
    /\ StartedGoes(p, IF started[p].age >= Timeout THEN "expired" ELSE "no")
    /\ UNCHANGED syncFile /\ StartedKeeps /\ NoFault

\* The orchestrator's patience with a probe ends.
KillProbe(p) ==
    /\ started[p].at \in StartedPlaces
    /\ ProbeFault
    /\ cutOff' = (cutOff \/ started[p].at = "write")
    /\ StartedGoes(p, "no")
    /\ UNCHANGED syncFile /\ StartedKeeps

-------------------------------------------------------------------------------
(***************************************************************************)
(* chkmqready                                                              *)
(***************************************************************************)

ReadyKeeps == UNCHANGED <<lifeVars, fileState, started, probeFaults, cutOff>>
ReadyGoes(place) == readyRun' = [readyRun EXCEPT !.at = place]

Check ==
    /\ process1 # "unused" /\ readyRun.at \in ReadyAnswers
    /\ readyRun' = IF readyFile THEN [at |-> "status", early |-> process1 = "clear"]
                                ELSE [NoReadyRun EXCEPT !.at = "no"]
    /\ ReadyKeeps

\* ready.Status, for which a replica is a standby queue manager.
CheckStatus ==
    /\ readyRun.at = "status"
    /\ \/ ReadyGoes(CASE qmStatus = "RUNNING" -> "port"
                      [] qmStatus = "RECOVERY" -> "ready"
                      [] qmStatus \in {"STANDBY", "REPLICA"} -> "standby"
                      [] OTHER -> "no")
       \/ ReadyGoes("no")     \* dspmq fails
    /\ ReadyKeeps

CheckPort ==
    /\ readyRun.at = "port"
    /\ \/ qmStatus = "RUNNING" /\ ReadyGoes("ready")
       \/ ReadyGoes("no")
    /\ ReadyKeeps

-------------------------------------------------------------------------------
MainStep == ClearReady \/ ClearReadyToSync \/ CleanScratch \/ StartQM \/ SetReady
RunStep(p) ==
    \/ FindStatus(p) \/ StatReadyToSync(p) \/ CreateReadyToSync(p) \/ WriteReadyToSync(p)
    \/ ReadReadyToSync(p) \/ Compare(p)

ReadinessNext ==
    \/ MainStep \/ QMChanges \/ Restart \/ Tick
    \/ \E p \in StartupProbes : RunStep(p) \/ FindStatusFails(p) \/ WriteFails(p) \/ KillProbe(p)
    \/ Check \/ CheckStatus \/ CheckPort

\* Time passes, and the orchestrator runs the startup probe again and again.
ReadinessFairness ==
    /\ WF_readinessVars(Tick)
    /\ \A p \in StartupProbes : WF_readinessVars(RunStep(p))

ReadinessSpec == ReadinessInit /\ [][ReadinessNext]_readinessVars

-------------------------------------------------------------------------------
(***************************************************************************)
(* Properties.                                                             *)
(***************************************************************************)

\* The in-sync time-out that makes chkmqstarted succeed is counted within this life
\* of the container and not from before the queue manager was up, however many runs
\* write the file at a time.
TimeoutCounted ==
    \A p \in StartupProbes : started[p].at = "expired" => upFor = Timeout

\* chkmqready answers for this life: unless it has looked before runmqserver came to
\* clear the file, the configuration has been completed.
ReadyTruthful ==
    readyRun.at \in {"ready", "standby"} /\ ~readyRun.early => process1 = "ready"

StaysUp == <>[](qmStatus \in UpStatuses)
Succeeds == \E p \in StartupProbes : started[p].at \in {"started", "expired"}

\* A queue manager that stays up but never gets in sync is reported as started in the
\* end, unless a write of the ready-to-sync file has been cut off.
StartedEventually == StaysUp /\ <>[](~cutOff) => []<>Succeeds

\* The comment in queueManagerStarted: "This ensures we do not block indefinitely".
NeverBlockedIndefinitely == StaysUp => []<>Succeeds
===============================================================================

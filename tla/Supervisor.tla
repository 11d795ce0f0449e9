------------------------------ MODULE Supervisor ------------------------------
(***************************************************************************)
(* runmqserver as process 1 of the container (cmd/runmqserver/main.go,     *)
(* signals.go, qmgr.go, process.go and internal/command).                  *)
(*                                                                         *)
(* Five threads: the main program (doMain), the signal goroutine, the      *)
(* goroutine that stops the queue manager, the goroutine that waits for    *)
(* the queue manager before it gathers metrics, and the one that starts    *)
(* the web server.  The last four and main run MQ commands as child        *)
(* processes; process 1 also inherits orphans.  A terminated child is a    *)
(* zombie until somebody collects its status: the os/exec caller that      *)
(* started it, or reapZombies, which takes any child there is.             *)
(*                                                                         *)
(* Commands of one stage of doMain follow each other and fail alike, so    *)
(* one child stands for them.  A command's outcome is what its caller      *)
(* makes of it: "ok" is a status the caller accepts (strmqm accepts 0, 30  *)
(* and 94), "err" any other.                                               *)
(***************************************************************************)
EXTENDS Naturals, FiniteSets

CONSTANTS
    Orphans,        \* slots for inherited processes alive at one time
    Configs,        \* environments a container is started with
    MaxSignals,     \* bound: stop signals sent in one life of the container
    MaxRestarts     \* bound: restarts of the container

Sources == {"web", "qmgr", "mqsc"}      \* checkLogSourceForMirroring

\* The flag -i, a host whose name cannot be found (and no MQ_QMGR_NAME),
\* MQ_ENABLE_EMBEDDED_WEB_SERVER, MQ_ENABLE_METRICS and DEBUG.
Options == {"-i", "nameless", "web", "metrics", "debug"}

ASSUME ConfigAssumption ==
    Configs \subseteq [opts: SUBSET Options, mirror: SUBSET Sources]

Owners == {"main", "web", "gather", "stop"}

ASSUME OrphanAssumption == Orphans \cap Owners = {}

ASSUME BoundAssumption == MaxSignals \in Nat /\ MaxRestarts \in Nat

VARIABLES
    conf,       \* the environment of this life
    mpc,        \* where doMain is
    ret,        \* what doMain returned: "none", "ok" (nil) or "err"
    termLog,    \* logTermination was called
    mirrors,    \* log-mirroring goroutines that run: the wait group
    ready,      \* the file /run/runmqserver/ready
    startupCtx, \* "live" until markStartupComplete
    sh,         \* where the signal goroutine is
    shRet,      \* where it goes after reapZombies
    notify,     \* signals relayed by signal.Notify: "SIGTERM", "SIGCHLD"
    stopSignals,\* signals in the channel, of capacity 1
    reapSignals,\* signals in the channel, of capacity 1
    shutdownCtx,\* "live" until shutdownComplete
    st,         \* where the stopping goroutine is
    gather,     \* where GatherMetrics is
    web,        \* where the web server goroutine is
    child,      \* the child each thread waits for, and the orphans
    qm,         \* the queue manager: "down", "started" or "ended"
    sigs,       \* stop signals sent in this life
    restarts

mainVars == <<mpc, ret, termLog, mirrors, ready, startupCtx>>
sigVars == <<sh, shRet, notify, stopSignals, reapSignals, shutdownCtx>>
taskVars == <<st, gather, web>>
envVars == <<conf, sigs, restarts>>
vars == <<mainVars, sigVars, taskVars, envVars, child, qm>>

-------------------------------------------------------------------------------
(***************************************************************************)
(* States.                                                                 *)
(***************************************************************************)

\* The stages of doMain that wait for commands, and the stage after each.
AfterCommand ==
    [volumes |-> "tls", tls |-> "webmirror", postinit |-> "probes",
     dspmqinf |-> "qmmirror", crtmqm |-> "qmmirror", cmdlevel |-> "strmqm",
     strmqm |-> "mqscmirror"]

CommandStages == DOMAIN AfterCommand

StartupStages == CommandStages \cup
    {"check", "webmirror", "probes", "qmmirror", "mqscmirror", "metrics",
     "sendStart", "sendReap", "complete"}

\* logDiagnostics waits for ffstsummary, before the mirroring defers are
\* registered and after; and the stage that follows.
AfterDiagnosis == [ffstEarly |-> "unwind", ffst |-> "cancel"]

DiagnosisStages == DOMAIN AfterDiagnosis

\* The deferred functions of doMain, last registered first.
DeferStages == {"cancel", "wgwait", "unwind", "return"}

MainStages == StartupStages \cup {"ready", "wait", "probewait"} \cup DiagnosisStages
                            \cup DeferStages \cup {"exited", "dead"}

ProcStates == {"none", "running", "ok", "err", "stolen"}
Procs == Owners \cup Orphans

TypeOK ==
    /\ conf \in Configs
    /\ mpc \in MainStages
    /\ ret \in {"none", "ok", "err"}
    /\ mirrors \subseteq Sources
    /\ termLog \in {"absent", "written"}
    /\ ready \in {"absent", "present"}
    /\ startupCtx \in {"live", "cancelled"} /\ shutdownCtx \in {"live", "cancelled"}
    /\ notify \subseteq {"SIGTERM", "SIGCHLD"}
    /\ stopSignals \in 0..1 /\ reapSignals \in 0..1
    /\ sh \in {"off", "select", "summary", "drain", "metrics", "reap", "closed"}
    /\ shRet \in {"select", "drain", "closed"}
    /\ st \in {"idle", "status", "endmqm", "done"}
    /\ gather \in {"off", "status", "sleep", "on"}
    /\ web \in {"off", "strmqweb", "done"}
    /\ child \in [Procs -> ProcStates]
    /\ qm \in {"down", "started", "ended"}
    /\ sigs \in 0..MaxSignals
    /\ restarts \in 0..MaxRestarts

Alive == mpc \notin {"exited", "dead"}

Zombie(p) == child[p] \in {"ok", "err"}

\* A fault: the drain loop waits for start-up without serving control.
Receiving_SelectOnly == sh = "select"

\* The signal goroutine is at a select that receives from control.
Receiving == sh \in {"select", "drain"}

Fresh(c) ==
    /\ conf = c
    /\ mpc = "check" /\ ret = "none" /\ termLog = "absent" /\ mirrors = {}
    /\ startupCtx = "live"
    /\ sh = "off" /\ shRet = "select" /\ stopSignals = 0
    /\ notify = {} /\ reapSignals = 0
    /\ shutdownCtx = "live"
    /\ st = "idle" /\ gather = "off" /\ web = "off"
    /\ child = [p \in Procs |-> "none"]
    /\ qm = "down"
    /\ sigs = 0

\* An earlier life may have left the readiness file behind.
Init ==
    /\ \E c \in Configs : Fresh(c)
    /\ ready \in {"absent", "present"}
    /\ restarts = 0

-------------------------------------------------------------------------------
(***************************************************************************)
(* doMain.                                                                 *)
(***************************************************************************)

\* The mirroring defers are registered after the TLS stage; before it no
\* mirror runs.
BeforeMirroring == mpc \in {"volumes", "tls"}

\* return err: the defers registered so far run.
Return(code) ==
    /\ ret' = code
    /\ mpc' = IF BeforeMirroring THEN "unwind" ELSE "cancel"

\* logTermination(err); return err.  From the start of the signal goroutine on
\* collectDiagOnFail is set, and with DEBUG logTermination calls
\* logDiagnostics, which runs a command.
Fail ==
    /\ ret' = "err" /\ termLog' = "written"
    /\ IF "debug" \in conf.opts
         THEN mpc' = IF BeforeMirroring THEN "ffstEarly" ELSE "ffst"
         ELSE Return("err")

\* A second runmqserver is refused; a queue manager without a name, a
\* readiness file that cannot be removed and a missing licence end the
\* program.  nameErr is logged and err, which is nil there, is returned.
MainCheckFails ==
    /\ mpc = "check"
    /\ mpc' = "return"
    /\ \/ ret' = "err" /\ termLog' \in {"absent", "written"} /\ UNCHANGED ready
       \/ "nameless" \notin conf.opts /\ ret' = "err" /\ termLog' = "written" /\ ready' = "absent"
       \/ "nameless" \in conf.opts /\ ret' = "ok" /\ termLog' = "written" /\ UNCHANGED ready
    /\ UNCHANGED <<mirrors, startupCtx, sigVars, taskVars, envVars, child, qm>>

\* A fault: SIGCHLD is relayed from the start, as SIGTERM is.
MainCheck_ReapFromStart ==
    /\ mpc = "check"
    /\ "nameless" \notin conf.opts
    /\ ready' = "absent"
    /\ mpc' = "volumes"
    /\ sh' = "select"
    /\ notify' = {"SIGTERM", "SIGCHLD"}
    /\ UNCHANGED <<ret, termLog, mirrors, startupCtx, shRet, stopSignals, reapSignals,
                   shutdownCtx, taskVars, envVars, child, qm>>

\* A fault: the readiness file of an earlier life stays.
MainCheck_NoClear ==
    /\ mpc = "check"
    /\ "nameless" \notin conf.opts
    /\ UNCHANGED ready
    /\ mpc' = "volumes"
    /\ sh' = "select"
    /\ notify' = {"SIGTERM"}
    /\ UNCHANGED <<ret, termLog, mirrors, startupCtx, shRet, stopSignals, reapSignals,
                   shutdownCtx, taskVars, envVars, child, qm>>

\* ready.Clear, the licence, and the start of the signal goroutine.
MainCheck ==
    /\ mpc = "check"
    /\ "nameless" \notin conf.opts
    /\ ready' = "absent"
    /\ mpc' = "volumes"
    /\ sh' = "select"
    /\ notify' = {"SIGTERM"}
    /\ UNCHANGED <<ret, termLog, mirrors, startupCtx, shRet, stopSignals, reapSignals,
                   shutdownCtx, taskVars, envVars, child, qm>>

\* command.Run: start the child ...  Before crtmqdir the stage of the volumes
\* cleans /run/scratch, where /run/runmqserver is.
MainRun ==
    /\ mpc \in CommandStages
    /\ child["main"] = "none"
    /\ child' = [child EXCEPT !["main"] = "running"]
    /\ ready' = IF mpc = "volumes" THEN "absent" ELSE ready
    /\ UNCHANGED <<mpc, ret, termLog, mirrors, startupCtx, sigVars, taskVars, envVars, qm>>

\* ... and wait for it.  A failed dspmqinf only means that the queue manager
\* is to be created; with -i the program ends once the volumes are there.
MainCommandOK ==
    /\ mpc \in CommandStages
    /\ child["main"] = "ok"
    /\ child' = [child EXCEPT !["main"] = "none"]
    /\ IF mpc = "volumes" /\ "-i" \in conf.opts
         THEN Return("ok")
         ELSE mpc' = AfterCommand[mpc] /\ UNCHANGED ret
    /\ web' = IF mpc = "postinit" /\ "web" \in conf.opts THEN "strmqweb" ELSE web
    /\ UNCHANGED <<termLog, mirrors, ready, startupCtx, sigVars, st, gather, envVars, qm>>

\* A status that was taken by reapZombies is an error of the command.  What
\* follows the command in its stage can fail too, except after strmqm.
MainCommandFails ==
    /\ mpc \in CommandStages
    /\ child["main"] \in {"ok", "err", "stolen"}
    /\ mpc = "strmqm" => child["main"] # "ok"
    /\ child' = [child EXCEPT !["main"] = "none"]
    /\ IF mpc = "dspmqinf" /\ child["main"] # "ok"
         THEN mpc' = "crtmqm" /\ UNCHANGED <<ret, termLog>>
         ELSE Fail
    /\ UNCHANGED <<mirrors, ready, startupCtx, sigVars, taskVars, envVars, qm>>

\* mirrorWebServerLogs, mirrorQueueManagerErrorLogs, mirrorMQSCLogs
SourceOf == [webmirror |-> "web", qmmirror |-> "qmgr", mqscmirror |-> "mqsc"]
AfterMirror == [webmirror |-> "postinit", qmmirror |-> "cmdlevel", mqscmirror |-> "metrics"]

MainMirror ==
    /\ mpc \in DOMAIN SourceOf
    /\ mirrors' = mirrors \cup ({SourceOf[mpc]} \cap conf.mirror)
    /\ mpc' = AfterMirror[mpc]
    /\ UNCHANGED <<ret, termLog, ready, startupCtx, sigVars, taskVars, envVars, child, qm>>

\* The steps of a stage that run no command can fail too.
MainFails ==
    /\ mpc \in CommandStages \cup DOMAIN SourceOf \cup {"probes"}
    /\ child["main"] = "none"
    /\ Fail
    /\ UNCHANGED <<mirrors, ready, startupCtx, sigVars, taskVars, envVars, child, qm>>

\* logFDCSummary: ffstsummary is started, unless it cannot be ...
DiagnoseRun ==
    /\ mpc \in DiagnosisStages
    /\ child["main"] = "none"
    /\ child' = [child EXCEPT !["main"] = "running"]
    /\ UNCHANGED <<mainVars, sigVars, taskVars, envVars, qm>>

\* ... and waited for.  Whatever becomes of it is only logged, and doMain
\* returns the error it met before.
DiagnoseWait ==
    /\ mpc \in DiagnosisStages
    /\ child["main"] # "running"
    /\ child' = [child EXCEPT !["main"] = "none"]
    /\ mpc' = AfterDiagnosis[mpc]
    /\ UNCHANGED <<ret, termLog, mirrors, ready, startupCtx, sigVars, taskVars, envVars, qm>>

\* Native HA and FIPS settings, and the probe socket, whose failure is only
\* logged.
MainProbes ==
    /\ mpc = "probes"
    /\ mpc' = "dspmqinf"
    /\ UNCHANGED <<ret, termLog, mirrors, ready, startupCtx, sigVars, taskVars,
                   envVars, child, qm>>

\* go metrics.GatherMetrics
MainMetrics ==
    /\ mpc = "metrics"
    /\ mpc' = "sendStart"
    /\ gather' = IF "metrics" \in conf.opts THEN "status" ELSE "off"
    /\ UNCHANGED <<ret, termLog, mirrors, ready, startupCtx, sigVars, st, web,
                   envVars, child, qm>>

\* signalControl <- startReaping: a rendezvous with processControlSignal,
\* which asks for SIGCHLD from now on.
SendStartReaping ==
    /\ mpc = "sendStart"
    /\ Receiving
    /\ mpc' = "sendReap"
    /\ notify' = notify \cup {"SIGCHLD"}
    /\ UNCHANGED <<ret, termLog, mirrors, ready, startupCtx, sh, shRet, stopSignals,
                   reapSignals, shutdownCtx, taskVars, envVars, child, qm>>

\* A fault: zombies from before startReaping are left to the next SIGCHLD.
SendReapNow_Skip ==
    /\ mpc = "sendReap"
    /\ Receiving
    /\ mpc' = "complete"
    /\ UNCHANGED <<ret, termLog, mirrors, ready, startupCtx, sh, shRet, notify, stopSignals,
                   reapSignals, shutdownCtx, taskVars, envVars, child, qm>>

\* signalControl <- reapNow: a rendezvous that starts reapZombies.
SendReapNow ==
    /\ mpc = "sendReap"
    /\ Receiving
    /\ mpc' = "complete"
    /\ sh' = "reap" /\ shRet' = sh
    /\ UNCHANGED <<ret, termLog, mirrors, ready, startupCtx, notify, stopSignals,
                   reapSignals, shutdownCtx, taskVars, envVars, child, qm>>

\* startupMarkedComplete = true; markStartupComplete()
MainComplete ==
    /\ mpc = "complete"
    /\ startupCtx' = "cancelled"
    /\ mpc' = "ready"
    /\ UNCHANGED <<ret, termLog, mirrors, ready, sigVars, taskVars, envVars, child, qm>>

\* ready.Set, which may fail with the file made or not.
MainReady ==
    /\ mpc = "ready"
    /\ \/ ready' = "present" /\ mpc' = "wait" /\ UNCHANGED <<ret, termLog>>
       \/ ready' \in {ready, "present"} /\ Fail
    /\ UNCHANGED <<mirrors, startupCtx, sigVars, taskVars, envVars, child, qm>>

\* <-signalControl returns when the signal goroutine closes the channel.
MainStopped ==
    /\ mpc = "wait"
    /\ sh = "closed"
    /\ mpc' = "probewait"
    /\ UNCHANGED <<ret, termLog, mirrors, ready, startupCtx, sigVars, taskVars,
                   envVars, child, qm>>

\* probeLoggingSocket.Wait; return nil
MainProbeWait ==
    /\ mpc = "probewait"
    /\ Return("ok")
    /\ UNCHANGED <<termLog, mirrors, ready, startupCtx, sigVars, taskVars, envVars, child, qm>>

\* A fault: wg.Wait is forgotten.
MainDefer_NoWait ==
    /\ \/ mpc = "cancel" /\ mpc' = "wgwait" /\ UNCHANGED startupCtx
       \/ mpc = "wgwait" /\ mpc' = "unwind" /\ UNCHANGED startupCtx
       \/ mpc = "unwind" /\ mpc' = "return" /\ startupCtx' = "cancelled"
    /\ UNCHANGED <<ret, termLog, mirrors, ready, sigVars, taskVars, envVars, child, qm>>

\* cancelMirror, then wg.Wait, then markStartupComplete unless it was called.
MainDefer ==
    /\ \/ mpc = "cancel" /\ mpc' = "wgwait" /\ UNCHANGED startupCtx
       \/ mpc = "wgwait" /\ mirrors = {} /\ mpc' = "unwind" /\ UNCHANGED startupCtx
       \/ mpc = "unwind" /\ mpc' = "return" /\ startupCtx' = "cancelled"
    /\ UNCHANGED <<ret, termLog, mirrors, ready, sigVars, taskVars, envVars, child, qm>>

\* main returns or calls osExit(1): every thread and child is gone.
MainExit ==
    /\ mpc = "return"
    /\ mpc' = "exited"
    /\ UNCHANGED <<ret, termLog, mirrors, ready, startupCtx, sigVars, taskVars,
                   envVars, child, qm>>

\* A mirror ends after cancelMirror, or by itself when it cannot read its file.
MirrorEnds(m) ==
    /\ Alive
    /\ m \in mirrors
    /\ mirrors' = mirrors \ {m}
    /\ UNCHANGED <<mpc, ret, termLog, ready, startupCtx, sigVars, taskVars, envVars,
                   child, qm>>

-------------------------------------------------------------------------------
(***************************************************************************)
(* The signal goroutine.                                                   *)
(***************************************************************************)

\* signal.Stop(stopSignals) has been called
stopTriggered == "SIGTERM" \notin notify

\* A fault: a second signal that got into the channel is answered like the first.
HandleStop_Again ==
    /\ Alive
    /\ sh = "select"
    /\ stopSignals = 1
    /\ stopSignals' = 0
    /\ sh' = "summary"
    /\ UNCHANGED <<mainVars, shRet, notify, reapSignals, shutdownCtx, taskVars,
                   envVars, child, qm>>

\* case <-stopSignals: the first signal is answered by the probe summary, a
\* second one that got into the channel before signal.Stop is ignored.
HandleStop ==
    /\ Alive
    /\ sh = "select"
    /\ stopSignals = 1
    /\ stopSignals' = 0
    /\ sh' = IF stopTriggered THEN "select" ELSE "summary"
    /\ UNCHANGED <<mainVars, shRet, notify, reapSignals, shutdownCtx, taskVars,
                   envVars, child, qm>>

\* A fault: the queue manager is stopped without waiting for start-up.
StopListening_NoDrain ==
    /\ Alive
    /\ sh = "summary"
    /\ notify' = notify \ {"SIGTERM"}
    /\ sh' = "metrics"
    /\ UNCHANGED <<mainVars, shRet, stopSignals, reapSignals, shutdownCtx, taskVars,
                   envVars, child, qm>>

\* WriteProbeSummary; signal.Stop(stopSignals).  From here on control
\* requests are served until start-up is over.
StopListening ==
    /\ Alive
    /\ sh = "summary"
    /\ notify' = notify \ {"SIGTERM"}
    /\ sh' = "drain"
    /\ UNCHANGED <<mainVars, shRet, stopSignals, reapSignals, shutdownCtx, taskVars,
                   envVars, child, qm>>

\* A fault: the drain loop does not wait for startupCtx.
DrainDone_Early ==
    /\ Alive
    /\ sh = "drain"
    /\ sh' = "metrics"
    /\ UNCHANGED <<mainVars, shRet, notify, stopSignals, reapSignals, shutdownCtx, taskVars, envVars, child, qm>>

\* case <-startupCtx.Done()
DrainDone ==
    /\ Alive
    /\ sh = "drain"
    /\ startupCtx = "cancelled"
    /\ sh' = "metrics"
    /\ UNCHANGED <<mainVars, shRet, notify, stopSignals, reapSignals, shutdownCtx, taskVars, envVars, child, qm>>

\* StopMetricsGathering has returned; go stopQueueManager.
StopMetrics ==
    /\ Alive
    /\ sh = "metrics"
    /\ sh' = "select"
    /\ st' = "status"
    /\ UNCHANGED <<mainVars, shRet, notify, stopSignals, reapSignals, shutdownCtx, gather, web, envVars, child, qm>>

\* case <-shutdownCtx.Done(): no more SIGCHLD, one final reap, and out.
HandleShutdown ==
    /\ Alive
    /\ sh = "select"
    /\ shutdownCtx = "cancelled"
    /\ notify' = notify \ {"SIGCHLD"}
    /\ sh' = "reap" /\ shRet' = "closed"
    /\ UNCHANGED <<mainVars, stopSignals, reapSignals, shutdownCtx,
                   taskVars, envVars, child, qm>>

\* case <-reapSignals
HandleChild ==
    /\ Alive
    /\ sh = "select"
    /\ reapSignals = 1
    /\ reapSignals' = 0
    /\ sh' = "reap" /\ shRet' = "select"
    /\ UNCHANGED <<mainVars, notify, stopSignals, shutdownCtx,
                   taskVars, envVars, child, qm>>

\* One Wait4(-1, WNOHANG) that finds a zombie: an orphan is gone, and the
\* status of a child that a thread waits for is lost to that thread.
ReapOne(p) ==
    /\ Alive
    /\ sh = "reap"
    /\ Zombie(p)
    /\ child' = [child EXCEPT ![p] = IF p \in Owners THEN "stolen" ELSE "none"]
    /\ UNCHANGED <<mainVars, sigVars, taskVars, envVars, qm>>

\* Wait4 finds no zombie.  After the final reap the channel is closed.
ReapEnd ==
    /\ Alive
    /\ sh = "reap"
    /\ \A p \in Procs : ~Zombie(p)
    /\ sh' = shRet
    /\ UNCHANGED <<mainVars, shRet, notify, stopSignals, reapSignals, shutdownCtx, taskVars, envVars, child, qm>>

-------------------------------------------------------------------------------
(***************************************************************************)
(* stopQueueManager, GatherMetrics and startWebServer as users of commands.*)
(***************************************************************************)

\* command.Run of dspmq, then of endmqm.
StopRun ==
    /\ Alive
    /\ st \in {"status", "endmqm"}
    /\ child["stop"] = "none"
    /\ child' = [child EXCEPT !["stop"] = "running"]
    /\ UNCHANGED <<mainVars, sigVars, taskVars, envVars, qm>>

\* Without a status the function returns before endmqm.  Either way
\* shutdownComplete follows.
StopWait ==
    /\ Alive
    /\ st \in {"status", "endmqm"}
    /\ child["stop"] \in {"ok", "err", "stolen"}
    /\ child' = [child EXCEPT !["stop"] = "none"]
    /\ IF st = "status" /\ child["stop"] = "ok"
         THEN st' = "endmqm" /\ UNCHANGED shutdownCtx
         ELSE st' = "done" /\ shutdownCtx' = "cancelled"
    /\ UNCHANGED <<mainVars, sh, shRet, notify, stopSignals, reapSignals,
                   gather, web, envVars, qm>>

\* GatherMetrics asks dspmq until the queue manager is active, ignoring errors.
GatherRun ==
    /\ Alive
    /\ gather = "status"
    /\ child["gather"] = "none"
    /\ child' = [child EXCEPT !["gather"] = "running"]
    /\ UNCHANGED <<mainVars, sigVars, taskVars, envVars, qm>>

\* A fault: an error of dspmq ends GatherMetrics.
GatherWait_GiveUp ==
    /\ Alive
    /\ gather = "status"
    /\ child["gather"] \in {"ok", "err", "stolen"}
    /\ gather' \in IF child["gather"] = "ok" THEN {"sleep", "on"} ELSE {"failed"}
    /\ child' = [child EXCEPT !["gather"] = "none"]
    /\ UNCHANGED <<mainVars, sigVars, st, web, envVars, qm>>

GatherWait ==
    /\ Alive
    /\ gather = "status"
    /\ child["gather"] \in {"ok", "err", "stolen"}
    /\ gather' \in {"sleep"} \cup (IF child["gather"] = "ok" THEN {"on"} ELSE {})
    /\ child' = [child EXCEPT !["gather"] = "none"]
    /\ UNCHANGED <<mainVars, sigVars, st, web, envVars, qm>>

GatherRetry ==
    /\ Alive
    /\ gather = "sleep"
    /\ gather' = "status"
    /\ UNCHANGED <<mainVars, sigVars, st, web, envVars, child, qm>>

WebRun ==
    /\ Alive
    /\ web = "strmqweb"
    /\ child["web"] = "none"
    /\ child' = [child EXCEPT !["web"] = "running"]
    /\ UNCHANGED <<mainVars, sigVars, taskVars, envVars, qm>>

WebWait ==
    /\ Alive
    /\ web = "strmqweb"
    /\ child["web"] \in {"ok", "err", "stolen"}
    /\ child' = [child EXCEPT !["web"] = "none"]
    /\ web' = "done"
    /\ UNCHANGED <<mainVars, sigVars, st, gather, envVars, qm>>

-------------------------------------------------------------------------------
(***************************************************************************)
(* The environment: processes, signals and the container platform.         *)
(***************************************************************************)

\* A child terminates: strmqm and endmqm have had their effect by then, and
\* reapSignals keeps one SIGCHLD.
ChildExits(p, outcome) ==
    /\ Alive
    /\ child[p] = "running"
    /\ child' = [child EXCEPT ![p] = outcome]
    /\ qm' = CASE p = "main" /\ mpc = "strmqm" /\ outcome = "ok" -> "started"
               [] p = "stop" /\ st = "endmqm" /\ outcome = "ok" -> "ended"
               [] OTHER -> qm
    /\ reapSignals' = IF "SIGCHLD" \in notify THEN 1 ELSE reapSignals
    /\ UNCHANGED <<mainVars, sh, shRet, notify, stopSignals, shutdownCtx,
                   taskVars, envVars>>

\* An orphan is inherited by process 1.
OrphanArrives(p) ==
    /\ Alive
    /\ child[p] = "none"
    /\ child' = [child EXCEPT ![p] = "running"]
    /\ UNCHANGED <<mainVars, sigVars, taskVars, envVars, qm>>

\* SIGTERM or SIGINT: relayed to stopSignals between signal.Notify and
\* signal.Stop, and otherwise fatal, as by default.
StopSignal ==
    /\ Alive
    /\ sigs < MaxSignals
    /\ sigs' = sigs + 1
    /\ IF "SIGTERM" \in notify
         THEN stopSignals' = 1 /\ UNCHANGED mpc
         ELSE mpc' = "dead" /\ UNCHANGED stopSignals
    /\ UNCHANGED <<conf, restarts, ret, termLog, mirrors, ready, startupCtx, sh, shRet,
                   notify, reapSignals, shutdownCtx, taskVars, child, qm>>

\* SIGKILL, an out-of-memory kill, a lost node.
Crash ==
    /\ Alive
    /\ mpc' = "dead"
    /\ UNCHANGED <<ret, termLog, mirrors, ready, startupCtx, sigVars, taskVars,
                   envVars, child, qm>>

\* The same container starts again, with the files it had.
Restart ==
    /\ ~Alive
    /\ restarts < MaxRestarts
    /\ restarts' = restarts + 1
    /\ UNCHANGED ready
    /\ mpc' = "check" /\ ret' = "none" /\ termLog' = "absent" /\ mirrors' = {}
    /\ startupCtx' = "live"
    /\ sh' = "off" /\ shRet' = "select" /\ stopSignals' = 0
    /\ notify' = {} /\ reapSignals' = 0
    /\ shutdownCtx' = "live"
    /\ st' = "idle" /\ gather' = "off" /\ web' = "off"
    /\ child' = [p \in Procs |-> "none"]
    /\ qm' = "down" /\ sigs' = 0
    /\ UNCHANGED conf

\* The container stays stopped.
Stopped ==
    /\ ~Alive
    /\ restarts = MaxRestarts
    /\ UNCHANGED vars

-------------------------------------------------------------------------------
MainStep ==
    \/ MainCheckFails \/ MainCheck \/ MainRun \/ MainCommandOK \/ MainCommandFails
    \/ MainMirror \/ MainFails \/ DiagnoseRun \/ DiagnoseWait \/ MainProbes \/ MainMetrics \/ MainComplete \/ MainReady
    \/ MainStopped \/ MainProbeWait \/ MainDefer \/ MainExit

ControlStep == SendStartReaping \/ SendReapNow

ReapStep == ReapEnd \/ \E p \in Procs : ReapOne(p)

SignalStep ==
    \/ HandleStop \/ StopListening \/ DrainDone \/ StopMetrics \/ HandleShutdown \/ HandleChild \/ ReapStep

TaskStep ==
    \/ StopRun \/ StopWait \/ GatherRun \/ GatherWait \/ GatherRetry \/ WebRun \/ WebWait
    \/ \E m \in Sources : MirrorEnds(m)

EnvStep ==
    \/ \E p \in Procs, o \in {"ok", "err"} : ChildExits(p, o)
    \/ \E p \in Orphans : OrphanArrives(p)
    \/ StopSignal \/ Crash \/ Restart \/ Stopped

Next == MainStep \/ ControlStep \/ SignalStep \/ TaskStep \/ EnvStep

(***************************************************************************)
(* Threads run, and select takes each case that is ready again and again   *)
(* (its choice is uniform).  Commands terminate: endmqm has -tp, and the   *)
(* others have work of bounded length.  Nothing is assumed of orphans, the *)
(* platform and the signals, except that processes do not terminate for    *)
(* ever faster than Wait4 collects them: reapZombies comes to an end.  A   *)
(* cancelled mirror returns.                                               *)
(***************************************************************************)
Fairness ==
    /\ WF_vars(MainStep)
    /\ SF_vars(SendStartReaping) /\ SF_vars(SendReapNow)
    /\ SF_vars(HandleStop) /\ SF_vars(HandleShutdown) /\ SF_vars(HandleChild)
    /\ WF_vars(StopListening) /\ WF_vars(DrainDone) /\ WF_vars(StopMetrics)
    /\ WF_vars(ReapStep) /\ []<>(sh # "reap" \/ ~Alive)
    /\ WF_vars(StopRun) /\ WF_vars(StopWait)
    /\ \A p \in {"main", "stop"} : WF_vars(\E o \in {"ok", "err"} : ChildExits(p, o))
    /\ \A m \in Sources : WF_vars(mpc = "wgwait" /\ MirrorEnds(m))

Spec == Init /\ [][Next]_vars
FairSpec == Spec /\ Fairness

-------------------------------------------------------------------------------
(***************************************************************************)
(* Properties.                                                             *)
(***************************************************************************)

\* main.go sends on the control channel that signals.go closes: doMain never
\* sends on, or is about to send on, a closed channel, which would panic
\* process 1, even if the stop signal comes during start-up.
NoSendOnClosedControl ==
    sh = "closed" => mpc \notin {"sendStart", "sendReap"}

\* "Start this here, so that we don't reap any sub-processes created by this
\* process (e.g. for crtmqm or strmqm)": no command that decides about start-up
\* loses its status to reapZombies.  The one command of doMain that may is
\* ffstsummary, when it is run after startReaping because ready.Set failed; its
\* status is only logged.
StartupStatusKept ==
    Alive /\ child["main"] = "stolen" => mpc = "ffst" /\ startupCtx = "cancelled"

\* A stop request never makes dspmq and endmqm run next to the commands that
\* create and start the queue manager: the stopping goroutine exists only
\* when doMain is past its last command, unless that is ffstsummary.
StartupExcludesShutdown ==
    st # "idle" => /\ startupCtx = "cancelled"
                   /\ mpc \notin CommandStages
                   /\ Alive /\ child["main"] # "none" => mpc = "ffst"

\* The channel is closed, which lets doMain return and takes process 1 and
\* every process of the container with it, only after stopQueueManager has
\* returned and start-up is over ("One final reap: this occurs after all
\* startup processes have been spawned").
ClosedAfterStop ==
    sh = "closed" => st = "done" /\ startupCtx = "cancelled" /\ mpc \notin StartupStages

\* Once this life has cleared the readiness file of an earlier one, the file
\* exists only for a queue manager that strmqm started in this life.
ReadyMeansStarted ==
    (ready = "present" /\ mpc \in MainStages \ {"check", "return", "exited", "dead"}) => qm # "down"

\* doMain returns only when every log mirror has written what it had.
MirrorsDrained == mpc \in {"unwind", "return", "exited"} => mirrors = {}

\* Every zombie that process 1 inherits is collected as long as it runs,
\* including those from before SIGCHLD is listened to and those whose SIGCHLD
\* found reapSignals full, and including the time endmqm takes.
ZombiesReaped ==
    \A p \in Orphans : Zombie(p) ~> (~Zombie(p) \/ ~Alive)

\* A stop signal accepted at any time, also during start-up, ends process 1:
\* the rendezvous on the control channel, the drain loop, the stopping
\* goroutine, the mirrors and the deferred functions cannot wait for each
\* other for ever.
StopLeadsToExit == stopSignals = 1 ~> ~Alive

(***************************************************************************)
(* The strengthening that makes the safety properties inductive.           *)
(***************************************************************************)

\* The stages before doMain asks for zombies to be reaped.
BeforeReaping == StartupStages \ {"sendReap", "complete"}

\* A child of doMain exists only in a stage that waits for one.
OneCommand == Alive /\ child["main"] # "none" => mpc \in CommandStages \cup DiagnosisStages

\* Until the first request on the control channel nothing reaps, also if doMain
\* fails before it.
NoEarlyReaping ==
    mpc \in BeforeReaping \/ (mpc \in DiagnosisStages /\ startupCtx = "live")
        => sh # "reap" /\ "SIGCHLD" \notin notify /\ reapSignals = 0

\* startupCtx is live throughout start-up, and nothing of the shutdown
\* happens before it is cancelled.
StartupFirst ==
    /\ mpc \in StartupStages => startupCtx = "live"
    /\ mpc \in {"ready", "wait", "probewait"} => startupCtx = "cancelled"
    /\ mpc = "ffstEarly" => startupCtx = "live"
    /\ sh = "metrics" \/ st # "idle" => startupCtx = "cancelled"

\* The signal goroutine is answering the first stop signal.
Stopping == sh \in {"drain", "metrics"} \/ (sh = "reap" /\ shRet = "drain")

\* The stopping goroutine is started once, by the first stop signal.
StopOnce ==
    /\ sh = "summary" => "SIGTERM" \in notify
    /\ Stopping => "SIGTERM" \notin notify
    /\ Stopping \/ sh = "off" \/ "SIGTERM" \in notify => st = "idle"

\* shutdownCtx is cancelled by that goroutine alone, and precedes the close.
ShutdownOrder ==
    /\ shutdownCtx = "cancelled" => st = "done"
    /\ sh = "closed" \/ (sh = "reap" /\ shRet = "closed") => shutdownCtx = "cancelled"

\* What strmqm has done by the stage doMain is in.
Started == {"mqscmirror", "metrics", "sendStart", "sendReap", "complete", "ready",
            "wait", "probewait"}

StrmqmOnce ==
    /\ mpc \in Started => qm # "down"
    /\ mpc \in StartupStages \ (Started \cup {"strmqm"}) => qm = "down"
    /\ mpc = "strmqm" => (qm = "down" <=> child["main"] # "ok")

\* The readiness file is gone before anything is started.
ReadyCleared == mpc \in StartupStages \ {"check"} => ready = "absent"

IInv ==
    /\ TypeOK
    /\ StartupStatusKept
    /\ OneCommand
    /\ NoEarlyReaping
    /\ StartupFirst
    /\ StopOnce
    /\ ShutdownOrder
    /\ StrmqmOnce
    /\ ReadyCleared
    /\ ReadyMeansStarted

\* Supervisor implements Lifecycle.
LifePhase ==
    IF ~Alive THEN "exited"
    ELSE IF mpc = "check" \/ (mpc = "return" /\ startupCtx = "live") THEN "clearing"
    ELSE IF startupCtx = "cancelled" THEN "released" ELSE "starting"

Abs == INSTANCE Lifecycle WITH phase <- LifePhase

ImplementsLifecycle == Abs!Spec

\* The comment in main.go in full: no sub-process created by this process is
\* reaped behind the back of the thread that waits for it.
OwnStatusKept == \A o \in Owners : child[o] # "stolen"
==============================================================================

------------------------------ MODULE Certificates ------------------------------
(***************************************************************************)
(* The certificate monitor of the HTTPS metrics server                     *)
(* (internal/metrics/tlswatch.go, started by startMetricsGathering).       *)
(*                                                                         *)
(* Somebody renews the three files in the directory one after the other    *)
(* while the monitor reads them one after the other.  A generation is one  *)
(* renewal; a file or a part of a pair is the generation it belongs to, or *)
(* 0 if there is none.  A renewal may keep the private key of the one      *)
(* before, so that parts of both fit together.                             *)
(***************************************************************************)
EXTENDS Integers

CONSTANTS
    MaxGeneration,  \* bound: generations
    KeyOf           \* KeyOf[g]: the private key that belongs to generation g

ASSUME GenerationAssumption ==
    /\ MaxGeneration \in Nat \ {0}
    /\ KeyOf \in [1..MaxGeneration -> Nat]

VARIABLES
    disk,       \* the directory: the generation of tls.crt, ca.crt and tls.key
    target,     \* the generation that is being or has been written
    fsEvent,    \* an event waits in fsWatcher.Events
    watcher,    \* the goroutine that selects on events and ticks
    updater,    \* the goroutine that reloads; before it, loadAndWatchCertificates
    loading,    \* what updateCert has read
    cert,       \* cm.cert
    cmCtx       \* cm.ctx: "running" or "done"

directoryVars == <<disk, target>>
certificateVars == <<directoryVars, fsEvent, watcher, updater, loading, cert, cmCtx>>

Files == {"crt", "ca", "key"}
Generations == 0..MaxGeneration
Pairs == [Files -> Generations]
NoPair == [f \in Files |-> 0]

UpdaterStates == {"unused", "startUnread", "startCA", "startKey", "loaded", "startFailed",
                  "idle", "debounce", "readCA", "readKey", "ended"}
Starting == {"startUnread", "startCA", "startKey", "loaded"}

CertificatesTypeOK ==
    /\ disk \in Pairs /\ target \in 1..MaxGeneration
    /\ fsEvent \in {"no", "yes"}
    /\ watcher \in {"none", "on", "ended"}
    /\ updater \in UpdaterStates
    /\ loading \in Pairs /\ cert \in Pairs
    /\ cmCtx \in {"running", "done"}

\* tls.X509KeyPair: the first certificate of the chain is for the key.  Without
\* tls.crt that would be the CA, which has a key of its own.
Fits(pair) == pair["crt"] # 0 /\ pair["key"] # 0 /\ KeyOf[pair["crt"]] = KeyOf[pair["key"]]

\* isHTTPSMetricsEnabled has found tls.crt and tls.key, or there is no monitor.
CertificatesInit ==
    /\ disk = [f \in Files |-> IF f = "ca" THEN 0 ELSE 1]
    /\ target = 1
    /\ fsEvent = "no" /\ watcher = "none"
    /\ updater \in {"unused", "startUnread"}
    /\ loading = NoPair /\ cert = NoPair /\ cmCtx = "running"

-------------------------------------------------------------------------------
(***************************************************************************)
(* The directory.                                                          *)
(***************************************************************************)

\* fsnotify may lose an event, and sees none before the directory is watched.
Notify == fsEvent' \in IF watcher = "on" THEN {fsEvent, "yes"} ELSE {fsEvent}

Renewed == disk["crt"] = target /\ disk["key"] = target

BeginRenewal ==
    /\ updater # "unused"
    /\ Renewed
    /\ target < MaxGeneration
    /\ target' = target + 1
    /\ UNCHANGED <<disk, fsEvent, watcher, updater, loading, cert, cmCtx>>

\* A file is replaced at once, or removed first.
WriteFile(f) ==
    /\ updater # "unused"
    /\ disk[f] # target
    /\ disk' = [disk EXCEPT ![f] = target]
    /\ Notify
    /\ UNCHANGED <<target, watcher, updater, loading, cert, cmCtx>>

RemoveFile(f) ==
    /\ updater # "unused"
    /\ disk[f] \notin {0, target}
    /\ disk' = [disk EXCEPT ![f] = 0]
    /\ Notify
    /\ UNCHANGED <<target, watcher, updater, loading, cert, cmCtx>>

-------------------------------------------------------------------------------
(***************************************************************************)
(* updateCert: tls.crt and ca.crt, either of which may be missing, then    *)
(* the key, and the switch if the pair is good.                            *)
(***************************************************************************)

\* The first read of an update follows the sleep of debounceTime.
ReadCrt ==
    /\ updater \in {"startUnread", "debounce"}
    /\ loading' = [NoPair EXCEPT !["crt"] = disk["crt"]]
    /\ updater' = IF updater = "debounce" THEN "readCA" ELSE "startCA"
    /\ UNCHANGED <<directoryVars, fsEvent, watcher, cert, cmCtx>>

ReadCA ==
    /\ updater \in {"startCA", "readCA"}
    /\ loading' = [loading EXCEPT !["ca"] = disk["ca"]]
    /\ updater' = IF updater = "readCA" THEN "readKey" ELSE "startKey"
    /\ UNCHANGED <<directoryVars, fsEvent, watcher, cert, cmCtx>>

Loaded == [loading EXCEPT !["key"] = disk["key"]]

\* A fault: the key is not compared with the certificate.
LoadKey_Unchecked ==
    /\ updater \in {"startKey", "readKey"}
    /\ cert' = IF disk["key"] # 0 THEN Loaded ELSE cert
    /\ updater' = IF updater = "readKey" THEN "idle" ELSE "loaded"
    /\ loading' = NoPair
    /\ UNCHANGED <<directoryVars, fsEvent, watcher, cmCtx>>

LoadKey ==
    /\ updater \in {"startKey", "readKey"}
    /\ cert' = IF Fits(Loaded) THEN Loaded ELSE cert
    /\ updater' = IF updater = "readKey" THEN "idle"
                  ELSE IF Fits(Loaded) THEN "loaded" ELSE "startFailed"
    /\ cmCtx' = IF updater' = "startFailed" THEN "done" ELSE cmCtx
    /\ loading' = NoPair
    /\ UNCHANGED <<directoryVars, fsEvent, watcher>>

\* watch sets up fsnotify and starts both goroutines ...
Watch ==
    /\ updater = "loaded"
    /\ updater' = "idle" /\ watcher' = "on"
    /\ UNCHANGED <<directoryVars, fsEvent, loading, cert, cmCtx>>

\* ... or fails, and with it the metrics service.
WatchFails ==
    /\ updater = "loaded"
    /\ updater' = "startFailed" /\ cmCtx' = "done"
    /\ UNCHANGED <<directoryVars, fsEvent, watcher, loading, cert>>

-------------------------------------------------------------------------------
(***************************************************************************)
(* The two goroutines.                                                     *)
(***************************************************************************)

\* triggerUpdate: taken by an updater that waits for it, or dropped.
Trigger == updater' = IF updater = "idle" THEN "debounce" ELSE updater

OnEvent ==
    /\ watcher = "on" /\ fsEvent = "yes"
    /\ fsEvent' = "no"
    /\ Trigger
    /\ UNCHANGED <<directoryVars, watcher, loading, cert, cmCtx>>

\* A fault: a tick counts only if there is an event as well.
OnTick_WithEvent ==
    /\ watcher = "on" /\ updater = "idle" /\ fsEvent = "yes"
    /\ Trigger
    /\ UNCHANGED <<directoryVars, fsEvent, watcher, loading, cert, cmCtx>>

\* A tick that finds the updater busy changes nothing.
OnTick ==
    /\ watcher = "on" /\ updater = "idle"
    /\ Trigger
    /\ UNCHANGED <<directoryVars, fsEvent, watcher, loading, cert, cmCtx>>

\* Deferred until the server has gone: tlsWatcher.stop()
StopMonitor ==
    /\ watcher = "on" /\ cmCtx = "running"
    /\ cmCtx' = "done"
    /\ UNCHANGED <<directoryVars, fsEvent, watcher, updater, loading, cert>>

WatcherEnds ==
    /\ watcher = "on" /\ cmCtx = "done"
    /\ watcher' = "ended"
    /\ UNCHANGED <<directoryVars, fsEvent, updater, loading, cert, cmCtx>>

\* A fault: the updater is told by the watcher's queue only.
UpdaterEnds_Queue ==
    /\ updater = "idle" /\ cmCtx = "done" /\ watcher = "on"
    /\ updater' = "ended"
    /\ UNCHANGED <<directoryVars, fsEvent, watcher, loading, cert, cmCtx>>

UpdaterEnds ==
    /\ updater = "idle" /\ cmCtx = "done"
    /\ updater' = "ended"
    /\ UNCHANGED <<directoryVars, fsEvent, watcher, loading, cert, cmCtx>>

-------------------------------------------------------------------------------
Renewal == BeginRenewal \/ \E f \in Files : WriteFile(f) \/ RemoveFile(f)
UpdaterStep == ReadCrt \/ ReadCA \/ LoadKey \/ Watch \/ WatchFails \/ UpdaterEnds
WatcherStep == OnEvent \/ OnTick \/ WatcherEnds

CertificatesNext == Renewal \/ StopMonitor \/ UpdaterStep \/ WatcherStep

\* The goroutines run, the ticker ticks, and select takes each ready case some
\* time.  Nobody has to complete a renewal.
CertificatesFairness ==
    /\ WF_certificateVars(ReadCrt \/ ReadCA \/ LoadKey \/ Watch \/ UpdaterEnds)
    /\ WF_certificateVars(OnTick)
    /\ WF_certificateVars(WatcherEnds)

CertificatesSpec == CertificatesInit /\ [][CertificatesNext]_certificateVars

-------------------------------------------------------------------------------
(***************************************************************************)
(* Properties.                                                             *)
(***************************************************************************)

Serving == updater \notin Starting \cup {"unused", "startFailed"}

\* Whatever the monitor reads while the files are being replaced, a certificate in
\* use fits its key and is never followed by an older one or by none.
NeverBack ==
    [][Serving => /\ Fits(cert')
                  /\ cert'["crt"] >= cert["crt"]
                  /\ cert'["key"] >= cert["key"]]_certificateVars

\* Once the files rest (renewals are bounded), the monitor serves what they hold, the CA included, also
\* if events were lost, dropped, or came in the middle of the renewal.
LatestServed ==
    <>[](Fits(disk) /\ Serving /\ cmCtx = "running") => <>[](cert = disk)

\* A monitor that is stopped ends, in the middle of an update too.
MonitorEnds == (Serving /\ cmCtx = "done") ~> (watcher = "ended" /\ updater = "ended")
===============================================================================

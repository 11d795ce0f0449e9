# A TLA+ development of the MQ container

The repository is a docker-compose environment around the source of the IBM MQ
container (`src/mq-container-master`). Its program logic is `runmqserver`, which
runs as process 1 of the container and creates, starts, supervises and stops one
queue manager, together with the probe commands an orchestrator calls. This
directory models that program in TLA+, checks the models with TLC and proves
their main safety properties with TLAPS.

## Inventory

| Component | State | Operations and interactions |
|---|---|---|
| Start-up and shutdown (`cmd/runmqserver/main.go`, `signals.go`, `qmgr.go`) | stage of `doMain`, start-up and shutdown contexts, control channel, two signal channels, children | `doMain` runs MQ commands stage by stage; the signal goroutine answers SIGTERM and SIGCHLD and serves requests of `doMain` on a rendezvous channel; another goroutine runs `dspmq` and `endmqm` |
| Child processes (`internal/command`) | zombies, statuses | `os/exec` waits for one child, `reapZombies` for any |
| Readiness (`internal/ready`) | files in `/run/runmqserver`, which outlive a crash | cleared first, set last; read by `chkmqready`, `chkmqstarted` |
| Log mirroring (`mirror.go`) | open file, its identity, position | tails a log that MQ writes and rotates; cancelled and awaited by `doMain` |
| Metrics service (`internal/metrics`) | five goroutines, four channels, the Prometheus counters | gathers publications, answers scrapes, stopped by three callers |
| Probe logging (`internal/probes`, `chkmqhealthy`, `chkmqstarted`) | last runs of each probe, last line printed, backlog | probes send messages over Unix sockets; listeners keep a record; SIGTERM prints it |
| Certificate monitor (`tlswatch.go`) | certificate in use, two goroutines | reads three files that somebody else replaces; events, debounce, poll; stopped with the metrics server |
| Metrics audit (`audit.go`, `pkg/logrotation`) | numbered files, one lock | handlers of the metrics server append; rotation by renames |
| Key stores (`internal/tls`, `internal/keystore`, `internal/ha`) | key store, trust store, known certificates, labels | assembled at start-up from what is mounted, by commands of MQ; their labels configure the queue manager, the web server and Native HA |
| Other configuration (FIPS, web server, volumes, tracing, licence, names, versions, redaction) | files and environment | sequential steps of start-up |
| Simple authentication (Go and C), `runmqdevserver` | configuration files | run before or beside the supervisor |
| Compose, Kafka, SQL and monitoring files | none | no program logic |

What is hard: signals at any moment of start-up; one `wait` primitive shared by
two kinds of callers; unbuffered channels in both directions; rotation between two
system calls; state printed without a lock; files that survive a crash. The
`hazards` of `PROJECT.json` give each its line and the properties that cover it.

What makes each component correct: start-up and shutdown exclude each other,
nobody is left blocked, the platform's view (readiness, exit) is true; a mirror
neither loses nor repeats; the metrics service stops when told to and counts
once; the probe record is ordered and complete; the certificate in use fits its
key and in the end is the one on disk; a rotation loses only the oldest lines; the
label that is configured finds the key that was supplied for it; a probe answers
for this life of the container.

## Modules

| Module | Models | Correspondence |
|---|---|---|
| `Lifecycle` | abstract specification of the supervisor | phase of a life, queue manager, readiness file |
| `Supervisor` | `main.go`, `signals.go`, `qmgr.go`, `webserver.go`, `command.go`, `logTermination` of `logging.go`, the first part of `GatherMetrics` | `mpc` is the stage of `doMain`, `sh` the place in `signalHandler`, `st`, `gather`, `web` the other goroutines; `child` is the child each waits for. One action per stage outcome, select case and defer; with DEBUG an error exit runs `ffstsummary` first (`ffstEarly`, `ffst`) |
| `SupervisorProofs` | theorems about `Supervisor` | |
| `Metrics` | `metrics.go`, `update.go`, `exporter.go` | one variable per goroutine; a rendezvous is one action of both sides |
| `MetricsProofs` | theorems about `Metrics` | |
| `Pipe` | abstract specification of a mirror | |
| `Mirror` | `mirror.go` | `mpc` is the place in `mirrorLog`; a file is its number in the succession of files, so that `os.SameFile` is equality; `fi` and `newFI` are the variables of the code; `volume` tells whether calls that name the log may fail |
| `MirrorProofs` | theorems about `Mirror` | |
| `Probes` | `probesocket.go`, `probestate.go`, `probeutils.go`, the probe commands as senders | `current`, `previous`, `lastLog` are the fields of the code; a handler that changes the history in two steps has two actions, because the summary reads between them |
| `ProbesProofs` | theorems about `Probes` | |
| `Certificates` | `tlswatch.go` | `updater` and `watcher` are the two goroutines; `loading` is what `updateCert` has read so far, `cert` is `cm.cert`; a file is the renewal it comes from |
| `BoundedLog` | abstract specification of the audit log | |
| `AuditLog` | `audit.go`, `logrotation.go` | `handler[c]` is the request of client `c` with its place in `Append`; one action per call to the file system |
| `AuditLogProofs` | theorems about `AuditLog` | |
| `KeyStores` | `tls.go`, `tls_web.go`, `keystore.go`, `ha.go` | `cms` and `truststore` are the two `KeyStoreData`, `kdb`, `trustP12` and `p12` the files; one action per key set and step |
| `KeyStoresProofs` | theorems about `KeyStores` | |
| `Readiness` | `ready.go`, `chkmqready`, `chkmqstarted` | `started[p]` and `readyRun` are runs of the commands; one action per file operation; `process1` is the part of `doMain` that touches the files |
| `ReadinessProofs` | theorems about `Readiness` | |
| `MCContainer` | composition of `Certificates`, `AuditLog`, `KeyStores` and `Readiness` | one of them is in use at a time |
| `ContainerProofs` | theorems about `Certificates` and about the composition | |
| `MCSupervisor`, `MCMetrics`, `MCMirror`, `MCProbes` | constants of the runs | |

Definitions named `X_Suffix` are faults: the definition `X` as a plausible
mistake would leave it. Each property is known to fail for at least one of them.

`Supervisor` composes with the others by abstraction: `MirrorEnds` stands for what
`Mirror` shows (`CancelLeadsToEnd`), the single step `StopMetrics` for
`StopMetricsGathering`, which `Metrics` shows to return (`StopNeverBlocks`,
`StopTakesEffect`), and `MainProbeWait` for `ListenersEnd` of `Probes`. What
the stage `tls` of `Supervisor` does, and the set-up of Native HA after it, is shown in
detail by `KeyStores`.

`MCContainer` checks four parts that have no variable in common, so that the order of
steps of two of them makes no difference to either. Its initial states put one of
them to use and leave the others at rest, as in a container without metrics, say.

## Abstractions

- Commands of one stage follow each other and fail alike, so one child stands for
  them. A command's outcome is what its caller makes of it. A stage without an
  enabled option may run no command in the code; the model lets it run one, which
  adds only waiting.
- A stage may fail after its last command succeeded, except after `strmqm`, where
  nothing follows.
- `logTermination` runs `ffstsummary` when DEBUG is set, from the point on where
  `collectDiagOnFail` is (`main.go:122`). It is a child of `doMain` like the others; its
  outcome is only logged. The rest of the diagnostics is text.
- An orphan slot is used again once its process has been collected; `Orphans`
  bounds how many live at a time.
- The Go runtime keeps its signal handler after `signal.Stop` and dies of SIGTERM:
  `StopSignal` is then fatal, also for process 1.
- Mirrored text is counted in fragments, what one write adds. Lines, their length
  limit and their format are left out.
- The file system of a log is sound, or from some time on (`Break`) any call that names the
  log may fail for another reason than that there is no file: the error returns at
  `mirror.go:43` (met at 117 and 156), `90`, `100`, `128`, `136` and `176` are `FileFails`. They end
  the mirror without cancellation. A failing `f.Seek`, `f.Close` or read is only logged by the
  code and not modelled.
- `history` variables (`overtaken`, `from`, `mark`, `printed`, `missed`) are read by
  no guard.
- `overtaken` tells the early rotations: the log was moved away while the mirror
  was neither idle nor in possession of the current file and aware of it. This is
  the race the code warns of at `mirror.go:163`.
- `metricsEnabled` is read and written atomically, although the code has no lock.
- One delta metric stands for all; gauges and labels are left out.
- An orchestrator runs the probes of one kind one after the other. A lost message, a
  full backlog, a time-out of 300 ms and a killed probe are the same to the
  listener: the message does not arrive. A message that was accepted arrives: the
  code has no read deadline, and a probe that is suspended between connecting and
  writing is not modelled.
- A renewal of certificates replaces or removes `tls.crt`, `ca.crt` and `tls.key` one
  by one and may keep the private key. A file is read at once; `ca.crt` is optional.
  Events may be lost, and any number of them is one. The sleep of `debounceTime` is
  the wait before the first read: nothing is assumed about what happens meanwhile.
- An audit line has length one and `maxFileBytes` is counted in lines. It is written as a
  whole or, if the write fails (`logrotation.go:153`), not at all; that a failing write
  leaves a part of a line is not modelled. `Append` is
  modelled for `deduplicateLine = false`, the only value it is called with.
- Key stores are made in a directory that has just been cleared (`main.go:163` and
  the link from `/run/runmqserver`), so the part of `Create` that deletes an old store is
  not reached. A key set has at most one `.key` file. Of the commands of MQ the model
  assumes that they refuse a personal certificate that is there, a signer that is
  there, a label that is taken, and whatever would leave two certificates of one subject in a
  store (`OneSubject`, which the comment at `tls.go:773` says of GSKit); any command or
  file may also fail. `ConfigureTLS` ignores a failing list of certificates and goes on without
  `SSLKEYR`, and so does the model.
- `MQ_NATIVE_HA_IN_SYNC_TIMEOUT` is a number, of which one below 0 acts like 0. With a value
  that is no number every `chkmqstarted` that comes to `chkmqstarted/main.go:135` exits with 2,
  which is not modelled.
- A point in time is an age of at most the time-out, in seconds begun. Whether an
  instance is in sync, whether the port is open and what becomes of the queue manager
  are choices. Exit statuses other than success are one, with standby apart.
- Probes run inside the container and end with it; the readiness files do not.
- A stop during the error exit of `doMain` cancels the listeners without `Wait`; the
  model always lets them finish.

## Runs

| Run | Bounds | Shows |
|---|---|---|
| `sup_safety` | 1 orphan, 2 stop signals, 1 restart, 4 environments; 4.7 million states | type correctness, six safety properties, refinement of `Lifecycle` |
| `sup_live` | 1 orphan, 2 stop signals, no restart, with metrics or with diagnostics | a stop signal leads to the exit; zombies are reaped |
| `sup_own` | 1 orphan, 1 signal | violated: children of other goroutines lose their status |
| `metrics` | 2 scrapes, 2 connections, 1 unit published | nobody blocks; a stop takes effect |
| `metrics_delta` | 2 scrapes, 1 connection, 2 units | violated: a delta counted twice |
| `mirror` | 4 files, 3 fragments, from start or end, failing calls | refinement of `Pipe`, jumps, end, progress |
| `mirror_twice` | 3 files, 2 fragments | violated: a file printed twice |
| `probes` | 4 liveness runs, or 3 startup runs and 1 liveness run; 1 message in the backlog | order, truth and count of the record, each result with its own run; the listeners end |
| `probes_summary` | 2 liveness runs | violated: a run listed twice |
| `container` | certificates: 3 renewals, the second with the old key; audit: 2 clients, 5 requests, 3 files of 2 lines, 1 failure, 1 crash; key stores: 2550 combinations of what is mounted; readiness: 2 startup probes and a readiness probe, 1 fault, 1 restart; 209 000 states | see below |
| `keyless` | as `container` | violated: a key set without a private key makes start-up fail |
| `started_blocked` | 1 startup probe, 1 fault | violated: startup probes fail for ever |

What `container` shows:

- `NeverBack`, `LatestServed`, `MonitorEnds`: whatever the monitor reads in the middle of
  a renewal, the certificate in use fits its key and does not go back; once the files
  rest it serves them, CA included, though every event may be lost; both goroutines
  end.
- `ImplementsBoundedLog`, `RetainsEnough`, `AuditedOnce`, `HandlersReturn`: the files
  together lose lines from the old end only and no more than a rotation has to, also
  after failures and crashes between two renames; every request has one line or met
  a failure; the lock is always given back.
- `LabelServes`, `CertificatesKept`, `GoodSupplyAccepted`: the label of a directory leads to
  the key of its first key set, also if that set was skipped as a duplicate, and the
  web server's file holds the same; no certificate gets lost except one that is
  shadowed (see below); a configuration that fails has a cause that fits what is mounted: a
  failing command or file, the defect of a set that has it, two sets with one name, or two
  certificates that are the same or have one subject. A certificate that is merely supplied
  twice, with a key or without, is never a cause.
- `TimeoutCounted`, `ReadyTruthful`, `StartedEventually`: the time-out that makes
  `chkmqstarted` succeed lies within this life and after the start of the queue manager,
  `chkmqready` answers for a completed configuration, and a queue manager that stays
  up is reported as started in the end if no write was cut off.

Why the bounds are enough. Two stop signals: the first is answered, the second
finds the channel, the ignored case or the default effect; a third meets no new
case. One restart shows what a life leaves to the next. One orphan beside the
threads' own children: zombies do not interact. Two scrapes interleave a request
with another's read. Two connections show a reconnect. Four files allow two early
rotations and one in time. Four liveness runs overfill a history of two, three
startup runs count past a lost message. Three renewals allow a pair from three
different ones and both kinds of renewal, with and without a new key. Five lines
overfill three files of which each takes one line before it is rotated, twice. Two
key sets in a directory, or three in two directories, repeat a key, a certificate, a
subject or a name. Three fragments leave one for each side of two rotations. Two probes write the ready-to-sync file at the same time; one restart leaves
it to the next life. For the safety properties with a theorem
the bounds do not matter.

Deadlock is checked in the supervisor, where `Stopped` is the intended end. It is
off in `metrics`, `mirror`, `probes` and `container`: the service has gone, the mirror
has returned, no probe or request is left to run, or the key stores are done.

Symmetry is used in `metrics_delta` only, which checks an invariant.

## Fairness

Go schedules every goroutine that can run, so each goroutine's steps are weakly
fair. `select` chooses uniformly among the cases that are ready: a case that is
ready again and again is taken, which is strong fairness of that case. Commands
terminate: `endmqm` has a time limit (`-tp`), the others have bounded work; the
model asks this of the children of `doMain` and of the stopping goroutine only.
`reapZombies` ends: processes do not terminate for ever faster than it collects
them. The ticker of the certificate monitor ticks for ever. `sync.Mutex` lets in
everybody who waits long enough (its starvation mode), so that a handler whose step is
possible again and again takes it: strong fairness of each handler. Time passes, and an
orchestrator repeats the startup probe until it succeeds. A rotation that has begun is completed, but a first log file need never
appear. A connected `processMetrics` comes back from `ProcessPublications`. Nothing
is assumed of signals, orphans, crashes, scrapes, other probes, renewals, failures, or
of a queue manager becoming active.

## Findings

1. `main.go:508` says that sub-processes of `runmqserver` are not reaped by
   `reapZombies`. Those of the metrics, web server and stopping goroutines can be
   (`sup_own`); a stolen `dspmq` makes `stopQueueManager` return without `endmqm`. So can
   the `ffstsummary` that `doMain` runs with DEBUG when the readiness file cannot be written;
   its status is only logged. The commands of start-up itself are safe
   (`StartupStatusKept`).
2. Concurrent scrapes add one delta twice and lose another (`metrics_delta`).
3. After two rotations in a row the mirror repeats a file, where the comment speaks
   of skipped messages only (`mirror_twice`).
4. The probe summary may list a run twice and omit another (`probes_summary`).
5. A startup probe that is cut off between creating and filling the ready-to-sync file
   leaves an empty file that no later probe repairs (`started_blocked`): the time-out
   which is there so that "we do not block indefinitely" never ends.
6. `tls.go:279` says that a key set without a private key is skipped. The code never gets
   there: `processPrivateKey` returns an error for such a set (`tls.go:458-461`), and
   start-up fails (`keyless`).

Observations made while modelling, without a run:

- A queue manager name that cannot be determined: `main.go:80-83` logs and returns the wrong
  error, which is nil there; the container leaves a termination message and exits with 0,
  where the tests (`docker_api_test.go:42`) expect 1. `nameless` in `Supervisor` is this case.
- `audit.go:105` learns the status of an answer from `WriteHeader` only. A handler that
  answers 200 without calling it, as the one for `/metrics` does, is audited with
  status 0 and an empty result.
- `ready.Status` reports `(REPLICA)` as standby (`ready.go:137`), so that exit status 20
  of `chkmqready` is never used.
- Of two certificate files that start like the key's name the first is remembered as
  known but not stored (`Shadowed` in `KeyStores`); a later set with it adds nothing.
- Two key sets with one name in the two Native HA directories, two different sets with one
  certificate, or certificates of one subject in different sets make start-up fail. The
  validation of subjects (`tls.go:776`) looks at one set at a time, so that the last is found
  by a command of MQ only.
- The first result after a lost first message completes the record of the run before it; as
  long as no first message is lost, `ResultsOfOneRun` holds.
- A failing call on the log ends its mirror for good (`FileFails`); the container goes on
  without it.
- A `chkmqready` that looked before `ready.Clear` may answer for the life before, as
  `early` in `Readiness` tells.

## Proofs

Every property of the passing runs that is not a liveness property has a theorem. All
theorems hold for every value of the constants under the named assumptions of the
modules, which TLC evaluates in the runs:

| Assumption | Says |
|---|---|
| `ConfigAssumption`, `OrphanAssumption`, `BoundAssumption` | environments are records of their fields, those who wait for a child are not orphans, bounds are numbers |
| `ScraperAssumption` | a scrape is not `GatherMetrics` itself |
| `MirrorAssumption`, `GenerationAssumption`, `TimeoutAssumption` | bounds are numbers; each renewal has a key |
| `ProbesAssumption` | a plan says how many runs there are of each kind |
| `AuditAssumption` | there is a file, and it takes more than one line; no client is `Nobody`, the owner of a free lock |
| `SupplyAssumption` | what is mounted: two directories for Native HA, else one; each a sequence of key sets whose labels differ, as names in a directory do; Native HA has no web server's store |

- `SupervisorProofs`: type correctness, then the inductive invariant `IInv`, then
  from it `NoSendOnClosedControl`, `StartupStatusKept`, `StartupExcludesShutdown`,
  `ClosedAfterStop`, `ReadyMeansStarted` and the refinement of `Lifecycle`. The
  properties are not inductive: whether a child of `doMain` can lose its status
  depends on when SIGCHLD was asked for (`NoEarlyReaping`) and on `doMain` having no
  child afterwards but `ffstsummary` (`OneCommand`); the close of the channel depends on the chain
  stop signal, cancelled start-up context, one stopping goroutine, cancelled
  shutdown context (`StartupFirst`, `StopOnce`, `ShutdownOrder`); readiness on the
  file being absent while `strmqm` has not run (`ReadyCleared`, `StrmqmOnce`).
  `MirrorsDrained` needs that no mirror runs before the stage that starts the first,
  nor once `wg.Wait` has returned (`NoMirror`).
- `MetricsProofs`: type correctness; then `StopNeverBlocks` from an account of who
  may send on `stopChannel` and what was received, and `NeverBlocked` from the
  correspondence between `processMetrics` and the one that waits for its answer.
- `MirrorProofs`: type correctness and the refinement of `Pipe`. The invariant says
  that the output is the contiguous part of the log from the start of the mirror to
  its position, and at which places the file it holds is the current one, unless
  the log has been rotated too early. A mirror that fails was cancelled or its file system is
  broken, which is when `Pipe` may fail too. `JumpsToFileStart` also holds then: the position
  is where the output ends or where a file starts (`AtSeam`).
- `ProbesProofs`: type correctness, `HistoryInOrder`, `ResultsOfOneRun`,
  `LatestResultPrinted` and `AttemptsCounted`, for any number of runs and any loss of messages. What is printed and
  counted depends on what is still on its way: the messages of a kind, in the backlog
  and in the listener's hands, are in the order of the runs with at most one first
  message of each (`InOrder`), and follow each other without a gap as long as no first
  message was lost (`Gapless`); then the record that a result completes is that of its own
  run (`ResultsOfOneRun`). `History` relates the two entries and the message that is
  handled, also between the two steps of a shift; `Remembered` says what `dedupLog` may
  rely on.
- `AuditLogProofs`: type correctness and `AuditedOnce`, for any number of clients,
  files, failures and crashes. Every step of a handler either goes on with the same
  line or returns with it written or missed (`HandlerMoves`). `AuditedOnce` is not
  inductive: that a line is not written twice depends on the requests on their way
  having numbers that differ (`LinesOwn`) and on a new number being larger than all
  that are written (`WrittenRequested`).

  The refinement of `BoundedLog` rests on `RotationInv`: one handler at a time is in
  `Append` (`Exclusive`), a file that is absent has no lines (`AbsentEmpty`), and a handler
  that is about to rename or create has made room (`RoomMade`). `Retained`, the files
  joined, is a recursive function of the number of files; what a rename, a removal or an
  append does to it is shown by way of the least file where two such functions would
  differ (`WFMin` for the numbers), because the library's induction theorems cannot be
  instantiated.

  `RetainsEnough` needs more: file 1 is full when a rotation begins (`FirstFull`), and the
  files after it that are not full though a later one has lines, apart from the gap that the rotation in progress
  moves down, are no more than the rotations that were torn (`HolesTorn`). Then the last
  file is removed only when the others hold enough.
- `KeyStoresProofs`: type correctness, `LabelServes`, `CertificatesKept` and
  `GoodSupplyAccepted`, for any number of key sets with any files and any relation of
  keys, labels and certificates. The first two speak of the end, so the invariant
  `LoadInv` says what holds in between, until something fails: the program remembers
  keys and certificates of the sets so far (`KeysKnown`), and for each key the label of an
  entry with it (`LookupServes`); an entry belongs to a set (`EntriesOfSets`) and agrees with
  the `.p12` file of its label (`FilesMatch`); a set that is loaded is none of those before
  (`CurrentNew`); what is stored is known (`StoreKnown`), and what is known is stored, on
  its way or shadowed (`KnownStored`). The two together give that no certificate is added
  to a store that has it and that none is left out. What is stored is wanted by what is mounted
  (`StoreWanted`), so that a clash of subjects in a store is one of the supply. `FilesMatch` has an exception that
  `Relabel` removes: a set whose label is taken has by then overwritten the other's file, and
  the configuration fails.
- `ReadinessProofs`: type correctness, `TimeoutCounted` and `ReadyTruthful`, for any
  number of probes and restarts. The invariant says that a probe gets past `dspmq`
  only after `strmqm` of this life (`RunsAfterStart`), that no time in the ready-to-sync
  file, or that a probe has taken from it, is before that (`TimesOfThisLife`), and when the readiness file may exist
  (`ReadyFileTruthful`).
- `ContainerProofs`: type correctness of `Certificates` and `NeverBack`, for any number of
  renewals. The invariant orders what there is of the succession of renewals: what
  `updateCert` has read is not newer than the directory and not older than what is in
  use (`Forward`), all of it comes from renewals that have begun (`Begun`), and the pair in
  use fits (`ServesFitting`). Then `ContainerParts`: the specification that the run
  `container` checks implements those of its four parts, so that their theorems hold of it,
  type correctness (`ContainerTypeOK`) among them.

Only model-checked: the liveness properties, which depend on fairness and on `ENABLED`.
They are `StopLeadsToExit`, `ZombiesReaped`, `StopTakesEffect`, `CancelLeadsToEnd`,
`EventuallyMirrored`, `ListenersEnd`, `LatestServed`, `MonitorEnds`, `HandlersReturn` and
`StartedEventually`.

## Plan

Done, in this order: the supervisor with its abstract specification, the metrics
service, the mirror with its abstract specification, probe logging; then the
certificate monitor, the audit log with its abstract specification, the key stores and
the readiness commands; then theorems for each of them.

Next, if the models grow: several containers on shared storage, for the race at
`qmgr.go:90`; metrics that appear after a reconnect (`exporter.go:92`); lines in the
mirror.

## Not modelled

- Formatting and filters of log messages, redaction of MQSC, names, ini files, versions,
  FIPS settings and container runtime information: functions of text or of `/proc`
  without state of their own.
- `deduplicateLine` of the rotating log, JKS key stores and `CreateStash`: nothing
  calls them.
- `runmqdevserver`, which writes files and then becomes `runmqserver`; the C
  authorisation service, which runs inside the queue manager.
- The compose environment: configuration without program logic.

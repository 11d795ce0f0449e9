-------------------------------- MODULE Metrics --------------------------------
(***************************************************************************)
(* The metrics service (internal/metrics: metrics.go, update.go and        *)
(* exporter.go): the goroutines that serve Prometheus and the channels     *)
(* between them.                                                           *)
(*                                                                         *)
(*   gather     GatherMetrics: waits for the active queue manager, starts  *)
(*              processMetrics, registers the exporter (which describes    *)
(*              the metrics) and starts the HTTP server                    *)
(*   proc       processMetrics: connects to the queue manager, reads its   *)
(*              publications, answers requests and stops                   *)
(*   server     the goroutine of ListenAndServe                            *)
(*   scraper    one Collect of an HTTP request each; they run in parallel  *)
(*                                                                         *)
(* gather, server and the signal goroutine of runmqserver may each call    *)
(* StopMetricsGathering.  The unbuffered channels are rendezvous; only     *)
(* stopChannel has a buffer.                                               *)
(*                                                                         *)
(* One delta metric stands for all: publications add to its value in the   *)
(* cache of mqmetric, a collect request moves the cache into the map of    *)
(* metrics, which is handed to the collector by reference.                 *)
(***************************************************************************)
EXTENDS Naturals, FiniteSets

CONSTANTS
    Scrapers,       \* HTTP requests in flight at one time
    MaxPublished,   \* bound: what the queue manager publishes in total
    MaxConnects     \* bound: connections to the queue manager

ASSUME BoundAssumption == MaxPublished \in Nat /\ MaxConnects \in Nat
ASSUME ScraperAssumption == "gather" \notin Scrapers

Stoppers == {"gather", "server", "signal"}

\* A fault: room for the one stop request that "ought" to be sent.
StopCapacity_One == 1

\* stopChannel = make(chan bool, 2)
StopCapacity == 2

VARIABLES
    gather,         \* where GatherMetrics is
    proc,           \* where processMetrics is
    server,         \* where the server goroutine is
    scraper,        \* where each Collect is
    stop,           \* where each call of StopMetricsGathering is
    metricsEnabled, \* "no" or "yes"
    stopChannel,    \* requests in the channel
    http,           \* metricsServer: "new", "listening" or "closed"
    firstConnect,   \* "yes" until startChannel was used
    connects,       \* connections made: each has a map of metrics of its own
    cache,          \* delta accumulated by mqmetric since the last collect
    values,         \* the delta in the map of each connection
    held,           \* the connection whose map a collector holds
    firstCollect,   \* "yes" until a Collect has finished
    counter,        \* the Prometheus counter
    published       \* sum of the deltas published

procVars == <<proc, firstConnect, connects>>
dataVars == <<cache, values, held, firstCollect, counter, published>>
stopVars == <<stop, metricsEnabled, stopChannel>>
vars == <<gather, server, scraper, http, procVars, dataVars, stopVars>>

TypeOK ==
    /\ gather \in {"standby", "validate", "awaitStart", "describe", "describing",
                   "serve", "failed", "done"}
    /\ proc \in {"off", "connect", "started", "publish", "select", "respond",
                 "backoff", "gone"}
    /\ server \in {"off", "listen", "accept", "failed", "done"}
    /\ scraper \in [Scrapers -> {"idle", "request", "response", "read", "finish"}]
    /\ stop \in [Stoppers -> {"none", "send", "shutdown", "drain", "done", "skipped"}]
    /\ metricsEnabled \in {"no", "yes"}
    /\ stopChannel \in 0..StopCapacity
    /\ http \in {"new", "listening", "closed"}
    /\ firstConnect \in {"no", "yes"}
    /\ connects \in 0..MaxConnects
    /\ cache \in Nat
    /\ values \in [0..MaxConnects -> Nat]
    /\ held \in [Scrapers -> 0..MaxConnects]
    /\ firstCollect \in {"no", "yes"}
    /\ counter \in Nat
    /\ published \in 0..MaxPublished

Init ==
    /\ gather = "standby" /\ proc = "off" /\ server = "off"
    /\ scraper = [c \in Scrapers |-> "idle"]
    /\ stop = [t \in Stoppers |-> "none"]
    /\ metricsEnabled = "no" /\ stopChannel = 0 /\ http = "new"
    /\ firstConnect = "yes" /\ connects = 0
    /\ cache = 0 /\ values = [g \in 0..MaxConnects |-> 0]
    /\ held = [c \in Scrapers |-> 0]
    /\ firstCollect = "yes" /\ counter = 0 /\ published = 0

-------------------------------------------------------------------------------
(***************************************************************************)
(* StopMetricsGathering, by any of its callers.                            *)
(***************************************************************************)

\* if metricsEnabled
Stop(t) ==
    /\ stop[t] = "none"
    /\ stop' = [stop EXCEPT ![t] = IF metricsEnabled = "yes" THEN "send" ELSE "skipped"]

\* stopChannel <- true: blocks while the buffer is full.
StopSend(t) ==
    /\ stop[t] = "send"
    /\ stopChannel < StopCapacity
    /\ stopChannel' = stopChannel + 1
    /\ stop' = [stop EXCEPT ![t] = "shutdown"]
    /\ UNCHANGED <<gather, server, scraper, http, procVars, dataVars, metricsEnabled>>

\* metricsServer.Shutdown closes the listener first ...
StopShutdown(t) ==
    /\ stop[t] = "shutdown"
    /\ http' = "closed"
    /\ stop' = [stop EXCEPT ![t] = "drain"]
    /\ UNCHANGED <<gather, server, scraper, procVars, dataVars, metricsEnabled, stopChannel>>

\* ... and then waits for the requests in flight, for 5 seconds at most.
StopReturns(t) ==
    /\ stop[t] = "drain"
    /\ stop' = [stop EXCEPT ![t] = "done"]
    /\ UNCHANGED <<gather, server, scraper, http, procVars, dataVars, metricsEnabled, stopChannel>>

\* The signal goroutine, at any time after SIGTERM.
SignalStops ==
    /\ Stop("signal")
    /\ UNCHANGED <<gather, server, scraper, http, procVars, dataVars, metricsEnabled, stopChannel>>

-------------------------------------------------------------------------------
(***************************************************************************)
(* GatherMetrics and startMetricsGathering.                                *)
(***************************************************************************)

\* dspmq says that the queue manager is active.
GatherActive ==
    /\ gather = "standby"
    /\ gather' = "validate"
    /\ metricsEnabled' = "yes"
    /\ UNCHANGED <<server, scraper, http, procVars, dataVars, stop, stopChannel>>

\* The TLS keys and the audit log are usable: go processMetrics.
GatherValidates ==
    /\ gather = "validate"
    /\ gather' = "awaitStart"
    /\ proc' = "connect"
    /\ UNCHANGED <<server, scraper, http, firstConnect, connects, dataVars, stopVars>>

\* startMetricsGathering returns an error: before processMetrics runs, or
\* when the exporter cannot be registered or the certificate be watched.
GatherFails ==
    /\ gather \in {"validate", "serve"}
    /\ gather' = "failed"
    /\ Stop("gather")
    /\ UNCHANGED <<server, scraper, http, procVars, dataVars, metricsEnabled, stopChannel>>

\* <-startChannel
Start ==
    /\ gather = "awaitStart" /\ proc = "started"
    /\ gather' = "describe" /\ proc' = "publish"
    /\ UNCHANGED <<server, scraper, http, firstConnect, connects, dataVars, stopVars>>

\* prometheus.Register calls Describe: requestChannel <- false ...
DescribeRequest ==
    /\ gather = "describe" /\ proc = "select"
    /\ gather' = "describing" /\ proc' = "respond"
    /\ UNCHANGED <<server, scraper, http, firstConnect, connects, dataVars, stopVars>>

\* ... <-responseChannel: counters and gauges are made for the metrics.
DescribeResponse ==
    /\ gather = "describing" /\ proc = "respond"
    /\ gather' = "serve" /\ proc' = "publish"
    /\ UNCHANGED <<server, scraper, http, firstConnect, connects, dataVars, stopVars>>

\* The handlers are in place: start the server goroutine.
GatherServes ==
    /\ gather = "serve"
    /\ gather' = "done"
    /\ server' = "listen"
    /\ UNCHANGED <<scraper, http, procVars, dataVars, stopVars>>

-------------------------------------------------------------------------------
(***************************************************************************)
(* The server goroutine.                                                   *)
(***************************************************************************)

\* ListenAndServe returns ErrServerClosed at once after a Shutdown.
ServerListens ==
    /\ server = "listen"
    /\ IF http = "closed"
         THEN server' = "done" /\ UNCHANGED http
         ELSE server' = "accept" /\ http' = "listening"
    /\ UNCHANGED <<gather, scraper, procVars, dataVars, stopVars>>

ServerCloses ==
    /\ server = "accept"
    /\ http = "closed"
    /\ server' = "done"
    /\ UNCHANGED <<gather, scraper, http, procVars, dataVars, stopVars>>

\* The port is in use, or accept fails.
ServerFails ==
    /\ server \in {"listen", "accept"}
    /\ http # "closed"
    /\ server' = "failed"
    /\ Stop("server")
    /\ UNCHANGED <<gather, scraper, http, procVars, dataVars, metricsEnabled, stopChannel>>

-------------------------------------------------------------------------------
(***************************************************************************)
(* Collect, once for each HTTP request.                                    *)
(***************************************************************************)

ScrapeArrives(c) ==
    /\ scraper[c] = "idle"
    /\ http = "listening"
    /\ server = "accept"
    /\ scraper' = [scraper EXCEPT ![c] = "request"]
    /\ UNCHANGED <<gather, server, http, procVars, dataVars, stopVars>>

\* requestChannel <- true; updateMetrics moves the cache into the map.
CollectRequest(c) ==
    /\ scraper[c] = "request" /\ proc = "select"
    /\ scraper' = [scraper EXCEPT ![c] = "response"]
    /\ proc' = "respond"
    /\ values' = [values EXCEPT ![connects] = cache]
    /\ cache' = 0
    /\ UNCHANGED <<gather, server, http, firstConnect, connects, held, firstCollect,
                   counter, published, stopVars>>

\* <-responseChannel: a reference to the map.
CollectResponse(c) ==
    /\ scraper[c] = "response" /\ proc = "respond"
    /\ scraper' = [scraper EXCEPT ![c] = "read"]
    /\ held' = [held EXCEPT ![c] = connects]
    /\ proc' = "publish"
    /\ UNCHANGED <<gather, server, http, firstConnect, connects, cache, values,
                   firstCollect, counter, published, stopVars>>

\* counter.Add(value), except on the first collect.
CollectRead(c) ==
    /\ scraper[c] = "read"
    /\ scraper' = [scraper EXCEPT ![c] = "finish"]
    /\ counter' = IF firstCollect = "yes" THEN counter ELSE counter + values[held[c]]
    /\ UNCHANGED <<gather, server, http, procVars, cache, values, held, firstCollect,
                   published, stopVars>>

CollectFinish(c) ==
    /\ scraper[c] = "finish"
    /\ scraper' = [scraper EXCEPT ![c] = "idle"]
    /\ firstCollect' = "no"
    /\ UNCHANGED <<gather, server, http, procVars, cache, values, held, counter,
                   published, stopVars>>

-------------------------------------------------------------------------------
(***************************************************************************)
(* processMetrics.                                                         *)
(***************************************************************************)

\* doConnect succeeds; the first time, startChannel <- true follows.  Then
\* initialiseMetrics makes a new map.
ProcConnects ==
    /\ proc = "connect"
    /\ connects < MaxConnects
    /\ connects' = connects + 1
    /\ proc' = IF firstConnect = "yes" THEN "started" ELSE "publish"
    /\ firstConnect' = "no"
    /\ cache' = 0
    /\ UNCHANGED <<gather, server, scraper, http, values, held, firstCollect, counter,
                   published, stopVars>>

\* doConnect fails, or ProcessPublications does: EndConnection.
ProcFails ==
    /\ proc \in {"connect", "publish"}
    /\ proc' = "backoff"
    /\ UNCHANGED <<gather, server, scraper, http, firstConnect, connects, dataVars, stopVars>>

\* ProcessPublications with a delta of d.
ProcPublishes(d) ==
    /\ proc = "publish"
    /\ published + d <= MaxPublished
    /\ proc' = "select"
    /\ cache' = cache + d
    /\ published' = published + d
    /\ UNCHANGED <<gather, server, scraper, http, firstConnect, connects, values, held,
                   firstCollect, counter, stopVars>>

\* case <-time.After of either select
ProcTimesOut ==
    /\ \/ proc = "select" /\ proc' = "publish"
       \/ proc = "backoff" /\ proc' = "connect"
    /\ UNCHANGED <<gather, server, scraper, http, firstConnect, connects, dataVars, stopVars>>

\* A fault: stop requests are looked at only while the connection works.
ProcStops_Connected ==
    /\ proc = "select"
    /\ stopChannel > 0
    /\ stopChannel' = stopChannel - 1
    /\ proc' = "gone"
    /\ UNCHANGED <<gather, server, scraper, http, firstConnect, connects, dataVars,
                   stop, metricsEnabled>>

\* A fault: a stop request interrupts an answer.
ProcStops_Answering ==
    /\ proc \in {"select", "respond", "backoff"}
    /\ stopChannel > 0
    /\ stopChannel' = stopChannel - 1
    /\ proc' = "gone"
    /\ UNCHANGED <<gather, server, scraper, http, firstConnect, connects, dataVars,
                   stop, metricsEnabled>>

\* A fault: the receive does not wait for a request to be there.
ProcStops_Default ==
    /\ proc \in {"select", "backoff"}
    /\ stopChannel' = stopChannel - 1
    /\ proc' = "gone"
    /\ UNCHANGED <<gather, server, scraper, http, firstConnect, connects, dataVars,
                   stop, metricsEnabled>>

\* case <-stopChannel of either select
ProcStops ==
    /\ proc \in {"select", "backoff"}
    /\ stopChannel > 0
    /\ stopChannel' = stopChannel - 1
    /\ proc' = "gone"
    /\ UNCHANGED <<gather, server, scraper, http, firstConnect, connects, dataVars,
                   stop, metricsEnabled>>

-------------------------------------------------------------------------------
StopStep == SignalStops \/ \E t \in Stoppers : StopSend(t) \/ StopShutdown(t) \/ StopReturns(t)

GatherStep ==
    \/ GatherActive \/ GatherValidates \/ GatherFails \/ Start \/ DescribeRequest
    \/ DescribeResponse \/ GatherServes

ServerStep == ServerListens \/ ServerCloses \/ ServerFails

ScrapeStep == \E c \in Scrapers :
    \/ ScrapeArrives(c) \/ CollectRequest(c) \/ CollectResponse(c)
    \/ CollectRead(c) \/ CollectFinish(c)

ProcStep ==
    \/ ProcConnects \/ ProcFails \/ \E d \in 0..MaxPublished : ProcPublishes(d)
    \/ ProcTimesOut \/ ProcStops

Next == StopStep \/ GatherStep \/ ServerStep \/ ScrapeStep \/ ProcStep

(***************************************************************************)
(* Each goroutine runs while it can; select takes a case that stays ready  *)
(* (its choice is uniform).  Nothing makes SIGTERM, a scrape, the active   *)
(* queue manager or a connection to it come about.                         *)
(***************************************************************************)
Fairness ==
    /\ \A t \in Stoppers : WF_vars(StopSend(t)) /\ WF_vars(StopShutdown(t))
                           /\ WF_vars(StopReturns(t))
    /\ WF_vars(GatherValidates \/ GatherFails) /\ WF_vars(GatherServes \/ GatherFails)
    /\ WF_vars(Start) /\ WF_vars(DescribeResponse)
    /\ \A c \in Scrapers : WF_vars(CollectResponse(c))
    /\ WF_vars(ProcConnects \/ ProcFails) /\ WF_vars(ProcFails \/ ProcPublishes(0))
    /\ WF_vars(ProcTimesOut) /\ SF_vars(ProcStops)

Spec == Init /\ [][Next]_vars
FairSpec == Spec /\ Fairness

-------------------------------------------------------------------------------
(***************************************************************************)
(* Properties.                                                             *)
(***************************************************************************)

\* Who waits for an answer of processMetrics.
Waiting ==
    {c \in Scrapers : scraper[c] = "response"} \cup {t \in {"gather"} : gather = "describing"}

\* processMetrics never blocks on a send, where it could not see a stop
\* request: somebody receives from startChannel, and responseChannel has
\* exactly one receiver, which is the one that asked, and none at other times.
NeverBlocked ==
    /\ proc = "started" => gather = "awaitStart"
    /\ proc = "respond" => \E w \in Scrapers \cup {"gather"} : Waiting = {w}
    /\ proc # "respond" => Waiting = {}

\* The signal goroutine, which must go on to stop the queue manager, never
\* blocks on stopChannel, even if processMetrics has gone or never ran and
\* gather or the server have already asked it to stop.
StopNeverBlocks == \A t \in Stoppers : stop[t] = "send" => stopChannel < StopCapacity

\* A stop asked for by the signal goroutine is carried out for good, whatever
\* the queue manager, the other goroutines and the scrapes do meanwhile: the
\* call returns, the server accepts no more and processMetrics has gone, even
\* if GatherMetrics had yet to start it.
StopTakesEffect ==
    stop["signal"] = "send" ~>
        [](stop["signal"] = "done" /\ http = "closed" /\ proc \in {"off", "gone"})

\* The counter never exceeds what the queue manager published: the test of
\* Collect asserts that it is the sum of the deltas.
DeltaCountedOnce == counter <= published
===============================================================================

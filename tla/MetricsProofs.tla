----------------------------- MODULE MetricsProofs -----------------------------
(***************************************************************************)
(* Proofs about the metrics service, for any number of scrapes, of         *)
(* publications and of connections: stopping it never blocks the one who   *)
(* stops it, and processMetrics never blocks on an answer.                 *)
(***************************************************************************)
EXTENDS Metrics, TLAPS

\* What a goroutine can be at depends on how far GatherMetrics is: the server
\* runs only once it is done, and fails or is asked to stop only after that,
\* so that gather and the server never both ask processMetrics to stop.
StagesOrdered ==
    /\ gather # "done" => server = "off"
    /\ stop["gather"] # "none" => gather = "failed"
    /\ stop["server"] # "none" => server = "failed"

\* 1 if t has put its request into the channel.
Sent(t) == IF stop[t] \in {"shutdown", "drain", "done"} THEN 1 ELSE 0

\* The channel holds no more than was sent.
RequestsCounted == stopChannel <= Sent("gather") + Sent("server") + Sent("signal")

\* startChannel is used while GatherMetrics receives from it.
FirstConnect ==
    /\ gather \in {"standby", "validate"} => proc = "off"
    /\ (firstConnect = "yes" /\ proc # "off") => gather = "awaitStart"
    /\ proc = "started" => firstConnect = "no"

IInv == TypeOK /\ StagesOrdered /\ RequestsCounted /\ FirstConnect /\ NeverBlocked

-------------------------------------------------------------------------------
\* Every step keeps the variables in their types.
LEMMA TypeStep == TypeOK /\ [Next]_vars => TypeOK'
<1> SUFFICES ASSUME TypeOK, [Next]_vars PROVE TypeOK'
  OBVIOUS
<1> USE BoundAssumption DEF TypeOK, Stoppers, StopCapacity
<1>1. CASE UNCHANGED vars
  BY <1>1 DEF vars, procVars, dataVars, stopVars
<1>2. CASE StopStep
  BY <1>2, SMTT(30) DEF StopStep, SignalStops, Stop, StopSend, StopShutdown, StopReturns,
     procVars, dataVars
<1>3. CASE GatherStep
  BY <1>3, SMTT(30) DEF GatherStep, GatherActive, GatherValidates, GatherFails, Start,
     DescribeRequest, DescribeResponse, GatherServes, Stop, procVars, dataVars, stopVars
<1>4. CASE ServerStep
  BY <1>4, SMTT(30) DEF ServerStep, ServerListens, ServerCloses, ServerFails, Stop, procVars,
     dataVars, stopVars
<1>5. ASSUME NEW c \in Scrapers,
             \/ ScrapeArrives(c) \/ CollectRequest(c) \/ CollectResponse(c)
             \/ CollectRead(c) \/ CollectFinish(c)
      PROVE  TypeOK'
  <2>1. CASE ScrapeArrives(c) \/ CollectFinish(c)
    BY <2>1, SMTT(30) DEF ScrapeArrives, CollectFinish, procVars, dataVars, stopVars
  <2>2. CASE CollectRequest(c)
    BY <2>2, SMTT(30) DEF CollectRequest, stopVars
  <2>3. CASE CollectResponse(c)
    BY <2>3, SMTT(30) DEF CollectResponse, stopVars
  <2>4. CASE CollectRead(c)
    <3>1. counter' \in Nat
      BY <2>4 DEF CollectRead
    <3> QED
      BY <2>4, <3>1, SMTT(30) DEF CollectRead, procVars, stopVars
  <2> QED
    BY <1>5, <2>1, <2>2, <2>3, <2>4
<1>6. ASSUME NEW d \in 0..MaxPublished, ProcPublishes(d) PROVE TypeOK'
  BY <1>6, SMTT(30) DEF ProcPublishes, stopVars
<1>7. CASE ProcConnects
  BY <1>7 DEF ProcConnects, stopVars
<1>8. CASE ProcFails
  BY <1>8 DEF ProcFails, dataVars, stopVars
<1>9. CASE ProcTimesOut
  BY <1>9 DEF ProcTimesOut, dataVars, stopVars
<1>10. CASE ProcStops
  BY <1>10 DEF ProcStops, dataVars
<1> QED
  BY <1>1, <1>2, <1>3, <1>4, <1>5, <1>6, <1>7, <1>8, <1>9, <1>10 DEF Next, ScrapeStep, ProcStep

\* Type correctness of the metrics service.
THEOREM TypeCorrect == Spec => []TypeOK
<1>1. Init => TypeOK
  BY BoundAssumption DEF Init, TypeOK, Stoppers, StopCapacity
<1> QED
  BY <1>1, TypeStep, PTL DEF Spec

-------------------------------------------------------------------------------
\* The order of the goroutines' stages and the requests sent.
LEMMA StopsStep ==
    ASSUME TypeOK, StagesOrdered, RequestsCounted, [Next]_vars
    PROVE  StagesOrdered' /\ RequestsCounted'
<1> USE DEF TypeOK, StagesOrdered, RequestsCounted, Sent, Stoppers, StopCapacity
<1>1. CASE UNCHANGED vars
  BY <1>1 DEF vars, procVars, dataVars, stopVars
<1>2. CASE SignalStops
  BY <1>2 DEF SignalStops, Stop, procVars, dataVars
<1>3. ASSUME NEW t \in Stoppers, StopSend(t) \/ StopShutdown(t) \/ StopReturns(t)
      PROVE  StagesOrdered' /\ RequestsCounted'
  BY <1>3, SMTT(30) DEF StopSend, StopShutdown, StopReturns, procVars, dataVars
<1>4. CASE GatherStep
  BY <1>4, SMTT(30) DEF GatherStep, GatherActive, GatherValidates, GatherFails, Start,
     DescribeRequest, DescribeResponse, GatherServes, Stop, procVars, dataVars, stopVars
<1>5. CASE ServerStep
  BY <1>5, SMTT(30) DEF ServerStep, ServerListens, ServerCloses, ServerFails, Stop, procVars,
     dataVars, stopVars
<1>6. CASE ScrapeStep
  BY <1>6 DEF ScrapeStep, ScrapeArrives, CollectRequest, CollectResponse, CollectRead,
     CollectFinish, procVars, dataVars, stopVars
<1>7. CASE ProcStep
  BY <1>7, SMTT(30) DEF ProcStep, ProcConnects, ProcFails, ProcPublishes, ProcTimesOut,
     ProcStops, dataVars, stopVars
<1> QED
  BY <1>1, <1>2, <1>3, <1>4, <1>5, <1>6, <1>7 DEF Next, StopStep

\* The channels of processMetrics.
LEMMA ChannelsStep ==
    ASSUME TypeOK, FirstConnect, NeverBlocked, [Next]_vars
    PROVE  FirstConnect' /\ NeverBlocked'
<1> USE ScraperAssumption DEF TypeOK, FirstConnect, NeverBlocked, Waiting, Stoppers
<1>1. CASE UNCHANGED vars
  BY <1>1 DEF vars, procVars, dataVars, stopVars
<1>2. CASE StopStep
  <2>1. UNCHANGED <<gather, scraper, procVars>>
    BY <1>2 DEF StopStep, SignalStops, Stop, StopSend, StopShutdown, StopReturns
  <2> QED
    BY <2>1 DEF procVars
<1>3. CASE GatherActive \/ GatherValidates \/ GatherFails \/ Start \/ GatherServes
  <2>1. scraper' = scraper /\ gather # "describing" /\ gather' # "describing"
    BY <1>3 DEF GatherActive, GatherValidates, GatherFails, Start, GatherServes
  <2>2. Waiting' = Waiting
    BY <2>1
  <2>3. proc # "respond" <=> proc' # "respond"
    BY <1>3 DEF GatherActive, GatherValidates, GatherFails, Start, GatherServes, procVars
  <2>4. FirstConnect'
    BY <1>3 DEF GatherActive, GatherValidates, GatherFails, Start, GatherServes, procVars
  <2>5. NeverBlocked'
    <3> HIDE DEF Waiting
    <3> QED
      BY <1>3, <2>2, <2>3, <2>4
         DEF GatherActive, GatherValidates, GatherFails, Start, GatherServes, procVars
  <2> QED
    BY <2>4, <2>5
<1>4. CASE DescribeRequest
  BY <1>4 DEF DescribeRequest, procVars, dataVars, stopVars
<1>5. CASE DescribeResponse
  BY <1>5 DEF DescribeResponse, procVars, dataVars, stopVars
<1>6. CASE ServerStep
  <2>1. UNCHANGED <<gather, scraper, procVars>>
    BY <1>6 DEF ServerStep, ServerListens, ServerCloses, ServerFails
  <2> QED
    BY <2>1 DEF procVars
<1>7. ASSUME NEW c \in Scrapers, ScrapeArrives(c) \/ CollectRead(c) \/ CollectFinish(c)
      PROVE  FirstConnect' /\ NeverBlocked'
  <2>1. UNCHANGED <<gather, proc, firstConnect>>
    BY <1>7 DEF ScrapeArrives, CollectRead, CollectFinish, procVars
  <2>2. \A e \in Scrapers : scraper'[e] = "response" <=> scraper[e] = "response"
    BY <1>7 DEF ScrapeArrives, CollectRead, CollectFinish
  <2>3. Waiting' = Waiting
    BY <2>1, <2>2
  <2> QED
    BY <2>1, <2>3 DEF FirstConnect, NeverBlocked
<1>8. ASSUME NEW c \in Scrapers, CollectRequest(c) PROVE FirstConnect' /\ NeverBlocked'
  <2>1. gather' = gather /\ proc = "select" /\ proc' = "respond" /\ firstConnect' = firstConnect
    BY <1>8 DEF CollectRequest
  <2>2. gather # "describing" /\ \A e \in Scrapers : scraper[e] # "response"
    BY <2>1
  <2>3. \A e \in Scrapers : scraper'[e] = "response" <=> e = c
    BY <1>8, <2>2 DEF CollectRequest
  <2>4. Waiting' = {c}
    BY <2>1, <2>2, <2>3
  <2> QED
    BY <2>1, <2>4
<1>9. ASSUME NEW c \in Scrapers, CollectResponse(c) PROVE FirstConnect' /\ NeverBlocked'
  BY <1>9 DEF CollectResponse, procVars, dataVars, stopVars
<1>10. CASE ProcStep
  BY <1>10 DEF ProcStep, ProcConnects, ProcFails, ProcPublishes, ProcTimesOut, ProcStops,
     dataVars, stopVars
<1> QED
  BY <1>1, <1>2, <1>3, <1>4, <1>5, <1>6, <1>7, <1>8, <1>9, <1>10
     DEF Next, GatherStep, ScrapeStep

\* The inductive invariant of the metrics service.
THEOREM Inductive == Spec => []IInv
<1>1. Init => IInv
  BY BoundAssumption DEF Init, IInv, TypeOK, StagesOrdered, RequestsCounted, Sent, FirstConnect,
     NeverBlocked, Waiting, Stoppers, StopCapacity
<1>2. IInv /\ [Next]_vars => IInv'
  BY TypeStep, StopsStep, ChannelsStep DEF IInv
<1> QED
  BY <1>1, <1>2, PTL DEF Spec

\* Nobody who calls StopMetricsGathering waits for room in stopChannel: in
\* particular the signal goroutine goes on to end the queue manager.
THEOREM StopSafe == Spec => []StopNeverBlocks
<1>1. IInv => StopNeverBlocks
  BY DEF IInv, TypeOK, StagesOrdered, RequestsCounted, Sent, StopNeverBlocks, Stoppers,
     StopCapacity
<1> QED
  BY <1>1, Inductive, PTL

\* processMetrics always comes back to where it sees a stop request: whenever
\* it sends, exactly the one it sends to is receiving.
THEOREM AnswerSafe == Spec => []NeverBlocked
<1>1. IInv => NeverBlocked
  BY DEF IInv
<1> QED
  BY <1>1, Inductive, PTL
===============================================================================

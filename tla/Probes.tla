--------------------------------- MODULE Probes ---------------------------------
(***************************************************************************)
(* Probe logging (internal/probes and its use by chkmqhealthy,             *)
(* chkmqstarted and runmqserver).  A run of a probe command sends a        *)
(* message to a Unix socket when it starts and another when it has its     *)
(* result; one listener goroutine of runmqserver for each kind of probe    *)
(* receives them and keeps a record of the last runs, which the signal     *)
(* goroutine prints at SIGTERM.                                            *)
(*                                                                         *)
(* The orchestrator runs the probes of a kind one after the other and      *)
(* kills a run that takes too long.  A message may be lost: the listener   *)
(* may be away or too slow (300 ms), or the run may be killed.  A text is  *)
(* told by the status it is about.                                         *)
(***************************************************************************)
EXTENDS Naturals, Sequences

CONSTANTS
    Plans,      \* bound: how many runs of each kind there may be, at most
    MaxBacklog  \* bound: connections that wait to be accepted

Kinds == {"liveness", "startup"}

ASSUME ProbesAssumption == Plans \subseteq [Kinds -> Nat] /\ MaxBacklog \in Nat

VARIABLES
    plan,       \* the one of Plans that holds
    run,        \* the number of the run that is, or was last, of each kind
    probe,      \* where it is: "idle", "silent" or "checking"
    backlog,    \* messages to the listener
    listener,   \* where it is: "off", "accept", "handle", "shifted" or "done"
    msg,        \* the message it handles, if any
    current,    \* CurrentRun
    previous,   \* PreviousRuns of the liveness probe
    lastLog,    \* lastLog, by socket
    printed,    \* history: the last text on the console, by socket
    missed,     \* history: kinds of probes of which a first message was lost
    main,       \* runmqserver: "init", "up", "cancelled" or "over"
    signal,     \* the signal goroutine: "none", "previous" or "done"
    summary     \* the runs in the summary

probeVars == <<plan, run, probe, backlog, missed>>
stateVars == <<current, previous, lastLog, printed>>
sumVars == <<signal, summary>>
vars == <<probeVars, listener, msg, stateVars, main, sumVars>>

\* ProbeLoggingExecution: start and end name the run whose clock was read,
\* 0 stands for nil; a duration is known or not.
Executions ==
    [start: Nat, end: Nat, status: {"INCOMPLETE", "PASSED", "FAILED"},
     duration: {"nil", "known"}, attempts: Nat]

\* No run.
Nil == [start |-> 0, end |-> 0, status |-> "INCOMPLETE", duration |-> "nil", attempts |-> 0]

TypeOK ==
    /\ plan \in Plans
    /\ \A k \in Kinds : run[k] \in 0..plan[k]
    /\ probe \in [Kinds -> {"idle", "silent", "checking"}]
    /\ \A k \in Kinds : backlog[k] \in Seq(Executions) /\ Len(backlog[k]) <= MaxBacklog
    /\ listener \in [Kinds -> {"off", "accept", "handle", "shifted", "done"}]
    /\ msg \in [Kinds -> Executions]
    /\ current \in [Kinds -> Executions]
    /\ previous \in [1..2 -> Executions]
    /\ lastLog \in [Kinds -> {"none", "PASSED", "FAILED"}]
    /\ printed \in [Kinds -> {"none", "PASSED", "FAILED"}]
    /\ missed \subseteq Kinds
    /\ main \in {"init", "up", "cancelled", "over"}
    /\ signal \in {"none", "previous", "done"}
    /\ summary \in Seq(Nat \ {0}) /\ Len(summary) <= 3

Init ==
    /\ plan \in Plans
    /\ run = [k \in Kinds |-> 0] /\ probe = [k \in Kinds |-> "idle"]
    /\ backlog = [k \in Kinds |-> <<>>] /\ missed = {}
    /\ listener = [k \in Kinds |-> "off"] /\ msg = [k \in Kinds |-> Nil]
    /\ current = [k \in Kinds |-> Nil] /\ previous = [i \in 1..2 |-> Nil]
    /\ lastLog = [k \in Kinds |-> "none"] /\ printed = [k \in Kinds |-> "none"]
    /\ main = "init" /\ signal = "none" /\ summary = <<>>

-------------------------------------------------------------------------------
(***************************************************************************)
(* A run of chkmqhealthy or chkmqstarted.                                  *)
(***************************************************************************)

\* The listener that is not away takes the connection.
Reachable(k) == listener[k] \notin {"off", "done"} /\ Len(backlog[k]) < MaxBacklog

\* SendProbeLoggingExecution: the message joins the backlog or is lost.
Send(k, m) ==
    \/ Reachable(k) /\ backlog' = [backlog EXCEPT ![k] = Append(@, m)]
    \/ UNCHANGED backlog

\* IsProbeLoggingEnabled, once for the whole run, then the first message.
ProbeStarts(k) ==
    /\ probe[k] = "idle"
    /\ run[k] < plan[k]
    /\ run' = [run EXCEPT ![k] = @ + 1]
    /\ IF listener[k] \in {"off", "done"}
         THEN probe' = [probe EXCEPT ![k] = "silent"] /\ UNCHANGED backlog
         ELSE /\ probe' = [probe EXCEPT ![k] = "checking"]
              /\ Send(k, [Nil EXCEPT !.start = run'[k]])
    /\ missed' = IF backlog' = backlog THEN missed \cup {k} ELSE missed
    /\ UNCHANGED <<plan, listener, msg, stateVars, main, sumVars>>

\* LogLivenessProbeMessage has a duration and an end, LogStartupProbeMessage none.
ProbeEnds(k, status) ==
    /\ probe[k] # "idle"
    /\ probe' = [probe EXCEPT ![k] = "idle"]
    /\ IF probe[k] = "checking"
         THEN Send(k, [start |-> run[k], end |-> IF k = "liveness" THEN run[k] ELSE 0,
                       status |-> status, attempts |-> 0,
                       duration |-> IF k = "liveness" THEN "known" ELSE "nil"])
         ELSE UNCHANGED backlog
    /\ UNCHANGED <<plan, run, missed, listener, msg, stateVars, main, sumVars>>

-------------------------------------------------------------------------------
(***************************************************************************)
(* The listeners.                                                          *)
(***************************************************************************)

\* ProbeLoggingSocket.Start, which leaves off at the first socket that fails.
Start ==
    /\ main = "init"
    /\ main' = "up"
    /\ \E started \in {{}, {"liveness"}, Kinds} :
         listener' = [k \in Kinds |-> IF k \in started THEN "accept" ELSE "off"]
    /\ UNCHANGED <<probeVars, msg, stateVars, sumVars>>

\* A fault: nothing closes the listener when the context is cancelled.
Accept_NotClosed(k) ==
    /\ listener[k] = "accept"
    /\ backlog[k] # <<>>
    /\ msg' = [msg EXCEPT ![k] = Head(backlog[k])]
    /\ backlog' = [backlog EXCEPT ![k] = Tail(@)]
    /\ listener' = [listener EXCEPT ![k] = "handle"]
    /\ UNCHANGED <<plan, run, probe, missed, stateVars, main, sumVars>>

\* Accept: a message, or the end once the context is cancelled.
Accept(k) ==
    /\ listener[k] = "accept"
    /\ \/ /\ backlog[k] # <<>>
          /\ msg' = [msg EXCEPT ![k] = Head(backlog[k])]
          /\ backlog' = [backlog EXCEPT ![k] = Tail(@)]
          /\ listener' = [listener EXCEPT ![k] = "handle"]
       \/ /\ main \in {"cancelled", "over"}
          /\ listener' = [listener EXCEPT ![k] = "done"]
          /\ backlog' = [backlog EXCEPT ![k] = <<>>]
          /\ UNCHANGED msg
    /\ UNCHANGED <<plan, run, probe, missed, stateVars, main, sumVars>>

\* A fault: the duration of a run that got no result stays unknown.
LivenessShift_NoDuration ==
    /\ listener["liveness"] = "handle" /\ msg["liveness"].status = "INCOMPLETE"
    /\ listener' = [listener EXCEPT !["liveness"] = "shifted"]
    /\ IF current["liveness"] = Nil
         THEN UNCHANGED <<current, previous>>
         ELSE /\ current' = current
              /\ previous' = [previous EXCEPT ![2] = previous[1], ![1] = current["liveness"]]
    /\ UNCHANGED <<probeVars, msg, lastLog, printed, main, sumVars>>

\* handleLivenessProbe of the first message of a run: the history moves ...
LivenessShift ==
    /\ listener["liveness"] = "handle" /\ msg["liveness"].status = "INCOMPLETE"
    /\ listener' = [listener EXCEPT !["liveness"] = "shifted"]
    /\ IF current["liveness"] = Nil
         THEN UNCHANGED <<current, previous>>
         ELSE /\ current' = [current EXCEPT !["liveness"].duration = "known"]
              /\ previous' = [previous EXCEPT ![2] = previous[1], ![1] = current'["liveness"]]
    /\ UNCHANGED <<probeVars, msg, lastLog, printed, main, sumVars>>

\* A fault: the record is used again, with the end of the run before.
LivenessBegins_OldEnd ==
    /\ listener["liveness"] = "shifted"
    /\ listener' = [listener EXCEPT !["liveness"] = "accept"]
    /\ current' = [current EXCEPT !["liveness"] =
                     [msg["liveness"] EXCEPT !.end = current["liveness"].end]]
    /\ msg' = [msg EXCEPT !["liveness"] = Nil]
    /\ UNCHANGED <<probeVars, previous, lastLog, printed, main, sumVars>>

\* ... and the run becomes the current one.
LivenessBegins ==
    /\ listener["liveness"] = "shifted"
    /\ listener' = [listener EXCEPT !["liveness"] = "accept"]
    /\ current' = [current EXCEPT !["liveness"] = msg["liveness"]]
    /\ msg' = [msg EXCEPT !["liveness"] = Nil]
    /\ UNCHANGED <<probeVars, previous, lastLog, printed, main, sumVars>>

\* A fault: an error is printed but not remembered.
Dedup_Forgets(k, status) ==
    IF (status = "FAILED" /\ k = "startup") \/ (status = "PASSED" /\ lastLog[k] = status)
      THEN UNCHANGED <<lastLog, printed>>
      ELSE /\ lastLog' = [lastLog EXCEPT ![k] = IF status = "FAILED" THEN @ ELSE status]
           /\ printed' = [printed EXCEPT ![k] = status]

\* dedupLog: errors of the startup probe and repeated successes are left out.
Dedup(k, status) ==
    IF (status = "FAILED" /\ k = "startup") \/ (status = "PASSED" /\ lastLog[k] = status)
      THEN UNCHANGED <<lastLog, printed>>
      ELSE /\ lastLog' = [lastLog EXCEPT ![k] = status]
           /\ printed' = [printed EXCEPT ![k] = status]

\* handleLivenessProbe of a result: it completes the current run, of
\* whichever run it is the result.
LivenessResult ==
    /\ listener["liveness"] = "handle" /\ msg["liveness"].status # "INCOMPLETE"
    /\ listener' = [listener EXCEPT !["liveness"] = "accept"]
    /\ current' = [current EXCEPT !["liveness"] =
                     IF @ = Nil THEN msg["liveness"]
                     ELSE [msg["liveness"] EXCEPT !.start = current["liveness"].start]]
    /\ Dedup("liveness", msg["liveness"].status)
    /\ msg' = [msg EXCEPT !["liveness"] = Nil]
    /\ UNCHANGED <<probeVars, previous, main, sumVars>>

\* A fault: a result starts the count again.
StartupHandle_Restart ==
    /\ listener["startup"] = "handle"
    /\ listener' = [listener EXCEPT !["startup"] = "accept"]
    /\ LET m == msg["startup"]
       IN  IF m.status = "INCOMPLETE"
             THEN /\ current' = [current EXCEPT !["startup"] =
                                   [m EXCEPT !.attempts = current["startup"].attempts + 1]]
                  /\ UNCHANGED <<lastLog, printed>>
             ELSE /\ current' = [current EXCEPT !["startup"] = m]
                  /\ Dedup("startup", m.status)
    /\ msg' = [msg EXCEPT !["startup"] = Nil]
    /\ UNCHANGED <<probeVars, previous, main, sumVars>>

\* handleStartupProbe: the first message of a run counts the attempt, the
\* result keeps the count.
StartupHandle ==
    /\ listener["startup"] = "handle"
    /\ listener' = [listener EXCEPT !["startup"] = "accept"]
    /\ LET m == msg["startup"]
           attempts == current["startup"].attempts
       IN  IF m.status = "INCOMPLETE"
             THEN /\ current' = [current EXCEPT !["startup"] = [m EXCEPT !.attempts = attempts + 1]]
                  /\ UNCHANGED <<lastLog, printed>>
             ELSE /\ current' = [current EXCEPT !["startup"] = [m EXCEPT !.attempts = attempts]]
                  /\ Dedup("startup", m.status)
    /\ msg' = [msg EXCEPT !["startup"] = Nil]
    /\ UNCHANGED <<probeVars, previous, main, sumVars>>

-------------------------------------------------------------------------------
(***************************************************************************)
(* runmqserver.                                                            *)
(***************************************************************************)

\* A line of the summary, for a run that has been started.
Entry(execution) == IF execution.start = 0 THEN <<>> ELSE <<execution.start>>

\* SIGTERM: WriteProbeSummary reads the state without a lock.  It prefers the
\* liveness probe and prints the current run ...
SummaryCurrent ==
    /\ signal = "none" /\ main \in {"init", "up"}
    /\ LET k == IF current["liveness"] # Nil THEN "liveness" ELSE "startup"
       IN  /\ summary' = Entry(current[k])
           /\ signal' = IF k = "liveness" THEN "previous" ELSE "done"
    /\ UNCHANGED <<probeVars, listener, msg, stateVars, main>>

\* A fault: previous runs that never were are printed too.
SummaryPrevious_Empty ==
    /\ signal = "previous"
    /\ signal' = "done"
    /\ summary' = summary \o <<previous[1].start, previous[2].start>>
    /\ UNCHANGED <<probeVars, listener, msg, stateVars, main>>

\* ... and then the previous runs, of which it copies the array.
SummaryPrevious ==
    /\ signal = "previous"
    /\ signal' = "done"
    /\ summary' = summary \o Entry(previous[1]) \o Entry(previous[2])
    /\ UNCHANGED <<probeVars, listener, msg, stateVars, main>>

\* probeLoggingSocketCtxCancel, when the signal goroutine has closed the
\* control channel, or when doMain returns early.
Cancel ==
    /\ main = "up"
    /\ main' = "cancelled"
    /\ UNCHANGED <<probeVars, listener, msg, stateVars, sumVars>>

\* probeLoggingSocket.Wait
WaitReturns ==
    /\ main = "cancelled"
    /\ \A k \in Kinds : listener[k] \in {"off", "done"}
    /\ main' = "over"
    /\ UNCHANGED <<probeVars, listener, msg, stateVars, sumVars>>

-------------------------------------------------------------------------------
ProbeStep == \E k \in Kinds :
    ProbeStarts(k) \/ \E status \in {"PASSED", "FAILED"} : ProbeEnds(k, status)

ListenerStep ==
    \/ \E k \in Kinds : Accept(k)
    \/ LivenessShift \/ LivenessBegins \/ LivenessResult \/ StartupHandle

MainStep == Start \/ SummaryCurrent \/ SummaryPrevious \/ Cancel \/ WaitReturns

Next == ProbeStep \/ ListenerStep \/ MainStep

\* The goroutines run; nothing makes a probe run or SIGTERM arrive.
Fairness ==
    /\ \A k \in Kinds : WF_vars(Accept(k))
    /\ WF_vars(LivenessShift \/ LivenessBegins \/ LivenessResult)
    /\ WF_vars(StartupHandle)
    /\ WF_vars(WaitReturns)

Spec == Init /\ [][Next]_vars
FairSpec == Spec /\ Fairness

-------------------------------------------------------------------------------
(***************************************************************************)
(* Properties.                                                             *)
(***************************************************************************)

\* Between two messages the history of the liveness probe is in order: each
\* run is older than the one before it in the list, none is there twice and,
\* whatever messages were lost, each previous run has a duration to print.
HistoryInOrder ==
    listener["liveness"] \in {"off", "accept", "done"} =>
        /\ \A i \in 1..2 : previous[i] # Nil =>
             /\ previous[i].duration = "known"
             /\ previous[i].start < IF i = 1 THEN current["liveness"].start
                                             ELSE previous[1].start

\* A result completes the record of its own run, however late it comes and whichever
\* results are lost: only if the first message of a run was lost can its result
\* overwrite what is known of the run before.
ResultsOfOneRun ==
    "liveness" \notin missed =>
        \A record \in {current["liveness"], previous[1], previous[2]} :
            record.end \in {0, record.start}

\* Although dedupLog leaves lines out, the console can be trusted for what it is
\* meant to show.  Of the liveness probe the last line is about the result that
\* was handled last.  Of the startup probe only success is shown: once it is
\* handled it is the last line, and stays so if a later attempt fails, because
\* failures of the startup probe are never printed.
LatestResultPrinted ==
    /\ (listener["liveness"] \in {"accept", "done"} /\ current["liveness"].status # "INCOMPLETE")
         => printed["liveness"] = current["liveness"].status
    /\ current["startup"].status = "PASSED" => printed["startup"] = "PASSED"
    /\ printed["startup"] # "FAILED"

\* The startup probe's count of attempts is the number of the run it is kept
\* with, unless a first message was lost, and never more than that.
AttemptsCounted ==
    LET c == current["startup"]
    IN  c.attempts <= c.start /\ ("startup" \notin missed => c.attempts = c.start)

\* Once the context is cancelled the listeners end, so that Wait returns and
\* the container can exit.
ListenersEnd == main = "cancelled" ~> main = "over"

\* The summary lists the current run and the runs before it, each once.
SummaryListsRunsOnce == \A i, j \in 1..Len(summary) : summary[i] = summary[j] => i = j
===============================================================================

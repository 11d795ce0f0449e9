------------------------------ MODULE ProbesProofs ------------------------------
(***************************************************************************)
(* Theorems about probe logging, for any number of runs of the probes and  *)
(* any length of the backlog, whichever messages are lost.                 *)
(*                                                                         *)
(* What is printed and counted depends on what is on its way: the messages *)
(* of a kind reach the listener in the order of the runs (InOrder), with   *)
(* at most one first message of each, and without a gap as long as no      *)
(* first message is lost (WithoutGap).                                     *)
(***************************************************************************)
EXTENDS Probes, TLAPS

\* What TypeOK leaves open: two functions that it describes by their values, and that no
\* listener is at work before Start.
Functions ==
    /\ run \in [Kinds -> Nat]
    /\ backlog \in [Kinds -> Seq(Executions)]
    /\ main = "init" => \A k \in Kinds : listener[k] = "off"

\* The listener has a message in its hands.
Handling(k) == listener[k] \in {"handle", "shifted"}

-------------------------------------------------------------------------------
\* m may come after what is about run n: a first message is about a later run.
After(m, n) == n <= m.start /\ (m.status = "INCOMPLETE" => n < m.start)

\* Messages that wait are in order, come after the one that is handled and the one that was
\* handled last, and are about runs that have been started.
InOrder(k) ==
    /\ current[k].start <= run[k]
    /\ Handling(k) => After(msg[k], current[k].start) /\ msg[k].start <= run[k]
    /\ \A i \in 1..Len(backlog[k]) :
         /\ After(backlog[k][i], current[k].start)
         /\ Handling(k) => After(backlog[k][i], msg[k].start)
         /\ backlog[k][i].start <= run[k]
         /\ \A j \in 1..(i - 1) : After(backlog[k][i], backlog[k][j].start)

\* The run that the message before number i of the backlog is about.
RunBefore(k, i) ==
    IF i > 1 THEN backlog[k][i - 1].start
    ELSE IF Handling(k) THEN msg[k].start ELSE current[k].start

\* m comes next after what is about run n.
Follows(m, n) == m.start = IF m.status = "INCOMPLETE" THEN n + 1 ELSE n

\* While no first message is lost, each run is followed by itself or the next, up to the
\* run that was started last.
WithoutGap(k) ==
    /\ Handling(k) => Follows(msg[k], current[k].start)
    /\ \A i \in 1..Len(backlog[k]) : Follows(backlog[k][i], RunBefore(k, i))
    /\ RunBefore(k, Len(backlog[k]) + 1) = run[k]

Gapless == \A k \in Kinds : k \notin missed /\ listener[k] # "done" => WithoutGap(k)

\* A result on its way has the end of its own run.
EndsFit(e) == e.end \in {0, e.start}
MessageEnds ==
    /\ EndsFit(msg["liveness"])
    /\ \A i \in 1..Len(backlog["liveness"]) : EndsFit(backlog["liveness"][i])

\* The history while a message is handled: in the middle of a shift the current run is the
\* first of the previous ones too, and it is about to be replaced by a later one.
History ==
    LET latest == IF listener["liveness"] = "shifted" THEN msg["liveness"].start
                                                      ELSE current["liveness"].start
    IN  /\ listener["liveness"] = "shifted" => msg["liveness"].status = "INCOMPLETE"
        /\ \A i \in 1..2 : previous[i] # Nil =>
             /\ previous[i].duration = "known"
             /\ previous[i].start < IF i = 1 THEN latest ELSE previous[1].start

\* What was printed last is what is remembered, and is about the result that was handled last.
Remembered ==
    /\ printed = lastLog
    /\ listener["liveness"] # "shifted" /\ current["liveness"].status # "INCOMPLETE"
         => printed["liveness"] = current["liveness"].status
    /\ current["startup"].status = "PASSED" => printed["startup"] = "PASSED"
    /\ printed["startup"] # "FAILED"

\* The inductive invariant, next to the types.
ProbesIInv ==
    /\ \A k \in Kinds : InOrder(k)
    /\ Gapless /\ History /\ Remembered /\ AttemptsCounted
    /\ MessageEnds /\ ResultsOfOneRun

\* The state that the inductive invariant speaks of has its type.
ProbesTypes == TypeOK /\ Functions

\* The summary is made of one run, and two more.
SummaryFits ==
    /\ signal = "none" => summary = <<>>
    /\ signal = "previous" => Len(summary) <= 1

-------------------------------------------------------------------------------
\* The fields of an execution.
LEMMA Fields ==
    ASSUME NEW e \in Executions
    PROVE  /\ e.start \in Nat /\ e.end \in Nat /\ e.attempts \in Nat
           /\ e.status \in {"INCOMPLETE", "PASSED", "FAILED"} /\ e.duration \in {"nil", "known"}
  BY DEF Executions

\* Executions that differ in one field.
LEMMA WithStart ==
    ASSUME NEW e \in Executions, NEW n \in Nat
    PROVE  LET f == [e EXCEPT !.start = n]
           IN  /\ f \in Executions /\ f.start = n
               /\ f.status = e.status /\ f.duration = e.duration /\ f.end = e.end
  BY DEF Executions

LEMMA WithAttempts ==
    ASSUME NEW e \in Executions, NEW n \in Nat
    PROVE  LET f == [e EXCEPT !.attempts = n]
           IN  f \in Executions /\ f.attempts = n /\ f.start = e.start /\ f.status = e.status
  BY DEF Executions

LEMMA WithDuration ==
    ASSUME NEW e \in Executions
    PROVE  LET f == [e EXCEPT !.duration = "known"]
           IN  /\ f \in Executions /\ f.duration = "known"
               /\ f.start = e.start /\ f.status = e.status /\ f.end = e.end
  BY DEF Executions

LEMMA NilExecution ==
    /\ Nil \in Executions /\ Nil.start = 0 /\ Nil.attempts = 0
    /\ Nil.status = "INCOMPLETE" /\ Nil.duration = "nil" /\ Nil.end = 0
  BY DEF Nil, Executions

(***************************************************************************)
(* What a step is to the messages of one kind.                             *)
(***************************************************************************)

\* A message joins the others, or is lost, or nothing happens at all.
Sends(k) ==
    /\ msg'[k] = msg[k] /\ current'[k].start = current[k].start
    /\ Handling(k)' = Handling(k) /\ (listener'[k] = "done") = (listener[k] = "done")
    /\ \/ /\ backlog'[k] = backlog[k]
          /\ run[k] <= run'[k]
          /\ k \notin missed' => run'[k] = run[k]
       \/ \E m \in Executions :
            /\ backlog'[k] = Append(backlog[k], m)
            /\ m.start = run'[k] /\ Follows(m, run[k])

\* The listener takes the first.
Takes(k) ==
    /\ backlog[k] # <<>>
    /\ msg'[k] = Head(backlog[k]) /\ backlog'[k] = Tail(backlog[k])
    /\ listener[k] = "accept" /\ listener'[k] = "handle"
    /\ run'[k] = run[k] /\ current'[k].start = current[k].start

\* The listener ends.
Drops(k) ==
    /\ backlog'[k] = <<>> /\ listener'[k] = "done"
    /\ run'[k] = run[k] /\ current'[k].start = current[k].start

\* The listener has handled its message.
Handles(k) ==
    /\ Handling(k) /\ listener'[k] = "accept"
    /\ run'[k] = run[k] /\ backlog'[k] = backlog[k]
    /\ current[k].start <= current'[k].start /\ current'[k].start <= msg[k].start
    /\ k = "startup" \/ Follows(msg[k], current[k].start) => current'[k].start = msg[k].start

\* Every step is one of these, for each kind.
LEMMA Views ==
    ASSUME ProbesTypes, [Next]_vars, NEW k \in Kinds, InOrder(k)
    PROVE  /\ Sends(k) \/ Takes(k) \/ Drops(k) \/ Handles(k)
           /\ missed \subseteq missed'
<1> USE DEF probeVars, stateVars, sumVars, Handling
<1>0. /\ run \in [Kinds -> Nat] /\ backlog \in [Kinds -> Seq(Executions)]
      /\ listener \in [Kinds -> {"off", "accept", "handle", "shifted", "done"}]
      /\ msg \in [Kinds -> Executions] /\ current \in [Kinds -> Executions]
      /\ main = "init" => \A l \in Kinds : listener[l] = "off"
  BY DEF ProbesTypes, TypeOK, Functions
<1>10. Kinds = {"liveness", "startup"}
  BY DEF Kinds
<1>11. /\ msg[k].start \in Nat /\ current[k].start \in Nat /\ run[k] \in Nat
       /\ msg[k] \in Executions /\ current[k] \in Executions
       /\ Handling(k) => current[k].start <= msg[k].start
  BY <1>0, Fields DEF InOrder, After
<1>1. ASSUME NEW l \in Kinds, ProbeStarts(l) PROVE Sends(k) /\ missed \subseteq missed'
  <2>1. CASE l # k
    BY <1>0, <1>1, <1>11, <2>1 DEF ProbeStarts, Send, Sends
  <2>2. CASE l = k
    <3> DEFINE m == [Nil EXCEPT !.start = run'[k]]
    <3>1. run'[k] = run[k] + 1 /\ run[k] \in Nat
      BY <1>0, <1>1, <2>2 DEF ProbeStarts
    <3>2. m \in Executions /\ m.start = run'[k] /\ Follows(m, run[k])
      BY <3>1, NilExecution, WithStart DEF Follows
    <3>3. backlog'[k] = backlog[k] => backlog' = backlog
      BY <1>0, <1>1, <2>2 DEF ProbeStarts, Send
    <3>4. \/ backlog'[k] = backlog[k] /\ k \in missed'
          \/ backlog'[k] = Append(backlog[k], m)
      BY <1>0, <1>1, <2>2, <3>3 DEF ProbeStarts, Send
    <3>5. msg' = msg /\ current' = current /\ listener' = listener /\ missed \subseteq missed'
      BY <1>1 DEF ProbeStarts
    <3> HIDE DEF m
    <3> QED
      BY <3>1, <3>2, <3>4, <3>5 DEF Sends
  <2> QED
    BY <2>1, <2>2
<1>2. ASSUME NEW l \in Kinds, NEW status \in {"PASSED", "FAILED"}, ProbeEnds(l, status)
      PROVE  Sends(k) /\ missed \subseteq missed'
  <2>1. CASE l # k
    BY <1>0, <1>2, <1>11, <2>1 DEF ProbeEnds, Send, Sends
  <2>2. CASE l = k
    <3> DEFINE m == [start |-> run[k], end |-> IF k = "liveness" THEN run[k] ELSE 0,
                     status |-> status, attempts |-> 0,
                     duration |-> IF k = "liveness" THEN "known" ELSE "nil"]
    <3>1. run' = run /\ run[k] \in Nat
      BY <1>0, <1>2 DEF ProbeEnds
    <3>2. m \in Executions /\ m.start = run'[k] /\ Follows(m, run[k])
      BY <3>1 DEF Executions, Follows
    <3>3. backlog'[k] = backlog[k] \/ backlog'[k] = Append(backlog[k], m)
      BY <1>0, <1>2, <2>2 DEF ProbeEnds, Send
    <3>4. msg' = msg /\ current' = current /\ listener' = listener /\ missed' = missed
      BY <1>2 DEF ProbeEnds
    <3> HIDE DEF m
    <3> QED
      BY <3>1, <3>2, <3>3, <3>4 DEF Sends
  <2> QED
    BY <2>1, <2>2
<1>3. ASSUME NEW l \in Kinds, Accept(l)
      PROVE  (Sends(k) \/ Takes(k) \/ Drops(k)) /\ missed \subseteq missed'
  <2>1. CASE l # k
    BY <1>0, <1>3, <1>11, <2>1 DEF Accept, Sends
  <2>2. CASE l = k
    BY <1>0, <1>3, <2>2 DEF Accept, Takes, Drops
  <2> QED
    BY <2>1, <2>2
<1>4. CASE LivenessShift
  <2>1. current'[k].start = current[k].start
    <3>1. CASE k = "liveness"
      BY <1>0, <1>4, <1>11, <3>1, WithDuration DEF LivenessShift
    <3>2. CASE k # "liveness"
      BY <1>0, <1>4, <3>2 DEF LivenessShift
    <3> QED
      BY <3>1, <3>2
  <2> QED
    BY <1>0, <1>4, <1>10, <1>11, <2>1 DEF LivenessShift, Sends
<1>5. CASE LivenessBegins
  <2>1. CASE k = "startup"
    BY <1>0, <1>5, <1>11, <2>1 DEF LivenessBegins, Sends
  <2>2. CASE k = "liveness"
    <3>1. current'[k].start = msg[k].start
      BY <1>0, <1>5, <2>2 DEF LivenessBegins
    <3> QED
      BY <1>0, <1>5, <1>11, <2>2, <3>1 DEF LivenessBegins, Handles
  <2> QED
    BY <1>10, <2>1, <2>2
<1>6. CASE LivenessResult
  <2>1. CASE k = "startup"
    BY <1>0, <1>6, <1>11, <2>1 DEF LivenessResult, Sends
  <2>2. CASE k = "liveness"
    <3>1. current'[k].start \in {current[k].start, msg[k].start}
      BY <1>0, <1>6, <1>11, <2>2, WithStart DEF LivenessResult
    <3>2. Follows(msg[k], current[k].start) => current'[k].start = msg[k].start
      BY <1>6, <2>2, <3>1 DEF LivenessResult, Follows
    <3> QED
      BY <1>0, <1>6, <1>11, <2>2, <3>1, <3>2 DEF LivenessResult, Handles
  <2> QED
    BY <1>10, <2>1, <2>2
<1>7. CASE StartupHandle
  <2>1. CASE k = "liveness"
    <3>1. /\ current'[k] = current[k] /\ msg'[k] = msg[k] /\ listener'[k] = listener[k]
          /\ run' = run /\ backlog' = backlog /\ missed' = missed
      BY <1>0, <1>7, <2>1 DEF StartupHandle
    <3> QED
      BY <1>11, <3>1 DEF Sends
  <2>2. CASE k = "startup"
    <3>1. current'[k].start = msg[k].start
      <4>1. \E n \in Nat : current'[k] = [msg[k] EXCEPT !.attempts = n]
        <5>1. current[k].attempts \in Nat /\ current[k].attempts + 1 \in Nat
          BY <1>11, Fields
        <5> QED
          BY <1>0, <1>7, <2>2, <5>1 DEF StartupHandle
      <4> QED
        BY <1>11, <4>1, WithAttempts
    <3> QED
      BY <1>0, <1>7, <1>11, <2>2, <3>1 DEF StartupHandle, Handles
  <2> QED
    BY <1>10, <2>1, <2>2
<1>8. CASE Start
  BY <1>0, <1>8, <1>11 DEF Start, Sends
<1>9. CASE SummaryCurrent \/ SummaryPrevious \/ Cancel \/ WaitReturns \/ UNCHANGED vars
  BY <1>9, <1>11 DEF SummaryCurrent, SummaryPrevious, Cancel, WaitReturns, vars, Sends
<1> QED
  BY <1>1, <1>2, <1>3, <1>4, <1>5, <1>6, <1>7, <1>8, <1>9
     DEF Next, ProbeStep, ListenerStep, MainStep

\* Positions in a backlog that has grown, or lost its first.
LEMMA AppendPositions ==
    ASSUME NEW b \in Seq(Executions), NEW m \in Executions
    PROVE  LET a == Append(b, m)
           IN  /\ a \in Seq(Executions) /\ Len(b) \in Nat /\ Len(a) = Len(b) + 1
               /\ \A i \in 1..Len(b) : a[i] = b[i]
               /\ a[Len(b) + 1] = m
  OBVIOUS

LEMMA TailPositions ==
    ASSUME NEW b \in Seq(Executions), b # <<>>
    PROVE  /\ Tail(b) \in Seq(Executions) /\ Len(b) \in Nat \ {0} /\ Len(Tail(b)) = Len(b) - 1
           /\ \A i \in 1..Len(Tail(b)) : Tail(b)[i] = b[i + 1]
           /\ Head(b) = b[1] /\ Head(b) \in Executions
  OBVIOUS

\* Messages stay in order.
LEMMA InOrderStep ==
    ASSUME ProbesTypes, ProbesTypes', NEW k \in Kinds, InOrder(k),
           Sends(k) \/ Takes(k) \/ Drops(k) \/ Handles(k)
    PROVE  InOrder(k)'
<1>1. /\ run[k] \in Nat /\ backlog[k] \in Seq(Executions) /\ Len(backlog[k]) \in Nat
      /\ run'[k] \in Nat /\ backlog'[k] \in Seq(Executions) /\ Len(backlog'[k]) \in Nat
      /\ msg[k] \in Executions /\ current[k] \in Executions
      /\ msg'[k] \in Executions /\ current'[k] \in Executions
  BY DEF ProbesTypes, TypeOK, Functions
<1>2. /\ msg[k].start \in Nat /\ current[k].start \in Nat
      /\ msg'[k].start \in Nat /\ current'[k].start \in Nat
  BY <1>1, Fields
<1>3. /\ \A i \in 1..Len(backlog[k]) : backlog[k][i].start \in Nat
      /\ \A i \in 1..Len(backlog'[k]) : backlog'[k][i].start \in Nat
  BY <1>1, Fields
<1>4. CASE Sends(k)
  <2>1. CASE backlog'[k] = backlog[k] /\ run[k] <= run'[k]
    <3>1. /\ current'[k].start = current[k].start /\ msg'[k] = msg[k]
          /\ Handling(k)' = Handling(k)
      BY <1>4 DEF Sends
    <3>2. /\ current'[k].start <= run'[k]
          /\ Handling(k) => After(msg'[k], current'[k].start) /\ msg'[k].start <= run'[k]
      BY <1>1, <1>2, <2>1, <3>1 DEF InOrder
    <3>3. ASSUME NEW i \in 1..Len(backlog[k])
          PROVE  /\ After(backlog[k][i], current'[k].start)
                 /\ Handling(k) => After(backlog[k][i], msg'[k].start)
                 /\ backlog[k][i].start <= run'[k]
                 /\ \A j \in 1..(i - 1) : After(backlog[k][i], backlog[k][j].start)
      BY <1>1, <1>3, <2>1, <3>1 DEF InOrder
    <3> QED
      BY <2>1, <3>1, <3>2, <3>3 DEF InOrder
  <2>2. ASSUME NEW m \in Executions, backlog'[k] = Append(backlog[k], m),
               m.start = run'[k], Follows(m, run[k])
        PROVE  InOrder(k)'
    <3>1. /\ m.start \in Nat /\ run[k] <= run'[k]
          /\ \A n \in Nat : n <= run[k] => After(m, n)
      BY <1>1, <2>2, Fields DEF Follows, After
    <3>2. /\ Len(backlog'[k]) = Len(backlog[k]) + 1
          /\ \A i \in 1..Len(backlog[k]) : backlog'[k][i] = backlog[k][i]
          /\ backlog'[k][Len(backlog[k]) + 1] = m
      BY <1>1, <2>2, AppendPositions
    <3>3. /\ current'[k].start = current[k].start /\ msg'[k] = msg[k]
          /\ Handling(k)' = Handling(k)
      BY <1>4 DEF Sends
    <3>4. ASSUME NEW i \in 1..Len(backlog'[k])
          PROVE  /\ After(backlog'[k][i], current'[k].start)
                 /\ Handling(k) => After(backlog'[k][i], msg'[k].start)
                 /\ backlog'[k][i].start <= run'[k]
                 /\ \A j \in 1..(i - 1) : After(backlog'[k][i], backlog'[k][j].start)
      <4>1. CASE i \in 1..Len(backlog[k])
        <5>1. \A j \in 1..i : j \in 1..Len(backlog[k]) /\ backlog'[k][j] = backlog[k][j]
          BY <1>1, <3>2, <4>1
        <5>2. /\ After(backlog[k][i], current[k].start)
              /\ Handling(k) => After(backlog[k][i], msg[k].start)
              /\ backlog[k][i].start <= run[k]
              /\ \A j \in 1..(i - 1) : After(backlog[k][i], backlog[k][j].start)
          BY <4>1 DEF InOrder
        <5>3. backlog[k][i].start <= run'[k]
          BY <1>1, <1>3, <3>1, <4>1, <5>2
        <5> QED
          BY <3>3, <4>1, <5>1, <5>2, <5>3
      <4>2. CASE i = Len(backlog[k]) + 1
        <5>1. \A j \in 1..(i - 1) : j \in 1..Len(backlog[k]) /\ backlog'[k][j] = backlog[k][j]
          BY <1>1, <3>2, <4>2
        <5>2. \A j \in 1..(i - 1) : After(backlog'[k][i], backlog'[k][j].start)
          BY <1>3, <3>1, <3>2, <4>2, <5>1 DEF InOrder
        <5>3. /\ After(m, current[k].start)
              /\ Handling(k) => After(m, msg[k].start)
          BY <1>2, <3>1 DEF InOrder
        <5> QED
          BY <1>1, <2>2, <3>2, <3>3, <4>2, <5>2, <5>3
      <4> QED
        BY <1>1, <3>2, <4>1, <4>2
    <3>5. current'[k].start <= run'[k] /\ (Handling(k) => msg'[k].start <= run'[k])
      BY <1>1, <1>2, <3>1, <3>3 DEF InOrder
    <3> QED
      BY <3>3, <3>4, <3>5 DEF InOrder
  <2> QED
    BY <1>4, <2>1, <2>2 DEF Sends
<1>5. CASE Takes(k)
  <2>1. /\ Len(backlog'[k]) = Len(backlog[k]) - 1 /\ Len(backlog[k]) > 0
        /\ \A i \in 1..Len(backlog'[k]) : backlog'[k][i] = backlog[k][i + 1]
        /\ msg'[k] = backlog[k][1] /\ current'[k].start = current[k].start /\ run'[k] = run[k]
    BY <1>1, <1>5, TailPositions DEF Takes
  <2>2. After(msg'[k], current'[k].start) /\ msg'[k].start <= run'[k]
    BY <1>1, <2>1 DEF InOrder
  <2>3. ASSUME NEW i \in 1..Len(backlog'[k])
        PROVE  /\ After(backlog'[k][i], current'[k].start)
               /\ After(backlog'[k][i], msg'[k].start)
               /\ backlog'[k][i].start <= run'[k]
               /\ \A j \in 1..(i - 1) : After(backlog'[k][i], backlog'[k][j].start)
    <3>1. /\ i + 1 \in 1..Len(backlog[k]) /\ 1 \in 1..i
          /\ \A j \in 1..(i - 1) : j + 1 \in 1..i /\ j \in 1..Len(backlog'[k])
      BY <1>1, <2>1
    <3>2. \A j \in 1..((i + 1) - 1) : After(backlog[k][i + 1], backlog[k][j].start)
      BY <3>1 DEF InOrder
    <3>3. \A j \in 1..i : After(backlog[k][i + 1], backlog[k][j].start)
      BY <3>2
    <3>4. /\ After(backlog[k][i + 1], current[k].start)
          /\ backlog[k][i + 1].start <= run[k]
      BY <3>1 DEF InOrder
    <3> QED
      BY <2>1, <3>1, <3>3, <3>4
  <2> QED
    BY <2>1, <2>2, <2>3 DEF InOrder
<1>6. CASE Drops(k)
  BY <1>1, <1>2, <1>6 DEF Drops, InOrder, Handling
<1>7. CASE Handles(k)
  <2>1. ~Handling(k)' /\ backlog'[k] = backlog[k] /\ run'[k] = run[k]
    BY <1>7 DEF Handles, Handling
  <2>2. current'[k].start <= run'[k]
    BY <1>1, <1>2, <1>7 DEF Handles, InOrder
  <2>3. \A i \in 1..Len(backlog[k]) : After(backlog[k][i], current'[k].start)
    BY <1>2, <1>3, <1>7 DEF Handles, InOrder, After
  <2> QED
    BY <2>1, <2>2, <2>3 DEF InOrder
<1> QED
  BY <1>4, <1>5, <1>6, <1>7

\* No gap comes about while no first message is lost.
LEMMA GaplessStep ==
    ASSUME ProbesTypes, Gapless, missed \subseteq missed', NEW k \in Kinds,
           Sends(k) \/ Takes(k) \/ Drops(k) \/ Handles(k)
    PROVE  k \notin missed' /\ listener'[k] # "done" => WithoutGap(k)'
<1> SUFFICES ASSUME k \notin missed', listener'[k] # "done" PROVE WithoutGap(k)'
  OBVIOUS
<1>1. /\ run[k] \in Nat /\ backlog[k] \in Seq(Executions) /\ Len(backlog[k]) \in Nat
      /\ msg[k] \in Executions /\ current[k] \in Executions
  BY DEF ProbesTypes, TypeOK, Functions, Kinds
<1>2. WithoutGap(k)
  <2>1. k \notin missed /\ listener[k] # "done"
    BY DEF Sends, Takes, Drops, Handles, Handling
  <2> QED
    BY <2>1 DEF Gapless
<1>3. CASE Sends(k)
  <2>1. /\ current'[k].start = current[k].start /\ msg'[k] = msg[k]
        /\ Handling(k)' = Handling(k)
    BY <1>3 DEF Sends
  <2>2. CASE backlog'[k] = backlog[k] /\ run'[k] = run[k]
    <3>1. \A i \in 1..(Len(backlog[k]) + 1) : RunBefore(k, i)' = RunBefore(k, i)
      BY <2>1, <2>2 DEF RunBefore
    <3>2. Len(backlog[k]) + 1 \in 1..(Len(backlog[k]) + 1)
          /\ \A i \in 1..Len(backlog[k]) : i \in 1..(Len(backlog[k]) + 1)
      BY <1>1
    <3> QED
      BY <1>2, <2>1, <2>2, <3>1, <3>2 DEF WithoutGap
  <2>3. ASSUME NEW m \in Executions, backlog'[k] = Append(backlog[k], m),
               m.start = run'[k], Follows(m, run[k])
        PROVE  WithoutGap(k)'
    <3>1. /\ Len(backlog'[k]) = Len(backlog[k]) + 1
          /\ \A i \in 1..Len(backlog[k]) : backlog'[k][i] = backlog[k][i]
          /\ backlog'[k][Len(backlog[k]) + 1] = m
      BY <1>1, <2>3, AppendPositions
    <3>2. ASSUME NEW i \in 1..(Len(backlog[k]) + 1)
          PROVE  RunBefore(k, i)' = RunBefore(k, i)
      <4>1. CASE i > 1
        <5>1. i - 1 \in 1..Len(backlog[k])
          BY <1>1, <4>1
        <5> QED
          BY <3>1, <4>1, <5>1 DEF RunBefore
      <4>2. CASE ~(i > 1)
        BY <2>1, <4>2 DEF RunBefore
      <4> QED
        BY <4>1, <4>2
    <3>3. (RunBefore(k, Len(backlog[k]) + 1) = run[k])'
      BY <1>1, <2>3, <3>1 DEF RunBefore
    <3>4. ASSUME NEW i \in 1..Len(backlog'[k])
          PROVE  Follows(backlog'[k][i], RunBefore(k, i)')
      <4>1. CASE i \in 1..Len(backlog[k])
        BY <1>1, <1>2, <3>1, <3>2, <4>1 DEF WithoutGap
      <4>2. CASE i = Len(backlog[k]) + 1
        BY <1>1, <1>2, <2>3, <3>1, <3>2, <4>2 DEF WithoutGap
      <4> QED
        BY <1>1, <3>1, <4>1, <4>2
    <3>5. Handling(k)' => Follows(msg'[k], current'[k].start)
      BY <1>2, <2>1 DEF WithoutGap
    <3> QED
      BY <3>3, <3>4, <3>5 DEF WithoutGap
  <2> QED
    BY <1>3, <2>2, <2>3 DEF Sends
<1>4. CASE Takes(k)
  <2>1. /\ Len(backlog'[k]) = Len(backlog[k]) - 1 /\ Len(backlog[k]) > 0
        /\ \A i \in 1..Len(backlog'[k]) : backlog'[k][i] = backlog[k][i + 1]
        /\ msg'[k] = backlog[k][1] /\ current'[k].start = current[k].start /\ run'[k] = run[k]
    BY <1>1, <1>4, TailPositions DEF Takes
  <2>2. ~Handling(k) /\ Handling(k)'
    BY <1>4 DEF Takes, Handling
  <2>3. ASSUME NEW i \in 1..Len(backlog[k])
        PROVE  RunBefore(k, i)' = RunBefore(k, i + 1)
    <3>1. CASE i > 1
      <4>1. i - 1 \in 1..Len(backlog'[k])
        BY <1>1, <2>1, <3>1
      <4>2. backlog'[k][i - 1] = backlog[k][i]
        BY <1>1, <2>1, <4>1
      <4> QED
        BY <3>1, <4>2 DEF RunBefore
    <3>2. CASE i = 1
      BY <2>1, <2>2, <3>2 DEF RunBefore
    <3> QED
      BY <3>1, <3>2
  <2>4. Follows(msg'[k], current'[k].start)
    <3>1. Follows(backlog[k][1], RunBefore(k, 1))
      BY <1>1, <1>2, <2>1 DEF WithoutGap
    <3> QED
      BY <2>1, <2>2, <3>1 DEF RunBefore
  <2>5. ASSUME NEW i \in 1..Len(backlog'[k])
        PROVE  Follows(backlog'[k][i], RunBefore(k, i)')
    <3>1. i \in 1..Len(backlog[k]) /\ i + 1 \in 1..Len(backlog[k])
      BY <1>1, <2>1
    <3> QED
      BY <1>2, <2>1, <2>3, <3>1 DEF WithoutGap
  <2>6. (RunBefore(k, Len(backlog[k]) + 1) = run[k])'
    <3>1. Len(backlog[k]) \in 1..Len(backlog[k]) /\ Len(backlog'[k]) + 1 = Len(backlog[k])
      BY <1>1, <2>1
    <3> QED
      BY <1>2, <2>1, <2>3, <3>1 DEF WithoutGap
  <2> QED
    BY <2>4, <2>5, <2>6 DEF WithoutGap
<1>5. CASE Handles(k)
  <2>1. /\ Handling(k) /\ ~Handling(k)' /\ backlog'[k] = backlog[k] /\ run'[k] = run[k]
        /\ current'[k].start = msg[k].start
    BY <1>2, <1>5 DEF Handles, Handling, WithoutGap
  <2>2. \A i \in 1..(Len(backlog[k]) + 1) : RunBefore(k, i)' = RunBefore(k, i)
    BY <2>1 DEF RunBefore
  <2>3. Len(backlog[k]) + 1 \in 1..(Len(backlog[k]) + 1)
        /\ \A i \in 1..Len(backlog[k]) : i \in 1..(Len(backlog[k]) + 1)
    BY <1>1
  <2> QED
    BY <1>2, <2>1, <2>2, <2>3 DEF WithoutGap
<1>6. CASE Drops(k)
  BY <1>6 DEF Drops
<1> QED
  BY <1>3, <1>4, <1>5, <1>6

\* The count goes up with a first message, whose run is later than the one it was kept with,
\* and the next one if none was lost.
LEMMA AttemptsStep ==
    ASSUME ProbesTypes, InOrder("startup"), Gapless, AttemptsCounted, [Next]_vars,
           missed \subseteq missed'
    PROVE  AttemptsCounted'
<1>1. /\ current \in [Kinds -> Executions] /\ msg["startup"] \in Executions
      /\ current["startup"] \in Executions /\ "startup" \in Kinds /\ "liveness" \in Kinds
  BY DEF ProbesTypes, TypeOK, Kinds
<1>2. CASE StartupHandle
  <2> DEFINE m == msg["startup"]
             c == current["startup"]
  <2>1. c.attempts \in Nat /\ c.start \in Nat /\ m.start \in Nat
    BY <1>1, Fields
  <2>2. /\ After(m, c.start)
        /\ "startup" \notin missed => Follows(m, c.start)
    BY <1>1, <1>2 DEF StartupHandle, InOrder, Gapless, WithoutGap, Handling
  <2>3. c.attempts <= c.start /\ ("startup" \notin missed => c.attempts = c.start)
    BY DEF AttemptsCounted
  <2>4. CASE m.status = "INCOMPLETE"
    <3>1. current'["startup"] = [m EXCEPT !.attempts = c.attempts + 1]
      BY <1>1, <1>2, <2>4 DEF StartupHandle
    <3>2. current'["startup"].attempts = c.attempts + 1 /\ current'["startup"].start = m.start
      BY <1>1, <2>1, <3>1, WithAttempts
    <3>3. /\ c.attempts + 1 <= m.start
          /\ "startup" \notin missed => c.attempts + 1 = m.start
      BY <2>1, <2>2, <2>3, <2>4 DEF After, Follows
    <3> QED
      BY <3>2, <3>3 DEF AttemptsCounted
  <2>5. CASE m.status # "INCOMPLETE"
    <3>1. current'["startup"] = [m EXCEPT !.attempts = c.attempts]
      BY <1>1, <1>2, <2>5 DEF StartupHandle
    <3>2. current'["startup"].attempts = c.attempts /\ current'["startup"].start = m.start
      BY <1>1, <2>1, <3>1, WithAttempts
    <3>3. /\ c.attempts <= m.start
          /\ "startup" \notin missed => c.attempts = m.start
      BY <2>1, <2>2, <2>3, <2>5 DEF After, Follows
    <3> QED
      BY <3>2, <3>3 DEF AttemptsCounted
  <2> QED
    BY <2>4, <2>5
<1>3. CASE ~StartupHandle
  <2>1. current'["startup"] = current["startup"]
    BY <1>1, <1>3 DEF Next, ProbeStep, ListenerStep, MainStep, ProbeStarts, ProbeEnds, Accept,
       LivenessShift, LivenessBegins, LivenessResult, Start, SummaryCurrent, SummaryPrevious,
       Cancel, WaitReturns, vars, stateVars
  <2> QED
    BY <2>1 DEF AttemptsCounted
<1> QED
  BY <1>2, <1>3

\* While no first message is lost, a result finds the record of its own run.
LEMMA ResultsStep ==
    ASSUME ProbesTypes, Gapless, MessageEnds, ResultsOfOneRun, [Next]_vars,
           missed \subseteq missed'
    PROVE  MessageEnds' /\ ResultsOfOneRun'
<1> DEFINE L == "liveness"
<1>1. /\ current \in [Kinds -> Executions] /\ previous \in [1..2 -> Executions]
      /\ msg \in [Kinds -> Executions] /\ run \in [Kinds -> Nat]
      /\ backlog \in [Kinds -> Seq(Executions)] /\ Kinds = {L, "startup"}
  BY DEF ProbesTypes, TypeOK, Functions, Kinds
<1>2. current[L] \in Executions /\ msg[L] \in Executions /\ backlog[L] \in Seq(Executions)
  BY <1>1
<1>3. L \notin missed' =>
        EndsFit(current[L]) /\ EndsFit(previous[1]) /\ EndsFit(previous[2])
  BY DEF ResultsOfOneRun, EndsFit
<1>4. ASSUME UNCHANGED <<current, previous>> PROVE ResultsOfOneRun'
  BY <1>3, <1>4 DEF ResultsOfOneRun, EndsFit
<1>5. ASSUME NEW m \in Executions, EndsFit(m), msg'[L] = msg[L],
             backlog'[L] \in {backlog[L], Append(backlog[L], m)}
      PROVE  MessageEnds'
  <2>1. CASE backlog'[L] = backlog[L]
    BY <1>5, <2>1 DEF MessageEnds, EndsFit
  <2>2. CASE backlog'[L] = Append(backlog[L], m)
    <3>1. /\ Len(backlog[L]) \in Nat /\ Len(backlog'[L]) = Len(backlog[L]) + 1
          /\ \A i \in 1..Len(backlog[L]) : backlog'[L][i] = backlog[L][i]
          /\ backlog'[L][Len(backlog[L]) + 1] = m
      BY <1>2, <1>5, <2>2, AppendPositions
    <3>2. ASSUME NEW i \in 1..Len(backlog'[L]) PROVE EndsFit(backlog'[L][i])
      <4>1. CASE i \in 1..Len(backlog[L])
        BY <3>1, <4>1 DEF MessageEnds
      <4>2. CASE i = Len(backlog[L]) + 1
        BY <1>5, <3>1, <4>2
      <4> QED
        BY <3>1, <4>1, <4>2
    <3> QED
      BY <1>5, <3>2 DEF MessageEnds, EndsFit
  <2> QED
    BY <1>5, <2>1, <2>2
<1>6. ASSUME msg'[L] \in {msg[L], Nil}, backlog' = backlog PROVE MessageEnds'
  <2>1. EndsFit(msg'[L])
    BY <1>6, NilExecution DEF MessageEnds, EndsFit
  <2> QED
    BY <1>6, <2>1 DEF MessageEnds, EndsFit
<1>7. ASSUME NEW k \in Kinds, ProbeStarts(k) PROVE MessageEnds' /\ ResultsOfOneRun'
  <2> DEFINE m == [Nil EXCEPT !.start = run'[k]]
  <2>1. run'[k] \in Nat /\ UNCHANGED <<msg, current, previous>>
    BY <1>1, <1>7 DEF ProbeStarts, stateVars
  <2>2. m \in Executions /\ EndsFit(m)
    BY <2>1, NilExecution, WithStart DEF EndsFit
  <2>3. backlog'[L] \in {backlog[L], Append(backlog[L], m)}
    BY <1>1, <1>7 DEF ProbeStarts, Send
  <2> HIDE DEF m
  <2> QED
    BY <1>4, <1>5, <2>1, <2>2, <2>3
<1>8. ASSUME NEW k \in Kinds, NEW status \in {"PASSED", "FAILED"}, ProbeEnds(k, status)
      PROVE  MessageEnds' /\ ResultsOfOneRun'
  <2> DEFINE m == [start |-> run[L], end |-> run[L], status |-> status, attempts |-> 0,
                   duration |-> "known"]
  <2>1. run[L] \in Nat /\ UNCHANGED <<msg, current, previous>>
    BY <1>1, <1>8 DEF ProbeEnds, stateVars
  <2>2. m \in Executions /\ EndsFit(m)
    BY <2>1 DEF Executions, EndsFit
  <2>3. backlog'[L] \in {backlog[L], Append(backlog[L], m)}
    BY <1>1, <1>8 DEF ProbeEnds, Send
  <2> HIDE DEF m
  <2> QED
    BY <1>4, <1>5, <2>1, <2>2, <2>3
<1>9. ASSUME NEW k \in Kinds, Accept(k) PROVE MessageEnds' /\ ResultsOfOneRun'
  <2>1. UNCHANGED <<current, previous>>
    BY <1>9 DEF Accept, stateVars
  <2>2. CASE k # L
    <3>1. msg'[L] = msg[L] /\ backlog'[L] = backlog[L]
      BY <1>1, <1>9, <2>2 DEF Accept
    <3> QED
      BY <1>4, <2>1, <3>1 DEF MessageEnds, EndsFit
  <2>3. CASE k = L
    <3>1. CASE /\ backlog[L] # <<>>
               /\ msg' = [msg EXCEPT ![L] = Head(backlog[L])]
               /\ backlog' = [backlog EXCEPT ![L] = Tail(@)]
      <4>1. /\ Len(backlog[L]) \in Nat \ {0} /\ Len(backlog'[L]) = Len(backlog[L]) - 1
            /\ \A i \in 1..Len(backlog'[L]) : backlog'[L][i] = backlog[L][i + 1]
            /\ msg'[L] = backlog[L][1]
        BY <1>1, <1>2, <3>1, TailPositions
      <4>2. \A i \in 1..Len(backlog'[L]) : i + 1 \in 1..Len(backlog[L])
        BY <4>1
      <4>3. EndsFit(msg'[L]) /\ \A i \in 1..Len(backlog'[L]) : EndsFit(backlog'[L][i])
        BY <4>1, <4>2 DEF MessageEnds
      <4> QED
        BY <1>4, <2>1, <4>3 DEF MessageEnds, EndsFit
    <3>2. CASE backlog' = [backlog EXCEPT ![L] = <<>>] /\ msg' = msg
      <4>1. backlog'[L] = <<>> /\ msg'[L] = msg[L] /\ Len(<<>>) = 0 /\ 1..0 = {}
        BY <1>1, <3>2
      <4> QED
        BY <1>4, <2>1, <4>1 DEF MessageEnds, EndsFit
    <3> QED
      BY <1>9, <2>3, <3>1, <3>2 DEF Accept
  <2> QED
    BY <2>2, <2>3
<1>10. CASE LivenessShift
  <2>1. UNCHANGED <<msg, backlog>> /\ missed' = missed
    BY <1>10 DEF LivenessShift, probeVars
  <2>2. CASE current[L] = Nil
    BY <1>4, <1>6, <1>10, <2>1, <2>2 DEF LivenessShift
  <2>3. CASE current[L] # Nil
    <3> DEFINE c == [current[L] EXCEPT !.duration = "known"]
    <3>1. /\ current' = [current EXCEPT ![L] = c]
          /\ previous' = [previous EXCEPT ![2] = previous[1], ![1] = current'[L]]
      BY <1>1, <1>10, <2>3 DEF LivenessShift
    <3>2. c.end = current[L].end /\ c.start = current[L].start
      BY <1>2, WithDuration
    <3>3. current'[L] = c /\ previous'[1] = c /\ previous'[2] = previous[1]
      BY <1>1, <3>1
    <3>4. L \notin missed' => EndsFit(c)
      BY <1>3, <3>2 DEF EndsFit
    <3> HIDE DEF c
    <3> QED
      BY <1>3, <1>6, <2>1, <3>3, <3>4 DEF ResultsOfOneRun, EndsFit
  <2> QED
    BY <2>2, <2>3
<1>11. CASE LivenessBegins
  <2>1. /\ current'[L] = msg[L] /\ msg'[L] = Nil /\ backlog' = backlog /\ previous' = previous
    BY <1>1, <1>11 DEF LivenessBegins, probeVars
  <2>2. EndsFit(msg[L])
    BY DEF MessageEnds
  <2> QED
    BY <1>3, <1>6, <2>1, <2>2 DEF ResultsOfOneRun, EndsFit
<1>12. CASE LivenessResult
  <2>1. /\ msg'[L] = Nil /\ backlog' = backlog /\ previous' = previous /\ missed' = missed
        /\ listener[L] = "handle" /\ msg[L].status # "INCOMPLETE"
        /\ current'[L] = IF current[L] = Nil THEN msg[L]
                         ELSE [msg[L] EXCEPT !.start = current[L].start]
    BY <1>1, <1>12 DEF LivenessResult, probeVars
  <2>2. EndsFit(msg[L])
    BY DEF MessageEnds
  <2>3. L \notin missed => msg[L].start = current[L].start
    BY <1>1, <2>1 DEF Gapless, WithoutGap, Handling, Follows
  <2>4. L \notin missed => EndsFit(current'[L])
    <3>1. CASE current[L] = Nil
      BY <2>1, <2>2, <3>1
    <3>2. CASE current[L] # Nil
      <4>1. current'[L].end = msg[L].end /\ current'[L].start = current[L].start
        BY <1>2, <2>1, <3>2, Fields, WithStart
      <4> QED
        BY <2>2, <2>3, <4>1 DEF EndsFit
    <3> QED
      BY <3>1, <3>2
  <2> QED
    BY <1>3, <1>6, <2>1, <2>4 DEF ResultsOfOneRun, EndsFit
<1>13. CASE StartupHandle
  <2>1. /\ current'[L] = current[L] /\ msg'[L] = msg[L]
        /\ backlog' = backlog /\ previous' = previous
    BY <1>1, <1>13 DEF StartupHandle, probeVars
  <2> QED
    BY <1>3, <1>6, <2>1 DEF ResultsOfOneRun, EndsFit
<1>14. CASE MainStep \/ UNCHANGED vars
  <2>1. UNCHANGED <<msg, backlog, current, previous>>
    BY <1>14 DEF MainStep, Start, SummaryCurrent, SummaryPrevious, Cancel, WaitReturns, vars,
       probeVars, stateVars
  <2> QED
    BY <1>4, <1>6, <2>1
<1> QED
  BY <1>7, <1>8, <1>9, <1>10, <1>11, <1>12, <1>13, <1>14 DEF Next, ProbeStep, ListenerStep

-------------------------------------------------------------------------------
(***************************************************************************)
(* The history of the liveness probe and the console.                      *)
(***************************************************************************)

\* A step that changes neither the history nor the message, nor begins or ends a shift.
LEMMA HistoryKept ==
    ASSUME History, Remembered, UNCHANGED <<current, previous, lastLog, printed>>,
           listener["liveness"] # "shifted", listener'["liveness"] # "shifted"
    PROVE  History' /\ Remembered'
  BY DEF History, Remembered

\* A message at a time moves the history on, or completes its first entry.
LEMMA HistoryStep ==
    ASSUME ProbesTypes, InOrder("liveness"), History, Remembered, [Next]_vars
    PROVE  History' /\ Remembered'
<1> DEFINE L == "liveness"
<1>1. /\ current \in [Kinds -> Executions] /\ previous \in [1..2 -> Executions]
      /\ msg \in [Kinds -> Executions]
      /\ listener \in [Kinds -> {"off", "accept", "handle", "shifted", "done"}]
      /\ lastLog \in [Kinds -> {"none", "PASSED", "FAILED"}]
      /\ Kinds = {L, "startup"}
      /\ main = "init" => \A k \in Kinds : listener[k] = "off"
  BY DEF ProbesTypes, TypeOK, Functions, Kinds
<1>2. /\ current[L] \in Executions /\ msg[L] \in Executions
      /\ previous[1] \in Executions /\ previous[2] \in Executions
  BY <1>1
<1>3. current[L].start \in Nat /\ msg[L].start \in Nat /\ previous[1].start \in Nat
  BY <1>2, Fields
<1>4. listener[L] \in {"handle", "shifted"} => After(msg[L], current[L].start)
  BY DEF InOrder, Handling
<1>5. CASE LivenessShift
  <2>0. msg' = msg /\ listener'[L] = "shifted" /\ msg[L].status = "INCOMPLETE"
        /\ listener[L] = "handle"
    BY <1>1, <1>5 DEF LivenessShift
  <2>1. current[L].start < msg[L].start
    BY <1>4, <2>0 DEF After
  <2>2. CASE current[L] = Nil
    <3>1. current' = current /\ previous' = previous
      BY <1>5, <2>2 DEF LivenessShift
    <3>2. previous[1] # Nil => previous[1].start < msg[L].start
      BY <1>3, <2>0, <2>1 DEF History
    <3>3. History'
      BY <2>0, <3>1, <3>2 DEF History
    <3>4. Remembered'
      BY <1>5, <2>0, <3>1 DEF Remembered, LivenessShift
    <3> QED
      BY <3>3, <3>4
  <2>3. CASE current[L] # Nil
    <3> DEFINE c == [current[L] EXCEPT !.duration = "known"]
    <3>1. /\ current' = [current EXCEPT ![L] = c]
          /\ previous' = [previous EXCEPT ![2] = previous[1], ![1] = current'[L]]
      BY <1>1, <1>5, <2>3 DEF LivenessShift
    <3>2. c.duration = "known" /\ c.start = current[L].start
      BY <1>2, WithDuration
    <3>3. current'[L] = c /\ current'["startup"] = current["startup"]
      BY <1>1, <3>1
    <3>4. previous'[1] = c /\ previous'[2] = previous[1]
      BY <1>1, <3>1, <3>3
    <3>5. previous[1] # Nil => previous[1].start < c.start /\ previous[1].duration = "known"
      BY <2>0, <3>2 DEF History
    <3>6. History'
      <4>1. /\ previous'[1].duration = "known" /\ previous'[1].start < msg'[L].start
            /\ previous'[2] # Nil =>
                 previous'[2].duration = "known" /\ previous'[2].start < previous'[1].start
        BY <2>0, <2>1, <3>2, <3>4, <3>5
      <4> QED
        BY <2>0, <4>1 DEF History
    <3>7. Remembered'
      BY <1>5, <2>0, <3>3 DEF Remembered, LivenessShift
    <3> QED
      BY <3>6, <3>7
  <2> QED
    BY <2>2, <2>3
<1>6. CASE LivenessBegins
  <2>1. /\ listener[L] = "shifted" /\ listener'[L] = "accept" /\ current'[L] = msg[L]
        /\ current'["startup"] = current["startup"]
        /\ previous' = previous /\ lastLog' = lastLog /\ printed' = printed
    BY <1>1, <1>6 DEF LivenessBegins
  <2>2. History'
    BY <2>1 DEF History
  <2>3. Remembered'
    BY <2>1 DEF History, Remembered
  <2> QED
    BY <2>2, <2>3
<1>7. CASE LivenessResult
  <2>1. /\ listener[L] = "handle" /\ listener'[L] = "accept" /\ previous' = previous
        /\ msg[L].status # "INCOMPLETE" /\ current'["startup"] = current["startup"]
        /\ Dedup(L, msg[L].status)
        /\ current'[L] = IF current[L] = Nil THEN msg[L]
                         ELSE [msg[L] EXCEPT !.start = current[L].start]
    BY <1>1, <1>7 DEF LivenessResult
  <2>2. /\ current'[L].status = msg[L].status
        /\ current[L].start <= current'[L].start /\ current'[L].start \in Nat
    <3>1. CASE current[L] = Nil
      BY <1>2, <1>3, <1>4, <2>1, <3>1 DEF After
    <3>2. CASE current[L] # Nil
      BY <1>2, <1>3, <2>1, <3>2, WithStart
    <3> QED
      BY <3>1, <3>2
  <2>3. History'
    <3>1. /\ previous[1] # Nil =>
               previous[1].duration = "known" /\ previous[1].start < current[L].start
          /\ previous[2] # Nil =>
               previous[2].duration = "known" /\ previous[2].start < previous[1].start
      BY <2>1 DEF History
    <3>2. previous[1] # Nil => previous[1].start < current'[L].start
      BY <1>3, <2>2, <3>1
    <3> QED
      BY <2>1, <3>1, <3>2 DEF History
  <2>4. printed' = lastLog' /\ printed'[L] = msg[L].status
          /\ printed'["startup"] = printed["startup"]
    BY <1>1, <2>1 DEF Remembered, Dedup
  <2>5. Remembered'
    BY <2>1, <2>2, <2>4 DEF Remembered
  <2> QED
    BY <2>3, <2>5
<1>8. CASE StartupHandle
  <2> DEFINE m == msg["startup"]
  <2>1. /\ listener'[L] = listener[L] /\ msg'[L] = msg[L] /\ previous' = previous
        /\ current'[L] = current[L]
    BY <1>1, <1>8 DEF StartupHandle
  <2>2. History'
    BY <2>1 DEF History
  <2>3. m \in Executions /\ current["startup"].attempts \in Nat
    BY <1>1, Fields
  <2>4. current'["startup"].status = m.status
    <3>1. \E n \in Nat : current'["startup"] = [m EXCEPT !.attempts = n]
      <4>1. current["startup"].attempts + 1 \in Nat
        BY <2>3
      <4> QED
        BY <1>1, <1>8, <2>3, <4>1 DEF StartupHandle
    <3> QED
      BY <2>3, <3>1, WithAttempts
  <2>5. Remembered'
    <3>1. CASE m.status = "INCOMPLETE"
      <4>1. printed' = printed /\ lastLog' = lastLog
        BY <1>8, <3>1 DEF StartupHandle
      <4> QED
        BY <2>1, <2>4, <3>1, <4>1 DEF Remembered
    <3>2. CASE m.status # "INCOMPLETE"
      <4>1. Dedup("startup", m.status)
        BY <1>8, <3>2 DEF StartupHandle
      <4>2. /\ printed' = lastLog' /\ printed'[L] = printed[L]
            /\ m.status = "PASSED" => printed'["startup"] = "PASSED"
            /\ printed'["startup"] # "FAILED"
        BY <1>1, <4>1 DEF Remembered, Dedup
      <4> QED
        BY <2>1, <2>4, <4>2 DEF Remembered
    <3> QED
      BY <3>1, <3>2
  <2> QED
    BY <2>2, <2>5
<1>9. ASSUME NEW k \in Kinds, Accept(k) PROVE History' /\ Remembered'
  <2>1. CASE k = L
    <3>1. /\ listener[L] # "shifted" /\ listener'[L] # "shifted"
          /\ UNCHANGED <<current, previous, lastLog, printed>>
      BY <1>1, <1>9, <2>1 DEF Accept, stateVars
    <3> QED
      BY <3>1, HistoryKept
  <2>2. CASE k # L
    <3>1. listener'[L] = listener[L] /\ msg'[L] = msg[L]
          /\ UNCHANGED <<current, previous, lastLog, printed>>
      BY <1>1, <1>9, <2>2 DEF Accept, stateVars
    <3> QED
      BY <3>1 DEF History, Remembered
  <2> QED
    BY <2>1, <2>2
<1>10. CASE Start
  <2>1. /\ listener[L] # "shifted" /\ listener'[L] # "shifted"
        /\ UNCHANGED <<current, previous, lastLog, printed>>
    BY <1>1, <1>10 DEF Start, stateVars
  <2> QED
    BY <2>1, HistoryKept
<1>11. CASE ProbeStep \/ SummaryCurrent \/ SummaryPrevious \/ Cancel \/ WaitReturns
              \/ UNCHANGED vars
  <2>1. UNCHANGED <<listener, msg, current, previous, lastLog, printed>>
    BY <1>11 DEF ProbeStep, ProbeStarts, ProbeEnds, SummaryCurrent, SummaryPrevious, Cancel,
       WaitReturns, vars, stateVars
  <2> QED
    BY <2>1 DEF History, Remembered
<1> QED
  BY <1>5, <1>6, <1>7, <1>8, <1>9, <1>10, <1>11 DEF Next, ListenerStep, MainStep

-------------------------------------------------------------------------------
(***************************************************************************)
(* Types.                                                                  *)
(***************************************************************************)

\* A message that joins the others.
LEMMA SendTypes ==
    ASSUME ProbesTypes, NEW k \in Kinds, NEW m \in Executions, Send(k, m)
    PROVE  /\ backlog' \in [Kinds -> Seq(Executions)]
           /\ \A l \in Kinds : Len(backlog'[l]) <= MaxBacklog
<1>1. /\ backlog \in [Kinds -> Seq(Executions)] /\ backlog[k] \in Seq(Executions)
      /\ \A l \in Kinds : Len(backlog[l]) <= MaxBacklog
  BY DEF ProbesTypes, TypeOK, Functions
<1>2. CASE Reachable(k) /\ backlog' = [backlog EXCEPT ![k] = Append(@, m)]
  <2>1. Append(backlog[k], m) \in Seq(Executions)
          /\ Len(Append(backlog[k], m)) = Len(backlog[k]) + 1 /\ Len(backlog[k]) \in Nat
    BY <1>1, AppendPositions
  <2>2. Len(backlog[k]) + 1 <= MaxBacklog
    BY <1>2, <2>1, ProbesAssumption DEF Reachable
  <2> QED
    BY <1>1, <1>2, <2>1, <2>2
<1>3. CASE UNCHANGED backlog
  BY <1>1, <1>3
<1> QED
  BY <1>2, <1>3 DEF Send

\* A probe keeps the types.
LEMMA ProbeTypes ==
    ASSUME ProbesTypes, NEW k \in Kinds,
           ProbeStarts(k) \/ \E status \in {"PASSED", "FAILED"} : ProbeEnds(k, status)
    PROVE  ProbesTypes'
<1> USE DEF stateVars, sumVars
<1>1. /\ run \in [Kinds -> Nat] /\ backlog \in [Kinds -> Seq(Executions)]
      /\ probe \in [Kinds -> {"idle", "silent", "checking"}] /\ plan \in [Kinds -> Nat]
      /\ run[k] \in Nat /\ plan[k] \in Nat /\ missed \subseteq Kinds
      /\ \A l \in Kinds : Len(backlog[l]) <= MaxBacklog /\ run[l] \in 0..plan[l]
  BY ProbesAssumption DEF ProbesTypes, TypeOK, Functions
<1>2. CASE ProbeStarts(k)
  <2>1. /\ run' \in [Kinds -> Nat] /\ \A l \in Kinds : run'[l] \in 0..plan[l]
        /\ run'[k] \in Nat
    BY <1>1, <1>2 DEF ProbeStarts
  <2>2. [Nil EXCEPT !.start = run'[k]] \in Executions
    BY <2>1, NilExecution, WithStart
  <2>3. /\ backlog' \in [Kinds -> Seq(Executions)]
        /\ \A l \in Kinds : Len(backlog'[l]) <= MaxBacklog
    BY <1>1, <1>2, <2>2, SendTypes DEF ProbeStarts
  <2>4. probe' \in [Kinds -> {"idle", "silent", "checking"}] /\ missed' \subseteq Kinds
    BY <1>1, <1>2 DEF ProbeStarts
  <2> QED
    BY <1>2, <2>1, <2>3, <2>4 DEF ProbesTypes, TypeOK, Functions, ProbeStarts
<1>3. ASSUME NEW status \in {"PASSED", "FAILED"}, ProbeEnds(k, status)
      PROVE  ProbesTypes'
  <2> DEFINE m == [start |-> run[k], end |-> IF k = "liveness" THEN run[k] ELSE 0,
                   status |-> status, attempts |-> 0,
                   duration |-> IF k = "liveness" THEN "known" ELSE "nil"]
  <2>1. m \in Executions
    BY <1>1 DEF Executions
  <2>2. Send(k, m) \/ UNCHANGED backlog
    BY <1>3 DEF ProbeEnds
  <2>3. probe' \in [Kinds -> {"idle", "silent", "checking"}]
    BY <1>1, <1>3 DEF ProbeEnds
  <2> HIDE DEF m
  <2>4. /\ backlog' \in [Kinds -> Seq(Executions)]
        /\ \A l \in Kinds : Len(backlog'[l]) <= MaxBacklog
    BY <1>1, <2>1, <2>2, SendTypes
  <2> QED
    BY <1>3, <2>3, <2>4 DEF ProbesTypes, TypeOK, Functions, ProbeEnds
<1> QED
  BY <1>2, <1>3

\* A listener keeps the types.
LEMMA ListenerTypes ==
    ASSUME ProbesTypes, ListenerStep
    PROVE  ProbesTypes'
<1> USE DEF probeVars, stateVars, sumVars
<1>1. /\ current \in [Kinds -> Executions] /\ previous \in [1..2 -> Executions]
      /\ msg \in [Kinds -> Executions] /\ backlog \in [Kinds -> Seq(Executions)]
      /\ listener \in [Kinds -> {"off", "accept", "handle", "shifted", "done"}]
      /\ lastLog \in [Kinds -> {"none", "PASSED", "FAILED"}]
      /\ printed \in [Kinds -> {"none", "PASSED", "FAILED"}]
      /\ main = "init" => \A k \in Kinds : listener[k] = "off"
      /\ "liveness" \in Kinds /\ "startup" \in Kinds
      /\ \A l \in Kinds : Len(backlog[l]) <= MaxBacklog
  BY DEF ProbesTypes, TypeOK, Functions, Kinds
<1>2. \A k \in Kinds : current[k] \in Executions /\ msg[k] \in Executions
  BY <1>1
<1>3. ASSUME NEW k \in Kinds, Accept(k) PROVE ProbesTypes'
  <2>1. /\ listener' \in [Kinds -> {"off", "accept", "handle", "shifted", "done"}]
        /\ main' = "init" => \A l \in Kinds : listener'[l] = "off"
    BY <1>1, <1>3 DEF Accept
  <2>2. /\ msg' \in [Kinds -> Executions] /\ backlog' \in [Kinds -> Seq(Executions)]
        /\ \A l \in Kinds : Len(backlog'[l]) <= MaxBacklog
    <3>1. CASE backlog[k] # <<>> /\ msg' = [msg EXCEPT ![k] = Head(backlog[k])]
                 /\ backlog' = [backlog EXCEPT ![k] = Tail(@)]
      <4>1. /\ Tail(backlog[k]) \in Seq(Executions) /\ Head(backlog[k]) \in Executions
            /\ Len(Tail(backlog[k])) = Len(backlog[k]) - 1 /\ Len(backlog[k]) \in Nat
        BY <1>1, <3>1, TailPositions
      <4>2. Len(Tail(backlog[k])) <= MaxBacklog
        BY <1>1, <4>1, ProbesAssumption
      <4> QED
        BY <1>1, <3>1, <4>1, <4>2
    <3>2. CASE backlog' = [backlog EXCEPT ![k] = <<>>] /\ UNCHANGED msg
      <4>1. <<>> \in Seq(Executions) /\ Len(<<>>) <= MaxBacklog
        BY ProbesAssumption
      <4> QED
        BY <1>1, <3>2, <4>1
    <3> QED
      BY <1>3, <3>1, <3>2 DEF Accept
  <2> QED
    BY <1>3, <2>1, <2>2 DEF ProbesTypes, TypeOK, Functions, Accept
<1>4. CASE LivenessShift
  <2>1. listener' \in [Kinds -> {"off", "accept", "handle", "shifted", "done"}]
        /\ (main' = "init" => \A l \in Kinds : listener'[l] = "off")
    BY <1>1, <1>4 DEF LivenessShift
  <2>2. current' \in [Kinds -> Executions] /\ previous' \in [1..2 -> Executions]
    <3>1. CASE current["liveness"] = Nil
      BY <1>1, <1>4, <3>1 DEF LivenessShift
    <3>2. CASE current["liveness"] # Nil
      <4> DEFINE c == [current["liveness"] EXCEPT !.duration = "known"]
      <4>1. /\ current' = [current EXCEPT !["liveness"] = c]
            /\ previous' = [previous EXCEPT ![2] = previous[1], ![1] = current'["liveness"]]
        BY <1>1, <1>4, <3>2 DEF LivenessShift
      <4>2. c \in Executions
        BY <1>1, <1>2, WithDuration
      <4> HIDE DEF c
      <4>3. current' \in [Kinds -> Executions] /\ current'["liveness"] \in Executions
        BY <1>1, <4>1, <4>2
      <4>4. previous' \in [1..2 -> Executions]
        BY <1>1, <4>1, <4>3
      <4> QED
        BY <4>3, <4>4
    <3> QED
      BY <3>1, <3>2
  <2> QED
    BY <1>4, <2>1, <2>2 DEF ProbesTypes, TypeOK, Functions, LivenessShift
<1>5. CASE LivenessBegins
  <2>1. /\ listener' \in [Kinds -> {"off", "accept", "handle", "shifted", "done"}]
        /\ main' = "init" => \A l \in Kinds : listener'[l] = "off"
    BY <1>1, <1>5 DEF LivenessBegins
  <2>2. current' \in [Kinds -> Executions] /\ msg' \in [Kinds -> Executions]
    BY <1>1, <1>2, <1>5, NilExecution DEF LivenessBegins
  <2> QED
    BY <1>5, <2>1, <2>2 DEF ProbesTypes, TypeOK, Functions, LivenessBegins
<1>6. ASSUME NEW k \in Kinds, NEW status \in {"PASSED", "FAILED"}, Dedup(k, status)
      PROVE  /\ lastLog' \in [Kinds -> {"none", "PASSED", "FAILED"}]
             /\ printed' \in [Kinds -> {"none", "PASSED", "FAILED"}]
  BY <1>1, <1>6 DEF Dedup
<1>7. \A k \in Kinds : msg[k].status # "INCOMPLETE" => msg[k].status \in {"PASSED", "FAILED"}
  BY <1>2, Fields
<1>8. CASE LivenessResult
  <2>1. /\ listener' \in [Kinds -> {"off", "accept", "handle", "shifted", "done"}]
        /\ main' = "init" => \A l \in Kinds : listener'[l] = "off"
    BY <1>1, <1>8 DEF LivenessResult
  <2>2. current' \in [Kinds -> Executions] /\ msg' \in [Kinds -> Executions]
    <3>1. [msg["liveness"] EXCEPT !.start = current["liveness"].start] \in Executions
      BY <1>1, <1>2, Fields, WithStart
    <3> QED
      BY <1>1, <1>2, <1>8, <3>1, NilExecution DEF LivenessResult
  <2>3. /\ lastLog' \in [Kinds -> {"none", "PASSED", "FAILED"}]
        /\ printed' \in [Kinds -> {"none", "PASSED", "FAILED"}]
    BY <1>1, <1>6, <1>7, <1>8 DEF LivenessResult
  <2> QED
    BY <1>8, <2>1, <2>2, <2>3 DEF ProbesTypes, TypeOK, Functions, LivenessResult
<1>9. CASE StartupHandle
  <2>1. /\ listener' \in [Kinds -> {"off", "accept", "handle", "shifted", "done"}]
        /\ main' = "init" => \A l \in Kinds : listener'[l] = "off"
    BY <1>1, <1>9 DEF StartupHandle
  <2>2. current' \in [Kinds -> Executions] /\ msg' \in [Kinds -> Executions]
    <3> DEFINE n == current["startup"].attempts
    <3>1. /\ [msg["startup"] EXCEPT !.attempts = n] \in Executions
          /\ [msg["startup"] EXCEPT !.attempts = n + 1] \in Executions
      <4>1. msg["startup"] \in Executions /\ n \in Nat /\ n + 1 \in Nat
        BY <1>1, <1>2, Fields
      <4> QED
        BY <4>1, WithAttempts
    <3> QED
      BY <1>1, <1>9, <3>1, NilExecution DEF StartupHandle
  <2>3. /\ lastLog' \in [Kinds -> {"none", "PASSED", "FAILED"}]
        /\ printed' \in [Kinds -> {"none", "PASSED", "FAILED"}]
    BY <1>1, <1>6, <1>7, <1>9 DEF StartupHandle
  <2> QED
    BY <1>9, <2>1, <2>2, <2>3 DEF ProbesTypes, TypeOK, Functions, StartupHandle
<1> QED
  BY <1>3, <1>4, <1>5, <1>8, <1>9 DEF ListenerStep

\* Sequences that are put together.
LEMMA ConcatType ==
    ASSUME NEW S, NEW s \in Seq(S), NEW t \in Seq(S)
    PROVE  s \o t \in Seq(S) /\ Len(s \o t) = Len(s) + Len(t)
  OBVIOUS

\* A run takes up one line of the summary at most.
LEMMA EntryType ==
    ASSUME NEW e \in Executions
    PROVE  /\ Entry(e) \in Seq(Nat \ {0})
           /\ Len(Entry(e)) \in Nat /\ Len(Entry(e)) <= 1
<1>1. e.start \in Nat
  BY Fields
<1>2. CASE e.start = 0
  <2>1. Entry(e) = <<>>
    BY <1>2 DEF Entry
  <2> QED
    BY <2>1
<1>3. CASE e.start # 0
  <2>1. Entry(e) = <<e.start>> /\ e.start \in Nat \ {0}
    BY <1>1, <1>3 DEF Entry
  <2>2. ASSUME NEW S, NEW x \in S PROVE <<x>> \in Seq(S) /\ Len(<<x>>) = 1
    OBVIOUS
  <2> QED
    BY <2>1, <2>2
<1> QED
  BY <1>2, <1>3

\* runmqserver keeps the types; the summary has room for three runs.
LEMMA MainTypes ==
    ASSUME ProbesTypes, SummaryFits, MainStep
    PROVE  ProbesTypes' /\ SummaryFits'
<1> USE DEF probeVars, stateVars, sumVars
<1>1. CASE SummaryCurrent
  <2>1. PICK e \in Executions : summary' = Entry(e)
    BY <1>1 DEF SummaryCurrent, ProbesTypes, TypeOK, Kinds
  <2>2. summary' \in Seq(Nat \ {0}) /\ Len(summary') \in Nat /\ Len(summary') <= 1
    BY <2>1, EntryType
  <2>3. Len(summary') <= 3
    BY <2>2
  <2> QED
    BY <1>1, <2>2, <2>3 DEF SummaryCurrent, ProbesTypes, TypeOK, Functions, SummaryFits
<1>2. CASE SummaryPrevious
  <2>1. /\ summary \in Seq(Nat \ {0}) /\ Len(summary) <= 1 /\ Len(summary) \in Nat
        /\ previous[1] \in Executions /\ previous[2] \in Executions
    BY <1>2 DEF SummaryPrevious, ProbesTypes, TypeOK, SummaryFits
  <2>2. /\ Entry(previous[1]) \in Seq(Nat \ {0}) /\ Len(Entry(previous[1])) <= 1
        /\ Entry(previous[2]) \in Seq(Nat \ {0}) /\ Len(Entry(previous[2])) <= 1
        /\ Len(Entry(previous[1])) \in Nat /\ Len(Entry(previous[2])) \in Nat
    BY <2>1, EntryType
  <2>3. /\ summary \o Entry(previous[1]) \in Seq(Nat \ {0})
        /\ Len(summary \o Entry(previous[1])) = Len(summary) + Len(Entry(previous[1]))
    BY <2>1, <2>2, ConcatType
  <2>4. /\ summary' \in Seq(Nat \ {0})
        /\ Len(summary') = Len(summary) + Len(Entry(previous[1])) + Len(Entry(previous[2]))
    BY <1>2, <2>2, <2>3, ConcatType DEF SummaryPrevious
  <2>5. Len(summary') <= 3
    BY <2>1, <2>2, <2>4
  <2> QED
    BY <1>2, <2>4, <2>5 DEF SummaryPrevious, ProbesTypes, TypeOK, Functions, SummaryFits
<1>3. CASE Start
  BY <1>3 DEF Start, ProbesTypes, TypeOK, Functions, SummaryFits
<1>4. CASE Cancel \/ WaitReturns
  BY <1>4 DEF Cancel, WaitReturns, ProbesTypes, TypeOK, Functions, SummaryFits
<1> QED
  BY <1>1, <1>2, <1>3, <1>4 DEF MainStep

\* The types, together with what makes them inductive.
LEMMA ProbesTypesHold == Spec => [](ProbesTypes /\ SummaryFits)
<1>1. Init => ProbesTypes /\ SummaryFits
  <2> SUFFICES ASSUME Init PROVE ProbesTypes /\ SummaryFits
    OBVIOUS
  <2>1. <<>> \in Seq(Executions) /\ Len(<<>>) = 0 /\ <<>> \in Seq(Nat \ {0})
    OBVIOUS
  <2>2. plan \in [Kinds -> Nat]
    BY ProbesAssumption DEF Init
  <2>3. /\ run \in [Kinds -> Nat] /\ \A k \in Kinds : run[k] \in 0..plan[k]
        /\ backlog \in [Kinds -> Seq(Executions)]
        /\ \A k \in Kinds : backlog[k] \in Seq(Executions) /\ Len(backlog[k]) <= MaxBacklog
    BY <2>1, <2>2, ProbesAssumption DEF Init
  <2> QED
    BY <2>1, <2>3, NilExecution DEF Init, ProbesTypes, TypeOK, Functions, SummaryFits
<1>2. ProbesTypes /\ SummaryFits /\ [Next]_vars => ProbesTypes' /\ SummaryFits'
  <2> SUFFICES ASSUME ProbesTypes, SummaryFits, [Next]_vars PROVE ProbesTypes' /\ SummaryFits'
    OBVIOUS
  <2>1. CASE ProbeStep
    <3>1. UNCHANGED sumVars
      BY <2>1 DEF ProbeStep, ProbeStarts, ProbeEnds
    <3> QED
      BY <2>1, <3>1, ProbeTypes DEF ProbeStep, SummaryFits, sumVars
  <2>2. CASE ListenerStep
    <3>1. UNCHANGED sumVars
      BY <2>2 DEF ListenerStep, Accept, LivenessShift, LivenessBegins, LivenessResult, StartupHandle
    <3> QED
      BY <2>2, <3>1, ListenerTypes DEF SummaryFits, sumVars
  <2>3. CASE MainStep
    BY <2>3, MainTypes
  <2>4. CASE UNCHANGED vars
    BY <2>4 DEF vars, probeVars, stateVars, sumVars, ProbesTypes, TypeOK, Functions, SummaryFits
  <2> QED
    BY <2>1, <2>2, <2>3, <2>4 DEF Next
<1> QED
  BY <1>1, <1>2, PTL DEF Spec

\* Type correctness of probe logging: for any number of runs the summary, which is read
\* without a lock, holds three runs at most, and the history two.
THEOREM ProbesTypeCorrect == Spec => []TypeOK
<1>1. ProbesTypes => TypeOK
  BY DEF ProbesTypes
<1> QED
  BY <1>1, ProbesTypesHold, PTL

-------------------------------------------------------------------------------
\* The inductive invariant: whichever messages are lost, they reach the listener in the order
\* of the runs, and the history, the console and the count keep pace with them.
THEOREM ProbesInductive == Spec => []ProbesIInv
<1>1. Init => ProbesIInv
  <2> SUFFICES ASSUME Init PROVE ProbesIInv
    OBVIOUS
  <2>1. /\ \A k \in Kinds : /\ current[k] = Nil /\ run[k] = 0 /\ backlog[k] = <<>>
                            /\ listener[k] = "off"
        /\ \A i \in 1..2 : previous[i] = Nil
        /\ printed = lastLog /\ printed["startup"] # "FAILED" /\ Kinds = {"liveness", "startup"}
    BY DEF Init, Kinds
  <2>2. Len(<<>>) = 0 /\ 1..0 = {}
    OBVIOUS
  <2>3. \A k \in Kinds : InOrder(k)
    BY <2>1, <2>2, NilExecution DEF InOrder, Handling
  <2>4. Gapless
    BY <2>1, <2>2, NilExecution DEF Gapless, WithoutGap, RunBefore, Handling
  <2>5. History /\ Remembered /\ AttemptsCounted
    BY <2>1, NilExecution DEF History, Remembered, AttemptsCounted
  <2>6. MessageEnds /\ ResultsOfOneRun
    <3>1. msg["liveness"] = Nil
      BY <2>1 DEF Init
    <3> QED
      BY <2>1, <2>2, <3>1, NilExecution DEF MessageEnds, EndsFit, ResultsOfOneRun
  <2> QED
    BY <2>3, <2>4, <2>5, <2>6 DEF ProbesIInv
<1>2. ProbesTypes /\ ProbesTypes' /\ ProbesIInv /\ [Next]_vars => ProbesIInv'
  <2> SUFFICES ASSUME ProbesTypes, ProbesTypes', ProbesIInv, [Next]_vars PROVE ProbesIInv'
    OBVIOUS
  <2>1. "liveness" \in Kinds /\ "startup" \in Kinds
    BY DEF Kinds
  <2>2. \A k \in Kinds : InOrder(k)'
    BY Views, InOrderStep DEF ProbesIInv
  <2>3. Gapless' /\ AttemptsCounted'
    <3>1. \A k \in Kinds : k \notin missed' /\ listener'[k] # "done" => WithoutGap(k)'
      BY Views, GaplessStep DEF ProbesIInv
    <3>2. Gapless'
      BY <3>1 DEF Gapless
    <3>3. AttemptsCounted'
      BY <2>1, Views, AttemptsStep DEF ProbesIInv
    <3> QED
      BY <3>2, <3>3
  <2>4. History' /\ Remembered'
    BY <2>1, HistoryStep DEF ProbesIInv
  <2>5. MessageEnds' /\ ResultsOfOneRun'
    BY <2>1, Views, ResultsStep DEF ProbesIInv
  <2> QED
    BY <2>2, <2>3, <2>4, <2>5 DEF ProbesIInv
<1> QED
  BY <1>1, <1>2, ProbesTypesHold, PTL DEF Spec

\* For any number of runs and however messages are lost, the history of the liveness probe
\* lists no run twice and none out of order, with a duration for each that is over.
THEOREM HistorySafe == Spec => []HistoryInOrder
<1>1. ProbesIInv => HistoryInOrder
  BY DEF ProbesIInv, History, HistoryInOrder
<1> QED
  BY <1>1, ProbesInductive, PTL

\* For any number of runs, a record of the liveness probe has the start and the end of one
\* run, unless the first message of a run was lost.
THEOREM ResultsSafe == Spec => []ResultsOfOneRun
<1>1. ProbesIInv => ResultsOfOneRun
  BY DEF ProbesIInv
<1> QED
  BY <1>1, ProbesInductive, PTL

\* Although dedupLog leaves lines out, the last line of the liveness probe is about the result
\* that was handled last, and that of the startup probe about a success that was handled: a
\* failed attempt is never printed.
THEOREM ConsoleSafe == Spec => []LatestResultPrinted
<1>1. ProbesIInv => LatestResultPrinted
  BY DEF ProbesIInv, Remembered, LatestResultPrinted
<1> QED
  BY <1>1, ProbesInductive, PTL

\* The startup probe never counts an attempt twice, and misses only those whose first
\* message was lost.
THEOREM AttemptsSafe == Spec => []AttemptsCounted
<1>1. ProbesIInv => AttemptsCounted
  BY DEF ProbesIInv
<1> QED
  BY <1>1, ProbesInductive, PTL
===============================================================================

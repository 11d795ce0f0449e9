----------------------------- MODULE AuditLogProofs -----------------------------
(***************************************************************************)
(* Theorems about the audit log, for any number of clients, files and      *)
(* requests, and any number of failures and crashes.                       *)
(*                                                                         *)
(* The argument for AuditedOnce: the numbers of the requests on their way  *)
(* differ from each other and from those that are written (LinesOwn,       *)
(* WrittenRequested), and a handler leaves only with a line written or     *)
(* missed.                                                                 *)
(*                                                                         *)
(* For the rotation: one handler at a time is in Append (Exclusive), and   *)
(* what a rename or the creation of file 1 replaces has no lines any more  *)
(* (AbsentEmpty, RoomMade).  So only the removal of the last file takes    *)
(* lines away, and they are the oldest: the files are a bounded log.  When *)
(* that happens file 1 is full (FirstFull), and so is every other file but *)
(* for one for each torn rotation (HolesTorn): RetainsEnough.              *)
(***************************************************************************)
EXTENDS AuditLog, FiniteSetTheorems, WellFoundedInduction, TLAPS

Busy(c) == handler[c].at # "none"

\* A rename has a file to go to, and a request a number.
Underway ==
    \A c \in Clients :
        /\ handler[c].at = "rename" => handler[c].renameAt <= LogFilesCount
        /\ Busy(c) => handler[c].line # 0

\* A request that is on its way has a number of its own, under which nothing has been
\* written yet.
LinesOwn ==
    /\ \A c \in Clients : Busy(c) => handler[c].line <= requests
    /\ \A c, d \in Clients : Busy(c) /\ Busy(d) /\ handler[c].line = handler[d].line => c = d
    /\ \A c \in Clients : Busy(c) =>
         \A i \in 1..Len(written) : written[i] # handler[c].line

\* Nothing is written that has not been requested.
WrittenRequested == \A i \in 1..Len(written) : written[i] <= requests

\* The inductive invariant, next to the types and Underway.
AuditIInv == LinesOwn /\ WrittenRequested /\ AuditedOnce

-------------------------------------------------------------------------------
\* A handler that goes on keeps its line.
GoesOn(c) ==
    /\ handler' \in [Clients -> Handlers]
    /\ \A d \in Clients \ {c} : handler'[d] = handler[d]
    /\ handler'[c].line = handler[c].line
    /\ handler[c].at # "none" /\ handler'[c].at # "none"
    /\ handler'[c].at = "rename" => handler'[c].renameAt <= LogFilesCount
    /\ written' = written /\ missed' = missed

\* A handler that returns has its line written, or missed.
Returns(c) ==
    /\ handler[c].at # "none"
    /\ handler' = [handler EXCEPT ![c] = NoHandler]
    /\ \/ written' = Append(written, handler[c].line) /\ missed' = missed
       \/ written' = written /\ missed' = missed \cup {handler[c].line}

\* To another place than the renames.
LEMMA GotoGoesOn ==
    ASSUME AuditTypeOK, NEW c \in Clients, NEW place \in HandlerStates \ {"none", "rename"},
           Busy(c), Goto(c, place), UNCHANGED <<written, missed>>
    PROVE  GoesOn(c)
<1>1. handler \in [Clients -> Handlers] /\ handler[c] \in Handlers
  BY DEF AuditTypeOK
<1>2. [handler[c] EXCEPT !.at = place] \in Handlers
  BY <1>1 DEF Handlers
<1>3. handler' = [handler EXCEPT ![c] = [handler[c] EXCEPT !.at = place]]
  BY <1>1 DEF Goto
<1>4. handler' \in [Clients -> Handlers]
  BY <1>1, <1>2, <1>3
<1>5. handler'[c] = [handler[c] EXCEPT !.at = place]
  BY <1>1, <1>3
<1>6. handler'[c].line = handler[c].line /\ handler'[c].at = place
  BY <1>1, <1>5 DEF Handlers
<1> QED
  BY <1>1, <1>3, <1>4, <1>6 DEF GoesOn, Busy

\* Every step of a handler is one or the other.
LEMMA HandlerMoves ==
    ASSUME AuditTypeOK, Underway, NEW c \in Clients, HandlerStep(c)
    PROVE  GoesOn(c) \/ Returns(c)
<1> USE DEF fileVars, serverVars, historyVars
<1>1. handler \in [Clients -> Handlers] /\ handler[c] \in Handlers
  BY DEF AuditTypeOK
<1>2. CASE Answer(c)
  BY <1>2, GotoGoesOn DEF Answer, Goto, Busy, HandlerStates
<1>3. CASE LockLog(c)
  BY <1>3, GotoGoesOn DEF LockLog, Busy, HandlerStates, Appending
<1>4. CASE OpenLog(c)
  BY <1>4, GotoGoesOn DEF OpenLog, Busy, HandlerStates, Appending
<1>5. CASE CheckSize(c)
  BY <1>5, GotoGoesOn DEF CheckSize, Busy, HandlerStates, Appending, Rotating
<1>6. CASE CreateFirst(c)
  BY <1>6, GotoGoesOn DEF CreateFirst, Busy, HandlerStates, Appending
<1>7. CASE RotationFails(c)
  BY <1>7, GotoGoesOn DEF RotationFails, Busy, HandlerStates, Appending, Rotating
<1>8. CASE RemoveLast(c)
  <2>1. CASE LogFilesCount >= 2
    <3>1. handler' = [handler EXCEPT ![c] = [handler[c] EXCEPT !.at = "rename",
                                                               !.renameAt = LogFilesCount]]
      BY <1>1, <1>8, <2>1 DEF RemoveLast
    <3>2. [handler[c] EXCEPT !.at = "rename", !.renameAt = LogFilesCount] \in Handlers
      <4>1. "rename" \in HandlerStates /\ LogFilesCount \in 2..(LogFilesCount + 1)
        BY <2>1, AuditAssumption DEF HandlerStates, Appending, Rotating
      <4> QED
        BY <1>1, <4>1 DEF Handlers
    <3>3. handler'[c] = [handler[c] EXCEPT !.at = "rename", !.renameAt = LogFilesCount]
      BY <1>1, <3>1
    <3>4. handler'[c].line = handler[c].line /\ handler'[c].at = "rename"
            /\ handler'[c].renameAt = LogFilesCount
      BY <1>1, <3>3 DEF Handlers
    <3> QED
      BY <1>1, <1>8, <3>1, <3>2, <3>4, AuditAssumption DEF GoesOn, RemoveLast
  <2>2. CASE ~(LogFilesCount >= 2)
    BY <1>8, <2>2, GotoGoesOn DEF RemoveLast, Goto, Busy, HandlerStates, Appending, Rotating
  <2> QED
    BY <2>1, <2>2
<1>9. CASE RenameOne(c)
  <2>1. CASE handler[c].renameAt = 2
    BY <1>9, <2>1, GotoGoesOn DEF RenameOne, Busy, HandlerStates, Appending, Rotating
  <2>2. CASE handler[c].renameAt # 2
    <3> DEFINE i == handler[c].renameAt - 1
    <3>1. handler' = [handler EXCEPT ![c] = [handler[c] EXCEPT !.renameAt = i]]
      BY <1>1, <1>9, <2>2 DEF RenameOne
    <3>2. i \in 2..(LogFilesCount + 1) /\ i <= LogFilesCount
      BY <1>1, <2>2, AuditAssumption DEF Handlers
    <3>3. [handler[c] EXCEPT !.renameAt = i] \in Handlers
      BY <1>1, <3>2 DEF Handlers
    <3>4. handler'[c] = [handler[c] EXCEPT !.renameAt = i]
      BY <1>1, <3>1
    <3>5. handler'[c].line = handler[c].line /\ handler'[c].at = handler[c].at
            /\ handler'[c].renameAt = i
      BY <1>1, <3>4 DEF Handlers
    <3> QED
      BY <1>1, <1>9, <3>1, <3>2, <3>3, <3>5 DEF GoesOn, RenameOne
  <2> QED
    BY <2>1, <2>2
<1>10. CASE AppendFails(c)
  BY <1>10 DEF AppendFails, Leave, Returns
<1>11. CASE WriteToLog(c)
  BY <1>11 DEF WriteToLog, Leave, Returns
<1> QED
  BY <1>2, <1>3, <1>4, <1>5, <1>6, <1>7, <1>8, <1>9, <1>10, <1>11 DEF HandlerStep

-------------------------------------------------------------------------------
\* The handlers keep their types.
LEMMA HandlerTypes ==
    ASSUME AuditTypeOK, Underway, NEW c \in Clients, GoesOn(c) \/ Returns(c)
    PROVE  handler' \in [Clients -> Handlers] /\ Underway'
<1>1. handler \in [Clients -> Handlers]
  BY DEF AuditTypeOK
<1>2. NoHandler \in Handlers /\ NoHandler.at = "none"
  BY AuditAssumption DEF NoHandler, Handlers, HandlerStates
<1>3. CASE GoesOn(c)
  BY <1>1, <1>3 DEF GoesOn, Underway, Busy
<1>4. CASE Returns(c)
  BY <1>1, <1>2, <1>4 DEF Returns, Underway, Busy
<1> QED
  BY <1>3, <1>4

\* Two places of a function are updated.
LEMMA TwoUpdates ==
    ASSUME NEW D, NEW S, NEW f \in [D -> S], NEW i \in D, NEW j \in D, NEW x \in S, NEW y \in S
    PROVE  [f EXCEPT ![i] = x, ![j] = y] \in [D -> S]
OBVIOUS

\* A step of a handler keeps the types of everything else, the files above all.
LEMMA HandlerKeepsTypes ==
    ASSUME AuditTypeOK, Underway, NEW c \in Clients, HandlerStep(c)
    PROVE  AuditTypeOK' /\ Underway'
<1> USE AuditAssumption DEF Instances, fileVars, serverVars, historyVars
<1>1. handler' \in [Clients -> Handlers] /\ Underway'
  BY HandlerMoves, HandlerTypes
<1>2. /\ handler[c] \in Handlers
      /\ Busy(c) => handler[c].line \in 1..MaxLines
  BY DEF AuditTypeOK, Underway, Handlers
<1>3. CASE Answer(c) \/ CheckSize(c)
  BY <1>1, <1>3 DEF AuditTypeOK, Answer, CheckSize
<1>4. CASE LockLog(c)
  BY <1>1, <1>4 DEF AuditTypeOK, LockLog
<1>5. CASE OpenLog(c)
  BY <1>1, <1>5 DEF AuditTypeOK, OpenLog
<1>6. CASE AppendFails(c)
  <2>1. missed' \subseteq 1..MaxLines
    BY <1>2, <1>6 DEF AuditTypeOK, AppendFails, Busy
  <2> QED
    BY <1>1, <1>6, <2>1 DEF AuditTypeOK, AppendFails, Leave, Fault
<1>7. CASE RemoveLast(c)
  BY <1>1, <1>7 DEF AuditTypeOK, RemoveLast
<1>8. CASE RenameOne(c)
  <2>1. handler[c].renameAt \in 2..LogFilesCount
    BY <1>2, <1>8 DEF Underway, Handlers, RenameOne
  <2>2. file' \in [Instances -> Seq(Nat)] /\ exists' \subseteq Instances
    <3> DEFINE i == handler[c].renameAt
    <3>1. i \in Instances /\ i - 1 \in Instances
      BY <2>1
    <3>2. CASE i - 1 \in exists
      <4>1. /\ file' = [file EXCEPT ![i] = file[i - 1], ![i - 1] = <<>>]
            /\ exists' = (exists \cup {i}) \ {i - 1}
        BY <1>8, <3>2 DEF RenameOne
      <4>2. file \in [Instances -> Seq(Nat)] /\ exists \subseteq Instances
        BY DEF AuditTypeOK
      <4>3. file[i - 1] \in Seq(Nat)
        BY <3>1, <4>2
      <4>4. <<>> \in Seq(Nat)
        OBVIOUS
      <4>5. file' \in [Instances -> Seq(Nat)]
        BY <3>1, <4>1, <4>2, <4>3, <4>4, TwoUpdates
      <4>6. exists' \subseteq Instances
        BY <3>1, <4>1, <4>2
      <4> QED
        BY <4>5, <4>6
    <3>3. CASE i - 1 \notin exists
      BY <1>8, <3>3 DEF RenameOne, AuditTypeOK
    <3> QED
      BY <3>2, <3>3
  <2> QED
    BY <1>1, <1>8, <2>2 DEF AuditTypeOK, RenameOne
<1>9. CASE CreateFirst(c)
  BY <1>1, <1>9 DEF AuditTypeOK, CreateFirst
<1>10. CASE RotationFails(c)
  BY <1>1, <1>10 DEF AuditTypeOK, RotationFails, Fault
<1>11. CASE WriteToLog(c)
  <2>1. handler[c].line \in Nat /\ file[1] \in Seq(Nat)
    BY <1>2, <1>11 DEF WriteToLog, Busy, AuditTypeOK
  <2>2. file' \in [Instances -> Seq(Nat)]
    BY <1>11, <2>1 DEF AuditTypeOK, WriteToLog
  <2> QED
    BY <1>1, <1>11, <2>1, <2>2 DEF AuditTypeOK, WriteToLog, Leave
<1> QED
  BY <1>3, <1>4, <1>5, <1>6, <1>7, <1>8, <1>9, <1>10, <1>11 DEF HandlerStep

\* Starts, crashes and requests keep the types.
LEMMA OthersKeepTypes ==
    ASSUME AuditTypeOK, Underway,
           InitFile \/ InitFileFails \/ AuditCrash \/ \E c \in Clients : Request(c)
    PROVE  AuditTypeOK' /\ Underway'
<1> USE AuditAssumption DEF Instances, fileVars, serverVars, historyVars
<1>1. NoHandler \in Handlers /\ NoHandler.at = "none"
  BY DEF NoHandler, Handlers, HandlerStates
<1>2. CASE InitFile
  BY <1>2 DEF AuditTypeOK, InitFile, Underway, Busy
<1>3. CASE InitFileFails
  BY <1>3 DEF AuditTypeOK, InitFileFails, Fault, Underway, Busy
<1>4. CASE AuditCrash
  <2>1. handler' \in [Clients -> Handlers] /\ Underway'
    BY <1>1, <1>4 DEF AuditCrash, Underway, Busy
  <2>2. missed' \subseteq 1..MaxLines
    <3>1. \A c \in Clients : handler[c].at # "none" => handler[c].line \in 1..MaxLines
      BY DEF AuditTypeOK, Handlers, Underway, Busy
    <3> QED
      BY <1>4, <3>1 DEF AuditCrash, AuditTypeOK
  <2> QED
    BY <1>4, <2>1, <2>2 DEF AuditCrash, AuditTypeOK
<1>5. ASSUME NEW c \in Clients, Request(c) PROVE AuditTypeOK' /\ Underway'
  <2> DEFINE h == [handler[c] EXCEPT !.at = "handling", !.line = requests + 1]
  <2>1. handler \in [Clients -> Handlers] /\ handler[c] \in Handlers
    BY DEF AuditTypeOK
  <2>2. handler' = [handler EXCEPT ![c] = h]
    BY <1>5, <2>1 DEF Request
  <2>3. h \in Handlers /\ h.at = "handling" /\ h.line # 0
    <3>1. "handling" \in HandlerStates /\ requests + 1 \in 0..MaxLines /\ requests + 1 # 0
      BY <1>5 DEF HandlerStates, AuditTypeOK, Request
    <3> QED
      BY <2>1, <3>1 DEF Handlers
  <2>4. handler' \in [Clients -> Handlers] /\ Underway'
    BY <2>1, <2>2, <2>3 DEF Underway, Busy
  <2> QED
    BY <1>5, <2>4 DEF Request, AuditTypeOK
<1> QED
  BY <1>2, <1>3, <1>4, <1>5

\* Type correctness: among others, a rotation only touches files that there may be,
\* wherever failures and crashes come.
THEOREM AuditTypeCorrect == AuditSpec => [](AuditTypeOK /\ Underway)
<1>1. AuditInit => AuditTypeOK /\ Underway
  <2> SUFFICES ASSUME AuditInit PROVE AuditTypeOK /\ Underway
    OBVIOUS
  <2>1. NoHandler \in Handlers /\ NoHandler.at = "none"
    BY AuditAssumption DEF NoHandler, Handlers, HandlerStates
  <2> QED
    BY <2>1, AuditAssumption DEF AuditInit, AuditTypeOK, Underway, Busy, Instances
<1>2. AuditTypeOK /\ Underway /\ [AuditNext]_auditVars => AuditTypeOK' /\ Underway'
  <2>1. AuditTypeOK /\ Underway /\ UNCHANGED auditVars => AuditTypeOK' /\ Underway'
    BY DEF AuditTypeOK, Underway, Busy, auditVars, fileVars, serverVars, historyVars
  <2> QED
    BY <2>1, HandlerKeepsTypes, OthersKeepTypes DEF AuditNext
<1> QED
  BY <1>1, <1>2, PTL DEF AuditSpec
-------------------------------------------------------------------------------
\* A handler that goes on has its number for itself as before.
LEMMA GoesOnKeeps ==
    ASSUME AuditTypeOK, AuditIInv, NEW c \in Clients, GoesOn(c), requests' = requests
    PROVE  AuditIInv'
<1>1. \A d \in Clients : /\ handler'[d].at # "none" <=> handler[d].at # "none"
                         /\ handler'[d].line = handler[d].line
  BY DEF GoesOn
<1>2. written' = written /\ missed' = missed
  BY DEF GoesOn
<1>3. LinesOwn' /\ WrittenRequested'
  BY <1>1, <1>2 DEF AuditIInv, LinesOwn, WrittenRequested, Busy
<1>4. AuditedOnce'
  BY <1>1, <1>2 DEF AuditIInv, AuditedOnce
<1> QED
  BY <1>3, <1>4 DEF AuditIInv

\* A handler that returns with its line written: no other has that number, and it
\* was not written before.
LEMMA WritesKeep ==
    ASSUME AuditTypeOK, AuditIInv, NEW c \in Clients, Busy(c), requests' = requests,
           handler' = [handler EXCEPT ![c] = NoHandler],
           written' = Append(written, handler[c].line), missed' = missed
    PROVE  AuditIInv'
<1> DEFINE n == handler[c].line
<1>1. n \in Nat /\ written \in Seq(Nat) /\ handler \in [Clients -> Handlers]
  BY DEF AuditTypeOK, Handlers
<1>2. /\ Len(written') = Len(written) + 1 /\ Len(written) \in Nat
      /\ \A i \in 1..Len(written) : written'[i] = written[i]
      /\ written'[Len(written) + 1] = n
  BY <1>1
<1>3. /\ handler'[c].at = "none"
      /\ \A d \in Clients \ {c} : handler'[d] = handler[d]
  BY <1>1 DEF NoHandler
<1>4. \A i \in 1..Len(written') : i \in 1..Len(written) \/ i = Len(written) + 1
  BY <1>2
<1>5. n <= requests /\ \A i \in 1..Len(written) : written[i] # n
  BY DEF AuditIInv, LinesOwn
<1>6. \A d \in Clients : handler'[d].at # "none" =>
        d # c /\ handler'[d] = handler[d] /\ handler[d].line # n
  BY <1>3 DEF AuditIInv, LinesOwn, Busy
<1> HIDE DEF n
<1>7. LinesOwn'
  <2>1. \A d \in Clients : handler'[d].at # "none" => handler'[d].line <= requests'
    BY <1>6 DEF AuditIInv, LinesOwn, Busy
  <2>2. \A d, e \in Clients : handler'[d].at # "none" /\ handler'[e].at # "none"
          /\ handler'[d].line = handler'[e].line => d = e
    BY <1>6 DEF AuditIInv, LinesOwn, Busy
  <2>3. ASSUME NEW d \in Clients, handler'[d].at # "none", NEW i \in 1..Len(written')
        PROVE  written'[i] # handler'[d].line
    BY <1>2, <1>4, <1>6, <2>3 DEF AuditIInv, LinesOwn, Busy
  <2> QED
    BY <2>1, <2>2, <2>3 DEF LinesOwn, Busy
<1>8. WrittenRequested'
  <2>1. ASSUME NEW i \in 1..Len(written') PROVE written'[i] <= requests'
    BY <1>2, <1>4, <1>5 DEF AuditIInv, WrittenRequested
  <2> QED
    BY <2>1 DEF WrittenRequested
<1>9. AuditedOnce'
  <2>1. ASSUME NEW i \in 1..Len(written'), NEW j \in 1..Len(written'),
               written'[i] = written'[j]
        PROVE  i = j
    BY <1>2, <1>4, <1>5, <2>1 DEF AuditIInv, AuditedOnce
  <2>2. ASSUME NEW m \in 1..requests'
        PROVE  \/ m \in missed'
               \/ \E i \in 1..Len(written') : written'[i] = m
               \/ \E d \in Clients : handler'[d].at # "none" /\ handler'[d].line = m
    <3>1. CASE m \in missed
      BY <3>1
    <3>2. ASSUME NEW i \in 1..Len(written), written[i] = m
          PROVE  \E k \in 1..Len(written') : written'[k] = m
      <4>1. i \in 1..Len(written') /\ written'[i] = m
        BY <1>2, <3>2
      <4> QED
        BY <4>1
    <3>3. ASSUME NEW d \in Clients, handler[d].at # "none", handler[d].line = m
          PROVE  \/ \E k \in 1..Len(written') : written'[k] = m
                 \/ \E e \in Clients : handler'[e].at # "none" /\ handler'[e].line = m
      <4>1. CASE d = c
        <5>1. Len(written) + 1 \in 1..Len(written') /\ written'[Len(written) + 1] = m
          BY <1>2, <3>3, <4>1 DEF n
        <5> QED
          BY <5>1
      <4>2. CASE d # c
        BY <1>3, <3>3, <4>2
      <4> QED
        BY <4>1, <4>2
    <3>4. \/ m \in missed
          \/ \E i \in 1..Len(written) : written[i] = m
          \/ \E d \in Clients : handler[d].at # "none" /\ handler[d].line = m
      BY DEF AuditIInv, AuditedOnce
    <3> QED
      BY <3>1, <3>2, <3>3, <3>4
  <2> QED
    BY <2>1, <2>2 DEF AuditedOnce
<1> QED
  BY <1>7, <1>8, <1>9 DEF AuditIInv

\* Handlers that end, the others as they were, with their lines missed: an early return,
\* or a crash.
LEMMA MissesKeep ==
    ASSUME AuditTypeOK, AuditIInv, requests' = requests, written' = written,
           NEW Gone \in SUBSET Clients,
           \A d \in Gone : handler'[d].at = "none",
           \A d \in Clients \ Gone : handler'[d] = handler[d],
           missed \subseteq missed',
           \A d \in Gone : handler[d].at # "none" => handler[d].line \in missed'
    PROVE  AuditIInv'
<1>1. \A d \in Clients : handler'[d].at # "none" =>
        handler'[d] = handler[d] /\ handler[d].at # "none"
  OBVIOUS
<1>2. LinesOwn' /\ WrittenRequested'
  BY <1>1 DEF AuditIInv, LinesOwn, WrittenRequested, Busy
<1>3. AuditedOnce'
  <2>1. \A i, j \in 1..Len(written') : written'[i] = written'[j] => i = j
    BY DEF AuditIInv, AuditedOnce
  <2>2. ASSUME NEW m \in 1..requests'
        PROVE  \/ m \in missed'
               \/ \E i \in 1..Len(written') : written'[i] = m
               \/ \E d \in Clients : handler'[d].at # "none" /\ handler'[d].line = m
    <3>1. \/ m \in missed
          \/ \E i \in 1..Len(written) : written[i] = m
          \/ \E d \in Clients : handler[d].at # "none" /\ handler[d].line = m
      BY DEF AuditIInv, AuditedOnce
    <3>2. ASSUME NEW d \in Clients, handler[d].at # "none", handler[d].line = m
          PROVE  m \in missed' \/ (handler'[d].at # "none" /\ handler'[d].line = m)
      BY <3>2
    <3> QED
      BY <3>1, <3>2
  <2> QED
    BY <2>1, <2>2 DEF AuditedOnce
<1> QED
  BY <1>2, <1>3 DEF AuditIInv

\* A new request has a number that nothing has had before.
LEMMA RequestKeeps ==
    ASSUME AuditTypeOK, AuditIInv, NEW c \in Clients, Request(c)
    PROVE  AuditIInv'
<1>1. /\ handler \in [Clients -> Handlers] /\ requests \in Nat
      /\ handler[c] \in Handlers
  BY DEF AuditTypeOK
<1>2. written' = written /\ missed' = missed /\ requests' = requests + 1
  BY DEF Request, historyVars
<1>3. /\ handler'[c].at # "none" /\ handler'[c].line = requests + 1
      /\ handler[c].at = "none"
      /\ \A d \in Clients \ {c} : handler'[d] = handler[d]
  <2>1. handler' = [handler EXCEPT
                      ![c] = [handler[c] EXCEPT !.at = "handling", !.line = requests + 1]]
    BY <1>1 DEF Request
  <2>2. handler'[c] = [handler[c] EXCEPT !.at = "handling", !.line = requests + 1]
    BY <1>1, <2>1
  <2>3. handler'[c].at = "handling" /\ handler'[c].line = requests + 1
    BY <1>1, <2>2 DEF Handlers
  <2> QED
    BY <1>1, <2>1, <2>3 DEF Request
<1>4. \A d \in Clients : handler[d].line \in Nat
  BY DEF AuditTypeOK, Handlers
<1>5. \A i \in 1..Len(written) : written[i] \in Nat
  BY DEF AuditTypeOK
<1>6. LinesOwn'
  <2>1. \A d \in Clients : handler'[d].at # "none" => handler'[d].line <= requests'
    BY <1>1, <1>2, <1>3, <1>4 DEF AuditIInv, LinesOwn, Busy
  <2>2. ASSUME NEW d \in Clients, NEW e \in Clients,
               handler'[d].at # "none", handler'[e].at # "none",
               handler'[d].line = handler'[e].line
        PROVE  d = e
    BY <1>1, <1>3, <1>4, <2>2 DEF AuditIInv, LinesOwn, Busy
  <2>3. ASSUME NEW d \in Clients, handler'[d].at # "none", NEW i \in 1..Len(written')
        PROVE  written'[i] # handler'[d].line
    <3>1. CASE d = c
      BY <1>1, <1>2, <1>3, <1>5, <3>1 DEF AuditIInv, WrittenRequested
    <3>2. CASE d # c
      BY <1>2, <1>3, <2>3, <3>2 DEF AuditIInv, LinesOwn, Busy
    <3> QED
      BY <3>1, <3>2
  <2> QED
    BY <2>1, <2>2, <2>3 DEF LinesOwn, Busy
<1>7. WrittenRequested'
  BY <1>1, <1>2, <1>5 DEF AuditIInv, WrittenRequested
<1>8. AuditedOnce'
  <2>1. \A i, j \in 1..Len(written') : written'[i] = written'[j] => i = j
    BY <1>2 DEF AuditIInv, AuditedOnce
  <2>2. ASSUME NEW m \in 1..requests'
        PROVE  \/ m \in missed'
               \/ \E i \in 1..Len(written') : written'[i] = m
               \/ \E d \in Clients : handler'[d].at # "none" /\ handler'[d].line = m
    <3>1. CASE m = requests + 1
      BY <1>3, <3>1
    <3>2. CASE m \in 1..requests
      BY <1>2, <1>3, <3>2 DEF AuditIInv, AuditedOnce
    <3> QED
      BY <1>1, <1>2, <3>1, <3>2
  <2> QED
    BY <2>1, <2>2 DEF AuditedOnce
<1> QED
  BY <1>6, <1>7, <1>8 DEF AuditIInv

-------------------------------------------------------------------------------
\* The inductive invariant: the numbers on their way and the numbers written never
\* meet, whatever the rotation does and wherever a crash comes.
THEOREM AuditInductive == AuditSpec => []AuditIInv
<1> USE DEF fileVars, serverVars, historyVars
<1>1. AuditInit => AuditIInv
  <2> SUFFICES ASSUME AuditInit PROVE AuditIInv
    OBVIOUS
  <2>1. written = <<>> /\ requests = 0 /\ \A c \in Clients : handler[c].at = "none"
    BY DEF AuditInit, NoHandler
  <2>2. 1..Len(written) = {} /\ 1..requests = {}
    BY <2>1
  <2> QED
    BY <2>1, <2>2 DEF AuditIInv, LinesOwn, WrittenRequested, AuditedOnce, Busy
<1>2. (AuditTypeOK /\ Underway) /\ AuditIInv /\ [AuditNext]_auditVars => AuditIInv'
  <2> SUFFICES ASSUME AuditTypeOK, Underway, AuditIInv, [AuditNext]_auditVars
               PROVE  AuditIInv'
    OBVIOUS
  <2>1. ASSUME NEW c \in Clients, HandlerStep(c) PROVE AuditIInv'
    <3>1. requests' = requests
      BY <2>1 DEF HandlerStep, Answer, LockLog, OpenLog, AppendFails, CheckSize, RemoveLast,
                  RenameOne, CreateFirst, RotationFails, WriteToLog
    <3>2. GoesOn(c) \/ Returns(c)
      BY <2>1, HandlerMoves
    <3>3. CASE GoesOn(c)
      BY <3>1, <3>3, GoesOnKeeps
    <3>4. CASE Returns(c)
      <4>1. CASE written' = Append(written, handler[c].line) /\ missed' = missed
        BY <3>1, <3>4, <4>1, WritesKeep DEF Returns, Busy
      <4>2. CASE written' = written /\ missed' = missed \cup {handler[c].line}
        <5>1. handler'[c].at = "none" /\ \A d \in Clients \ {c} : handler'[d] = handler[d]
          BY <3>4 DEF Returns, NoHandler, AuditTypeOK
        <5>2. \A d \in {c} : handler'[d].at = "none" /\ handler[d].line \in missed'
          BY <4>2, <5>1
        <5>3. {c} \in SUBSET Clients /\ missed \subseteq missed'
          BY <4>2
        <5> DEFINE Gone == {c}
        <5> HIDE DEF Gone
        <5>4. /\ Gone \in SUBSET Clients
              /\ \A d \in Gone : handler'[d].at = "none"
              /\ \A d \in Clients \ Gone : handler'[d] = handler[d]
              /\ \A d \in Gone : handler[d].at # "none" => handler[d].line \in missed'
          BY <5>1, <5>2, <5>3 DEF Gone
        <5> QED
          BY <3>1, <4>2, <5>3, <5>4, MissesKeep
      <4> QED
        BY <3>4, <4>1, <4>2 DEF Returns
    <3> QED
      BY <3>2, <3>3, <3>4
  <2>2. ASSUME NEW c \in Clients, Request(c) PROVE AuditIInv'
    BY <2>2, RequestKeeps
  <2>3. CASE AuditCrash
    <3>1. requests' = requests /\ written' = written /\ missed \subseteq missed'
      BY <2>3 DEF AuditCrash
    <3>2. \A d \in Clients : handler'[d].at = "none"
      BY <2>3 DEF AuditCrash, NoHandler
    <3>3. \A d \in Clients : handler[d].at # "none" => handler[d].line \in missed'
      BY <2>3 DEF AuditCrash
    <3> QED
      BY <3>1, <3>2, <3>3, MissesKeep
  <2>4. CASE InitFile \/ InitFileFails \/ UNCHANGED auditVars
    <3>1. UNCHANGED <<handler, requests, written, missed>>
      BY <2>4 DEF InitFile, InitFileFails, auditVars
    <3> QED
      BY <3>1 DEF AuditIInv, LinesOwn, WrittenRequested, AuditedOnce, Busy
  <2> QED
    BY <2>1, <2>2, <2>3, <2>4 DEF AuditNext
<1> QED
  BY <1>1, <1>2, AuditTypeCorrect, PTL DEF AuditSpec

\* However many handlers append, rotate, fail or are cut off by a crash, every request
\* is on its way, has exactly one line, or has met a failure.
THEOREM AuditSafe == AuditSpec => []AuditedOnce
<1>1. AuditIInv => AuditedOnce
  BY DEF AuditIInv
<1> QED
  BY <1>1, AuditInductive, PTL

-------------------------------------------------------------------------------
(***************************************************************************)
(* The files taken together.  UpTo is a recursive function: that it is     *)
(* well-defined, and what it is after a step, is shown by induction on the *)
(* number of a file, from the least-number principle for sets.             *)
(***************************************************************************)

\* A set of natural numbers has a least one.
LEMMA Least ==
    ASSUME NEW T \in SUBSET Nat, T # {}
    PROVE  \E n \in T : \A m \in T : n <= m
<1> DEFINE R == {p \in Nat \X Nat : p[1] < p[2]}
<1>1. IsWellFoundedOn(R, Nat)
  BY NatLessThanWellFounded DEF OpToRel
<1> HIDE DEF R
<1>2. PICK n \in T : \A m \in T : ~(<<m, n>> \in R)
  BY <1>1, WFMin
<1>3. \A m \in T : ~(m < n)
  BY <1>2 DEF R
<1> QED
  BY <1>2, <1>3

\* Induction from k to n, with the set of the numbers that have the property.
LEMMA UpFrom ==
    ASSUME NEW T, NEW k \in Nat, NEW n \in Nat,
           k \in T, \A i \in k..(n - 1) : i \in T => i + 1 \in T
    PROVE  \A i \in k..n : i \in T
<1> DEFINE U == {i \in k..n : i \notin T}
<1> SUFFICES ASSUME U # {} PROVE FALSE
  OBVIOUS
<1>1. U \in SUBSET Nat
  OBVIOUS
<1>2. PICK m \in U : \A i \in U : m <= i
  <2> HIDE DEF U
  <2> QED
    BY <1>1, Least
<1>3. m - 1 \in k..(n - 1) /\ m - 1 \notin U
  BY <1>2
<1> QED
  BY <1>2, <1>3

\* g joins the first n sequences of f, the last first.
Joins(g, f, n) == g[0] = <<>> /\ \A i \in 0..(n - 1) : g[i + 1] = f[i + 1] \o g[i]

\* There is a function like that.
LEMMA JoinExists ==
    ASSUME NEW n \in Nat, NEW f
    PROVE  \E g : g = [i \in 0..n |-> IF i = 0 THEN <<>> ELSE f[i] \o g[i - 1]]
<1> DEFINE Is(g, m) == g = [i \in 0..m |-> IF i = 0 THEN <<>> ELSE f[i] \o g[i - 1]]
           T == {m \in Nat : \E g : Is(g, m)}
<1>1. 0 \in T
  <2> DEFINE g == [i \in 0..0 |-> <<>>]
  <2>1. Is(g, 0)
    OBVIOUS
  <2> QED
    BY <2>1
<1>2. ASSUME NEW m \in 0..(n - 1), m \in T PROVE m + 1 \in T
  <2>1. PICK g : Is(g, m)
    BY <1>2
  <2> DEFINE h == [i \in 0..(m + 1) |-> IF i = m + 1 THEN f[m + 1] \o g[m] ELSE g[i]]
  <2>2. \A i \in 0..m : g[i] = IF i = 0 THEN <<>> ELSE f[i] \o g[i - 1]
    BY <2>1
  <2>3. ASSUME NEW i \in 0..(m + 1) PROVE h[i] = IF i = 0 THEN <<>> ELSE f[i] \o h[i - 1]
    <3>1. CASE i = m + 1
      <4>1. m \in 0..(m + 1) /\ m # m + 1 /\ i # 0 /\ i - 1 = m
        BY <3>1
      <4>2. h[i] = f[m + 1] \o g[m]
        BY <3>1
      <4>3. h[m] = g[m]
        BY <4>1
      <4> HIDE DEF h
      <4> QED
        BY <3>1, <4>1, <4>2, <4>3
    <3>2. CASE i # m + 1
      <4>1. i \in 0..m /\ h[i] = g[i]
        BY <3>2
      <4>2. i # 0 => h[i - 1] = g[i - 1]
        BY <4>1
      <4> QED
        BY <2>2, <4>1, <4>2
    <3> QED
      BY <3>1, <3>2
  <2>4. Is(h, m + 1)
    BY <2>3
  <2> HIDE DEF h, Is
  <2> QED
    BY <2>4
<1>3. n \in T
  <2> HIDE DEF T
  <2> QED
    BY <1>1, <1>2, UpFrom
<1> QED
  BY <1>3

\* What such a function is.
LEMMA JoinUnfolds ==
    ASSUME NEW n \in Nat, NEW f, NEW g,
           g = [i \in 0..n |-> IF i = 0 THEN <<>> ELSE f[i] \o g[i - 1]]
    PROVE  Joins(g, f, n)
<1>1. \A i \in 0..n : g[i] = IF i = 0 THEN <<>> ELSE f[i] \o g[i - 1]
  OBVIOUS
<1>2. g[0] = <<>>
  BY <1>1
<1>3. ASSUME NEW i \in 0..(n - 1) PROVE g[i + 1] = f[i + 1] \o g[i]
  <2>1. i + 1 \in 0..n /\ i + 1 # 0 /\ (i + 1) - 1 = i
    OBVIOUS
  <2>2. g[i + 1] = f[i + 1] \o g[(i + 1) - 1]
    BY <1>1, <2>1, Zenon
  <2> QED
    BY <2>1, <2>2
<1> QED
  BY <1>2, <1>3 DEF Joins

\* UpTo is a function like that, before and after a step.
LEMMA UpToJoins == Joins(UpTo, file, LogFilesCount) /\ Joins(UpTo', file', LogFilesCount)
<1>1. \A f : \E g : g = [i \in 0..LogFilesCount |->
                            IF i = 0 THEN <<>> ELSE f[i] \o g[i - 1]]
  BY AuditAssumption, JoinExists
<1>2. UpTo = [i \in 0..LogFilesCount |-> IF i = 0 THEN <<>> ELSE file[i] \o UpTo[i - 1]]
  BY <1>1, Zenon DEF UpTo
<1>3. UpTo' = [i \in 0..LogFilesCount |-> IF i = 0 THEN <<>> ELSE file'[i] \o UpTo'[i - 1]]
  BY <1>1, Zenon DEF UpTo
<1> HIDE DEF UpTo
<1>4. Joins(UpTo, file, LogFilesCount)
  BY <1>2, AuditAssumption, JoinUnfolds
<1>5. Joins(UpTo', file', LogFilesCount)
  BY <1>3, AuditAssumption, JoinUnfolds
<1> QED
  BY <1>4, <1>5

\* Sequences of numbers are joined to sequences of numbers.
LEMMA JoinType ==
    ASSUME NEW n \in Nat, NEW f, NEW g, Joins(g, f, n), \A i \in 1..n : f[i] \in Seq(Nat)
    PROVE  \A i \in 0..n : g[i] \in Seq(Nat)
<1> DEFINE T == {i \in 0..n : g[i] \in Seq(Nat)}
<1>1. 0 \in T
  <2>1. g[0] = <<>>
    BY DEF Joins
  <2>2. 0 \in 0..n /\ <<>> \in Seq(Nat)
    OBVIOUS
  <2> QED
    BY <2>1, <2>2, Zenon
<1>2. ASSUME NEW i \in 0..(n - 1), i \in T PROVE i + 1 \in T
  <2>1. g[i + 1] = f[i + 1] \o g[i]
    BY DEF Joins
  <2>2. f[i + 1] \in Seq(Nat) /\ g[i] \in Seq(Nat)
    BY <1>2
  <2>3. g[i + 1] \in Seq(Nat)
    BY <2>1, <2>2
  <2> QED
    BY <2>3
<1>3. \A i \in 0..n : i \in T
  <2> HIDE DEF T
  <2> QED
    BY <1>1, <1>2, UpFrom
<1> QED
  BY <1>3

\* What is the same up to file k, and in the files after it, is the same up to n.
LEMMA JoinSame ==
    ASSUME NEW n \in Nat, NEW k \in 0..n, NEW f, NEW g, NEW e, NEW h,
           Joins(g, f, n), Joins(h, e, n),
           h[k] = g[k], \A i \in (k + 1)..n : e[i] = f[i]
    PROVE  h[n] = g[n]
<1> DEFINE T == {i \in 0..n : h[i] = g[i]}
<1>1. g[0] = <<>> /\ \A i \in 0..(n - 1) : g[i + 1] = f[i + 1] \o g[i]
  BY DEF Joins
<1>2. h[0] = <<>> /\ \A i \in 0..(n - 1) : h[i + 1] = e[i + 1] \o h[i]
  BY DEF Joins
<1>3. k \in T
  OBVIOUS
<1>4. ASSUME NEW i \in k..(n - 1), i \in T PROVE i + 1 \in T
  <2>0. i \in 0..(n - 1) /\ i + 1 \in (k + 1)..n
    OBVIOUS
  <2>1. g[i + 1] = f[i + 1] \o g[i] /\ h[i + 1] = e[i + 1] \o h[i]
    BY <1>1, <1>2, <2>0, Zenon
  <2>2. h[i] = g[i] /\ e[i + 1] = f[i + 1]
    BY <1>4, <2>0
  <2>3. h[i + 1] = g[i + 1]
    BY <2>1, <2>2
  <2> QED
    BY <2>0, <2>3
<1>5. \A i \in k..n : i \in T
  <2> HIDE DEF T
  <2> QED
    BY <1>3, <1>4, UpFrom
<1> QED
  BY <1>5

\* A line that is added to file 1 is added to all files taken together.
LEMMA JoinAppend ==
    ASSUME NEW n \in Nat, n # 0, NEW f, NEW g, NEW e, NEW h, NEW line \in Nat,
           \A i \in 1..n : f[i] \in Seq(Nat),
           Joins(g, f, n), Joins(h, e, n),
           e[1] = Append(f[1], line), \A i \in 2..n : e[i] = f[i]
    PROVE  h[n] = Append(g[n], line)
<1> DEFINE T == {i \in 0..n : h[i] = Append(g[i], line)}
<1>1. g[0] = <<>> /\ \A i \in 0..(n - 1) : g[i + 1] = f[i + 1] \o g[i]
  BY DEF Joins
<1>2. h[0] = <<>> /\ \A i \in 0..(n - 1) : h[i + 1] = e[i + 1] \o h[i]
  BY DEF Joins
<1>3. \A i \in 0..n : g[i] \in Seq(Nat)
  BY JoinType
<1>4. 1 \in T
  <2>0. n \in Nat /\ 0 \in 0..(n - 1) /\ 0 + 1 = 1
    OBVIOUS
  <2>1. g[0] = <<>> /\ g[0 + 1] = f[0 + 1] \o g[0] /\ h[0] = <<>> /\ h[0 + 1] = e[0 + 1] \o h[0]
    BY <1>1, <1>2, <2>0, Zenon
  <2>2. f[1] \in Seq(Nat)
    OBVIOUS
  <2>3. \A s \in Seq(Nat) : s \o <<>> = s
    OBVIOUS
  <2>4. g[1] = f[1] /\ h[1] = Append(f[1], line)
    BY <2>0, <2>1, <2>2, <2>3
  <2> QED
    BY <2>4
<1>5. ASSUME NEW i \in 1..(n - 1), i \in T PROVE i + 1 \in T
  <2>0. n \in Nat /\ i \in 0..(n - 1) /\ i + 1 \in 2..n
    OBVIOUS
  <2>1. g[i + 1] = f[i + 1] \o g[i] /\ h[i + 1] = e[i + 1] \o h[i]
    BY <1>1, <1>2, <2>0, Zenon
  <2>2. h[i] = Append(g[i], line) /\ e[i + 1] = f[i + 1]
    BY <1>5, <2>0
  <2>3. f[i + 1] \in Seq(Nat) /\ g[i] \in Seq(Nat)
    BY <1>3, <2>0
  <2>4. \A s, t \in Seq(Nat) : s \o Append(t, line) = Append(s \o t, line)
    OBVIOUS
  <2>5. h[i + 1] = Append(g[i + 1], line)
    BY <2>1, <2>2, <2>3, <2>4
  <2> QED
    BY <2>0, <2>5
<1>6. \A i \in 1..n : i \in T
  <2> HIDE DEF T
  <2> QED
    BY <1>4, <1>5, UpFrom
<1> QED
  BY <1>6

-------------------------------------------------------------------------------
(***************************************************************************)
(* The rotation.                                                           *)
(***************************************************************************)

\* The lock is held exactly while its holder is in Append.
Exclusive == \A c \in Clients : holder = c <=> handler[c].at \in Appending

\* A file that does not exist has no lines, and file 1 exists when it is written to.
AbsentEmpty ==
    /\ \A i \in Instances : i \notin exists => file[i] = <<>>
    /\ \A c \in Clients : handler[c].at \in {"size", "write"} => 1 \in exists

\* What a rename or the creation of file 1 replaces has no lines any more.
RoomMade ==
    \A c \in Clients :
        /\ handler[c].at = "rename" => file[handler[c].renameAt] = <<>>
        /\ handler[c].at = "create" => file[1] = <<>>

RotationInv == Exclusive /\ AbsentEmpty /\ RoomMade

\* Where a handler goes, and that the others stay where they are.
LEMMA GotoAt ==
    ASSUME AuditTypeOK, NEW c \in Clients, NEW place, Goto(c, place)
    PROVE  handler'[c].at = place /\ \A d \in Clients \ {c} : handler'[d] = handler[d]
<1>1. handler \in [Clients -> Handlers] /\ handler[c] \in Handlers
  BY DEF AuditTypeOK
<1>2. handler' = [handler EXCEPT ![c] = [handler[c] EXCEPT !.at = place]]
  BY <1>1 DEF Goto
<1>3. handler'[c] = [handler[c] EXCEPT !.at = place]
  BY <1>1, <1>2
<1> QED
  BY <1>1, <1>2, <1>3 DEF Handlers

\* A rename that is not the last one is followed by the next, one file below.
LEMMA NextRename ==
    ASSUME AuditTypeOK, NEW c \in Clients, NEW i,
           handler' = [handler EXCEPT ![c].at = "rename", ![c].renameAt = i]
             \/ (handler[c].at = "rename" /\ handler' = [handler EXCEPT ![c].renameAt = i])
    PROVE  /\ handler'[c].at = "rename" /\ handler'[c].renameAt = i
           /\ \A d \in Clients \ {c} : handler'[d] = handler[d]
<1>1. handler \in [Clients -> Handlers] /\ handler[c] \in Handlers
  BY DEF AuditTypeOK
<1>2. CASE handler' = [handler EXCEPT ![c].at = "rename", ![c].renameAt = i]
  <2>1. handler' = [handler EXCEPT ![c] = [handler[c] EXCEPT !.at = "rename", !.renameAt = i]]
    BY <1>1, <1>2
  <2>2. handler'[c] = [handler[c] EXCEPT !.at = "rename", !.renameAt = i]
    BY <1>1, <2>1
  <2> QED
    BY <1>1, <2>1, <2>2 DEF Handlers
<1>3. CASE handler[c].at = "rename" /\ handler' = [handler EXCEPT ![c].renameAt = i]
  <2>1. handler' = [handler EXCEPT ![c] = [handler[c] EXCEPT !.renameAt = i]]
    BY <1>1, <1>3
  <2>2. handler'[c] = [handler[c] EXCEPT !.renameAt = i]
    BY <1>1, <2>1
  <2> QED
    BY <1>1, <1>3, <2>1, <2>2 DEF Handlers
<1> QED
  BY <1>2, <1>3

\* The same for the step that does it.
LEMMA RenameGoesOn ==
    ASSUME AuditTypeOK, NEW c \in Clients, RenameOne(c), handler[c].renameAt # 2
    PROVE  handler'[c].at = "rename" /\ handler'[c].renameAt = handler[c].renameAt - 1
<1>1. handler[c].at = "rename" /\ handler' = [handler EXCEPT ![c].renameAt = @ - 1]
  BY DEF RenameOne
<1>2. handler' = [handler EXCEPT ![c].renameAt = handler[c].renameAt - 1]
  BY <1>1 DEF AuditTypeOK
<1> QED
  BY <1>1, <1>2, NextRename

\* The files a rotation is at.
LEMMA RotationAt ==
    ASSUME AuditTypeOK, Underway, NEW c \in Clients, handler[c].at = "rename"
    PROVE  /\ handler[c].renameAt \in Instances /\ handler[c].renameAt - 1 \in Instances
           /\ handler[c].renameAt # 2 => handler[c].renameAt - 1 \in 2..LogFilesCount
<1>1. handler[c].renameAt \in 2..(LogFilesCount + 1) /\ handler[c].renameAt <= LogFilesCount
  BY DEF AuditTypeOK, Underway, Handlers
<1> QED
  BY <1>1, AuditAssumption DEF Instances

\* The files after a rename.
LEMMA RenamedFiles ==
    ASSUME NEW f \in [Instances -> Seq(Nat)], NEW i \in Instances, NEW j \in Instances, i # j
    PROVE  LET e == [f EXCEPT ![i] = f[j], ![j] = <<>>]
           IN  e[i] = f[j] /\ e[j] = <<>> /\ \A k \in Instances \ {i, j} : e[k] = f[k]
OBVIOUS

\* A step of a handler leaves the others where they are.
LEMMA OthersStay ==
    ASSUME AuditTypeOK, Underway, NEW c \in Clients, HandlerStep(c)
    PROVE  \A d \in Clients \ {c} : handler'[d] = handler[d]
<1>1. GoesOn(c) \/ Returns(c)
  BY HandlerMoves
<1> QED
  BY <1>1 DEF GoesOn, Returns, AuditTypeOK

\* A handler takes the lock when nobody is in Append, and gives it back when it leaves.
LEMMA ExclusiveStep ==
    ASSUME AuditTypeOK, Underway, Exclusive, NEW c \in Clients, HandlerStep(c)
    PROVE  /\ Exclusive'
           /\ UNCHANGED fileVars \/ \A d \in Clients \ {c} : handler'[d].at \notin Appending
<1> USE AuditAssumption DEF fileVars, serverVars, historyVars
<1>1. \A d \in Clients \ {c} : handler'[d] = handler[d]
  BY OthersStay
<1>2. CASE Answer(c)
  <2>1. handler'[c].at = "answered"
    BY <1>2, GotoAt DEF Answer, Goto
  <2> QED
    BY <1>1, <1>2, <2>1 DEF Answer, Exclusive, Appending, Rotating
<1>3. CASE LockLog(c)
  <2>1. handler'[c].at = "open"
    BY <1>3, GotoAt DEF LockLog
  <2> QED
    BY <1>1, <1>3, <2>1 DEF LockLog, Exclusive, Appending
<1>4. ASSUME handler[c].at \in Appending, handler'[c].at \in Appending, holder' = holder
      PROVE  Exclusive' /\ \A d \in Clients \ {c} : handler'[d].at \notin Appending
  BY <1>1, <1>4 DEF Exclusive
<1>5. CASE OpenLog(c)
  <2>1. handler'[c].at \in {"size", "write"}
    BY <1>5, GotoAt DEF OpenLog
  <2> QED
    BY <1>4, <1>5, <2>1 DEF OpenLog, Appending
<1>6. CASE CheckSize(c)
  <2>1. handler'[c].at \in {"remove", "write"}
    BY <1>6, GotoAt DEF CheckSize
  <2> QED
    BY <1>4, <1>6, <2>1 DEF CheckSize, Appending, Rotating
<1>7. CASE RemoveLast(c)
  <2>1. handler'[c].at \in {"rename", "create"}
    BY <1>7, GotoAt, NextRename DEF RemoveLast, Goto
  <2> QED
    BY <1>4, <1>7, <2>1 DEF RemoveLast, Appending, Rotating
<1>8. CASE RenameOne(c)
  <2>1. handler'[c].at \in {"rename", "create"}
    <3>1. CASE handler[c].renameAt = 2
      BY <1>8, <3>1, GotoAt DEF RenameOne
    <3>2. CASE handler[c].renameAt # 2
      BY <1>8, <3>2, RenameGoesOn
    <3> QED
      BY <3>1, <3>2
  <2> QED
    BY <1>4, <1>8, <2>1 DEF RenameOne, Appending, Rotating
<1>9. CASE CreateFirst(c) \/ RotationFails(c)
  <2>1. handler'[c].at = "reopen"
    BY <1>9, GotoAt DEF CreateFirst, RotationFails
  <2> QED
    BY <1>4, <1>9, <2>1 DEF CreateFirst, RotationFails, Appending, Rotating
<1>10. CASE AppendFails(c) \/ WriteToLog(c)
  <2>1. handler[c].at \in Appending /\ handler'[c].at = "none" /\ holder' = Nobody
    BY <1>10 DEF AppendFails, WriteToLog, Leave, Appending, NoHandler, AuditTypeOK
  <2>2. \A d \in Clients \ {c} : handler[d].at \notin Appending
    BY <2>1 DEF Exclusive
  <2> QED
    BY <1>1, <2>1, <2>2 DEF Exclusive, Appending, Rotating
<1> QED
  BY <1>2, <1>3, <1>5, <1>6, <1>7, <1>8, <1>9, <1>10 DEF HandlerStep

\* A file that goes has no lines left, and file 1 is opened before it is written to.
LEMMA AbsentStep ==
    ASSUME AuditTypeOK, Underway, RotationInv, NEW c \in Clients, HandlerStep(c)
    PROVE  AbsentEmpty'
<1> USE AuditAssumption DEF fileVars, serverVars, historyVars
<1>1. /\ handler \in [Clients -> Handlers] /\ file \in [Instances -> Seq(Nat)]
      /\ 1 \in Instances /\ LogFilesCount \in Instances
      /\ \A i \in Instances : i \notin exists => file[i] = <<>>
  BY DEF AuditTypeOK, RotationInv, AbsentEmpty, Instances
<1>2. UNCHANGED fileVars \/ \A d \in Clients \ {c} : handler'[d].at \notin Appending
  BY ExclusiveStep DEF RotationInv
<1>3. \A d \in Clients \ {c} : handler'[d] = handler[d]
  BY OthersStay
<1>4. ASSUME handler'[c].at \in {"size", "write"} => 1 \in exists'
      PROVE  \A d \in Clients : handler'[d].at \in {"size", "write"} => 1 \in exists'
  BY <1>2, <1>3, <1>4 DEF RotationInv, AbsentEmpty, Appending
<1>5. CASE Answer(c) \/ LockLog(c) \/ RotationFails(c)
  <2>1. handler'[c].at \in {"answered", "open", "reopen"} /\ UNCHANGED fileVars
    BY <1>5, GotoAt DEF Answer, LockLog, RotationFails, Goto
  <2> QED
    BY <1>1, <1>4, <2>1 DEF AbsentEmpty
<1>6. CASE OpenLog(c)
  BY <1>1, <1>4, <1>6 DEF OpenLog, AbsentEmpty
<1>7. CASE CheckSize(c)
  BY <1>1, <1>4, <1>7 DEF CheckSize, RotationInv, AbsentEmpty
<1>8. CASE RemoveLast(c)
  <2>1. handler'[c].at \in {"rename", "create"}
    BY <1>8, GotoAt, NextRename DEF RemoveLast, Goto
  <2>2. \A i \in Instances : i \notin exists' => file'[i] = <<>>
    BY <1>1, <1>8 DEF RemoveLast
  <2> QED
    BY <1>4, <2>1, <2>2 DEF AbsentEmpty
<1>9. CASE RenameOne(c)
  <2> DEFINE i == handler[c].renameAt
  <2>1. handler'[c].at \in {"rename", "create"}
    <3>1. CASE i = 2
      BY <1>9, <3>1, GotoAt DEF RenameOne
    <3>2. CASE i # 2
      BY <1>9, <3>2, RenameGoesOn
    <3> QED
      BY <3>1, <3>2
  <2>2. i \in Instances /\ i - 1 \in Instances /\ i # i - 1
    BY <1>9, RotationAt DEF RenameOne, Instances
  <2>3. CASE i - 1 \in exists
    <3>1. /\ file' = [file EXCEPT ![i] = file[i - 1], ![i - 1] = <<>>]
          /\ exists' = (exists \cup {i}) \ {i - 1}
      BY <1>9, <2>3 DEF RenameOne
    <3>2. file'[i - 1] = <<>> /\ \A k \in Instances \ {i, i - 1} : file'[k] = file[k]
      BY <1>1, <2>2, <3>1, RenamedFiles
    <3>3. \A k \in Instances : k \notin exists' => file'[k] = <<>>
      BY <1>1, <2>2, <3>1, <3>2
    <3> QED
      BY <1>4, <2>1, <3>3 DEF AbsentEmpty
  <2>4. CASE i - 1 \notin exists
    BY <1>1, <1>4, <1>9, <2>1, <2>4 DEF RenameOne, AbsentEmpty
  <2> QED
    BY <2>3, <2>4
<1>10. CASE CreateFirst(c)
  <2>1. \A i \in Instances : i \notin exists' => file'[i] = <<>>
    BY <1>1, <1>10 DEF CreateFirst
  <2> QED
    BY <1>4, <1>10, <2>1 DEF CreateFirst, AbsentEmpty
<1>11. CASE AppendFails(c)
  <2>1. handler'[c].at = "none" /\ UNCHANGED fileVars
    BY <1>1, <1>11 DEF AppendFails, Leave, NoHandler
  <2> QED
    BY <1>1, <1>4, <2>1 DEF AbsentEmpty
<1>12. CASE WriteToLog(c)
  <2>1. handler'[c].at = "none" /\ exists' = exists /\ 1 \in exists
    BY <1>1, <1>12 DEF WriteToLog, Leave, NoHandler, RotationInv, AbsentEmpty
  <2>2. \A i \in Instances \ {1} : file'[i] = file[i]
    BY <1>1, <1>12 DEF WriteToLog
  <2> QED
    BY <1>1, <1>4, <2>1, <2>2 DEF AbsentEmpty
<1> QED
  BY <1>5, <1>6, <1>7, <1>8, <1>9, <1>10, <1>11, <1>12 DEF HandlerStep

\* The file that the next rename replaces has been removed or renamed before.
LEMMA RoomStep ==
    ASSUME AuditTypeOK, Underway, RotationInv, NEW c \in Clients, HandlerStep(c)
    PROVE  RoomMade'
<1> USE AuditAssumption DEF fileVars, serverVars, historyVars
<1>1. /\ handler \in [Clients -> Handlers] /\ file \in [Instances -> Seq(Nat)]
      /\ 1 \in Instances /\ LogFilesCount \in Instances
      /\ \A i \in Instances : i \notin exists => file[i] = <<>>
  BY DEF AuditTypeOK, RotationInv, AbsentEmpty, Instances
<1>2. UNCHANGED fileVars \/ \A d \in Clients \ {c} : handler'[d].at \notin Appending
  BY ExclusiveStep DEF RotationInv
<1>3. \A d \in Clients \ {c} : handler'[d] = handler[d]
  BY OthersStay
<1>4. ASSUME /\ handler'[c].at = "rename" => file'[handler'[c].renameAt] = <<>>
             /\ handler'[c].at = "create" => file'[1] = <<>>
      PROVE  RoomMade'
  BY <1>2, <1>3, <1>4 DEF RotationInv, RoomMade, Appending, Rotating
<1>5. CASE handler'[c].at \notin {"rename", "create"}
  BY <1>4, <1>5
<1>6. CASE RemoveLast(c)
  <2>1. file'[LogFilesCount] = <<>>
    BY <1>1, <1>6 DEF RemoveLast
  <2>2. CASE LogFilesCount >= 2
    <3>1. handler'[c].at = "rename" /\ handler'[c].renameAt = LogFilesCount
      BY <1>6, <2>2, NextRename DEF RemoveLast
    <3> QED
      BY <1>4, <2>1, <3>1
  <2>3. CASE ~(LogFilesCount >= 2)
    <3>1. Goto(c, "create")
      BY <1>6, <2>3 DEF RemoveLast, Goto
    <3>2. handler'[c].at = "create"
      BY <3>1, GotoAt
    <3>3. LogFilesCount = 1
      BY <2>3
    <3> QED
      BY <1>4, <2>1, <3>2, <3>3
  <2> QED
    BY <2>2, <2>3
<1>7. CASE RenameOne(c)
  <2> DEFINE i == handler[c].renameAt
  <2>1. i \in Instances /\ i - 1 \in Instances /\ i # i - 1
    BY <1>7, RotationAt DEF RenameOne, Instances
  <2>2. file'[i - 1] = <<>>
    <3>1. CASE i - 1 \in exists
      <4>1. file' = [file EXCEPT ![i] = file[i - 1], ![i - 1] = <<>>]
        BY <1>7, <3>1 DEF RenameOne
      <4> QED
        BY <1>1, <2>1, <4>1, RenamedFiles
    <3>2. CASE i - 1 \notin exists
      BY <1>1, <1>7, <2>1, <3>2 DEF RenameOne
    <3> QED
      BY <3>1, <3>2
  <2>3. CASE i = 2
    <3>1. handler'[c].at = "create" /\ i - 1 = 1
      BY <1>7, <2>3, GotoAt DEF RenameOne
    <3> QED
      BY <1>4, <2>2, <3>1
  <2>4. CASE i # 2
    BY <1>4, <1>7, <2>2, <2>4, RenameGoesOn
  <2> QED
    BY <2>3, <2>4
<1>8. CASE Answer(c) \/ LockLog(c) \/ OpenLog(c) \/ CheckSize(c) \/ CreateFirst(c) \/ RotationFails(c)
  <2>1. PICK place \in {"answered", "open", "size", "write", "remove", "reopen"} : Goto(c, place)
    BY <1>8 DEF Answer, LockLog, OpenLog, CheckSize, CreateFirst, RotationFails, Goto
  <2>2. handler'[c].at = place
    BY <2>1, GotoAt
  <2> QED
    BY <1>5, <2>1, <2>2
<1>9. CASE AppendFails(c) \/ WriteToLog(c)
  <2>1. handler'[c].at = "none"
    BY <1>1, <1>9 DEF AppendFails, WriteToLog, Leave, NoHandler
  <2> QED
    BY <1>5, <2>1
<1> QED
  BY <1>6, <1>7, <1>8, <1>9 DEF HandlerStep

\* The invariant of the rotation: appending is exclusive, and nothing that is replaced has
\* lines, whatever fails and wherever a crash comes.
THEOREM RotationSafe == AuditSpec => []RotationInv
<1> USE DEF fileVars, serverVars, historyVars
<1>1. AuditInit => RotationInv
  <2> SUFFICES ASSUME AuditInit PROVE RotationInv
    OBVIOUS
  <2>1. holder = Nobody /\ \A c \in Clients : handler[c].at = "none"
    BY DEF AuditInit, NoHandler
  <2> QED
    BY <2>1, AuditAssumption DEF AuditInit, RotationInv, Exclusive, AbsentEmpty, RoomMade,
       Appending, Rotating
<1>2. (AuditTypeOK /\ Underway) /\ RotationInv /\ [AuditNext]_auditVars => RotationInv'
  <2> SUFFICES ASSUME AuditTypeOK, Underway, RotationInv, [AuditNext]_auditVars
               PROVE  RotationInv'
    OBVIOUS
  <2>1. ASSUME NEW c \in Clients, HandlerStep(c) PROVE RotationInv'
    BY <2>1, ExclusiveStep, AbsentStep, RoomStep DEF RotationInv
  <2>2. CASE AuditCrash
    <3>1. \A c \in Clients : handler'[c].at = "none"
      BY <2>2 DEF AuditCrash, NoHandler
    <3> QED
      BY <2>2, <3>1, AuditAssumption DEF AuditCrash, RotationInv, Exclusive, AbsentEmpty,
         RoomMade, Appending, Rotating
  <2>3. ASSUME NEW c \in Clients, Request(c) PROVE RotationInv'
    <3>1. handler'[c].at = "handling" /\ \A d \in Clients \ {c} : handler'[d] = handler[d]
      <4> DEFINE h == [handler[c] EXCEPT !.at = "handling", !.line = requests + 1]
      <4>1. handler \in [Clients -> Handlers] /\ handler[c] \in Handlers
        BY DEF AuditTypeOK
      <4>2. handler' = [handler EXCEPT ![c] = h]
        BY <2>3, <4>1 DEF Request
      <4>3. handler'[c] = h /\ h.at = "handling"
        BY <4>1, <4>2 DEF Handlers
      <4> QED
        BY <4>1, <4>2, <4>3
    <3>2. UNCHANGED <<fileVars, holder>> /\ handler[c].at = "none"
      BY <2>3 DEF Request
    <3> QED
      BY <3>1, <3>2 DEF RotationInv, Exclusive, AbsentEmpty, RoomMade, Appending, Rotating
  <2>4. CASE InitFile
    BY <2>4 DEF InitFile, RotationInv, Exclusive, AbsentEmpty, RoomMade
  <2>5. CASE InitFileFails \/ UNCHANGED auditVars
    BY <2>5 DEF InitFileFails, auditVars, RotationInv, Exclusive, AbsentEmpty, RoomMade
  <2> QED
    BY <2>1, <2>2, <2>3, <2>4, <2>5 DEF AuditNext
<1> QED
  BY <1>1, <1>2, AuditTypeCorrect, PTL DEF AuditSpec

-------------------------------------------------------------------------------
(***************************************************************************)
(* The files taken together are a bounded log.                             *)
(***************************************************************************)

\* A function that joins n sequences joins the first m of them.
LEMMA JoinPrefix ==
    ASSUME NEW n \in Nat, NEW m \in 0..n, NEW f, NEW g, Joins(g, f, n)
    PROVE  Joins(g, f, m)
<1>1. \A i \in 0..(m - 1) : i \in 0..(n - 1)
  OBVIOUS
<1> QED
  BY <1>1 DEF Joins

\* What follows a sequence that is joined to another.
LEMMA Rest ==
    ASSUME NEW s \in Seq(Nat), NEW t \in Seq(Nat)
    PROVE  SubSeq(s \o t, Len(s) + 1, Len(s \o t)) = t
OBVIOUS

\* The functions of both states, with what is known of them.
LEMMA UpToTypes ==
    ASSUME AuditTypeOK, AuditTypeOK'
    PROVE  /\ Joins(UpTo, file, LogFilesCount) /\ Joins(UpTo', file', LogFilesCount)
           /\ \A i \in 1..LogFilesCount : file[i] \in Seq(Nat) /\ file'[i] \in Seq(Nat)
           /\ \A i \in 0..LogFilesCount : UpTo[i] \in Seq(Nat) /\ UpTo'[i] \in Seq(Nat)
<1>1. Joins(UpTo, file, LogFilesCount) /\ Joins(UpTo', file', LogFilesCount)
  BY UpToJoins
<1>2. \A i \in 1..LogFilesCount : file[i] \in Seq(Nat)
  BY DEF AuditTypeOK, Instances
<1>3. \A i \in 1..LogFilesCount : file'[i] \in Seq(Nat)
  BY DEF AuditTypeOK, Instances
<1>4. \A i \in 0..LogFilesCount : UpTo[i] \in Seq(Nat)
  BY <1>1, <1>2, AuditAssumption, JoinType
<1>5. \A i \in 0..LogFilesCount : UpTo'[i] \in Seq(Nat)
  BY <1>1, <1>3, AuditAssumption, JoinType
<1> QED
  BY <1>1, <1>2, <1>3, <1>4, <1>5

\* Nothing moves while the files stay.
LEMMA FilesStay ==
    ASSUME AuditTypeOK, AuditTypeOK', \A i \in Instances : file'[i] = file[i]
    PROVE  Retained' = Retained
<1>1. Joins(UpTo, file, LogFilesCount) /\ Joins(UpTo', file', LogFilesCount)
  BY UpToJoins
<1>2. LogFilesCount \in Nat /\ 0 \in 0..LogFilesCount
  BY AuditAssumption
<1>3. UpTo'[0] = UpTo[0]
  BY <1>1 DEF Joins
<1>4. \A i \in (0 + 1)..LogFilesCount : file'[i] = file[i]
  BY DEF Instances
<1>5. UpTo'[LogFilesCount] = UpTo[LogFilesCount]
  BY <1>1, <1>2, <1>3, <1>4, JoinSame
<1> QED
  BY <1>5 DEF Retained

\* The removal of the last file takes the oldest lines away.
LEMMA LastGoes ==
    ASSUME AuditTypeOK, AuditTypeOK', file'[LogFilesCount] = <<>>,
           \A i \in Instances \ {LogFilesCount} : file'[i] = file[i]
    PROVE  Retained = file[LogFilesCount] \o Retained' /\ Retained' \in Seq(Nat)
<1> DEFINE n == LogFilesCount - 1
<1>1. n \in Nat /\ n \in 0..LogFilesCount /\ 0 \in 0..n /\ LogFilesCount \in Nat
        /\ n \in 0..(LogFilesCount - 1) /\ n + 1 = LogFilesCount
  BY AuditAssumption
<1>2. /\ Joins(UpTo, file, LogFilesCount) /\ Joins(UpTo', file', LogFilesCount)
      /\ UpTo[n] \in Seq(Nat) /\ UpTo'[n] \in Seq(Nat) /\ Retained' \in Seq(Nat)
  BY <1>1, UpToTypes DEF Retained
<1> HIDE DEF n
<1>3. Joins(UpTo, file, n) /\ Joins(UpTo', file', n)
  BY <1>1, <1>2, JoinPrefix
<1>4. UpTo'[0] = UpTo[0] /\ \A i \in (0 + 1)..n : file'[i] = file[i]
  BY <1>1, <1>3 DEF Joins, Instances
<1>5. UpTo'[n] = UpTo[n]
  BY <1>1, <1>3, <1>4, JoinSame
<1>6. UpTo[n + 1] = file[n + 1] \o UpTo[n] /\ UpTo'[n + 1] = file'[n + 1] \o UpTo'[n]
  BY <1>1, <1>2 DEF Joins
<1>7. \A t \in Seq(Nat) : <<>> \o t = t
  OBVIOUS
<1>8. UpTo'[LogFilesCount] = UpTo[n]
  BY <1>1, <1>2, <1>5, <1>6, <1>7
<1> QED
  BY <1>1, <1>2, <1>6, <1>8 DEF Retained

\* A rename to a file without lines moves no line past another.
LEMMA RenameKeeps ==
    ASSUME AuditTypeOK, AuditTypeOK', NEW i \in 2..LogFilesCount, file[i] = <<>>,
           file'[i] = file[i - 1], file'[i - 1] = <<>>,
           \A k \in Instances \ {i, i - 1} : file'[k] = file[k]
    PROVE  Retained' = Retained
<1> DEFINE n == i - 2
<1>1. /\ LogFilesCount \in Nat /\ n \in Nat /\ n \in 0..LogFilesCount /\ 0 \in 0..n
      /\ n \in 0..(LogFilesCount - 1) /\ n + 1 \in 0..(LogFilesCount - 1)
      /\ n + 1 = i - 1 /\ (n + 1) + 1 = i /\ i \in 0..LogFilesCount
  BY AuditAssumption
<1>2. /\ Joins(UpTo, file, LogFilesCount) /\ Joins(UpTo', file', LogFilesCount)
      /\ UpTo[n] \in Seq(Nat) /\ UpTo'[n] \in Seq(Nat) /\ UpTo[n + 1] \in Seq(Nat)
  BY <1>1, UpToTypes
<1> HIDE DEF n
<1>3. Joins(UpTo, file, n) /\ Joins(UpTo', file', n)
  BY <1>1, <1>2, JoinPrefix
<1>4. UpTo'[0] = UpTo[0] /\ \A k \in (0 + 1)..n : file'[k] = file[k]
  BY <1>1, <1>3 DEF Joins, Instances
<1>5. UpTo'[n] = UpTo[n]
  BY <1>1, <1>3, <1>4, JoinSame
<1>6. /\ UpTo[n + 1] = file[n + 1] \o UpTo[n]
      /\ UpTo[(n + 1) + 1] = file[(n + 1) + 1] \o UpTo[n + 1]
      /\ UpTo'[n + 1] = file'[n + 1] \o UpTo'[n]
      /\ UpTo'[(n + 1) + 1] = file'[(n + 1) + 1] \o UpTo'[n + 1]
  BY <1>1, <1>2 DEF Joins
<1>7. \A t \in Seq(Nat) : <<>> \o t = t
  OBVIOUS
<1>8. UpTo'[i] = UpTo[i]
  <2>1. UpTo'[n + 1] = UpTo[n]
    BY <1>1, <1>2, <1>5, <1>6, <1>7
  <2>2. UpTo[i] = UpTo[n + 1]
    BY <1>1, <1>2, <1>6, <1>7
  <2>3. UpTo'[i] = file[i - 1] \o UpTo[n]
    BY <1>1, <1>6, <2>1
  <2> QED
    BY <1>1, <1>6, <2>2, <2>3
<1>9. \A k \in (i + 1)..LogFilesCount : file'[k] = file[k]
  BY DEF Instances
<1>10. UpTo'[LogFilesCount] = UpTo[LogFilesCount]
  BY <1>1, <1>2, <1>8, <1>9, JoinSame
<1> QED
  BY <1>10 DEF Retained

\* A rename moves a file up, whether or not it exists, to where there are no lines.
LEMMA RenameMoves ==
    ASSUME AuditTypeOK, Underway, RotationInv, NEW c \in Clients, RenameOne(c)
    PROVE  LET i == handler[c].renameAt
           IN  /\ i \in 2..LogFilesCount /\ file[i] = <<>>
               /\ file'[i] = file[i - 1] /\ file'[i - 1] = <<>>
               /\ \A k \in Instances \ {i, i - 1} : file'[k] = file[k]
<1> DEFINE i == handler[c].renameAt
<1>1. i \in Instances /\ i - 1 \in Instances /\ i # i - 1 /\ i \in 2..LogFilesCount
  BY RotationAt, AuditAssumption DEF RenameOne, Instances
<1>2. file[i] = <<>> /\ file \in [Instances -> Seq(Nat)]
  BY DEF RenameOne, RotationInv, RoomMade, AuditTypeOK
<1>3. CASE i - 1 \in exists
  <2>1. file' = [file EXCEPT ![i] = file[i - 1], ![i - 1] = <<>>]
    BY <1>3 DEF RenameOne
  <2> QED
    BY <1>1, <1>2, <2>1, RenamedFiles
<1>4. CASE i - 1 \notin exists
  <2>1. file' = file /\ file[i - 1] = <<>>
    BY <1>1, <1>4 DEF RenameOne, fileVars, RotationInv, AbsentEmpty
  <2> QED
    BY <1>1, <1>2, <2>1
<1> QED
  BY <1>3, <1>4

\* What a step of a handler does to the files taken together: it takes oldest lines away,
\* adds the line that is written, or leaves them as they are.
LEMMA HandlerFiles ==
    ASSUME AuditTypeOK, AuditTypeOK', Underway, RotationInv, NEW c \in Clients, HandlerStep(c)
    PROVE  \/ UNCHANGED <<Retained, written>>
           \/ /\ RemoveLast(c) /\ UNCHANGED written
              /\ Retained = file[LogFilesCount] \o Retained' /\ Retained' \in Seq(Nat)
           \/ /\ WriteToLog(c) /\ handler[c].line \in 1..MaxLines
              /\ Retained' = Append(Retained, handler[c].line)
              /\ written' = Append(written, handler[c].line)
<1> USE AuditAssumption DEF fileVars, serverVars, historyVars
<1>1. /\ file \in [Instances -> Seq(Nat)] /\ 1 \in Instances /\ LogFilesCount \in Instances
  BY DEF AuditTypeOK, Instances
<1>2. CASE Answer(c) \/ LockLog(c) \/ OpenLog(c) \/ AppendFails(c) \/ CheckSize(c) \/ RotationFails(c)
  <2>1. UNCHANGED <<file, written>>
    BY <1>2 DEF Answer, LockLog, OpenLog, AppendFails, CheckSize, RotationFails
  <2> QED
    BY <2>1, FilesStay
<1>3. CASE RemoveLast(c)
  <2>1. /\ file'[LogFilesCount] = <<>> /\ written' = written
        /\ \A i \in Instances \ {LogFilesCount} : file'[i] = file[i]
    BY <1>1, <1>3 DEF RemoveLast
  <2> QED
    BY <1>3, <2>1, LastGoes
<1>4. CASE RenameOne(c)
  <2> DEFINE i == handler[c].renameAt
  <2>1. /\ i \in 2..LogFilesCount /\ file[i] = <<>>
        /\ file'[i] = file[i - 1] /\ file'[i - 1] = <<>>
        /\ \A k \in Instances \ {i, i - 1} : file'[k] = file[k]
    BY <1>4, RenameMoves
  <2>2. written' = written
    BY <1>4 DEF RenameOne
  <2> HIDE DEF i
  <2> QED
    BY <2>1, <2>2, RenameKeeps
<1>5. CASE CreateFirst(c)
  <2>1. file[1] = <<>> /\ written' = written
    BY <1>5 DEF CreateFirst, RotationInv, RoomMade
  <2>2. \A i \in Instances : file'[i] = file[i]
    BY <1>1, <1>5, <2>1 DEF CreateFirst
  <2> QED
    BY <2>1, <2>2, FilesStay
<1>6. CASE WriteToLog(c)
  <2> DEFINE line == handler[c].line
  <2>1. line \in 1..MaxLines /\ line \in Nat
    BY <1>6 DEF WriteToLog, AuditTypeOK, Underway, Busy, Handlers
  <2>2. /\ file'[1] = Append(file[1], line)
        /\ \A i \in 2..LogFilesCount : file'[i] = file[i]
        /\ written' = Append(written, line)
    BY <1>1, <1>6 DEF WriteToLog, Instances
  <2>3. /\ Joins(UpTo, file, LogFilesCount) /\ Joins(UpTo', file', LogFilesCount)
        /\ \A i \in 1..LogFilesCount : file[i] \in Seq(Nat)
    BY UpToTypes
  <2>4. Retained' = Append(Retained, line)
    <3> HIDE DEF line
    <3>1. LogFilesCount \in Nat /\ LogFilesCount # 0
      OBVIOUS
    <3>2. UpTo'[LogFilesCount] = Append(UpTo[LogFilesCount], line)
      BY <2>1, <2>2, <2>3, <3>1, JoinAppend
    <3> QED
      BY <3>2 DEF Retained
  <2> QED
    BY <1>6, <2>1, <2>2, <2>4
<1> QED
  BY <1>2, <1>3, <1>4, <1>5, <1>6 DEF HandlerStep

\* The steps of everybody else leave the files as they are.
LEMMA OthersFiles ==
    ASSUME AuditTypeOK, AuditTypeOK',
           \/ InitFile \/ InitFileFails \/ AuditCrash \/ UNCHANGED auditVars
           \/ \E c \in Clients : Request(c)
    PROVE  UNCHANGED <<Retained, written>>
<1>1. UNCHANGED <<file, written>>
  BY DEF InitFile, InitFileFails, AuditCrash, Request, auditVars, fileVars, historyVars
<1> QED
  BY <1>1, FilesStay

\* For any number of files: whatever fails, and wherever a crash comes, the files taken
\* together only lose their oldest lines, and a rotation moves no line past another.
THEOREM BoundedLogImplemented == AuditSpec => ImplementsBoundedLog
<1>1. AuditInit => Bounded!Init
  <2> SUFFICES ASSUME AuditInit PROVE Bounded!Init
    OBVIOUS
  <2>1. Joins(UpTo, file, LogFilesCount)
    BY UpToJoins
  <2> DEFINE none == [i \in 0..LogFilesCount |-> <<>>]
  <2>2. none[0] = UpTo[0] /\ Joins(none, file, LogFilesCount)
    <3>1. UpTo[0] = <<>> /\ LogFilesCount \in Nat
      BY <2>1, AuditAssumption DEF Joins
    <3>2. \A i \in 0..(LogFilesCount - 1) : file[i + 1] = <<>>
      BY <3>1 DEF AuditInit, Instances
    <3>3. <<>> \o <<>> = <<>>
      OBVIOUS
    <3>4. none[0] = <<>> /\ \A i \in 0..(LogFilesCount - 1) : none[i + 1] = <<>> /\ none[i] = <<>>
      BY <3>1
    <3> HIDE DEF none
    <3> QED
      BY <3>1, <3>2, <3>3, <3>4, Zenon DEF Joins
  <2>3. LogFilesCount \in Nat /\ 0 \in 0..LogFilesCount
    BY AuditAssumption
  <2>4. UpTo[LogFilesCount] = none[LogFilesCount]
    <3> HIDE DEF none
    <3> QED
      BY <2>1, <2>2, <2>3, JoinSame
  <2> QED
    BY <2>3, <2>4 DEF Bounded!Init, Retained, AuditInit
<1>2. ASSUME AuditTypeOK, AuditTypeOK', Underway, RotationInv, [AuditNext]_auditVars
      PROVE  [Bounded!Next]_<<Retained, written>>
  <2>1. ASSUME NEW c \in Clients, HandlerStep(c)
        PROVE  [Bounded!Next]_<<Retained, written>>
    <3>1. CASE RemoveLast(c) /\ UNCHANGED written
                 /\ Retained = file[LogFilesCount] \o Retained' /\ Retained' \in Seq(Nat)
      <4> DEFINE s == file[LogFilesCount]
                 t == Retained'
      <4>1. s \in Seq(Nat) /\ Len(s) \in Nat
        BY <1>2, AuditAssumption DEF AuditTypeOK, Instances
      <4>2. t = SubSeq(s \o t, Len(s) + 1, Len(s \o t)) /\ Len(s) <= Len(s \o t)
        <5> HIDE DEF s, t
        <5> QED
          BY <3>1, <4>1, Rest DEF t
      <4>3. CASE Len(s) = 0
        <5>1. s = <<>> /\ \A u \in Seq(Nat) : <<>> \o u = u
          BY <4>1, <4>3
        <5>2. Retained' = Retained
          BY <3>1, <5>1, Zenon
        <5> QED
          BY <3>1, <5>2
      <4>4. CASE Len(s) # 0
        <5>1. Len(s) \in 1..Len(Retained) /\ t = SubSeq(Retained, Len(s) + 1, Len(Retained))
          <6>1. Retained = s \o t /\ Len(s \o t) \in Nat
            <7>1. Retained = s \o t /\ t \in Seq(Nat)
              BY <3>1
            <7> HIDE DEF s, t
            <7> QED
              BY <4>1, <7>1
          <6> HIDE DEF s, t
          <6> QED
            BY <4>1, <4>2, <4>4, <6>1
        <5> QED
          BY <3>1, <5>1 DEF Bounded!Next, Bounded!DropOldest
      <4> QED
        BY <4>3, <4>4
    <3>2. CASE /\ handler[c].line \in 1..MaxLines
               /\ Retained' = Append(Retained, handler[c].line)
               /\ written' = Append(written, handler[c].line)
      BY <3>2 DEF Bounded!Next, Bounded!WriteLine
    <3> QED
      BY <1>2, <2>1, <3>1, <3>2, HandlerFiles
  <2>2. CASE ~ \E c \in Clients : HandlerStep(c)
    BY <1>2, <2>2, OthersFiles DEF AuditNext
  <2> QED
    BY <2>1, <2>2
<1>3. AuditSpec => [](AuditTypeOK /\ Underway /\ RotationInv)
  BY AuditTypeCorrect, RotationSafe, PTL
<1> QED
  BY <1>1, <1>2, <1>3, PTL DEF AuditSpec, ImplementsBoundedLog, Bounded!Spec

-------------------------------------------------------------------------------
(***************************************************************************)
(* How much is kept.  A file that is shorter than it should be, with lines *)
(* above it, is a hole.  A rename moves holes up; only a rotation that is  *)
(* torn between two renames makes a new one.                               *)
(***************************************************************************)

\* The next rename replaces file i.
InGap(i) == \E c \in Clients : handler[c].at = "rename" /\ handler[c].renameAt = i

Holes ==
    {i \in 2..LogFilesCount : /\ Len(file[i]) < MaxFileBytes - 1 /\ ~InGap(i)
                              /\ \E k \in (i + 1)..LogFilesCount : file[k] # <<>>}

HolesTorn == Cardinality(Holes) <= torn

\* File 1 is full when the files are rotated.
FirstFull ==
    \A c \in Clients :
        handler[c].at \in {"remove", "rename"} => Len(file[1]) >= MaxFileBytes - 1

\* There are finitely many holes.
LEMMA HolesFinite ==
    /\ IsFiniteSet(Holes) /\ Cardinality(Holes) \in Nat
    /\ IsFiniteSet(Holes') /\ Cardinality(Holes') \in Nat
<1>1. IsFiniteSet(2..LogFilesCount)
  BY AuditAssumption, FS_Interval
<1>2. Holes \subseteq 2..LogFilesCount /\ Holes' \subseteq 2..LogFilesCount
  BY DEF Holes
<1>3. IsFiniteSet(Holes) /\ IsFiniteSet(Holes')
  BY <1>1, <1>2, FS_Subset
<1> QED
  BY <1>3, FS_CardinalityType

\* Fewer holes.
LEMMA FewerHoles ==
    ASSUME Holes' \subseteq Holes
    PROVE  Cardinality(Holes') <= Cardinality(Holes)
BY HolesFinite, FS_Subset

\* One more hole.
LEMMA OneMoreHole ==
    ASSUME NEW i, Holes' \subseteq Holes \cup {i}
    PROVE  Cardinality(Holes') <= Cardinality(Holes) + 1
<1>1. /\ IsFiniteSet(Holes \cup {i})
      /\ Cardinality(Holes \cup {i}) = IF i \in Holes THEN Cardinality(Holes)
                                                      ELSE Cardinality(Holes) + 1
  BY HolesFinite, FS_AddElement
<1>2. Cardinality(Holes') <= Cardinality(Holes \cup {i})
  BY <1>1, FS_Subset
<1> QED
  BY <1>1, <1>2, HolesFinite

\* A hole moves.
LEMMA HoleMoves ==
    ASSUME NEW i, NEW j, i \notin Holes, i # j,
           Holes' \ {i} \subseteq Holes \ {j}, i \in Holes' => j \in Holes
    PROVE  Cardinality(Holes') <= Cardinality(Holes)
<1>1. CASE i \notin Holes'
  <2>1. Holes' \subseteq Holes
    BY <1>1
  <2> QED
    BY <2>1, FewerHoles
<1>2. CASE i \in Holes'
  <2>1. j \in Holes /\ Holes' \subseteq (Holes \ {j}) \cup {i}
    BY <1>2
  <2>2. IsFiniteSet(Holes \ {j}) /\ Cardinality(Holes \ {j}) = Cardinality(Holes) - 1
    BY <2>1, HolesFinite, FS_RemoveElement
  <2>3. /\ IsFiniteSet((Holes \ {j}) \cup {i})
        /\ Cardinality((Holes \ {j}) \cup {i}) = Cardinality(Holes \ {j}) + 1
    BY <2>2, FS_AddElement
  <2>4. Cardinality(Holes') <= Cardinality((Holes \ {j}) \cup {i})
    BY <2>1, <2>3, FS_Subset
  <2> QED
    BY <2>2, <2>3, <2>4, HolesFinite
<1> QED
  BY <1>1, <1>2

\* While the files above the first stay, and the gap, so do the holes.
LEMMA HolesStay ==
    ASSUME \A i \in 2..LogFilesCount : file'[i] = file[i],
           \A i \in 2..LogFilesCount : InGap(i) => InGap(i)'
    PROVE  Holes' \subseteq Holes
BY AuditAssumption DEF Holes

\* There is one gap at most.
LEMMA OneGap ==
    ASSUME Exclusive, NEW c \in Clients, handler[c].at = "rename"
    PROVE  \A i : InGap(i) <=> i = handler[c].renameAt
<1>1. \A d \in Clients : handler[d].at = "rename" => d = c
  BY DEF Exclusive, Appending, Rotating
<1> QED
  BY <1>1 DEF InGap

\* Products with a factor that is one more, or larger.
LEMMA Products ==
    ASSUME NEW a \in Int, NEW b \in Int, NEW m \in Nat, a <= b
    PROVE  a * m \in Int /\ (a + 1) * m = a * m + m /\ a * m <= b * m
OBVIOUS

\* A file more: it is one of those that do not count, or it has m lines.
LEMMA OneFileMore ==
    ASSUME NEW s \in Seq(Nat), NEW t \in Seq(Nat), NEW i \in Int, NEW c \in Int, NEW m \in Nat,
           Len(t) >= (i - c) * m
    PROVE  /\ Len(s \o t) >= ((i + 1) - (c + 1)) * m
           /\ Len(s) >= m => Len(s \o t) >= ((i + 1) - c) * m
<1> DEFINE a == i - c
           l == Len(s)
           k == Len(t)
<1>1. Len(s \o t) = l + k /\ l \in Nat /\ k \in Nat
  OBVIOUS
<1>2. a \in Int /\ (i + 1) - (c + 1) = a /\ (i + 1) - c = a + 1 /\ k >= a * m
  OBVIOUS
<1> HIDE DEF a, l, k
<1>3. a * m \in Int /\ (a + 1) * m = a * m + m
  BY <1>2, Products
<1> DEFINE p == a * m
<1>4. p \in Int /\ k >= p /\ (a + 1) * m = p + m
  BY <1>2, <1>3
<1> HIDE DEF p
<1>5. l + k >= p /\ (l >= m => l + k >= p + m)
  BY <1>1, <1>4
<1> QED
  BY <1>1, <1>2, <1>4, <1>5, Zenon DEF p, l

\* Files that have m lines each, but for those in H, have so many lines together.
LEMMA LongFiles ==
    ASSUME NEW n \in Nat, NEW m \in Nat, NEW f, NEW g, NEW H,
           Joins(g, f, n), \A i \in 1..n : f[i] \in Seq(Nat), IsFiniteSet(H),
           \A i \in 1..n : i \in H \/ Len(f[i]) >= m
    PROVE  Len(g[n]) >= (n - Cardinality(H)) * m
<1> DEFINE C(i) == Cardinality(H \cap (1..i))
           T == {i \in 0..n : Len(g[i]) >= (i - C(i)) * m}
<1>1. \A i \in 0..n : /\ IsFiniteSet(H \cap (1..i)) /\ C(i) \in Nat
                      /\ C(i) <= Cardinality(H) /\ g[i] \in Seq(Nat) /\ Len(g[i]) \in Nat
  <2>1. \A i \in 0..n : IsFiniteSet(H \cap (1..i)) /\ C(i) <= Cardinality(H)
    BY FS_Subset
  <2>2. \A i \in 0..n : C(i) \in Nat
    BY <2>1, FS_CardinalityType
  <2>3. \A i \in 0..n : g[i] \in Seq(Nat)
    BY JoinType
  <2>4. \A s \in Seq(Nat) : Len(s) \in Nat
    OBVIOUS
  <2> QED
    BY <2>1, <2>2, <2>3, <2>4
<1>2. 0 \in T
  <2>1. g[0] = <<>> /\ 0 \in 0..n
    BY DEF Joins
  <2>2. H \cap (1..0) = {}
    OBVIOUS
  <2>3. C(0) = 0
    BY <2>2, FS_EmptySet
  <2>4. Len(g[0]) = 0
    BY <2>1
  <2> HIDE DEF C
  <2> QED
    BY <2>1, <2>3, <2>4
<1>3. ASSUME NEW i \in 0..(n - 1), i \in T PROVE i + 1 \in T
  <2>0. i \in 0..n /\ i + 1 \in 0..n /\ i + 1 \in 1..n
    OBVIOUS
  <2>1. g[i + 1] = f[i + 1] \o g[i]
    BY DEF Joins
  <2>2. f[i + 1] \in Seq(Nat) /\ g[i] \in Seq(Nat) /\ C(i) \in Int /\ i \in Int
    <3>1. f[i + 1] \in Seq(Nat) /\ i \in Int /\ Nat \subseteq Int
      BY <2>0
    <3>2. g[i] \in Seq(Nat) /\ C(i) \in Nat
      BY <1>1, <2>0, Zenon
    <3> QED
      BY <3>1, <3>2, Zenon
  <2>3. Len(g[i]) >= (i - C(i)) * m
    BY <1>3
  <2> HIDE DEF T
  <2>4. Len(g[i + 1]) >= ((i + 1) - C(i + 1)) * m
    <3>1. CASE i + 1 \in H
      <4>1. H \cap (1..(i + 1)) = (H \cap (1..i)) \cup {i + 1} /\ i + 1 \notin H \cap (1..i)
        BY <3>1
      <4>2. C(i + 1) = C(i) + 1
        BY <1>1, <2>0, <4>1, FS_AddElement
      <4> HIDE DEF C
      <4>3. Len(f[i + 1] \o g[i]) >= ((i + 1) - (C(i) + 1)) * m
        BY <2>2, <2>3, OneFileMore, Zenon
      <4> QED
        BY <2>1, <4>2, <4>3, Zenon
    <3>2. CASE i + 1 \notin H
      <4>1. H \cap (1..(i + 1)) = H \cap (1..i)
        BY <3>2
      <4>2. C(i + 1) = C(i)
        BY <4>1
      <4>3. Len(f[i + 1]) >= m
        BY <2>0, <3>2
      <4> HIDE DEF C
      <4>4. Len(f[i + 1] \o g[i]) >= ((i + 1) - C(i)) * m
        BY <2>2, <2>3, <4>3, OneFileMore, Zenon
      <4> QED
        BY <2>1, <4>2, <4>4, Zenon
    <3> QED
      BY <3>1, <3>2
  <2> QED
    BY <2>0, <2>4 DEF T
<1>4. \A i \in 0..n : i \in T
  <2> HIDE DEF T
  <2> QED
    BY <1>2, <1>3, UpFrom
<1>5. Len(g[n]) >= (n - C(n)) * m
  BY <1>4
<1>6. /\ C(n) \in Nat /\ Cardinality(H) \in Nat /\ C(n) <= Cardinality(H)
      /\ Len(g[n]) \in Nat
  BY <1>1, FS_CardinalityType
<1> DEFINE a == n - Cardinality(H)
           b == n - C(n)
<1>7. a \in Int /\ b \in Int /\ a <= b
  BY <1>6
<1> HIDE DEF C
<1>8. Len(g[n]) >= b * m
  BY <1>5
<1> HIDE DEF a, b
<1>9. a * m \in Int /\ b * m \in Int /\ a * m <= b * m
  BY <1>7, Products
<1>10. Len(g[n]) >= a * m
  BY <1>6, <1>8, <1>9
<1> QED
  BY <1>10 DEF a

-------------------------------------------------------------------------------
\* File 1 stays full while the last file is removed and the others are renamed.
LEMMA FirstFullStep ==
    ASSUME AuditTypeOK, Underway, RotationInv, FirstFull, NEW c \in Clients, HandlerStep(c)
    PROVE  FirstFull'
<1> USE AuditAssumption DEF fileVars, serverVars, historyVars
<1>1. /\ handler \in [Clients -> Handlers] /\ file \in [Instances -> Seq(Nat)]
      /\ 1 \in Instances /\ LogFilesCount \in Instances
  BY DEF AuditTypeOK, Instances
<1>2. UNCHANGED fileVars \/ \A d \in Clients \ {c} : handler'[d].at \notin Appending
  BY ExclusiveStep DEF RotationInv
<1>3. \A d \in Clients \ {c} : handler'[d] = handler[d]
  BY OthersStay
<1>4. ASSUME handler'[c].at \in {"remove", "rename"} => Len(file'[1]) >= MaxFileBytes - 1
      PROVE  FirstFull'
  BY <1>2, <1>3, <1>4 DEF FirstFull, Appending, Rotating
<1>5. CASE CheckSize(c)
  <2>1. file' = file /\ Goto(c, IF Len(file[1]) + 1 >= MaxFileBytes THEN "remove" ELSE "write")
    BY <1>5 DEF CheckSize
  <2>2. handler'[c].at = IF Len(file[1]) + 1 >= MaxFileBytes THEN "remove" ELSE "write"
    BY <2>1, GotoAt
  <2>3. Len(file[1]) \in Nat
    BY <1>1
  <2> QED
    BY <1>4, <2>1, <2>2, <2>3
<1>6. CASE RemoveLast(c)
  <2>1. CASE LogFilesCount >= 2
    <3>1. file'[1] = file[1]
      BY <1>1, <1>6, <2>1 DEF RemoveLast
    <3> QED
      BY <1>4, <1>6, <3>1 DEF RemoveLast, FirstFull
  <2>2. CASE ~(LogFilesCount >= 2)
    <3>1. Goto(c, "create")
      BY <1>6, <2>2 DEF RemoveLast, Goto
    <3> QED
      BY <1>4, <3>1, GotoAt
  <2> QED
    BY <2>1, <2>2
<1>7. CASE RenameOne(c)
  <2> DEFINE i == handler[c].renameAt
  <2>1. i \in 2..LogFilesCount /\ \A k \in Instances \ {i, i - 1} : file'[k] = file[k]
    BY <1>7, RenameMoves
  <2>2. CASE i = 2
    <3>1. Goto(c, "create")
      BY <1>7, <2>2 DEF RenameOne
    <3> QED
      BY <1>4, <3>1, GotoAt
  <2>3. CASE i # 2
    <3>1. file'[1] = file[1]
      <4> HIDE DEF i
      <4>1. 1 \in Instances \ {i, i - 1}
        BY <1>1, <2>1, <2>3
      <4> QED
        BY <2>1, <4>1
    <3> QED
      BY <1>4, <1>7, <3>1 DEF RenameOne, FirstFull
  <2> QED
    BY <2>2, <2>3
<1>8. CASE Answer(c) \/ LockLog(c) \/ OpenLog(c) \/ CreateFirst(c) \/ RotationFails(c)
  <2>1. PICK place \in {"answered", "open", "size", "write", "reopen"} : Goto(c, place)
    BY <1>8 DEF Answer, LockLog, OpenLog, CreateFirst, RotationFails, Goto
  <2>2. handler'[c].at = place
    BY <2>1, GotoAt
  <2> QED
    BY <1>4, <2>1, <2>2
<1>9. CASE AppendFails(c) \/ WriteToLog(c)
  <2>1. handler'[c].at = "none"
    BY <1>1, <1>9 DEF AppendFails, WriteToLog, Leave, NoHandler
  <2> QED
    BY <1>4, <2>1
<1> QED
  BY <1>5, <1>6, <1>7, <1>8, <1>9 DEF HandlerStep

\* A rename takes the hole that may be below along; file 1 is none.
LEMMA RenameHoles ==
    ASSUME AuditTypeOK, AuditTypeOK', Underway, RotationInv, RotationInv', FirstFull,
           NEW c \in Clients, RenameOne(c)
    PROVE  Cardinality(Holes') <= Cardinality(Holes)
<1>0. PICK i : i = handler[c].renameAt
  OBVIOUS
<1>1. /\ i \in 2..LogFilesCount /\ LogFilesCount \in Nat /\ MaxFileBytes \in Nat
      /\ file'[i] = file[i - 1] /\ file'[i - 1] = <<>>
      /\ \A k \in 2..LogFilesCount : k # i /\ k # i - 1 => file'[k] = file[k]
  BY <1>0, RenameMoves, AuditAssumption DEF Instances
<1>2. \A k : InGap(k) <=> k = i
  BY <1>0, OneGap DEF RenameOne, RotationInv
<1>3. Len(file[1]) >= MaxFileBytes - 1 /\ Len(file[1]) \in Nat
  <2>1. file[1] \in Seq(Nat)
    BY AuditAssumption DEF AuditTypeOK, Instances
  <2>2. handler[c].at = "rename"
    BY DEF RenameOne
  <2> QED
    BY <2>1, <2>2 DEF FirstFull
<1>4. i # 2 => InGap(i - 1)'
  BY <1>0, RenameGoesOn DEF InGap
<1>5. i \notin Holes
  BY <1>2 DEF Holes
<1>6. ASSUME NEW k \in Holes', k # i PROVE k \in Holes /\ k # i - 1
  <2>1. /\ k \in 2..LogFilesCount /\ Len(file'[k]) < MaxFileBytes - 1 /\ ~InGap(k)'
        /\ \E j \in (k + 1)..LogFilesCount : file'[j] # <<>>
    BY DEF Holes
  <2>2. k # i - 1
    BY <1>1, <1>4, <2>1
  <2>3. Len(file[k]) < MaxFileBytes - 1 /\ ~InGap(k)
    BY <1>1, <1>2, <1>6, <2>1, <2>2
  <2>4. \E j \in (k + 1)..LogFilesCount : file[j] # <<>>
    <3>1. PICK j \in (k + 1)..LogFilesCount : file'[j] # <<>>
      BY <2>1
    <3>2. CASE j = i
      <4>1. i - 1 \in (k + 1)..LogFilesCount /\ file[i - 1] # <<>>
        BY <1>1, <2>1, <2>2, <3>1, <3>2
      <4> QED
        BY <4>1
    <3>3. CASE j # i
      BY <1>1, <2>1, <3>1, <3>3
    <3> QED
      BY <3>2, <3>3
  <2> QED
    BY <2>1, <2>2, <2>3, <2>4 DEF Holes
<1>7. ASSUME i \in Holes' PROVE i - 1 \in Holes
  <2>1. /\ Len(file[i - 1]) < MaxFileBytes - 1
        /\ \E j \in (i + 1)..LogFilesCount : file'[j] # <<>>
    BY <1>1, <1>7 DEF Holes
  <2>2. i # 2
    BY <1>1, <1>3, <2>1
  <2>3. i - 1 \in 2..LogFilesCount /\ ~InGap(i - 1)
    BY <1>1, <1>2, <2>2
  <2>4. \E j \in ((i - 1) + 1)..LogFilesCount : file[j] # <<>>
    <3>1. PICK j \in (i + 1)..LogFilesCount : file'[j] # <<>>
      BY <2>1
    <3>2. j \in ((i - 1) + 1)..LogFilesCount /\ file[j] # <<>>
      BY <1>1, <3>1
    <3> QED
      BY <3>2
  <2> QED
    BY <2>1, <2>3, <2>4 DEF Holes
<1>8. i # i - 1 /\ Holes' \ {i} \subseteq Holes \ {i - 1}
  BY <1>1, <1>6
<1> DEFINE j == i - 1
<1>9. i \notin Holes /\ i # j /\ Holes' \ {i} \subseteq Holes \ {j} /\ (i \in Holes' => j \in Holes)
  BY <1>5, <1>7, <1>8
<1> HIDE DEF j
<1> QED
  BY <1>9, HoleMoves

\* The renames stop: there is a hole more, unless they have not begun.
LEMMA StoppedHoles ==
    ASSUME AuditTypeOK, Exclusive, \A i \in 2..LogFilesCount : file'[i] = file[i],
           NEW c \in Clients, handler[c].at = "rename"
    PROVE  Cardinality(Holes') <= Cardinality(Holes) + (IF Halfway(c) THEN 1 ELSE 0)
<1>0. PICK i : i = handler[c].renameAt
  OBVIOUS
<1>1. \A k : InGap(k) <=> k = i
  BY <1>0, OneGap
<1>2. i \in Int /\ LogFilesCount \in Nat
  BY <1>0, AuditAssumption DEF AuditTypeOK, Handlers
<1>3. Holes' \subseteq Holes \cup {i}
  BY <1>1, <1>2 DEF Holes
<1>4. CASE Halfway(c)
  BY <1>3, <1>4, OneMoreHole
<1>5. CASE ~Halfway(c)
  <2>1. i >= LogFilesCount
    BY <1>0, <1>2, <1>5 DEF Halfway
  <2>2. i \notin Holes'
    BY <1>2, <2>1 DEF Holes
  <2>3. Holes' \subseteq Holes
    BY <1>3, <2>2
  <2> QED
    BY <1>5, <2>3, FewerHoles, HolesFinite
<1> QED
  BY <1>4, <1>5

\* A step of a handler makes a hole only when it tears a rotation.
LEMMA HolesStep ==
    ASSUME AuditTypeOK, AuditTypeOK', Underway, RotationInv, RotationInv', FirstFull, HolesTorn,
           NEW c \in Clients, HandlerStep(c)
    PROVE  HolesTorn' /\ torn' >= torn
<1> USE AuditAssumption DEF fileVars, serverVars, historyVars
<1>1. /\ handler \in [Clients -> Handlers] /\ file \in [Instances -> Seq(Nat)]
      /\ \A i \in 2..LogFilesCount : i \in Instances /\ i # 1
      /\ LogFilesCount \in Instances /\ 1 \in Instances /\ torn \in Nat
  <2>1. handler \in [Clients -> Handlers] /\ file \in [Instances -> Seq(Nat)] /\ torn \in Nat
    BY DEF AuditTypeOK
  <2>2. LogFilesCount \in Nat \ {0}
    OBVIOUS
  <2>3. \A i \in 2..LogFilesCount : i \in 1..LogFilesCount /\ i # 1
    BY <2>2
  <2>4. LogFilesCount \in 1..LogFilesCount /\ 1 \in 1..LogFilesCount
    BY <2>2
  <2> QED
    BY <2>1, <2>3, <2>4 DEF Instances
<1>2. Cardinality(Holes) \in Nat /\ Cardinality(Holes') \in Nat /\ Cardinality(Holes) <= torn
  BY HolesFinite DEF HolesTorn
<1>3. \A d \in Clients \ {c} : handler'[d] = handler[d]
  BY OthersStay
<1>4. ASSUME Cardinality(Holes') <= Cardinality(Holes), torn' = torn
      PROVE  HolesTorn' /\ torn' >= torn
  BY <1>1, <1>2, <1>4 DEF HolesTorn
<1>5. CASE \/ Answer(c) \/ LockLog(c) \/ OpenLog(c) \/ AppendFails(c) \/ CheckSize(c)
           \/ CreateFirst(c) \/ WriteToLog(c)
  <2>1. handler[c].at # "rename" /\ torn' = torn
    BY <1>5 DEF Answer, LockLog, OpenLog, AppendFails, CheckSize, CreateFirst, WriteToLog
  <2>2. \A i \in 2..LogFilesCount : file'[i] = file[i]
    BY <1>1, <1>5 DEF Answer, LockLog, OpenLog, AppendFails, CheckSize, CreateFirst, WriteToLog
  <2>3. ASSUME NEW i, InGap(i) PROVE InGap(i)'
    BY <1>3, <2>1, <2>3 DEF InGap
  <2>4. Holes' \subseteq Holes
    BY <2>2, <2>3, HolesStay
  <2> QED
    BY <1>4, <2>1, <2>4, FewerHoles
<1>6. CASE RemoveLast(c)
  <2>1. handler[c].at = "remove" /\ torn' = torn
    BY <1>6 DEF RemoveLast
  <2>2. /\ \A i \in Instances \ {LogFilesCount} : file'[i] = file[i]
        /\ file'[LogFilesCount] = <<>>
    BY <1>1, <1>6 DEF RemoveLast
  <2>3. \A i : ~InGap(i)
    BY <2>1 DEF InGap, RotationInv, Exclusive, Appending, Rotating
  <2>4. ASSUME NEW i \in Holes' PROVE i \in Holes
    <3>1. /\ i \in 2..LogFilesCount /\ Len(file'[i]) < MaxFileBytes - 1
          /\ \E k \in (i + 1)..LogFilesCount : file'[k] # <<>>
      BY DEF Holes
    <3>2. PICK k \in (i + 1)..LogFilesCount : file'[k] # <<>>
      BY <3>1
    <3>3. /\ i # LogFilesCount /\ i \in Instances
          /\ k # LogFilesCount /\ k \in Instances
      BY <1>1, <2>2, <3>1, <3>2 DEF Instances
    <3>4. file'[i] = file[i] /\ file'[k] = file[k]
      BY <2>2, <3>3
    <3> QED
      BY <2>3, <3>1, <3>2, <3>4 DEF Holes
  <2>5. Holes' \subseteq Holes
    BY <2>4
  <2> QED
    BY <1>4, <2>1, <2>5, FewerHoles
<1>7. CASE RenameOne(c)
  <2>1. torn' = torn
    BY <1>7 DEF RenameOne
  <2> QED
    BY <1>4, <1>7, <2>1, RenameHoles
<1>8. CASE RotationFails(c)
  <2>1. /\ file' = file /\ torn' = IF Halfway(c) THEN torn + 1 ELSE torn
        /\ handler[c].at \in Rotating
    BY <1>8 DEF RotationFails
  <2>2. CASE handler[c].at = "rename"
    <3>1. Cardinality(Holes') <= Cardinality(Holes) + (IF Halfway(c) THEN 1 ELSE 0)
      BY <2>1, <2>2, StoppedHoles DEF RotationInv
    <3> QED
      BY <1>1, <1>2, <2>1, <3>1 DEF HolesTorn
  <2>3. CASE handler[c].at # "rename"
    <3>1. torn' = torn
      BY <2>1, <2>3 DEF Halfway
    <3>2. ASSUME NEW i, InGap(i) PROVE InGap(i)'
      BY <1>3, <2>3, <3>2 DEF InGap
    <3>3. Holes' \subseteq Holes
      BY <2>1, <3>2, HolesStay
    <3> QED
      BY <1>4, <3>1, <3>3, FewerHoles
  <2> QED
    BY <2>2, <2>3
<1> QED
  BY <1>5, <1>6, <1>7, <1>8 DEF HandlerStep

\* So does a crash.
LEMMA CrashHoles ==
    ASSUME AuditTypeOK, Exclusive, HolesTorn, AuditCrash
    PROVE  HolesTorn' /\ torn' >= torn
<1>1. /\ Cardinality(Holes) \in Nat /\ Cardinality(Holes') \in Nat /\ Cardinality(Holes) <= torn
      /\ torn \in Nat
  BY HolesFinite DEF HolesTorn, AuditTypeOK
<1>2. /\ \A i \in 2..LogFilesCount : file'[i] = file[i]
      /\ torn' = IF \E c \in Clients : Halfway(c) THEN torn + 1 ELSE torn
  BY DEF AuditCrash, fileVars
<1>3. CASE \E c \in Clients : handler[c].at = "rename"
  <2>1. PICK c \in Clients : handler[c].at = "rename"
    BY <1>3
  <2>2. \A d \in Clients : Halfway(d) => d = c
    BY <2>1 DEF Halfway, Exclusive, Appending, Rotating
  <2>3. Cardinality(Holes') <= Cardinality(Holes) + (IF Halfway(c) THEN 1 ELSE 0)
    BY <1>2, <2>1, StoppedHoles
  <2>4. torn' = IF Halfway(c) THEN torn + 1 ELSE torn
    BY <1>2, <2>2
  <2> QED
    BY <1>1, <2>3, <2>4 DEF HolesTorn
<1>4. CASE ~ \E c \in Clients : handler[c].at = "rename"
  <2>1. torn' = torn /\ \A i : ~InGap(i)
    BY <1>2, <1>4 DEF Halfway, InGap
  <2>2. Holes' \subseteq Holes
    BY <1>2, <2>1, HolesStay
  <2> QED
    BY <1>1, <2>1, <2>2, FewerHoles DEF HolesTorn
<1> QED
  BY <1>3, <1>4

-------------------------------------------------------------------------------
\* What has to be kept, with so many torn rotations.
Enough(n) == (LogFilesCount - 1 - n) * (MaxFileBytes - 1)

\* It is less with more of them.
LEMMA EnoughFalls ==
    ASSUME NEW a \in Nat, NEW b \in Nat, a <= b
    PROVE  Enough(a) \in Int /\ Enough(b) \in Int /\ Enough(b) <= Enough(a)
<1> DEFINE m == MaxFileBytes - 1
           x == LogFilesCount - 1 - b
           y == LogFilesCount - 1 - a
<1>1. m \in Nat /\ x \in Int /\ y \in Int /\ x <= y
  BY AuditAssumption
<1> HIDE DEF m, x, y
<1>2. x * m \in Int /\ y * m \in Int /\ x * m <= y * m
  BY <1>1, Products
<1> QED
  BY <1>2 DEF Enough, m, x, y

\* When the last file goes, and has lines, the others are full but for the holes.
LEMMA RemovalKeepsEnough ==
    ASSUME AuditTypeOK, AuditTypeOK', RotationInv, FirstFull, HolesTorn,
           NEW c \in Clients, RemoveLast(c), file[LogFilesCount] # <<>>
    PROVE  Len(Retained') >= Enough(torn)
<1> DEFINE m == MaxFileBytes - 1
           H == Holes \cup {LogFilesCount}
<1>1. /\ LogFilesCount \in Nat /\ m \in Nat /\ LogFilesCount \in Instances /\ torn \in Nat
      /\ file \in [Instances -> Seq(Nat)]
  BY AuditAssumption DEF AuditTypeOK, Instances
<1>2. handler[c].at = "remove" /\ \A i \in Instances \ {LogFilesCount} : file'[i] = file[i]
  BY <1>1 DEF RemoveLast
<1>3. \A i : ~InGap(i)
  BY <1>2 DEF InGap, RotationInv, Exclusive, Appending, Rotating
<1>4. Len(file[1]) >= m
  BY <1>2 DEF FirstFull
<1>5. ASSUME NEW i \in 1..LogFilesCount PROVE i \in H \/ Len(file'[i]) >= m
  <2>1. CASE i = LogFilesCount
    BY <2>1
  <2>2. CASE i # LogFilesCount /\ i = 1
    BY <1>2, <1>4, <2>2 DEF Instances
  <2>3. CASE i # LogFilesCount /\ i # 1
    <3>1. i \in 2..LogFilesCount /\ LogFilesCount \in (i + 1)..LogFilesCount
      BY <1>1, <2>3
    <3>2. file'[i] = file[i] /\ Len(file[i]) \in Nat
      BY <1>1, <1>2, <2>3 DEF Instances
    <3>3. CASE Len(file[i]) < m
      <4>1. i \in Holes
        BY <1>3, <3>1, <3>3 DEF Holes
      <4> QED
        BY <4>1
    <3>4. CASE ~(Len(file[i]) < m)
      BY <1>1, <3>2, <3>4
    <3> QED
      BY <3>3, <3>4
  <2> QED
    BY <2>1, <2>2, <2>3
<1>6. IsFiniteSet(H) /\ Cardinality(H) = Cardinality(Holes) + 1
  <2>1. LogFilesCount \notin Holes
    BY <1>1 DEF Holes
  <2> QED
    BY <2>1, HolesFinite, FS_AddElement
<1>7. /\ Joins(UpTo', file', LogFilesCount)
      /\ \A i \in 1..LogFilesCount : file'[i] \in Seq(Nat)
      /\ UpTo'[LogFilesCount] \in Seq(Nat)
  BY <1>1, UpToTypes
<1> HIDE DEF H, m
<1>8. Len(UpTo'[LogFilesCount]) >= (LogFilesCount - Cardinality(H)) * m
  BY <1>1, <1>5, <1>6, <1>7, LongFiles
<1>9. Cardinality(Holes) \in Nat /\ Cardinality(Holes) <= torn
  BY HolesFinite DEF HolesTorn
<1> DEFINE h == Cardinality(Holes)
<1>10. LogFilesCount - Cardinality(H) = LogFilesCount - 1 - h
  BY <1>1, <1>6, <1>9
<1>11. Len(UpTo'[LogFilesCount]) >= Enough(h)
  BY <1>8, <1>10 DEF Enough, m
<1>12. h \in Nat /\ h <= torn
  BY <1>9
<1> HIDE DEF h
<1>13. Enough(h) \in Int /\ Enough(torn) \in Int /\ Enough(torn) <= Enough(h)
  BY <1>1, <1>12, EnoughFalls
<1>14. Len(UpTo'[LogFilesCount]) \in Nat
  BY <1>7
<1> QED
  BY <1>11, <1>13, <1>14 DEF Retained

\* The inductive invariant.
RetentionInv == FirstFull /\ HolesTorn /\ RetainsEnough

\* What is kept stays enough while nothing is lost.
LEMMA EnoughStays ==
    ASSUME AuditTypeOK, AuditTypeOK', RetainsEnough, torn' >= torn,
           \/ UNCHANGED <<Retained, written>>
           \/ \E line : /\ Retained' = Append(Retained, line) /\ line \in Nat
                        /\ written' = Append(written, line)
    PROVE  RetainsEnough'
<1> DEFINE l == Len(Retained)
           k == Len(written)
<1>1. torn \in Nat /\ torn' \in Nat /\ written \in Seq(Nat) /\ Retained \in Seq(Nat)
  <2>1. UpTo[LogFilesCount] \in Seq(Nat)
    BY UpToTypes, AuditAssumption
  <2> QED
    BY <2>1 DEF AuditTypeOK, Retained
<1>2. Enough(torn) \in Int /\ Enough(torn') \in Int /\ Enough(torn') <= Enough(torn)
  BY <1>1, EnoughFalls
<1>3. l < k => l >= Enough(torn)
  BY DEF RetainsEnough, Enough
<1>4. l \in Nat /\ k \in Nat
  BY <1>1
<1>5. \/ Len(Retained') = l /\ Len(written') = k
      \/ Len(Retained') = l + 1 /\ Len(written') = k + 1
  <2>1. \A s \in Seq(Nat) : \A x \in Nat : Len(Append(s, x)) = Len(s) + 1
    OBVIOUS
  <2> QED
    BY <1>1, <2>1
<1> HIDE DEF l, k
<1>6. Len(Retained') < Len(written') => Len(Retained') >= Enough(torn')
  BY <1>2, <1>3, <1>4, <1>5
<1> QED
  BY <1>6 DEF RetainsEnough, Enough

\* For any number of files of any size: a rotation gives up one file and no more, and
\* only a rotation that is torn between two renames costs another.
THEOREM RetentionSafe == AuditSpec => []RetainsEnough
<1> USE DEF fileVars, serverVars, historyVars
<1>1. AuditInit => RetentionInv
  <2> SUFFICES ASSUME AuditInit PROVE RetentionInv
    OBVIOUS
  <2>1. \A c \in Clients : handler[c].at = "none"
    BY DEF AuditInit, NoHandler
  <2>2. FirstFull
    BY <2>1 DEF FirstFull
  <2>3. HolesTorn
    <3>1. Holes = {}
      BY AuditAssumption DEF Holes, AuditInit, Instances
    <3> QED
      BY <3>1, FS_EmptySet DEF HolesTorn, AuditInit
  <2>4. RetainsEnough
    <3>1. Len(written) = 0 /\ Retained \in Seq(Nat)
      <4>1. Joins(UpTo, file, LogFilesCount) /\ LogFilesCount \in Nat
        BY UpToJoins, AuditAssumption
      <4>2. \A i \in 1..LogFilesCount : file[i] \in Seq(Nat)
        BY DEF AuditInit, Instances
      <4>3. \A i \in 0..LogFilesCount : UpTo[i] \in Seq(Nat)
        BY <4>1, <4>2, JoinType
      <4> QED
        BY <4>1, <4>3 DEF AuditInit, Retained
    <3>2. ~(Len(Retained) < Len(written))
      <4> DEFINE r == Retained
      <4>1. r \in Seq(Nat)
        BY <3>1
      <4> HIDE DEF r
      <4>2. Len(r) \in Nat
        BY <4>1
      <4> QED
        BY <3>1, <4>2 DEF r
    <3> QED
      BY <3>2 DEF RetainsEnough
  <2> QED
    BY <2>2, <2>3, <2>4 DEF RetentionInv
<1>2. ASSUME AuditTypeOK, AuditTypeOK', Underway, RotationInv, RotationInv', RetentionInv,
             [AuditNext]_auditVars
      PROVE  RetentionInv'
  <2>1. ASSUME NEW c \in Clients, HandlerStep(c) PROVE RetentionInv'
    <3>1. FirstFull'
      BY <1>2, <2>1, FirstFullStep DEF RetentionInv
    <3>2. HolesTorn' /\ torn' >= torn
      BY <1>2, <2>1, HolesStep DEF RetentionInv
    <3>3. RetainsEnough'
      <4>1. CASE UNCHANGED <<Retained, written>>
        BY <1>2, <3>2, <4>1, EnoughStays DEF RetentionInv
      <4>2. CASE /\ RemoveLast(c) /\ UNCHANGED written
                 /\ Retained = file[LogFilesCount] \o Retained' /\ Retained' \in Seq(Nat)
        <5>1. CASE file[LogFilesCount] = <<>>
          <6>1. \A t \in Seq(Nat) : <<>> \o t = t
            OBVIOUS
          <6>2. Retained' = Retained
            BY <4>2, <5>1, <6>1, Zenon
          <6> QED
            BY <1>2, <3>2, <4>2, <6>2, EnoughStays DEF RetentionInv
        <5>2. CASE file[LogFilesCount] # <<>>
          <6>1. Len(Retained') >= Enough(torn) /\ torn' = torn
            BY <1>2, <4>2, <5>2, RemovalKeepsEnough DEF RetentionInv, RemoveLast
          <6> QED
            BY <6>1 DEF RetainsEnough, Enough
        <5> QED
          BY <5>1, <5>2
      <4>3. CASE /\ handler[c].line \in 1..MaxLines
                 /\ Retained' = Append(Retained, handler[c].line)
                 /\ written' = Append(written, handler[c].line)
        <5>1. handler[c].line \in Nat
          BY <4>3
        <5> QED
          BY <1>2, <3>2, <4>3, <5>1, EnoughStays DEF RetentionInv
      <4> QED
        BY <1>2, <2>1, <4>1, <4>2, <4>3, HandlerFiles
    <3> QED
      BY <3>1, <3>2, <3>3 DEF RetentionInv
  <2>2. ASSUME \/ InitFile \/ InitFileFails \/ AuditCrash \/ UNCHANGED auditVars
               \/ \E c \in Clients : Request(c),
               FirstFull', HolesTorn' /\ torn' >= torn
        PROVE  RetentionInv'
    <3>1. UNCHANGED <<Retained, written>>
      BY <1>2, <2>2, OthersFiles
    <3>2. RetainsEnough'
      BY <1>2, <2>2, <3>1, EnoughStays DEF RetentionInv
    <3> QED
      BY <2>2, <3>2 DEF RetentionInv
  <2>3. CASE AuditCrash
    <3>1. \A c \in Clients : handler'[c].at = "none"
      BY <2>3 DEF AuditCrash, NoHandler
    <3>2. FirstFull'
      BY <3>1 DEF FirstFull
    <3>3. HolesTorn' /\ torn' >= torn
      BY <1>2, <2>3, CrashHoles DEF RetentionInv, RotationInv
    <3> QED
      BY <2>2, <2>3, <3>2, <3>3
  <2>4. ASSUME NEW c \in Clients, Request(c) PROVE RetentionInv'
    <3>1. handler'[c].at = "handling" /\ \A d \in Clients \ {c} : handler'[d] = handler[d]
      <4> DEFINE h == [handler[c] EXCEPT !.at = "handling", !.line = requests + 1]
      <4>1. handler \in [Clients -> Handlers] /\ handler[c] \in Handlers
        BY <1>2 DEF AuditTypeOK
      <4>2. handler' = [handler EXCEPT ![c] = h]
        BY <2>4, <4>1 DEF Request
      <4>3. handler'[c] = h /\ h.at = "handling"
        BY <4>1, <4>2 DEF Handlers
      <4> QED
        BY <4>1, <4>2, <4>3
    <3>2. file' = file /\ torn' = torn /\ handler[c].at = "none" /\ torn \in Nat
      BY <1>2, <2>4 DEF Request, AuditTypeOK
    <3>3. FirstFull'
      BY <1>2, <3>1, <3>2 DEF RetentionInv, FirstFull
    <3>4. ASSUME NEW i, InGap(i) PROVE InGap(i)'
      BY <3>1, <3>2, <3>4 DEF InGap
    <3>5. Holes' \subseteq Holes
      BY <3>2, <3>4, HolesStay
    <3>6. HolesTorn' /\ torn' >= torn
      BY <1>2, <3>2, <3>5, FewerHoles, HolesFinite DEF RetentionInv, HolesTorn
    <3> QED
      BY <2>2, <2>4, <3>3, <3>6
  <2>5. CASE InitFile \/ InitFileFails \/ UNCHANGED auditVars
    <3>1. UNCHANGED <<file, handler, torn>> /\ torn \in Nat
      BY <1>2, <2>5 DEF InitFile, InitFileFails, auditVars, AuditTypeOK
    <3>2. FirstFull'
      BY <1>2, <3>1 DEF RetentionInv, FirstFull
    <3>3. Holes' = Holes
      BY <3>1 DEF Holes, InGap
    <3>4. HolesTorn' /\ torn' >= torn
      BY <1>2, <3>1, <3>3 DEF RetentionInv, HolesTorn
    <3> QED
      BY <2>2, <2>5, <3>2, <3>4
  <2> QED
    BY <1>2, <2>1, <2>3, <2>4, <2>5 DEF AuditNext
<1>3. AuditSpec => [](AuditTypeOK /\ Underway /\ RotationInv)
  BY AuditTypeCorrect, RotationSafe, PTL
<1>4. RetentionInv => RetainsEnough
  BY DEF RetentionInv
<1> QED
  BY <1>1, <1>2, <1>3, <1>4, PTL DEF AuditSpec
===============================================================================

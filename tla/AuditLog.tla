-------------------------------- MODULE AuditLog --------------------------------
(***************************************************************************)
(* The audit of metrics requests (internal/metrics/audit.go) and the       *)
(* rotating log that it is written to (pkg/logrotation/logrotation.go).    *)
(*                                                                         *)
(* Handlers of several clients append to numbered files under one lock;    *)
(* file 1 is the newest.  Every call to the file system may fail, and the  *)
(* container may crash between any two and start again with the files as   *)
(* they are.  A line is the number of its request, and has length one.     *)
(***************************************************************************)
EXTENDS Integers, Sequences

CONSTANTS
    Clients,        \* clients that send one request after the other
    LogFilesCount,  \* files
    MaxFileBytes,   \* in lines
    MaxLines,       \* bound: requests
    MaxFaults,      \* bound: failures of the file system
    MaxLives        \* bound: starts of the container

Nobody == "nobody"

ASSUME AuditAssumption ==
    /\ LogFilesCount \in Nat \ {0} /\ MaxFileBytes \in Nat \ {0, 1}
    /\ {MaxLines, MaxFaults, MaxLives} \subseteq Nat
    /\ Nobody \notin Clients

VARIABLES
    file,       \* file[i]: the lines of file i
    exists,     \* the files that exist
    server,     \* "unused", "init" while Init runs, "serving" or "failed"
    initAt,     \* the file Init is at
    holder,     \* who has the lock
    handler,    \* handler[c]: the handler of c's request, with its place, its line and i of
                \* performLogRotation
    requests,   \* requests so far
    faults,     \* failures so far
    auditLives, \* starts so far
    written,    \* history: the lines written
    missed,     \* history: lines that a failure or a crash has lost
    torn        \* history: rotations that stopped between two renames

fileVars == <<file, exists>>
serverVars == <<server, initAt, auditLives>>
historyVars == <<written, missed, torn>>
auditVars == <<fileVars, serverVars, holder, handler, requests, faults, historyVars>>

Instances == 1..LogFilesCount
Rotating == {"remove", "rename", "create"}
Appending == {"open", "size", "reopen", "write"} \cup Rotating
HandlerStates == {"none", "handling", "answered"} \cup Appending
Handlers == [at: HandlerStates, line: 0..MaxLines, renameAt: 2..(LogFilesCount + 1)]
NoHandler == [at |-> "none", line |-> 0, renameAt |-> LogFilesCount + 1]

AuditTypeOK ==
    /\ file \in [Instances -> Seq(Nat)] /\ exists \subseteq Instances
    /\ server \in {"unused", "init", "serving", "failed"} /\ initAt \in Instances
    /\ holder \in Clients \cup {Nobody}
    /\ handler \in [Clients -> Handlers]
    /\ requests \in 0..MaxLines /\ faults \in 0..MaxFaults /\ auditLives \in 0..MaxLives
    /\ written \in Seq(Nat) /\ missed \subseteq 1..MaxLines /\ torn \in Nat

AuditInit ==
    /\ file = [i \in Instances |-> <<>>] /\ exists = {}
    /\ \/ server = "unused" /\ auditLives = 0
       \/ server = "init" /\ auditLives = 1 /\ MaxLives > 0
    /\ initAt = 1
    /\ holder = Nobody
    /\ handler = [c \in Clients |-> NoHandler]
    /\ requests = 0 /\ faults = 0
    /\ written = <<>> /\ missed = {} /\ torn = 0

-------------------------------------------------------------------------------
(***************************************************************************)
(* Init of the log, when the metrics service starts.                       *)
(***************************************************************************)

InitFile ==
    /\ server = "init"
    /\ exists' = exists \cup {initAt}
    /\ IF initAt = LogFilesCount THEN server' = "serving" /\ UNCHANGED initAt
                                 ELSE initAt' = initAt + 1 /\ UNCHANGED server
    /\ UNCHANGED <<file, auditLives, holder, handler, requests, faults, historyVars>>

Fault == faults < MaxFaults /\ faults' = faults + 1

InitFileFails ==
    /\ server = "init"
    /\ Fault
    /\ server' = "failed"
    /\ UNCHANGED <<fileVars, initAt, auditLives, holder, handler, requests, historyVars>>

\* Renames have been done, and others have not: the last file exists again.
Halfway(c) == handler[c].at = "rename" /\ handler[c].renameAt < LogFilesCount

\* Process 1 ends at any moment, requests and all, and the container is
\* started again; the files are on a volume.
AuditCrash ==
    /\ server # "unused"
    /\ auditLives < MaxLives
    /\ auditLives' = auditLives + 1
    /\ server' = "init" /\ initAt' = 1
    /\ holder' = Nobody
    /\ torn' = IF \E c \in Clients : Halfway(c) THEN torn + 1 ELSE torn
    /\ missed' = missed \cup {handler[c].line : c \in {d \in Clients : handler[d].at # "none"}}
    /\ handler' = [c \in Clients |-> NoHandler]
    /\ UNCHANGED <<fileVars, requests, faults, written>>

-------------------------------------------------------------------------------
(***************************************************************************)
(* newAuditingHandlerFuncWrapper                                           *)
(***************************************************************************)

Request(c) ==
    /\ server = "serving" /\ handler[c].at = "none"
    /\ requests < MaxLines
    /\ requests' = requests + 1
    /\ handler' = [handler EXCEPT ![c].at = "handling", ![c].line = requests + 1]
    /\ UNCHANGED <<fileVars, serverVars, holder, faults, historyVars>>

\* base(capWriter, req) has answered, and the event becomes a line.
Answer(c) ==
    /\ handler[c].at = "handling"
    /\ handler' = [handler EXCEPT ![c].at = "answered"]
    /\ UNCHANGED <<fileVars, serverVars, holder, requests, faults, historyVars>>

-------------------------------------------------------------------------------
(***************************************************************************)
(* RotatingLogger.Append                                                   *)
(***************************************************************************)

Goto(c, place) == handler' = [handler EXCEPT ![c].at = place]

\* A return, with the deferred Unlock.
Leave(c) == handler' = [handler EXCEPT ![c] = NoHandler] /\ holder' = Nobody

\* A fault: there is no lock.
LockLog_None(c) ==
    /\ handler[c].at = "answered"
    /\ holder' = c
    /\ Goto(c, "open")
    /\ UNCHANGED <<fileVars, serverVars, requests, faults, historyVars>>

LockLog(c) ==
    /\ handler[c].at = "answered" /\ holder = Nobody
    /\ holder' = c
    /\ Goto(c, "open")
    /\ UNCHANGED <<fileVars, serverVars, requests, faults, historyVars>>

\* os.OpenFile with O_CREATE, before the size is known and again after a rotation.
OpenLog(c) ==
    /\ \/ handler[c].at = "open" /\ Goto(c, "size")
       \/ handler[c].at = "reopen" /\ Goto(c, "write")
    /\ exists' = exists \cup {1}
    /\ UNCHANGED <<file, serverVars, holder, requests, faults, historyVars>>

\* A fault: the early return comes before the deferred Unlock is set up.
AppendFails_Locked(c) ==
    /\ handler[c].at \in {"open", "size", "reopen", "write"}
    /\ Fault
    /\ missed' = missed \cup {handler[c].line}
    /\ handler' = [handler EXCEPT ![c] = NoHandler] /\ UNCHANGED holder
    /\ UNCHANGED <<fileVars, serverVars, requests, written, torn>>

\* The file cannot be opened, examined or written: an early return.
AppendFails(c) ==
    /\ handler[c].at \in {"open", "size", "reopen", "write"}
    /\ Fault
    /\ missed' = missed \cup {handler[c].line}
    /\ Leave(c)
    /\ UNCHANGED <<fileVars, serverVars, requests, written, torn>>

\* checkIfLogFileSizeExceeded
CheckSize(c) ==
    /\ handler[c].at = "size"
    /\ Goto(c, IF Len(file[1]) + 1 >= MaxFileBytes THEN "remove" ELSE "write")
    /\ UNCHANGED <<fileVars, serverVars, holder, requests, faults, historyVars>>

\* performLogRotation: the last file goes, ...
RemoveLast(c) ==
    /\ handler[c].at = "remove"
    /\ file' = [file EXCEPT ![LogFilesCount] = <<>>]
    /\ exists' = exists \ {LogFilesCount}
    /\ handler' = IF LogFilesCount >= 2
                     THEN [handler EXCEPT ![c].at = "rename", ![c].renameAt = LogFilesCount]
                     ELSE [handler EXCEPT ![c].at = "create"]
    /\ UNCHANGED <<serverVars, holder, requests, faults, historyVars>>

\* ... each other takes the next number, from the oldest on, if there is one, ...
RenameOne(c) ==
    LET i == handler[c].renameAt IN
    /\ handler[c].at = "rename"
    /\ IF i - 1 \in exists
         THEN /\ file' = [file EXCEPT ![i] = file[i - 1], ![i - 1] = <<>>]
              /\ exists' = (exists \cup {i}) \ {i - 1}
         ELSE UNCHANGED fileVars
    /\ IF i = 2 THEN Goto(c, "create") ELSE handler' = [handler EXCEPT ![c].renameAt = @ - 1]
    /\ UNCHANGED <<serverVars, holder, requests, faults, historyVars>>

\* ... and file 1 is made anew.
CreateFirst(c) ==
    /\ handler[c].at = "create"
    /\ file' = [file EXCEPT ![1] = <<>>]
    /\ exists' = exists \cup {1}
    /\ Goto(c, "reopen")
    /\ UNCHANGED <<serverVars, holder, requests, faults, historyVars>>

\* A fault: an error in the middle of a rotation does not keep it from
\* making file 1 anew.
RotationFails_Continue(c) ==
    /\ handler[c].at \in Rotating
    /\ Fault
    /\ torn' = IF Halfway(c) THEN torn + 1 ELSE torn
    /\ Goto(c, "create")
    /\ UNCHANGED <<fileVars, serverVars, holder, requests, written, missed>>

\* An error ends the rotation; Append goes on with file 1, whatever that is.
RotationFails(c) ==
    /\ handler[c].at \in Rotating
    /\ Fault
    /\ torn' = IF Halfway(c) THEN torn + 1 ELSE torn
    /\ Goto(c, "reopen")
    /\ UNCHANGED <<fileVars, serverVars, holder, requests, written, missed>>

\* A fault: a line that has caused a rotation is not written.
WriteToLog_NotRotated(c) ==
    /\ handler[c].at = "write"
    /\ IF file[1] = <<>> /\ LogFilesCount > 1 /\ file[2] # <<>>
         THEN UNCHANGED <<file, written>>
         ELSE /\ file' = [file EXCEPT ![1] = Append(@, handler[c].line)]
              /\ written' = Append(written, handler[c].line)
    /\ Leave(c)
    /\ UNCHANGED <<exists, serverVars, requests, faults, missed, torn>>

\* The line is written as a whole; a write that fails is AppendFails, which leaves nothing.
WriteToLog(c) ==
    /\ handler[c].at = "write"
    /\ file' = [file EXCEPT ![1] = Append(@, handler[c].line)]
    /\ written' = Append(written, handler[c].line)
    /\ Leave(c)
    /\ UNCHANGED <<exists, serverVars, requests, faults, missed, torn>>

-------------------------------------------------------------------------------
HandlerStep(c) ==
    \/ Answer(c) \/ LockLog(c) \/ OpenLog(c) \/ AppendFails(c) \/ CheckSize(c) \/ RemoveLast(c)
    \/ RenameOne(c) \/ CreateFirst(c) \/ RotationFails(c) \/ WriteToLog(c)

AuditNext ==
    \/ InitFile \/ InitFileFails \/ AuditCrash
    \/ \E c \in Clients : Request(c) \/ HandlerStep(c)

\* Handlers run, and sync.Mutex lets everybody in some time.
AuditFairness == \A c \in Clients : SF_auditVars(HandlerStep(c))

AuditSpec == AuditInit /\ [][AuditNext]_auditVars

-------------------------------------------------------------------------------
(***************************************************************************)
(* Properties.                                                             *)
(***************************************************************************)

\* The lines in files i to 1, the oldest first, and those in all files.
UpTo[i \in 0..LogFilesCount] == IF i = 0 THEN <<>> ELSE file[i] \o UpTo[i - 1]
Retained == UpTo[LogFilesCount]

Bounded == INSTANCE BoundedLog WITH log <- Retained, Line <- 1..MaxLines

\* Whatever fails, and wherever a crash comes, the files taken together only lose
\* their oldest lines, and a rotation moves no line past another.
ImplementsBoundedLog == Bounded!Spec

\* A rotation gives up one file and no more: once something is lost, all files
\* but one are still full, less one for each rotation that was torn.
RetainsEnough ==
    Len(Retained) < Len(written) =>
        Len(Retained) >= (LogFilesCount - 1 - torn) * (MaxFileBytes - 1)

\* Every request is on its way, or has exactly one line, or has met a failure.
AuditedOnce ==
    /\ \A i, j \in 1..Len(written) : written[i] = written[j] => i = j
    /\ \A n \in 1..requests :
         \/ n \in missed
         \/ \E i \in 1..Len(written) : written[i] = n
         \/ \E c \in Clients : handler[c].at # "none" /\ handler[c].line = n

\* An answered request leaves the lock behind, whatever fails, so that no client
\* has to wait for ever.
HandlersReturn == \A c \in Clients : handler[c].at = "answered" ~> handler[c].at = "none"
===============================================================================

--------------------------------- MODULE Mirror ---------------------------------
(***************************************************************************)
(* Mirroring of one log (cmd/runmqserver/mirror.go): a goroutine tails a   *)
(* file that another program writes and rotates, until it is cancelled.    *)
(*                                                                         *)
(* A fragment is what one write adds to the log; fragments are numbered in *)
(* the order they are written.  The log is a succession of files: the path *)
(* names the last of them, or none between the two steps of a rotation.    *)
(* Where lines begin and end is not modelled: a scanner splits what it     *)
(* reads into lines, and what follows the last line end is one more.       *)
(***************************************************************************)
EXTENDS Integers, Sequences

CONSTANTS
    FromStart,      \* values of the argument fromStart: {0}, {1} or {0, 1}
    MaxFiles,       \* bound: files the log consists of
    MaxFragments    \* bound: fragments written

ASSUME MirrorAssumption ==
    FromStart \subseteq {0, 1} /\ MaxFiles \in Nat /\ MaxFragments \in Nat

VARIABLES
    base,       \* base[g]: fragments written before file g was created
    path,       \* "present" or "absent"
    written,    \* fragments written
    volume,     \* "sound", or "broken": a call may fail though there is a file
    cancelled,  \* ctx.Done()
    mpc,        \* where the mirror is
    fromStart,  \* its argument
    offset,     \* length of the file when mirrorLog saw it
    fd,         \* the file it holds open, 0 if none
    fi,         \* the file that it takes fd for
    newFI,      \* the file that waitForFile has found
    pos,        \* fragments up to its position in fd
    closing,    \* one more time through the loop
    out,        \* the fragments given to the mirror function
    from,       \* history: the fragment after which it has to start
    mark,       \* history: fragments written when it was cancelled
    overtaken   \* history: "yes" once the log was rotated too early for it

logVars == <<base, path, written, volume>>
ctxVars == <<cancelled, mark>>
argVars == <<fromStart, offset, from>>
vars == <<logVars, ctxVars, argVars, mpc, fd, fi, newFI, pos, closing, out, overtaken>>

Ended == {"returned", "failed"}
Stages == {"stat", "open", "await", "openLate", "read", "wait", "drain", "reopen",
           "readNew", "select"} \cup Ended

TypeOK ==
    /\ base \in Seq(Nat) /\ Len(base) <= MaxFiles
    /\ path \in {"present", "absent"}
    /\ written \in 0..MaxFragments
    /\ volume \in {"sound", "broken"}
    /\ cancelled \in {"no", "yes"}
    /\ mpc \in Stages
    /\ fromStart \in {0, 1}
    /\ offset \in 0..MaxFragments
    /\ {fd, fi, newFI} \subseteq 0..Len(base)
    /\ pos \in Nat
    /\ closing \in {"no", "yes"}
    /\ out \in Seq(Nat)
    /\ from \in 0..written
    /\ mark \in 0..written
    /\ overtaken \in {"no", "yes"}

\* The file the path names, or named last.
Current == Len(base)

\* The number of the last fragment of file g.
End(g) == IF g = Current THEN written ELSE base[g + 1]

\* The log may be there already, with one fragment or none.
Init ==
    /\ \/ path = "present" /\ base = <<0>> /\ written \in 0..1 /\ written <= MaxFragments
       \/ path = "absent" /\ base = <<>> /\ written = 0
    /\ Len(base) <= MaxFiles /\ volume = "sound"
    /\ cancelled = "no" /\ mark = 0
    /\ mpc = "stat" /\ fromStart \in FromStart /\ offset = 0
    /\ fd = 0 /\ fi = 0 /\ newFI = 0 /\ pos = 0 /\ closing = "no"
    /\ out = <<>> /\ from = 0 /\ overtaken = "no"

-------------------------------------------------------------------------------
(***************************************************************************)
(* The writer, and the context.                                            *)
(***************************************************************************)

\* The mirror is where a rotation cannot escape it: it has the current file
\* and knows it.  Before it starts and after it ends there is nothing to miss.
Following == mpc \in Ended \cup {"stat"} \/ (fd = Current /\ fi = Current)

Write ==
    /\ path = "present"
    /\ written < MaxFragments
    /\ written' = written + 1
    /\ UNCHANGED <<base, path, volume, ctxVars, argVars, mpc, fd, fi, newFI, pos, closing, out,
                   overtaken>>

\* The file gets another name ...
RotateAway ==
    /\ path = "present"
    /\ Current < MaxFiles
    /\ path' = "absent"
    /\ overtaken' = IF Following THEN overtaken ELSE "yes"
    /\ UNCHANGED <<base, written, volume, ctxVars, argVars, mpc, fd, fi, newFI, pos, closing, out>>

\* ... and a new one takes its place.
Create ==
    /\ path = "absent"
    /\ Current < MaxFiles
    /\ path' = "present"
    /\ base' = Append(base, written)
    /\ UNCHANGED <<written, volume, ctxVars, argVars, mpc, fd, fi, newFI, pos, closing, out,
                   overtaken>>

\* From some time on os.Stat, os.OpenFile or f.Stat may return an error other
\* than that there is no such file: permissions, a lost mount, no descriptors.
Break ==
    /\ volume = "sound"
    /\ volume' = "broken"
    /\ UNCHANGED <<base, path, written, ctxVars, argVars, mpc, fd, fi, newFI, pos, closing,
                   out, overtaken>>

\* cancelMirror, once the queue manager has ended or start-up has failed.
Cancel ==
    /\ cancelled = "no"
    /\ cancelled' = "yes" /\ mark' = written
    /\ UNCHANGED <<logVars, argVars, mpc, fd, fi, newFI, pos, closing, out, overtaken>>

-------------------------------------------------------------------------------
(***************************************************************************)
(* mirrorLog, up to the start of its goroutine.                            *)
(***************************************************************************)

\* A fault: offset stays -1 if there is no file.
Stat_NoReset ==
    /\ mpc = "stat"
    /\ IF path = "present"
         THEN /\ mpc' = "open"
              /\ offset' = written - base[Current]
              /\ from' = IF fromStart = 1 THEN base[Current] ELSE written
         ELSE mpc' = "await" /\ offset' = -1 /\ from' = written
    /\ UNCHANGED <<logVars, ctxVars, fromStart, fd, fi, newFI, pos, closing, out, overtaken>>

\* os.Stat(path): a file that is there is read from its present end, unless
\* fromStart; one that is not is read from its beginning.
Stat ==
    /\ mpc = "stat"
    /\ IF path = "present"
         THEN /\ mpc' = "open"
              /\ offset' = written - base[Current]
              /\ from' = IF fromStart = 1 THEN base[Current] ELSE written
         ELSE /\ mpc' = "await"
              /\ from' = written
              /\ UNCHANGED offset
    /\ UNCHANGED <<logVars, ctxVars, fromStart, fd, fi, newFI, pos, closing, out, overtaken>>

\* os.OpenFile, and in the goroutine f.Stat and f.Seek(offset, 0), which leaves the position
\* beyond the end of a file that is shorter than offset.
Open ==
    /\ mpc = "open" /\ path = "present"
    /\ mpc' = "read"
    /\ fd' = Current /\ fi' = Current
    /\ pos' = base[Current] + IF offset # 0 /\ fromStart = 0 THEN offset ELSE 0
    /\ UNCHANGED <<logVars, ctxVars, argVars, newFI, closing, out, overtaken>>

\* The path names nothing when the file is to be opened.
OpenFails ==
    /\ mpc \in {"open", "openLate", "reopen"} /\ path = "absent"
    /\ mpc' = "failed"
    /\ UNCHANGED <<logVars, ctxVars, argVars, fd, fi, newFI, pos, closing, out, overtaken>>

-------------------------------------------------------------------------------
(***************************************************************************)
(* The goroutine.                                                          *)
(***************************************************************************)

\* waitForFile returns with the file it has found; it polls while there is none.
Await ==
    /\ mpc = "await" /\ path = "present"
    /\ mpc' = "openLate"
    /\ UNCHANGED <<logVars, ctxVars, argVars, fd, fi, newFI, pos, closing, out, overtaken>>

OpenLate ==
    /\ mpc = "openLate" /\ path = "present"
    /\ mpc' = "read"
    /\ fd' = Current /\ fi' = Current /\ pos' = base[Current]
    /\ UNCHANGED <<logVars, ctxVars, argVars, newFI, closing, out, overtaken>>

\* A fault: the first waitForFile goes on polling when the context is cancelled.
WaitFails_Later ==
    /\ mpc = "wait" /\ path = "absent" /\ cancelled = "yes"
    /\ mpc' = "failed"
    /\ UNCHANGED <<logVars, ctxVars, argVars, fd, fi, newFI, pos, closing, out, overtaken>>

\* waitForFile gives up when the context is cancelled and there is no file.
WaitFails ==
    /\ mpc \in {"await", "wait"} /\ path = "absent" /\ cancelled = "yes"
    /\ mpc' = "failed"
    /\ UNCHANGED <<logVars, ctxVars, argVars, fd, fi, newFI, pos, closing, out, overtaken>>

\* mirrorAvailableMessages: all there is in fd beyond the position.
MirrorAvailable ==
    IF pos < End(fd)
      THEN /\ out' = out \o [i \in 1..(End(fd) - pos) |-> pos + i]
           /\ pos' = End(fd)
      ELSE UNCHANGED <<out, pos>>

Read ==
    /\ \/ mpc = "read" /\ mpc' = "wait"
       \/ mpc = "readNew" /\ mpc' = "select"
    /\ MirrorAvailable
    /\ UNCHANGED <<logVars, ctxVars, argVars, fd, fi, newFI, closing, overtaken>>

\* A fault: files are compared by name.
Wait_Name ==
    /\ mpc = "wait" /\ path = "present"
    /\ newFI' = Current
    /\ mpc' = "select"
    /\ UNCHANGED <<logVars, ctxVars, argVars, fd, fi, pos, closing, out, overtaken>>

\* waitForFile returns; os.SameFile(fi, newFI) decides.
Wait ==
    /\ mpc = "wait" /\ path = "present"
    /\ newFI' = Current
    /\ mpc' = IF fi = Current THEN "select" ELSE "drain"
    /\ UNCHANGED <<logVars, ctxVars, argVars, fd, fi, pos, closing, out, overtaken>>

\* A fault: what the old file got after it was read last is left behind.
Drain_Skip ==
    /\ mpc = "drain"
    /\ mpc' = "reopen"
    /\ UNCHANGED <<logVars, ctxVars, argVars, fd, fi, newFI, pos, closing, out, overtaken>>

\* The rest of the old file, which is then closed.
Drain ==
    /\ mpc = "drain"
    /\ mpc' = "reopen"
    /\ MirrorAvailable
    /\ UNCHANGED <<logVars, ctxVars, argVars, fd, fi, newFI, closing, overtaken>>

\* A fault: the position in the old file is kept.
Reopen_KeepOffset ==
    /\ mpc = "reopen" /\ path = "present"
    /\ mpc' = "readNew"
    /\ fd' = Current /\ fi' = newFI /\ pos' = base[Current] + offset
    /\ UNCHANGED <<logVars, ctxVars, argVars, newFI, closing, out, overtaken>>

\* The file is whichever the path names by now; newFI was found before.
Reopen ==
    /\ mpc = "reopen" /\ path = "present"
    /\ mpc' = "readNew"
    /\ fd' = Current /\ fi' = newFI /\ pos' = base[Current]
    /\ UNCHANGED <<logVars, ctxVars, argVars, newFI, closing, out, overtaken>>

\* select on ctx.Done()
Select ==
    /\ mpc = "select"
    /\ IF cancelled = "yes" /\ closing = "yes"
         THEN mpc' = "returned" /\ UNCHANGED closing
         ELSE mpc' = "read" /\ closing' = cancelled
    /\ UNCHANGED <<logVars, ctxVars, argVars, fd, fi, newFI, pos, out, overtaken>>

\* Any other error of the calls that name the file ends the mirror at once,
\* cancelled or not.
FileFails ==
    /\ mpc \in {"stat", "open", "openLate", "await", "wait", "reopen"}
    /\ volume = "broken"
    /\ mpc' = "failed"
    /\ UNCHANGED <<logVars, ctxVars, argVars, fd, fi, newFI, pos, closing, out, overtaken>>

-------------------------------------------------------------------------------
Environment == Write \/ RotateAway \/ Create \/ Break \/ Cancel

Progress ==
    \/ Stat \/ Open \/ OpenFails \/ Await \/ OpenLate \/ WaitFails \/ Read \/ Wait
    \/ Drain \/ Reopen \/ Select

MirrorStep == Progress \/ FileFails

Next == Environment \/ MirrorStep

\* The goroutine runs, no call is bound to fail, and a rotation that has begun is completed.  Whether there
\* ever is a first file is up to the queue manager.
Fairness == WF_vars(Progress) /\ WF_vars(Current > 0 /\ Create)

Spec == Init /\ [][Next]_vars
FairSpec == Spec /\ Fairness

-------------------------------------------------------------------------------
(***************************************************************************)
(* Properties.                                                             *)
(***************************************************************************)

\* Even when the log is rotated faster than the mirror follows, what comes out
\* jumps only to the beginning of a file, and never within one.
JumpsToFileStart ==
    \A i \in 1..(Len(out) - 1) :
        out[i + 1] = out[i] + 1 \/ \E g \in 1..Current : out[i + 1] = base[g] + 1

PipeStatus ==
    IF overtaken = "yes" THEN "void"
    ELSE CASE mpc = "stat" -> "new"
           [] mpc = "returned" -> "complete"
           [] mpc = "failed" -> "failed"
           [] OTHER -> "open"

Abs == INSTANCE Pipe WITH status <- PipeStatus, closed <- cancelled, source <- volume

\* As long as no rotation comes too early, the mirror is a pipe: nothing lost,
\* repeated or reordered across a rotation, and all that was written before it
\* was cancelled is out when it returns.  It fails only if it was cancelled or a
\* call on its file has failed.
ImplementsPipe == Abs!Spec

\* A cancelled mirror ends, with or without a file: doMain waits for it.
CancelLeadsToEnd == cancelled = "yes" ~> mpc \in Ended

\* What is written comes out, across rotations, without anything more being
\* written, unless the mirror is cancelled, overtaken or ended by an error of
\* the file system first (when ImplementsPipe lets it end).
EventuallyMirrored ==
    \A n \in 1..MaxFragments :
        (written >= n /\ mpc # "stat") ~>
            (from + Len(out) >= n \/ cancelled = "yes" \/ overtaken = "yes" \/ mpc = "failed")

\* The warning about a rotation that comes too early says that messages may be
\* skipped: it does not say that they may be printed twice.
NothingTwice == \A i, j \in 1..Len(out) : out[i] = out[j] => i = j
===============================================================================

------------------------------- MODULE BoundedLog -------------------------------
(***************************************************************************)
(* What the audit log promises: lines are added at its end, and if         *)
(* something has to go it is the oldest lines.  A line never changes its   *)
(* place, and none disappears between two others.                          *)
(***************************************************************************)
EXTENDS Naturals, Sequences

CONSTANT Line      \* the lines there may be

VARIABLES
    log,        \* the lines that are kept
    written     \* all lines ever written

Init == log = <<>> /\ written = <<>>

WriteLine ==
    \E line \in Line :
        /\ log' = Append(log, line)
        /\ written' = Append(written, line)

DropOldest ==
    /\ \E n \in 1..Len(log) : log' = SubSeq(log, n + 1, Len(log))
    /\ UNCHANGED written

Next == WriteLine \/ DropOldest

Spec == Init /\ [][Next]_<<log, written>>
===============================================================================

---------------------------------- MODULE Pipe ----------------------------------
(***************************************************************************)
(* What the mirror of a log promises to the reader of the container's      *)
(* console: from some point on, what is written to the log comes out in    *)
(* the order it was written, nothing twice and nothing left out, and when  *)
(* the mirror has finished everything is out that was written before it    *)
(* was told to stop.  It fails only after it was told to stop or once its  *)
(* source is broken: what is out by then is in order and without gaps, but *)
(* need not be all.  It promises nothing once the log has been rotated     *)
(* faster than the mirror follows.                                         *)
(***************************************************************************)
EXTENDS Integers, Sequences

VARIABLES
    status,     \* "new", "open", "complete", "failed" or "void"
    written,    \* fragments written: fragment n is the n-th
    from,       \* the number of the last fragment that is not mirrored
    out,        \* the fragments mirrored
    source,     \* "sound" until the files of the log cannot be relied on
    closed,     \* "yes" once the mirror was told to stop
    mark        \* fragments written before that

vars == <<status, written, from, out, source, closed, mark>>

Init ==
    /\ status = "new" /\ written \in Nat /\ from = 0 /\ out = <<>>
    /\ source = "sound" /\ closed = "no" /\ mark = 0

Write == written' = written + 1 /\ UNCHANGED <<status, from, out, source, closed, mark>>

Break == source' = "broken" /\ UNCHANGED <<status, written, from, out, closed, mark>>

Attach ==
    /\ status = "new"
    /\ status' = "open"
    /\ from' \in 0..written
    /\ UNCHANGED <<written, out, source, closed, mark>>

\* Mirrored are the next fragments, the first of which is number from + 1.
Deliver ==
    /\ status = "open"
    /\ \E k \in 1..(written - from - Len(out)) :
         out' = [i \in 1..(Len(out) + k) |-> from + i]
    /\ \A i \in 1..Len(out) : out[i] = from + i
    /\ UNCHANGED <<status, written, from, source, closed, mark>>

Close ==
    /\ closed = "no"
    /\ closed' = "yes" /\ mark' = written
    /\ UNCHANGED <<status, written, from, out, source>>

Finish ==
    /\ status = "open" /\ closed = "yes"
    /\ from + Len(out) >= mark
    /\ status' = "complete"
    /\ UNCHANGED <<written, from, out, source, closed, mark>>

Fail ==
    /\ \/ status = "open" /\ closed = "yes"
       \/ status \in {"new", "open"} /\ source = "broken"
    /\ status' = "failed"
    /\ UNCHANGED <<written, from, out, source, closed, mark>>

Overtake ==
    /\ status = "open"
    /\ status' = "void"
    /\ UNCHANGED <<written, from, out, source, closed, mark>>

Void == status = "void" /\ status' = "void"

Next == Write \/ Break \/ Attach \/ Deliver \/ Close \/ Finish \/ Fail \/ Overtake \/ Void

Spec == Init /\ [][Next]_vars
===============================================================================

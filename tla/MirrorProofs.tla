------------------------------ MODULE MirrorProofs ------------------------------
(***************************************************************************)
(* Proofs about the mirror of a log, for any number of files and of        *)
(* fragments: unless it is overtaken, the mirror is a pipe.                *)
(*                                                                         *)
(* The argument: a mirror that is not overtaken holds the current file or, *)
(* once that has been replaced, the one before it (Attached), and its      *)
(* position in the log is where its output ends (Kept).  After it has seen *)
(* the cancellation it goes on until its position is beyond what was       *)
(* written by then (SecondPass).                                           *)
(***************************************************************************)
EXTENDS Mirror, TLAPS

\* The stages before there is a file, and those with one.
Opening == {"stat", "open", "await", "openLate"}
Reading == {"read", "wait", "drain", "reopen", "readNew", "select"}

FileHeld == (mpc \in Reading => fd \in 1..Current) /\ (mpc \in Opening => fd = 0)

FilesOrdered ==
    /\ path = "present" => Current >= 1
    /\ \A g \in 1..Current : base[g] <= written
    /\ \A g \in 1..(Current - 1) : base[g] <= base[g + 1]

ClosingCancelled ==
    /\ closing = "yes" => cancelled = "yes"
    /\ mpc = "returned" => closing = "yes"

TypeInv == TypeOK /\ FileHeld /\ FilesOrdered /\ ClosingCancelled

\* Before the file is open, from is where its reading will begin.
Beginning ==
    /\ mpc \in Opening => out = <<>>
    /\ mpc = "open" =>
         /\ path = "present"
         /\ from = base[Current] + IF offset # 0 /\ fromStart = 0 THEN offset ELSE 0
    /\ mpc \in {"await", "openLate"} =>
         from = IF path = "present" THEN base[Current] ELSE written
    /\ mpc = "openLate" => path = "present"

Attached ==
    /\ fd = Current \/ (fd = Current - 1 /\ path = "present")
    /\ fi = fd
    /\ mpc \in {"drain", "reopen"} => fd = Current - 1 /\ newFI = Current
    /\ pos = from + Len(out)
    /\ base[fd] <= pos /\ pos <= End(fd)
    /\ mpc = "reopen" => pos = End(fd)

SecondPass ==
    /\ (closing = "yes" /\ mpc = "wait") => (pos >= mark \/ fd # Current)
    /\ (closing = "yes" /\ mpc = "readNew") => End(fd) >= mark
    /\ (closing = "yes" /\ mpc = "select") => pos >= mark
    /\ mpc = "returned" => from + Len(out) >= mark

InOrder == out = [i \in 1..Len(out) |-> from + i]

Kept == InOrder /\ Beginning /\ (mpc \in Reading => Attached) /\ SecondPass

IInv == TypeInv /\ (overtaken = "no" => Kept)

-------------------------------------------------------------------------------
\* What MirrorAvailable appends continues the numbering.
LEMMA Continues ==
    ASSUME NEW s \in Seq(Nat), NEW f \in Nat, NEW n \in Nat,
           s = [i \in 1..Len(s) |-> f + i]
    PROVE  LET t == s \o [i \in 1..n |-> (f + Len(s)) + i]
           IN  t = [i \in 1..(Len(s) + n) |-> f + i] /\ Len(t) = Len(s) + n
<1> DEFINE u == [i \in 1..n |-> (f + Len(s)) + i]
           t == s \o u
<1>1. u \in Seq(Nat) /\ Len(u) = n
  OBVIOUS
<1>2. t \in Seq(Nat) /\ Len(t) = Len(s) + n
  BY <1>1
<1>3. \A i \in 1..(Len(s) + n) : t[i] = f + i
  <2> SUFFICES ASSUME NEW i \in 1..(Len(s) + n) PROVE t[i] = f + i
    OBVIOUS
  <2>1. CASE i <= Len(s)
    <3>1. t[i] = s[i]
      BY <1>1, <2>1
    <3> QED
      BY <2>1, <3>1
  <2>2. CASE i > Len(s)
    <3>1. t[i] = u[i - Len(s)]
      BY <1>1, <2>2
    <3> QED
      BY <2>2, <3>1
  <2> QED
    BY <2>1, <2>2
<1>4. t = [i \in 1..(Len(s) + n) |-> f + i]
  BY <1>2, <1>3
<1> QED
  BY <1>2, <1>4

\* The end of a file is in the log, at or beyond its beginning.
LEMMA EndType ==
    ASSUME TypeInv, NEW g \in 1..Current
    PROVE  End(g) \in Nat /\ End(g) <= written /\ base[g] \in Nat /\ base[g] <= End(g)
  BY DEF TypeInv, TypeOK, FilesOrdered, End, Current

\* Reading keeps the type of the output and of the position.
LEMMA AvailableType ==
    ASSUME TypeInv, mpc \in Reading, MirrorAvailable
    PROVE  out' \in Seq(Nat) /\ pos' \in Nat
<1>1. fd \in 1..Current
  BY DEF TypeInv, FileHeld
<1>2. End(fd) \in Nat
  BY <1>1, EndType
<1>3. CASE pos < End(fd)
  <2> DEFINE n == End(fd) - pos
  <2> DEFINE u == [i \in 1..n |-> pos + i]
  <2>0. n \in Nat /\ pos \in Nat
    BY <1>2, <1>3 DEF TypeInv, TypeOK
  <2>1. out' = out \o u /\ pos' = End(fd)
    BY <1>3 DEF MirrorAvailable
  <2> HIDE DEF n
  <2>2. u \in Seq(Nat)
    BY <2>0
  <2>3. out \in Seq(Nat)
    BY DEF TypeInv, TypeOK
  <2> HIDE DEF u
  <2> QED
    BY <1>2, <2>1, <2>2, <2>3
<1>4. CASE ~(pos < End(fd))
  BY <1>4 DEF MirrorAvailable, TypeInv, TypeOK
<1> QED
  BY <1>3, <1>4

\* Every step keeps the types, the files in order and a held file.
LEMMA TypeStep == TypeInv /\ [Next]_vars => TypeInv'
<1> SUFFICES ASSUME TypeInv, [Next]_vars PROVE TypeInv'
  OBVIOUS
<1> USE MirrorAssumption DEF TypeInv, TypeOK, FileHeld, FilesOrdered, ClosingCancelled, Current,
    Opening, Reading, Stages, Ended
<1>1. CASE UNCHANGED vars
  BY <1>1 DEF vars, logVars, ctxVars, argVars
<1>2. CASE Write
  BY <1>2 DEF Write, ctxVars, argVars
<1>3. CASE RotateAway
  BY <1>3 DEF RotateAway, ctxVars, argVars
<1>4. CASE Create
  BY <1>4 DEF Create, ctxVars, argVars
<1>5. CASE Cancel
  BY <1>5 DEF Cancel, logVars, argVars
<1>6. CASE Stat
  BY <1>6 DEF Stat, logVars, ctxVars
<1>7. CASE Open
  BY <1>7 DEF Open, logVars, ctxVars, argVars
<1>8. CASE OpenFails
  BY <1>8 DEF OpenFails, logVars, ctxVars, argVars
<1>9. CASE Await
  BY <1>9 DEF Await, logVars, ctxVars, argVars
<1>10. CASE OpenLate
  BY <1>10 DEF OpenLate, logVars, ctxVars, argVars
<1>11. CASE WaitFails
  BY <1>11 DEF WaitFails, logVars, ctxVars, argVars
<1>12. CASE Read
  <2>1. out' \in Seq(Nat) /\ pos' \in Nat
    BY <1>12, AvailableType DEF Read
  <2> QED
    BY <1>12, <2>1 DEF Read, logVars, ctxVars, argVars
<1>13. CASE Wait
  BY <1>13 DEF Wait, logVars, ctxVars, argVars
<1>14. CASE Drain
  <2>1. out' \in Seq(Nat) /\ pos' \in Nat
    BY <1>14, AvailableType DEF Drain
  <2> QED
    BY <1>14, <2>1 DEF Drain, logVars, ctxVars, argVars
<1>15. CASE Reopen
  BY <1>15 DEF Reopen, logVars, ctxVars, argVars
<1>16. CASE Select
  BY <1>16 DEF Select, logVars, ctxVars, argVars
<1>17. CASE Break
  BY <1>17 DEF Break, ctxVars, argVars
<1>18. CASE FileFails
  BY <1>18 DEF FileFails, logVars, ctxVars, argVars
<1> QED
  BY <1>1, <1>2, <1>3, <1>4, <1>5, <1>6, <1>7, <1>8, <1>9, <1>10, <1>11, <1>12, <1>13, <1>14,
     <1>15, <1>16, <1>17, <1>18 DEF Next, Environment, MirrorStep, Progress

-------------------------------------------------------------------------------
\* Reading to the end of the file that is held keeps the output in order, and
\* brings the position to that end.
LEMMA AvailableKeeps ==
    ASSUME TypeInv, InOrder, Attached, mpc \in Reading, MirrorAvailable, from' = from
    PROVE  /\ InOrder'
           /\ pos' = End(fd)
           /\ pos' = from + Len(out')
           /\ out' = out \/ \E k \in 1..(written - from - Len(out)) :
                                out' = [i \in 1..(Len(out) + k) |-> from + i]
<1>1. fd \in 1..Current
  BY DEF TypeInv, FileHeld
<1>2. End(fd) \in Nat /\ End(fd) <= written /\ written \in Nat /\ from \in Nat
        /\ out \in Seq(Nat) /\ Len(out) \in Nat
  BY <1>1, EndType, MirrorAssumption DEF TypeInv, TypeOK
<1>3. pos = from + Len(out) /\ pos <= End(fd)
  BY DEF Attached
<1>4. CASE pos < End(fd)
  <2> DEFINE n == End(fd) - pos
  <2>1. n \in Nat \ {0} /\ n <= written - from - Len(out)
    BY <1>2, <1>3, <1>4
  <2>2. out' = out \o [i \in 1..n |-> (from + Len(out)) + i] /\ pos' = End(fd)
    BY <1>3, <1>4 DEF MirrorAvailable
  <2>3. out' = [i \in 1..(Len(out) + n) |-> from + i] /\ Len(out') = Len(out) + n
    <3> HIDE DEF n
    <3> QED
      BY <1>2, <2>1, <2>2, Continues DEF InOrder
  <2>4. InOrder'
    BY <2>3 DEF InOrder
  <2>5. pos' = from + Len(out')
    BY <1>2, <1>3, <2>2, <2>3
  <2>6. n \in 1..(written - from - Len(out))
    BY <1>2, <2>1
  <2> QED
    BY <2>2, <2>3, <2>4, <2>5, <2>6
<1>5. CASE ~(pos < End(fd))
  <2>1. out' = out /\ pos' = pos
    BY <1>5 DEF MirrorAvailable
  <2> QED
    BY <1>2, <1>3, <1>5, <2>1 DEF InOrder
<1> QED
  BY <1>4, <1>5

\* A step of the writer or of the context keeps what is kept.
LEMMA EnvironmentKeeps ==
    ASSUME IInv, overtaken' = "no", Environment PROVE Kept'
<1>1. overtaken = "no"
  BY DEF IInv, TypeInv, TypeOK, Environment, Write, RotateAway, Create, Break, Cancel
<1> USE <1>1, MirrorAssumption
    DEF IInv, TypeInv, TypeOK, FileHeld, FilesOrdered, ClosingCancelled, Kept, InOrder,
        Beginning, Attached, SecondPass, End, Current, Opening, Reading, Stages, Ended
<1>2. CASE Write
  BY <1>2 DEF Write, ctxVars, argVars
<1>3. CASE RotateAway
  BY <1>3 DEF RotateAway, Following, ctxVars, argVars
<1>4. CASE Create
  BY <1>4 DEF Create, ctxVars, argVars
<1>5. CASE Cancel
  BY <1>5 DEF Cancel, logVars, argVars
<1>6. CASE Break
  BY <1>6 DEF Break, ctxVars, argVars
<1> QED
  BY <1>2, <1>3, <1>4, <1>5, <1>6 DEF Environment

\* A step of the mirror keeps what is kept.
LEMMA MirrorKeeps ==
    ASSUME IInv, overtaken' = "no", MirrorStep PROVE Kept'
<1>1. overtaken = "no" /\ Kept /\ TypeInv
  BY DEF IInv, TypeInv, TypeOK, MirrorStep, Progress, Stat, Open, OpenFails, Await, OpenLate,
     WaitFails, Read, Wait, Drain, Reopen, Select, FileFails
<1>12. CASE Read
  <2>1. mpc \in Reading /\ from' = from /\ Attached /\ InOrder
    BY <1>1, <1>12 DEF Read, Reading, Kept, argVars
  <2>2. InOrder' /\ pos' = End(fd) /\ pos' = from + Len(out')
    BY <1>1, <1>12, <2>1, AvailableKeeps DEF Read
  <2>3. fd \in 1..Current /\ End(fd) <= written /\ base[fd] <= End(fd)
    BY <1>1, <2>1, EndType DEF TypeInv, FileHeld
  <2> QED
    BY <1>1, <1>12, <2>1, <2>2, <2>3 DEF Read, logVars, ctxVars, argVars, TypeInv, TypeOK, Kept,
       Beginning, Attached, SecondPass, End, Current, Opening, Reading
<1>14. CASE Drain
  <2>1. mpc \in Reading /\ from' = from /\ Attached /\ InOrder
    BY <1>1, <1>14 DEF Drain, Reading, Kept, argVars
  <2>2. InOrder' /\ pos' = End(fd) /\ pos' = from + Len(out')
    BY <1>1, <1>14, <2>1, AvailableKeeps DEF Drain
  <2>3. fd \in 1..Current /\ End(fd) <= written /\ base[fd] <= End(fd)
    BY <1>1, <2>1, EndType DEF TypeInv, FileHeld
  <2> QED
    BY <1>1, <1>14, <2>1, <2>2, <2>3 DEF Drain, logVars, ctxVars, argVars, TypeInv, TypeOK, Kept,
       Beginning, Attached, SecondPass, End, Current, Opening, Reading
<1> USE <1>1, MirrorAssumption
    DEF TypeInv, TypeOK, FileHeld, FilesOrdered, ClosingCancelled, Kept, InOrder, Beginning,
        Attached, SecondPass, End, Current, Opening, Reading, Stages, Ended
<1>6. CASE Stat
  BY <1>6 DEF Stat, logVars, ctxVars
<1>7. CASE Open
  BY <1>7 DEF Open, logVars, ctxVars, argVars
<1>8. CASE OpenFails
  BY <1>8 DEF OpenFails, logVars, ctxVars, argVars
<1>9. CASE Await
  BY <1>9 DEF Await, logVars, ctxVars, argVars
<1>10. CASE OpenLate
  BY <1>10 DEF OpenLate, logVars, ctxVars, argVars
<1>11. CASE WaitFails
  BY <1>11 DEF WaitFails, logVars, ctxVars, argVars
<1>13. CASE Wait
  BY <1>13 DEF Wait, logVars, ctxVars, argVars
<1>15. CASE Reopen
  BY <1>15 DEF Reopen, logVars, ctxVars, argVars
<1>16. CASE Select
  BY <1>16 DEF Select, logVars, ctxVars, argVars
<1>17. CASE FileFails
  BY <1>17 DEF FileFails, logVars, ctxVars, argVars
<1> QED
  BY <1>6, <1>7, <1>8, <1>9, <1>10, <1>11, <1>12, <1>13, <1>14, <1>15, <1>16,
     <1>17 DEF MirrorStep, Progress

\* The inductive invariant of the mirror.
THEOREM Inductive == Spec => []IInv
<1>1. Init => IInv
  <2> SUFFICES ASSUME Init PROVE IInv
    OBVIOUS
  <2> USE MirrorAssumption DEF Init, Current
  <2>0. base \in Seq(Nat) /\ FilesOrdered
    <3>1. CASE base = <<0>>
      BY <3>1 DEF FilesOrdered
    <3>2. CASE base = <<>>
      BY <3>2 DEF FilesOrdered
    <3> QED
      BY <3>1, <3>2
  <2>1. TypeInv
    BY <2>0 DEF TypeInv, TypeOK, FileHeld, ClosingCancelled, Stages, Ended, Opening, Reading
  <2>2. Kept
    BY DEF Kept, InOrder, Beginning, SecondPass, Opening, Reading
  <2> QED
    BY <2>1, <2>2 DEF IInv
<1>2. IInv /\ [Next]_vars => IInv'
  <2> SUFFICES ASSUME IInv, [Next]_vars PROVE IInv'
    OBVIOUS
  <2>1. TypeInv'
    BY TypeStep DEF IInv
  <2>2. CASE UNCHANGED vars
    BY <2>1, <2>2 DEF vars, logVars, ctxVars, argVars, IInv, Kept, InOrder, Beginning, Attached,
       SecondPass, End, Current, Opening, Reading
  <2>3. CASE Next
    BY <2>1, <2>3, EnvironmentKeeps, MirrorKeeps DEF IInv, Next
  <2> QED
    BY <2>2, <2>3
<1> QED
  BY <1>1, <1>2, PTL DEF Spec

\* Type correctness of the mirror.
THEOREM TypeCorrect == Spec => []TypeOK
<1>1. IInv => TypeOK
  BY DEF IInv, TypeInv
<1> QED
  BY <1>1, Inductive, PTL

-------------------------------------------------------------------------------
(***************************************************************************)
(* What is left of the order when the mirror is overtaken.                 *)
(***************************************************************************)

FileStart(n) == \E g \in 1..Current : n = base[g]

\* The next fragment follows the last one that came out, or is the first of a file.
AtSeam == out = <<>> \/ pos = out[Len(out)] \/ FileStart(pos)

\* Nothing comes out before a file is open.
SeamInv == (mpc \in Opening => out = <<>>) /\ (mpc \in Reading => AtSeam) /\ JumpsToFileStart

\* Where a file starts does not change when more is written or another is created.
LEMMA SeamsKept ==
    ASSUME TypeInv, SeamInv, UNCHANGED <<mpc, out, pos>>,
           base' = base \/ base' = Append(base, written)
    PROVE  SeamInv'
<1>1. base \in Seq(Nat) /\ written \in Nat
  BY MirrorAssumption DEF TypeInv, TypeOK
<1>2. \A g \in 1..Len(base) : g \in 1..Len(base') /\ base'[g] = base[g]
  BY <1>1
<1>3. AtSeam => AtSeam'
  BY <1>2 DEF AtSeam, FileStart, Current
<1>4. JumpsToFileStart'
  BY <1>2 DEF SeamInv, JumpsToFileStart, Current
<1> QED
  BY <1>3, <1>4 DEF SeamInv

\* What a sequence with a run of numbers behind it consists of.
LEMMA Appended ==
    ASSUME NEW s \in Seq(Nat), NEW p \in Nat, NEW n \in Nat
    PROVE  LET t == s \o [i \in 1..n |-> p + i]
           IN  /\ Len(t) = Len(s) + n
               /\ \A i \in 1..Len(s) : t[i] = s[i]
               /\ \A i \in 1..n : t[Len(s) + i] = p + i
<1> DEFINE u == [i \in 1..n |-> p + i]
<1>1. u \in Seq(Nat) /\ Len(u) = n
  OBVIOUS
<1>2. \A i \in 1..n : u[i] = p + i
  OBVIOUS
<1> HIDE DEF u
<1>3. /\ Len(s \o u) = Len(s) + n
      /\ \A i \in 1..Len(s) : (s \o u)[i] = s[i]
      /\ \A i \in 1..n : (s \o u)[Len(s) + i] = u[i]
  BY <1>1
<1> QED
  BY <1>2, <1>3 DEF u

\* Reading goes on from the seam to the end of the file, without a jump.
LEMMA AvailableSeam ==
    ASSUME TypeInv, SeamInv, mpc \in Reading, MirrorAvailable, base' = base
    PROVE  AtSeam' /\ JumpsToFileStart'
<1>1. fd \in 1..Current /\ out \in Seq(Nat) /\ Len(out) \in Nat /\ pos \in Nat
  BY DEF TypeInv, FileHeld, TypeOK
<1>2. End(fd) \in Nat
  BY <1>1, EndType
<1>3. CASE ~(pos < End(fd))
  <2>1. out' = out /\ pos' = pos
    BY <1>3 DEF MirrorAvailable
  <2> QED
    BY <2>1 DEF SeamInv, AtSeam, FileStart, JumpsToFileStart, Current
<1>4. CASE pos < End(fd)
  <2> DEFINE n == End(fd) - pos
  <2>1. n \in Nat \ {0} /\ pos + n = End(fd)
    BY <1>1, <1>2, <1>4
  <2>2. out' = out \o [i \in 1..n |-> pos + i] /\ pos' = pos + n
    BY <1>4, <2>1 DEF MirrorAvailable
  <2>4. /\ Len(out') = Len(out) + n
        /\ \A i \in 1..Len(out) : out'[i] = out[i]
        /\ \A i \in 1..n : out'[Len(out) + i] = pos + i
    <3> HIDE DEF n
    <3> QED
      BY <1>1, <2>1, <2>2, Appended
  <2> HIDE DEF n
  <2>5. AtSeam'
    BY <1>1, <2>1, <2>2, <2>4 DEF AtSeam
  <2>6. ASSUME NEW i \in 1..(Len(out') - 1)
        PROVE  out'[i + 1] = out'[i] + 1 \/ \E g \in 1..Current : out'[i + 1] = base[g] + 1
    <3>1. CASE i < Len(out)
      <4>1. i \in 1..(Len(out) - 1) /\ out'[i] = out[i] /\ out'[i + 1] = out[i + 1]
        BY <1>1, <2>4, <3>1
      <4> QED
        BY <4>1 DEF SeamInv, JumpsToFileStart
    <3>2. CASE i = Len(out)
      <4>1. out'[i + 1] = pos + 1 /\ out'[i] = out[Len(out)] /\ out # <<>>
        BY <1>1, <2>1, <2>4, <3>2
      <4>2. pos = out[Len(out)] \/ FileStart(pos)
        BY <4>1 DEF SeamInv, AtSeam
      <4> QED
        BY <4>1, <4>2 DEF FileStart
    <3>3. CASE i > Len(out)
      <4> DEFINE j == i - Len(out)
      <4>1. j \in 1..n /\ j + 1 \in 1..n /\ i = Len(out) + j /\ i + 1 = Len(out) + (j + 1)
        BY <1>1, <2>1, <2>4, <3>3
      <4>2. out'[i] = pos + j /\ out'[i + 1] = pos + (j + 1)
        BY <2>4, <4>1
      <4> QED
        BY <1>1, <4>1, <4>2
    <3> QED
      BY <1>1, <3>1, <3>2, <3>3
  <2>7. JumpsToFileStart'
    BY <2>6 DEF JumpsToFileStart, Current
  <2> QED
    BY <2>5, <2>7
<1> QED
  BY <1>1, <1>2, <1>3, <1>4

\* Every step of the writer, the context and the mirror keeps the seams.
LEMMA SeamStep == TypeInv /\ SeamInv /\ [Next]_vars => SeamInv'
<1> SUFFICES ASSUME TypeInv, SeamInv, [Next]_vars PROVE SeamInv'
  OBVIOUS
<1>1. CASE Write \/ RotateAway \/ Create \/ Break \/ Cancel \/ UNCHANGED vars
  BY <1>1, SeamsKept DEF Write, RotateAway, Create, Break, Cancel, vars, logVars
<1>2. CASE Read \/ Drain
  <2>1. mpc \in Reading /\ mpc' \in Reading /\ MirrorAvailable /\ base' = base
    BY <1>2 DEF Read, Drain, Reading, logVars
  <2>2. mpc' \notin Opening
    BY <2>1 DEF Reading, Opening
  <2> QED
    BY <2>1, <2>2, AvailableSeam DEF SeamInv
<1>3. CASE Open \/ OpenLate
  <2>1. out' = <<>> /\ mpc' = "read"
    BY <1>3 DEF Open, OpenLate, SeamInv, Opening
  <2> QED
    BY <2>1 DEF SeamInv, AtSeam, JumpsToFileStart, Opening
<1>4. CASE Reopen
  <2>1. UNCHANGED <<base, out>> /\ pos' = base[Current] /\ mpc' = "readNew" /\ path = "present"
    BY <1>4 DEF Reopen, logVars
  <2>2. Current \in 1..Current
    BY <2>1 DEF TypeInv, TypeOK, FilesOrdered, Current
  <2>3. FileStart(pos)'
    BY <2>1, <2>2 DEF FileStart, Current
  <2> QED
    BY <2>1, <2>3 DEF SeamInv, AtSeam, JumpsToFileStart, Opening, Current
<1>5. CASE Stat \/ Await
  BY <1>5 DEF Stat, Await, logVars, SeamInv, JumpsToFileStart, Current, Opening, Reading
<1>6. CASE Wait \/ Select
  BY <1>6 DEF Wait, Select, logVars, SeamInv, AtSeam, FileStart, JumpsToFileStart, Current,
     Opening, Reading
<1>7. CASE OpenFails \/ WaitFails \/ FileFails
  BY <1>7 DEF OpenFails, WaitFails, FileFails, logVars, SeamInv, JumpsToFileStart, Current, Opening, Reading
<1> QED
  BY <1>1, <1>2, <1>3, <1>4, <1>5, <1>6, <1>7 DEF Next, Environment, MirrorStep, Progress

\* However often and early the log is rotated, the output of the mirror jumps to where a
\* file starts, and nowhere else.
THEOREM SeamsSafe == Spec => []JumpsToFileStart
<1>1. Init => SeamInv
  BY DEF Init, SeamInv, JumpsToFileStart, Reading
<1>2. IInv => TypeInv
  BY DEF IInv
<1>3. SeamInv => JumpsToFileStart
  BY DEF SeamInv
<1> QED
  BY <1>1, <1>2, <1>3, Inductive, SeamStep, PTL DEF Spec

-------------------------------------------------------------------------------
\* A step of the writer or of the context is one of the pipe's environment, or
\* the rotation that overtakes the mirror.
LEMMA EnvironmentRefines ==
    ASSUME IInv, Environment PROVE [Abs!Next]_(Abs!vars)
<1> USE DEF IInv, TypeInv, TypeOK, Abs!Next, Abs!vars, PipeStatus
<1>1. CASE Write
  BY <1>1 DEF Write, ctxVars, argVars, Abs!Write
<1>2. CASE RotateAway
  BY <1>2 DEF RotateAway, Following, Ended, Stages, ctxVars, argVars, Abs!Overtake
<1>3. CASE Create
  BY <1>3 DEF Create, ctxVars, argVars
<1>4. CASE Cancel
  BY <1>4 DEF Cancel, logVars, argVars, Abs!Close
<1>5. CASE Break
  BY <1>5 DEF Break, ctxVars, argVars, Abs!Break
<1> QED
  BY <1>1, <1>2, <1>3, <1>4, <1>5 DEF Environment

\* A step of the mirror is a step of the pipe or changes nothing of it.
LEMMA MirrorRefines ==
    ASSUME IInv, IInv', MirrorStep PROVE [Abs!Next]_(Abs!vars)
<1>1. UNCHANGED <<written, volume, cancelled, mark, overtaken>>
  BY DEF MirrorStep, Progress, Stat, Open, OpenFails, Await, OpenLate, WaitFails, Read, Wait,
     Drain, Reopen, Select, FileFails, logVars, ctxVars
<1>2. CASE overtaken = "yes"
  BY <1>1, <1>2 DEF PipeStatus, Abs!Next, Abs!Void
<1>3. CASE overtaken = "no"
  <2>1. Kept /\ Kept' /\ TypeInv
    BY <1>1, <1>3 DEF IInv
  <2>2. CASE Stat
    <3>1. from' \in 0..written
      BY <2>1, <2>2 DEF Stat, TypeInv, TypeOK, FilesOrdered, Current
    <3> QED
      BY <1>1, <1>3, <2>2, <3>1 DEF Stat, PipeStatus, Abs!Next, Abs!Attach
  <2>3. CASE Open \/ Await \/ OpenLate \/ Wait \/ Reopen
    BY <1>1, <1>3, <2>3 DEF Open, Await, OpenLate, Wait, Reopen, PipeStatus, Abs!vars, argVars
  <2>4. CASE OpenFails
    BY <2>1, <2>4 DEF OpenFails, Kept, Beginning, Attached, Reading, TypeInv, TypeOK, Current
  <2>5. CASE WaitFails
    BY <1>1, <1>3, <2>5 DEF WaitFails, PipeStatus, Abs!Next, Abs!Fail, argVars
  <2>6. ASSUME mpc \in Reading, MirrorAvailable, from' = from, PipeStatus = "open",
               PipeStatus' = "open"
        PROVE  [Abs!Next]_(Abs!vars)
    <3>1. InOrder /\ Attached
      BY <2>1, <2>6 DEF Kept
    <3>2. out' = out \/ \E k \in 1..(written - from - Len(out)) :
                           out' = [i \in 1..(Len(out) + k) |-> from + i]
      BY <2>1, <2>6, <3>1, AvailableKeeps
    <3>3. \A i \in 1..Len(out) : out[i] = from + i
      BY <3>1 DEF InOrder
    <3> QED
      BY <1>1, <2>6, <3>2, <3>3 DEF Abs!Next, Abs!vars, Abs!Deliver
  <2>7. CASE Read
    BY <1>1, <1>3, <2>6, <2>7 DEF Read, Reading, PipeStatus, argVars
  <2>8. CASE Drain
    BY <1>1, <1>3, <2>6, <2>8 DEF Drain, Reading, PipeStatus, argVars
  <2>9. CASE Select /\ mpc' = "returned"
    <3>1. from + Len(out) >= mark
      BY <1>1, <2>1, <2>9 DEF Select, Kept, SecondPass, argVars
    <3> QED
      BY <1>1, <1>3, <2>9, <3>1 DEF Select, PipeStatus, Abs!Next, Abs!Finish, argVars
  <2>10. CASE Select /\ mpc' # "returned"
    BY <1>1, <1>3, <2>10 DEF Select, PipeStatus, Abs!vars, argVars
  <2>11. CASE FileFails
    BY <1>1, <1>3, <2>11 DEF FileFails, PipeStatus, Abs!Next, Abs!Fail, argVars
  <2> QED
    BY <2>2, <2>3, <2>4, <2>5, <2>7, <2>8, <2>9, <2>10, <2>11 DEF MirrorStep, Progress
<1> QED
  BY <1>2, <1>3 DEF IInv, TypeInv, TypeOK

\* The mirror implements the pipe: in order, nothing lost or repeated across
\* rotations, and complete when it returns, as long as it is not overtaken; and it fails only
\* if it was cancelled or the file system has failed.
THEOREM Implementation == Spec => ImplementsPipe
<1>1. Init => Abs!Init
  BY MirrorAssumption DEF Init, Abs!Init, PipeStatus
<1>2. IInv /\ IInv' /\ [Next]_vars => [Abs!Next]_(Abs!vars)
  <2> SUFFICES ASSUME IInv, IInv', [Next]_vars PROVE [Abs!Next]_(Abs!vars)
    OBVIOUS
  <2>1. CASE UNCHANGED vars
    BY <2>1 DEF vars, logVars, ctxVars, argVars, Abs!vars, PipeStatus
  <2>2. CASE Next
    BY <2>2, EnvironmentRefines, MirrorRefines DEF Next
  <2> QED
    BY <2>1, <2>2
<1> QED
  BY <1>1, <1>2, Inductive, PTL DEF Spec, Abs!Spec, ImplementsPipe
===============================================================================

------------------------------ MODULE Lifecycle ------------------------------
(***************************************************************************)
(* What runmqserver promises to the container platform about one queue     *)
(* manager, without threads, commands or channels:                         *)
(*                                                                         *)
(*   - the queue manager is started only while the container starts up;    *)
(*   - it is ended only once start-up is over ("released"): a stop request *)
(*     never races the commands that create and start it;                  *)
(*   - the readiness file appears only for a queue manager that was        *)
(*     started, and a file left by an earlier life of the container is     *)
(*     removed before anything else happens;                               *)
(*   - a restart finds the files of the earlier life and nothing else.     *)
(*                                                                         *)
(* Module Supervisor implements this specification.                        *)
(***************************************************************************)

VARIABLES
    phase,      \* "clearing", "starting", "released" or "exited"
    qm,         \* "down", "started" or "ended"
    ready       \* the readiness file: "absent" or "present"

vars == <<phase, qm, ready>>

Phases == {"clearing", "starting", "released", "exited"}
QMStates == {"down", "started", "ended"}

TypeOK == phase \in Phases /\ qm \in QMStates /\ ready \in {"absent", "present"}

Init == phase = "clearing" /\ qm = "down" /\ ready \in {"absent", "present"}

\* Readiness of an earlier life is withdrawn before the work starts, which it
\* may never do.
ClearReady ==
    /\ phase = "clearing"
    /\ phase' \in {"clearing", "starting"}
    /\ ready' = "absent"
    /\ UNCHANGED qm

StartQM ==
    /\ phase = "starting"
    /\ qm = "down"
    /\ qm' = "started"
    /\ UNCHANGED <<phase, ready>>

\* Start-up is over, because it succeeded or because it was abandoned.
Release ==
    /\ phase = "starting"
    /\ phase' = "released"
    /\ UNCHANGED <<qm, ready>>

MarkReady ==
    /\ phase = "released"
    /\ qm # "down"
    /\ ready' = "present"
    /\ UNCHANGED <<phase, qm>>

EndQM ==
    /\ phase = "released"
    /\ qm' = "ended"
    /\ UNCHANGED <<phase, ready>>

\* A return of the main program or a fatal signal.
Exit ==
    /\ phase # "exited"
    /\ phase' = "exited"
    /\ UNCHANGED <<qm, ready>>

Restart ==
    /\ phase = "exited"
    /\ phase' = "clearing"
    /\ qm' = "down"
    /\ UNCHANGED ready

Next ==
    \/ ClearReady \/ StartQM \/ Release \/ MarkReady \/ EndQM \/ Exit \/ Restart

Spec == Init /\ [][Next]_vars
==============================================================================

----------------------------- MODULE MCSupervisor -----------------------------
(***************************************************************************)
(* Small instances of Supervisor.                                          *)
(***************************************************************************)
EXTENDS Supervisor, TLC

\* A container with everything switched on.
Full == [opts |-> {"web", "metrics", "debug"}, mirror |-> {"qmgr"}]

\* A plain container, with log mirroring of every source.
Plain == [opts |-> {}, mirror |-> Sources]

\* runmqserver -i, and a host without a name.
InitOnly == [opts |-> {"-i"}, mirror |-> {}]
Nameless == [opts |-> {"nameless"}, mirror |-> {}]

Everything == {Full, Plain, InitOnly, Nameless}
JustFull == {[Full EXCEPT !.opts = {"metrics"}]}
MetricsOrDebug == {[Full EXCEPT !.opts = {o}] : o \in {"metrics", "debug"}}
==============================================================================

-------------------------------- MODULE MCMirror --------------------------------
(***************************************************************************)
(* Small instances of Mirror: the two ways it is called.                   *)
(***************************************************************************)
EXTENDS Mirror

Both == {0, 1}
Beginning == {1}
===============================================================================

---------------------------- MODULE MCMraftNode ----------------------------
(***************************************************************************)
(* Two members, two terms, three log indices, one client and two starts:   *)
(* enough for an entry of an older leader to be cut off, for a snapshot to *)
(* race the log, and for a crash or shutdown with a restart from the files. *)
(***************************************************************************)
EXTENDS MraftNode
=============================================================================

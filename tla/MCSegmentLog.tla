---------------------------- MODULE MCSegmentLog ----------------------------
(***************************************************************************)
(* Five indices, two terms, segments of two entries: enough for three      *)
(* segments, for a suffix that takes one segment and cuts the next, and    *)
(* for two crashes during one history.                                     *)
(***************************************************************************)
EXTENDS SegmentLog
=============================================================================

------------------------------ MODULE MCRdict ------------------------------
(***************************************************************************)
(* Five keys: two of them collide completely, three have their home in the *)
(* last buckets, so that displaced entries wrap around to the first.  A    *)
(* dictionary of records with a load factor of 1/2, which merges what it   *)
(* already has, and a flat one with a load factor of 4/5, which does not.  *)
(***************************************************************************)
EXTENDS Rdict

MCKey == 1 .. 5

MCHash == <<15, 15, 14, 0, 7>>

MCVariants ==
  {[flat |-> FALSE, num |-> 1, den |-> 2, overlap |-> TRUE],
   [flat |-> TRUE, num |-> 4, den |-> 5, overlap |-> FALSE]}

MCOthers == {<<2, 5>>, <<3, 4, 3>>}
=============================================================================

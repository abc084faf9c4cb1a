------------------------------ MODULE MCEcache ------------------------------
(***************************************************************************)
(* Two threads and two pools, of two items and of one; a string and an     *)
(* ordered map of two fields under the same key.                           *)
(***************************************************************************)
EXTENDS Ecache, SequencesExt

Named(kind, size) == [kind |-> kind, size |-> size, key |-> "k"]

MCNames == {Named("string", 0), Named("range", 8)}

MCMenu == <<{"set"}, {"set", "erase", "pop", "expire", "get", "save"},
            {"set", "get", "min", "pop", "del", "save"}>>

MCCap == <<2, 1>>

MCHashOrder == SetToSeq({ActualKey(id, n) : id \in PoolIds, n \in MCNames})

MCSymmetry == Permutations(Threads) \cup Permutations(Pools)
=============================================================================

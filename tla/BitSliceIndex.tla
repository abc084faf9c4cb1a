---------------------------- MODULE BitSliceIndex ----------------------------
(***************************************************************************)
(* The bit-sliced index behind robims' INT fields (robims_bsi.cpp) as it   *)
(* is put to and removed from, and what its queries mean over the values   *)
(* it stores; BitSlices has the loops themselves.                          *)
(***************************************************************************)
EXTENDS BitSlices

CONSTANTS LimitTopK, \* topk_limit of the field; 0 means no limit
          Input      \* the values a caller may put, in the range or not

ASSUME LimitAssumption == LimitTopK \in Nat
ASSUME InputAssumption == Input \subseteq Int

VARIABLES bitmaps, \* _bitmaps: [0] is the set of ids that have a value, and
                   \* [1 + i] the set of ids whose value has bit i
          mode     \* "up", or "crashed" by a read past an empty vector

vars == <<bitmaps, mode>>

-----------------------------------------------------------------------------
Init == /\ bitmaps = [j \in 0..Depth |-> {}]
        /\ mode = "up"

\* DoPut: a new id beyond the limit makes the index drop a smallest value.
Put(id, v) ==
  /\ mode = "up"
  /\ LET b == SetBits(bitmaps, id, ToLocalVal(v))
         over == /\ id \notin bitmaps[0]
                 /\ LimitTopK > 0
                 /\ Cardinality(b[0]) > LimitTopK
         r == IF over THEN DoRemoveMin(b) ELSE [b |-> b, mode |-> "up"]
     IN bitmaps' = r.b /\ mode' = r.mode

RemoveMin ==
  /\ mode = "up"
  /\ LET r == DoRemoveMin(bitmaps) IN bitmaps' = r.b /\ mode' = r.mode

\* RobimsIntField::Remove: Get returns true for an id it finds, and the test
\* for 0 calls Remove only for an id without a value, with a val never set.
Remove(id) ==
  /\ mode = "up"
  /\ IF id \in bitmaps[0] THEN bitmaps' = bitmaps
     ELSE \E u \in 0..(2^Depth - 1) : bitmaps' = DoRemove(bitmaps, id, u)
  /\ mode' = mode

Next == \/ \E id \in Id, v \in Input : Put(id, v)
        \/ RemoveMin
        \/ \E id \in Id : Remove(id)

Spec == Init /\ [][Next]_vars
-----------------------------------------------------------------------------
\* The meaning of a query: the ids of the filter (every id, when it is empty)
\* whose value satisfies P.
Where(filter, P(_)) == {id \in Overwrite(bitmaps, filter) : P(Value(bitmaps, id))}

\* >, >=, <=, ==, != and "between" return exactly the ids their meaning says,
\* for every bound in the declared range and every filter, although the loops
\* only combine the bitmaps of single bits.  So does <, except for the minimum
\* of the range and for bounds whose lowest bit is set (LessThanMatches).
RangesMatch ==
  \A e \in MinInt..MaxInt, filter \in SUBSET Id :
    /\ RangeGT(bitmaps, e, FALSE, filter) = Where(filter, LAMBDA v : v > e)
    /\ RangeGT(bitmaps, e, TRUE, filter) = Where(filter, LAMBDA v : v >= e)
    /\ RangeLT(bitmaps, e, TRUE, filter) = Where(filter, LAMBDA v : v =< e)
    /\ e # MinInt /\ Bit(ToLocalVal(e), 0) = 0 =>
         RangeLT(bitmaps, e, FALSE, filter) = Where(filter, LAMBDA v : v < e)
    /\ RangeEQ(bitmaps, e, filter) = Where(filter, LAMBDA v : v = e)
    /\ RangeNEQ(bitmaps, e) = Where({}, LAMBDA v : v # e)
    /\ \A hi \in MinInt..MaxInt :
         RangeBetween(bitmaps, e, hi, filter)
           = Where(filter, LAMBDA v : e =< v /\ v =< hi)

\* GetMax returns the largest value among the ids of the filter, and how many
\* of them have it.  TopK never returns more than k ids, and no id it leaves
\* out has a larger value than one it returns.  It may return fewer: the loop
\* takes ids by a bit of their value, and the minimum of the range has none.
TopKSound ==
  /\ \A filter \in SUBSET Id :
       LET ids == Overwrite(bitmaps, filter)
           top == {id \in ids : \A o \in ids : Value(bitmaps, o) =< Value(bitmaps, id)}
       IN ids # {} =>
            /\ GetMax(bitmaps, filter).count = Cardinality(top)
            /\ \A id \in top : GetMax(bitmaps, filter).val = Value(bitmaps, id)
  /\ \A k \in 1..Cardinality(Id) :
       /\ Cardinality(TopK(bitmaps, k)) =< k
       /\ \A id \in TopK(bitmaps, k), o \in bitmaps[0] \ TopK(bitmaps, k) :
            Value(bitmaps, o) =< Value(bitmaps, id)

\* A Put of a value in the range is what Get returns from then on, whatever
\* value and bits the id had before; it changes no other id's value, and drops
\* at most one id, when the limit is exceeded.
PutStores ==
  [][\A id \in Id, v \in Input \cap (MinInt..MaxInt) : Put(id, v) =>
       LET dropped == (bitmaps[0] \cup {id}) \ bitmaps'[0] IN
       /\ id \notin dropped => Value(bitmaps', id) = v
       /\ \A o \in bitmaps[0] \ (dropped \cup {id}) :
            Value(bitmaps', o) = Value(bitmaps, o)
       /\ dropped # {} => /\ Cardinality(bitmaps[0]) >= LimitTopK
                          /\ Cardinality(dropped) = 1]_vars

\* For a bound whose lowest bit is set, < returns the ids whose value is below
\* it: what the last step would compute if it did what its comment says,
\* filter.Difference(row.Difference(keep)).
LessThanMatches ==
  \A e \in MinInt..MaxInt : Bit(ToLocalVal(e), 0) = 1 =>
    RangeLT(bitmaps, e, FALSE, {}) = Where({}, LAMBDA v : v < e)

\* GetMin returns the smallest value and how many ids have it.
MinMatches ==
  LET low == {id \in bitmaps[0] : \A o \in bitmaps[0] :
                                    Value(bitmaps, id) =< Value(bitmaps, o)}
  IN bitmaps[0] # {} =>
       /\ GetMin(bitmaps, {}).count = Cardinality(low)
       /\ \A id \in low : GetMin(bitmaps, {}).val = Value(bitmaps, id)
=============================================================================

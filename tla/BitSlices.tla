----------------------------- MODULE BitSlices -----------------------------
(***************************************************************************)
(* The bitmap loops of a bit-sliced index (src/robims/robims_bsi.cpp).  An *)
(* index stores one value per id as columns of bits: b[0] is the set of    *)
(* ids that have a value, b[1 + i] the set of ids whose value has bit i.   *)
(* Values are stored relative to the field's minimum, in as many bits as   *)
(* the declared range needs; higher bits are silently dropped.  Queries    *)
(* never look at a value: they combine bitmaps, from the highest bit to    *)
(* the lowest.                                                             *)
(***************************************************************************)
EXTENDS Integers, FiniteSets

CONSTANTS Id,        \* the local ids of a table, numbers
          MinInt,    \* the field's declared range
          MaxInt

ASSUME IdAssumption == Id \subseteq Nat
ASSUME RangeAssumption == MinInt \in Int /\ MaxInt \in Int /\ MinInt =< MaxInt

\* _bit_depth: the number of bits of the distance MaxInt - MinInt.
Depth == CHOOSE i \in 0..63 : /\ MaxInt - MinInt < 2^i
                              /\ \A j \in 0..(i - 1) : MaxInt - MinInt >= 2^j
BitIndex == 0..(Depth - 1)

\* ToLocalVal; of the unsigned difference only the low Depth bits are used.
ToLocalVal(v) == (v - MinInt) % 2^Depth
Bit(u, i) == (u \div 2^i) % 2

-----------------------------------------------------------------------------
\* Runs a loop body over the bits from the highest to the lowest.
FromHighBit(start, Body(_, _)) ==
  LET after[i \in 0..Depth] ==
        IF i = Depth THEN start ELSE Body(after[i + 1], i)
  IN after[0]

\* The prologue of every query: an empty filter stands for every id.
Overwrite(b, filter) == IF filter = {} THEN b[0] ELSE filter \cap b[0]

DoGet(b, id) ==
  LET sum[i \in 0..Depth] ==
        IF i = 0 THEN 0
        ELSE sum[i - 1] + (IF id \in b[i] THEN 2^(i - 1) ELSE 0)
  IN sum[Depth]
Value(b, id) == DoGet(b, id) + MinInt

-----------------------------------------------------------------------------
\* The largest value and the number of ids that have it.

DoGetMax(b, filter) ==
  LET Body(s, i) ==
        LET and == s.filter \cap b[1 + i] IN
        IF and # {} THEN [filter |-> and, val |-> s.val + 2^i] ELSE s
  IN FromHighBit([filter |-> Overwrite(b, filter), val |-> 0], Body)
GetMax(b, filter) == LET m == DoGetMax(b, filter)
                     IN [val |-> m.val + MinInt, count |-> Cardinality(m.filter)]

\* The loop that looks for the smallest value: it also removes the ids that
\* have bit i when nothing is left without it, and goes on with no id.
DoGetMin(b, filter) ==
  LET Body(s, i) ==
        LET diff == s.filter \ b[1 + i] IN
        IF diff # {}
        THEN [filter |-> diff, val |-> s.val, count |-> Cardinality(diff),
              last |-> Cardinality(diff)]
        ELSE [filter |-> diff, val |-> s.val + 2^i,
              count |-> IF i = 0 THEN s.last ELSE s.count, last |-> s.last]
  IN FromHighBit([filter |-> Overwrite(b, filter), val |-> 0, count |-> 0,
                  last |-> -1], Body)
GetMin(b, filter) == LET m == DoGetMin(b, filter)
                     IN [val |-> m.val + MinInt, count |-> m.count]

-----------------------------------------------------------------------------
\* The ids whose value is below, or not above, u.

\* Mistake: an id already known to be smaller is removed by a later bit.
DoRangeLT_ForgetsKeep(b, u, allowEq, filter) ==
  LET Body(s, i) ==
        LET skip == s.leading /\ Bit(u, i) = 0
            last == i = 0 /\ ~allowEq IN
        CASE skip \/ (~last /\ Bit(u, i) = 0) -> [s EXCEPT !.filter = @ \ b[1 + i]]
          [] ~skip /\ last ->
               [s EXCEPT !.filter = IF Bit(u, i) = 0 THEN s.keep
                                    ELSE @ \ (s.keep \ b[1 + i])]
          [] ~last /\ Bit(u, i) = 1 ->
               [s EXCEPT !.leading = FALSE,
                         !.keep = @ \cup (s.filter \ b[1 + i])]
  IN FromHighBit([filter |-> Overwrite(b, filter), keep |-> {}, leading |-> TRUE],
                 Body).filter

DoRangeLT(b, u, allowEq, filter) ==
  LET Body(s, i) ==
        LET skip == s.leading /\ Bit(u, i) = 0
            last == i = 0 /\ ~allowEq IN
        CASE skip -> [s EXCEPT !.filter = @ \ b[1 + i]]
          [] ~skip /\ last ->
               [s EXCEPT !.filter = IF Bit(u, i) = 0 THEN s.keep
                                    ELSE @ \ (s.keep \ b[1 + i])]
          [] ~skip /\ ~last /\ Bit(u, i) = 0 ->
               [s EXCEPT !.filter = @ \ (b[1 + i] \ s.keep)]
          [] ~last /\ Bit(u, i) = 1 ->
               [s EXCEPT !.leading = FALSE,
                         !.keep = @ \cup (s.filter \ b[1 + i])]
  IN FromHighBit([filter |-> Overwrite(b, filter), keep |-> {}, leading |-> TRUE],
                 Body).filter
RangeLT(b, e, allowEq, filter) == DoRangeLT(b, ToLocalVal(e), allowEq, filter)

\* The ids whose value is above, or not below, u.
DoRangeGT(b, u, allowEq, filter) ==
  LET Body(s, i) ==
        LET last == i = 0 /\ ~allowEq IN
        CASE last /\ Bit(u, i) = 1 -> [s EXCEPT !.filter = s.keep]
          [] last # (Bit(u, i) = 1) ->
               [s EXCEPT !.filter = @ \ ((@ \ b[1 + i]) \ s.keep)]
          [] ~last /\ Bit(u, i) = 0 ->
               [s EXCEPT !.keep = @ \cup (s.filter \cap b[1 + i])]
  IN FromHighBit([filter |-> Overwrite(b, filter), keep |-> {}], Body).filter
RangeGT(b, e, allowEq, filter) == DoRangeGT(b, ToLocalVal(e), allowEq, filter)

DoRangeEQ(b, u, filter) ==
  LET Body(s, i) == IF Bit(u, i) = 1 THEN s \cap b[1 + i] ELSE s \ b[1 + i]
  IN FromHighBit(Overwrite(b, filter), Body)
RangeEQ(b, e, filter) == DoRangeEQ(b, ToLocalVal(e), filter)
RangeNEQ(b, e) == b[0] \ RangeEQ(b, e, {})

\* Both bounds in one pass; the lower bound has trimmed the filter before the
\* upper bound looks at it.
DoRangeBetween(b, lo, hi, filter) ==
  LET Body(s, i) ==
        LET f1 == IF Bit(lo, i) = 1
                  THEN s.filter \ ((s.filter \ b[1 + i]) \ s.keep1) ELSE s.filter
            k1 == IF Bit(lo, i) = 1 THEN s.keep1
                  ELSE s.keep1 \cup (s.filter \cap b[1 + i])
            f2 == IF Bit(hi, i) = 0 THEN f1 \ (b[1 + i] \ s.keep2) ELSE f1
            k2 == IF Bit(hi, i) = 0 THEN s.keep2
                  ELSE s.keep2 \cup (f1 \ b[1 + i])
        IN [filter |-> f2, keep1 |-> k1, keep2 |-> k2]
  IN FromHighBit([filter |-> Overwrite(b, filter), keep1 |-> {}, keep2 |-> {}],
                 Body).filter
RangeBetween(b, lo, hi, filter) ==
  DoRangeBetween(b, ToLocalVal(lo), ToLocalVal(hi), filter)

-----------------------------------------------------------------------------
\* Mistake: the ids already taken are not counted against k.
TopK_KeepsK(b, k) ==
  LET Body(s, i) ==
        LET f == s.filter \cap b[1 + i]
            n == Cardinality(f) IN
        CASE s.done -> s
          [] ~s.done /\ n > k -> [s EXCEPT !.filter = f]
          [] ~s.done /\ n = 0 /\ i > 0 /\ n < k -> s
          [] ~s.done /\ n < k /\ (n > 0 \/ i = 0) ->
               [s EXCEPT !.out = @ \cup f, !.filter = @ \ (s.out \cup f)]
          [] ~s.done /\ n = k -> [s EXCEPT !.out = @ \cup f, !.done = TRUE]
  IN FromHighBit([filter |-> b[0], out |-> {}, done |-> FALSE], Body).out

\* The ids with the k largest values.  Too many candidates narrow the filter,
\* too few are taken and the search goes on among the others.
TopK(b, k) ==
  LET Body(s, i) ==
        LET f == s.filter \cap b[1 + i]
            n == Cardinality(f)
            rest == k - Cardinality(s.out) IN
        CASE s.done -> s
          [] ~s.done /\ n > rest -> [s EXCEPT !.filter = f]
          [] ~s.done /\ n = 0 /\ i > 0 /\ n < rest -> s
          [] ~s.done /\ n < rest /\ (n > 0 \/ i = 0) ->
               [s EXCEPT !.out = @ \cup f, !.filter = @ \ (s.out \cup f)]
          [] ~s.done /\ n = rest -> [s EXCEPT !.out = @ \cup f, !.done = TRUE]
  IN FromHighBit([filter |-> b[0], out |-> {}, done |-> FALSE], Body).out

-----------------------------------------------------------------------------
DoRemove(b, id, u) ==
  [j \in 0..Depth |-> IF j = 0 \/ Bit(u, j - 1) = 1 THEN b[j] \ {id} ELSE b[j]]

\* Removes the smallest id that has the value DoGetMin found.  When no id has
\* it, ids[0] reads an empty vector.
DoRemoveMin(b) ==
  LET min == DoGetMin(b, {})
      ids == DoRangeEQ(b, min.val, {})
      first == CHOOSE id \in ids : \A other \in ids : id =< other
  IN CASE min.count > 0 /\ ids # {} -> [b |-> DoRemove(b, first, min.val),
                                        mode |-> "up"]
       [] min.count > 0 /\ ids = {} -> [b |-> b, mode |-> "crashed"]
       [] min.count =< 0 -> [b |-> b, mode |-> "up"]

\* Mistake: the bits the new value lacks are not cleared.
SetBits_OnlyAdds(b, id, u) ==
  [j \in 0..Depth |-> IF j = 0 \/ Bit(u, j - 1) = 1
                      THEN b[j] \cup {id} ELSE b[j]]

\* Every bit is written, set or cleared.
SetBits(b, id, u) ==
  [j \in 0..Depth |-> IF j = 0 \/ Bit(u, j - 1) = 1
                      THEN b[j] \cup {id} ELSE b[j] \ {id}]
=============================================================================

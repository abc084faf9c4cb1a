------------------------------- MODULE Rdict -------------------------------
(***************************************************************************)
(* rdict::ReadonlyDict (rdict/rdict.h, rdict/mmap_file.cc): a dictionary   *)
(* that is built by Put and Merge, written by Commit and read by later     *)
(* processes.  An open-addressing index with robin-hood displacement maps  *)
(* a key to a record of a data file ("records"), or, for pairs of          *)
(* integers, holds the pair itself ("flat").                               *)
(*                                                                         *)
(* A dictionary is a value [data, buckets, size], and every member         *)
(* function of the class is an operator on such values; the loops of the   *)
(* class are written by where they stop.  The state machine opens, fills,  *)
(* merges, commits and closes one dictionary.                              *)
(***************************************************************************)
EXTENDS Integers, Sequences, FiniteSets, FiniteSetsExt, SequencesExt

CONSTANTS
  Key,
  Hash,        \* [Key -> 0 .. HashSpace - 1], mixed_hash
  HashSpace,   \* a power of 2: 2^64 in the code
  FpSpace,     \* fingerprints per distance: 256 in the code
  MaxRecords,  \* records that fit in reserved_space_bytes
  MaxOps,      \* bound on the number of calls
  Others,      \* dictionaries to merge: a set of sequences of keys
  Variants,    \* the kinds of dictionary to try: [flat, num, den, overlap]
  None

ASSUME RdictAssumption ==
  /\ Hash \in [Key -> 0 .. HashSpace - 1]
  /\ FpSpace \in Nat \ {0}
  /\ \A v \in Variants : v.num \in 1 .. v.den

VARIABLES
  variant, \* its kind, and how it is used; it never changes
  dict,    \* the dictionary in memory (and its mapped data file), or None
  index,   \* the .index file: the dictionary it describes, or None
  sealed,  \* readonly_ of the data file, set by ShrinkToFit
  mode,    \* "ok", or how the last call failed to finish: "hung", "torn"
  clock,   \* number of calls so far; also the source of fresh values
  ret      \* the last call, "put" or "merge", or "fail" if it failed

vars == <<variant, dict, index, sealed, mode, clock, ret>>

\* Bucket::is_flat.
Flat == variant.flat

\* max_load_factor is LoadNum / LoadDen.
LoadNum == variant.num
LoadDen == variant.den

\* Whether a dictionary that is merged may have keys that are there already;
\* Merge of the flat kind then keeps both entries, and is no map.
Overlap == variant.overlap

-----------------------------------------------------------------------------
(* Buckets.  df is dist_and_fingerprint; it is 0 in an empty bucket.       *)

EmptyBucket == [ref |-> None, df |-> 0]

NumBuckets(d) == Cardinality(DOMAIN d.buckets)

KeyOf(d, ref) == IF Flat THEN ref.key ELSE d.data[ref].key

ValueOf(d, ref) == IF Flat THEN ref.val ELSE d.data[ref].val

\* The bucket of k after j steps from its home, and the df k has there.
SlotOf(d, k, j) ==
  (Hash[k] \div (HashSpace \div NumBuckets(d)) + j) % NumBuckets(d)

DistAndFingerprint(k, j) == FpSpace * (j + 1) + (Hash[k] % FpSpace)

\* max_bucket_capacity of a table of n buckets.
Capacity(n) == IF n = HashSpace THEN n ELSE (n * LoadNum) \div LoadDen

IsFull(d) == d.size > Capacity(NumBuckets(d))

\* Buckets for s entries: calc_shifts_for_size, which starts at 4 buckets.
CalcNumBuckets(s) ==
  Min({n \in {4 * 2^i : i \in 0 .. HashSpace} :
         n = HashSpace \/ (n < HashSpace /\ (n * LoadNum) \div LoadDen >= s)})

-----------------------------------------------------------------------------
(* The loops over the index.                                               *)

\* next_while_less: steps until an entry that is not farther from home.
NextWhileLess(d, k) ==
  Min({j \in 0 .. NumBuckets(d) + 1 :
         DistAndFingerprint(k, j) >= d.buckets[SlotOf(d, k, j)].df})

HasRoom(d) == \E i \in DOMAIN d.buckets : d.buckets[i].df = 0

\* Mistake: the displaced entries keep the distance that they had.
PlaceAndShiftUp_SameDist(d, bucket, place) ==
  LET n == NumBuckets(d)
      at(i) == (place + i) % n
      stop == Min({i \in 0 .. n - 1 : d.buckets[at(i)].df = 0})
      moved == {at(i) : i \in 1 .. stop}
  IN [d EXCEPT !.buckets =
        [s \in 0 .. n - 1 |->
           CASE s = place -> bucket
             [] s \in moved -> d.buckets[(s + n - 1) % n]
             [] OTHER -> d.buckets[s]]]

\* place_and_shift_up: the entry takes the place, the ones from there to
\* the next empty bucket move up by one.
PlaceAndShiftUp(d, bucket, place) ==
  LET n == NumBuckets(d)
      at(i) == (place + i) % n
      stop == Min({i \in 0 .. n - 1 : d.buckets[at(i)].df = 0})
      moved == {at(i) : i \in 1 .. stop}
      up(b) == [b EXCEPT !.df = @ + FpSpace]
  IN [d EXCEPT !.buckets =
        [s \in 0 .. n - 1 |->
           CASE s = place -> bucket
             [] s \in moved -> up(d.buckets[(s + n - 1) % n])
             [] OTHER -> d.buckets[s]]]

\* Enter ref, whose key is k, without looking for k in the table.
Enter(d, ref, k) ==
  LET j == NextWhileLess(d, k)
  IN PlaceAndShiftUp(d, [ref |-> ref, df |-> DistAndFingerprint(k, j)],
                     SlotOf(d, k, j))

\* The loop of Put, Get and Exists: it steps while df <= the bucket's df
\* and stops early at the key.  Steps to the key, if it is found.
Found(d, k) ==
  {j \in 0 .. NumBuckets(d) :
     /\ LET b == d.buckets[SlotOf(d, k, j)]
        IN b.df = DistAndFingerprint(k, j) /\ KeyOf(d, b.ref) = k
     /\ \A i \in 0 .. j - 1 :
          DistAndFingerprint(k, i) <= d.buckets[SlotOf(d, k, i)].df}

\* Where that loop stops when the key is not there.
Missed(d, k) ==
  Min({j \in 0 .. NumBuckets(d) + 1 :
         DistAndFingerprint(k, j) > d.buckets[SlotOf(d, k, j)].df})

Exists(d, k) == Found(d, k) # {}

Get(d, k) ==
  IF Exists(d, k)
  THEN ValueOf(d, d.buckets[SlotOf(d, k, Min(Found(d, k)))].ref)
  ELSE None

-----------------------------------------------------------------------------
(* Growing: all entries are entered again into a larger, cleared table.    *)

Cleared(d, n) == [d EXCEPT !.buckets = [i \in 0 .. n - 1 |-> EmptyBucket]]

\* What is entered: the flat entries in the order of the old buckets, or
\* the valid records in the order of the data file.
Refs(d) ==
  IF Flat
  THEN LET inUse == SelectSeq([i \in 1 .. NumBuckets(d) |-> d.buckets[i - 1]],
                              LAMBDA b : b.df # 0)
       IN [i \in DOMAIN inUse |-> inUse[i].ref]
  ELSE SelectSeq([i \in DOMAIN d.data |-> i], LAMBDA i : ~d.data[i].invalid)

\* Mistake: replaced records, which are passed over, count among the size.
Refill_CountsInvalid(d, n) ==
  FoldLeft(LAMBDA e, ref : Enter(e, ref, KeyOf(d, ref)),
           Cleared(d, n), SelectSeq(Refs(d), LAMBDA ref : Flat \/ ref <= d.size))

\* clear_and_fill_buckets_from_values, for the first size of them.
Refill(d, n) ==
  FoldLeft(LAMBDA e, ref : Enter(e, ref, KeyOf(d, ref)),
           Cleared(d, n), SubSeq(Refs(d), 1, d.size))

\* increase_size; it fails when there is no larger table.
CanIncrease(d) == NumBuckets(d) < HashSpace

IncreaseSize(d) == Refill(d, 2 * NumBuckets(d))

\* reserve never shrinks the table.
Reserve(d, s) ==
  LET n == CalcNumBuckets(Max({s, d.size}))
  IN IF n > NumBuckets(d) THEN Refill(d, n) ELSE d

-----------------------------------------------------------------------------
(* The operations on a dictionary.                                         *)

New(s) ==
  [data |-> <<>>, size |-> 0,
   buckets |-> [i \in 0 .. CalcNumBuckets(s) - 1 |-> EmptyBucket]]

\* MmapFile::Add fails on a sealed file and when the reserved space is used
\* up.
CanAdd(d, more) == Flat \/ (~sealed /\ Len(d.data) + more <= MaxRecords)

Added(d, k, v) ==
  IF Flat THEN d
  ELSE [d EXCEPT !.data = Append(@, [key |-> k, val |-> v, invalid |-> FALSE])]

RefOf(d, k, v) == IF Flat THEN [key |-> k, val |-> v] ELSE Len(d.data) + 1

Update(d, k, v) ==
  LET s == SlotOf(d, k, Min(Found(d, k)))
      old == d.buckets[s].ref
      e == [Added(d, k, v) EXCEPT !.buckets[s].ref = RefOf(d, k, v)]
  IN IF Flat THEN e ELSE [e EXCEPT !.data[old].invalid = TRUE]

\* Mistake: after growing, the entry goes where it belonged in the old table.
Insert_OldPlace(d, k, v) ==
  LET e == IF IsFull(d) THEN IncreaseSize(Added(d, k, v)) ELSE Added(d, k, v)
      j == Missed(d, k)
  IN [PlaceAndShiftUp(e, [ref |-> RefOf(d, k, v),
                          df |-> DistAndFingerprint(k, j)],
                      SlotOf(d, k, j))
        EXCEPT !.size = @ + 1]

\* Put of a new key: NewBucket, then growth, if the table is full, then the
\* place of the key in the table there is now.
Insert(d, k, v) ==
  LET ref == RefOf(d, k, v)
      e == Added(d, k, v)
      j == Missed(d, k)
      placed == IF IsFull(d)
                THEN Enter(IncreaseSize(e), ref, k)
                ELSE PlaceAndShiftUp(e, [ref |-> ref,
                                         df |-> DistAndFingerprint(k, j)],
                                     SlotOf(d, k, j))
  IN [placed EXCEPT !.size = @ + 1]

PutInto(d, k, v) == IF Exists(d, k) THEN Update(d, k, v) ELSE Insert(d, k, v)

\* The dictionary that Put makes of a sequence of keys.  Its values are
\* none of those that Put writes into dict.
Build(ks) ==
  FoldLeft(LAMBDA d, i : PutInto(d, ks[i], MaxOps + i),
           New(0), [i \in DOMAIN ks |-> i])

\* Merge: the entries of o are entered without a look at the keys that are
\* there; then its data file is appended, the offsets being those it gets.
MergeInto(d, o) ==
  LET base == Len(d.data)
      r == Reserve(d, ((d.size + o.size) * LoadDen) \div LoadNum)
      refs == SubSeq(Refs(o), 1, o.size)
      entered == FoldLeft(
        LAMBDA e, ref : Enter(e, IF Flat THEN ref ELSE base + ref, KeyOf(o, ref)),
        r, refs)
  IN [entered EXCEPT !.size = @ + o.size]

-----------------------------------------------------------------------------
(* One dictionary, from one process to the next.                           *)

Init ==
  /\ variant \in Variants
  /\ dict = New(0)
  /\ index = None
  /\ sealed = FALSE
  /\ mode = "ok"
  /\ clock = 0
  /\ ret = "put"

Open == dict # None /\ mode = "ok"

Tick == clock < MaxOps /\ clock' = clock + 1

\* Put(key, val).  It changes nothing if the record cannot be added or the
\* table cannot grow (then a record of no bucket is left in the data file),
\* and does not return if it has to place an entry in a table without room.
Put(k) ==
  /\ Open /\ Tick
  /\ LET d == dict
         grows == ~Exists(d, k) /\ IsFull(d)
     IN CASE ~CanAdd(d, 1) ->
               ret' = "fail" /\ UNCHANGED <<dict, mode>>
          [] CanAdd(d, 1) /\ grows /\ ~CanIncrease(d) ->
               ret' = "fail" /\ dict' = Added(d, k, clock') /\ UNCHANGED mode
          [] CanAdd(d, 1) /\ ~Exists(d, k) /\ ~grows /\ ~HasRoom(d) ->
               ret' = "fail" /\ mode' = "hung" /\ UNCHANGED dict
          [] OTHER ->
               ret' = "put" /\ dict' = PutInto(d, k, clock') /\ UNCHANGED mode
  /\ UNCHANGED <<index, sealed>>

\* Merge(other).  The data of other is added after its entries are placed;
\* when that fails, they point beyond the end of the data file.
Merge(ks) ==
  /\ Open /\ Tick
  /\ Overlap \/ \A i \in DOMAIN ks : ~Exists(dict, ks[i])
  /\ LET o == Build(ks)
         e == MergeInto(dict, o)
     IN IF CanAdd(dict, Len(o.data))
        THEN /\ dict' = [e EXCEPT !.data = dict.data \o o.data]
             /\ ret' = "merge" /\ UNCHANGED mode
        ELSE dict' = e /\ ret' = "fail" /\ mode' = "torn"
  /\ UNCHANGED <<index, sealed>>

\* Commit: the index file is written, the data file is cut to its length.
Commit ==
  /\ Open
  /\ index' = dict
  /\ sealed' = TRUE
  /\ UNCHANGED <<dict, mode, clock, ret>>

\* The process ends.  A data file that was not committed keeps its
\* preallocated tail; only the flat kind may be left uncommitted here.
Close ==
  /\ dict # None
  /\ Flat \/ (sealed /\ index = dict)
  /\ dict' = None
  /\ mode' = "ok"
  /\ UNCHANGED <<index, sealed, clock, ret>>

\* New in a later process: it reads the index, or starts from nothing.
Reopen ==
  /\ dict = None
  /\ Flat \/ index # None
  /\ dict' = IF index = None \/ (Flat /\ index.size = 0) THEN New(0) ELSE index
  /\ sealed' = FALSE
  /\ UNCHANGED <<index, mode, clock, ret>>

Next ==
  /\ \/ \E k \in Key : Put(k)
     \/ \E ks \in Others : Merge(ks)
     \/ Commit
     \/ Close
     \/ Reopen
  /\ UNCHANGED variant

Spec == Init /\ [][Next]_vars

-----------------------------------------------------------------------------
(* Properties.                                                             *)

InUse == {s \in DOMAIN dict.buckets : dict.buckets[s].df # 0}

\* Every bucket in use states the distance of its entry from the home of
\* its key, and the lookup of that key, which stops at the first entry that
\* is nearer to its home, gets to an entry of the key: no sequence of
\* insertions, displacements, growths and merges hides an entry.  And there is
\* always an empty bucket for the loop of place_and_shift_up to stop at, unless
\* is_full sees to it that the table grows first.
EntriesReachable ==
  Open =>
    /\ \A s \in InUse :
         LET k == KeyOf(dict, dict.buckets[s].ref)
         IN /\ \E j \in 0 .. NumBuckets(dict) - 1 :
                 SlotOf(dict, k, j) = s /\ dict.buckets[s].df = DistAndFingerprint(k, j)
            /\ Exists(dict, k)
    /\ HasRoom(dict) \/ IsFull(dict)

\* Each valid record is in the index, once, and Size() is their number: no
\* growth, update or merge leaves a record behind or enters it twice.
\* clear_and_fill_buckets_from_values reads as many records as Size() says, so
\* a count that is off loses an entry or runs off the end of the file.
RecordsIndexed ==
  Open => /\ dict.size = Cardinality(InUse)
          /\ ~Flat => /\ dict.size = Len(Refs(dict))
                      /\ {dict.buckets[s].ref : s \in InUse} = Range(Refs(dict))

Lookup(d) == [k \in Key |-> Get(d, k)]

DictMap == INSTANCE DictMap
  WITH live <- IF Open THEN Lookup(dict) ELSE None,
       saved <- IF index = None THEN None ELSE Lookup(index),
       calls <- clock

\* The dictionary is a map: a Put that succeeds gives its key the value and
\* changes no other, Merge gives the keys of the other dictionary the values
\* they have there, growing changes nothing, and a later process reads what
\* was committed.
RefinesDictMap == DictMap!Spec
=============================================================================

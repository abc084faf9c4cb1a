--------------------------- MODULE SegmentLogProofs -------------------------
(***************************************************************************)
(* The theorems about SegmentLog: for every size of the segments, every    *)
(* bound on the indices and on the crashes and every set of terms, provided*)
(* that the process does not die with an empty log ("empty_restart": Init  *)
(* then takes the wrong last index, and later appends leave a hole).       *)
(*                                                                         *)
(* IInv, Failed and CacheInv hold of the first state and are kept by every *)
(* step.  That there are no holes needs the least index behind one.        *)
(***************************************************************************)
EXTENDS SegmentLogTruncate, SegmentLogReads, WellFoundedInduction, FiniteSetTheorems

\* The longer of these proofs take the provers more than their default time.
USE SMTT(30), Zenon, Z3T(30)

\* A set of natural numbers has a least member.
LEMMA Least == ASSUME NEW S, S \subseteq Nat, S # {} PROVE \E x \in S : \A y \in S : x <= y
<1> DEFINE R == OpToRel(<, Nat)
<1>1. IsWellFoundedOn(R, Nat)
  BY NatLessThanWellFounded, Zenon
<1>2. \A x, y \in Nat : x < y => <<x, y>> \in R
  BY DEF OpToRel
<1> HIDE DEF R
<1>3. PICK x \in S : \A y \in S : ~(<<y, x>> \in R)
  BY <1>1, WFMin, Zenon
<1>4. \A y \in S : ~(y < x) /\ x \in Nat /\ y \in Nat
  BY <1>2, <1>3, Zenon
<1>5. \A y \in S : x <= y
  BY <1>4
<1> QED
  BY <1>5

\* A bounded one has a greatest, the one that Max chooses.
LEMMA Greatest ==
  ASSUME NEW S, S \subseteq Nat, S # {}, NEW b \in Nat, \A x \in S : x <= b
  PROVE  Max(S) \in S /\ \A y \in S : y <= Max(S)
<1> DEFINE T == {b - x : x \in S}
<1>1. T \subseteq Nat /\ T # {}
  <2>1. \A x \in S : b - x \in Nat
    OBVIOUS
  <2> QED
    BY <2>1, Zenon
<1>2. PICK t \in T : \A y \in T : t <= y
  BY <1>1, Least, Zenon
<1>3. PICK x \in S : t = b - x
  OBVIOUS
<1>4. \A y \in S : t <= b - y
  BY <1>2
<1>5. \A y \in S : x >= y
  BY <1>3, <1>4
<1> QED
  BY <1>5, Zenon DEF Max

\* The least index from j + 1 on that is in a file has its predecessor in a
\* file, too.
LEMMA DiskNoHoles == ASSUME DiskType, DiskInv PROVE NoHoles
<1>1. ASSUME NEW f \in DOMAIN disk, NEW g \in DOMAIN disk, f # g PROVE Indices(f) \cap Indices(g) = {}
  <2>1. End(f) <= g \/ End(g) <= f
    BY <1>1, FileType DEF DiskInv, Disjoint
  <2> QED
    BY <2>1, FileType DEF Indices, End
<1>2. ASSUME NEW i \in LogIndices, NEW j \in meta.first .. i PROVE j \in LogIndices
  <2> SUFFICES ASSUME j \notin LogIndices PROVE FALSE
    OBVIOUS
  <2> DEFINE S == {x \in LogIndices : x > j}
  <2>1. i \in Int /\ j \in Int /\ j <= i /\ meta.first <= j /\ meta.first \in Nat
    BY InLog DEF DiskType
  <2>2. i \in S
    BY <2>1
  <2>3. S \subseteq Nat
    BY <2>1, InLog
  <2>4. PICK x \in S : \A y \in S : x <= y
    BY <2>2, <2>3, Least, Zenon
  <2>5. PICK f \in DOMAIN disk : f <= x /\ x < End(f)
    BY <2>4, InLog
  <2>6. x - 1 \in LogIndices
    <3>1. CASE f = x
      BY <2>1, <2>3, <2>5, <3>1, FileType DEF DiskInv
    <3>2. CASE f < x
      <4>1. x - 1 \in Int /\ x - 1 >= meta.first /\ f <= x - 1 /\ x - 1 < End(f)
        BY <2>1, <2>3, <2>5, <3>2, FileType
      <4> QED
        BY <4>1, InLog, ZenonT(30)
    <3> QED
      BY <2>3, <2>5, <3>1, <3>2, FileType
  <2> QED
    BY <2>1, <2>3, <2>4, <2>6
<1> QED
  BY <1>1, <1>2 DEF NoHoles

\* There is nothing to walk through in an empty directory.
LEMMA NoWalk == ASSUME NEW w \in Walks({}) PROVE w = <<>>
<1>1. w \in [1 .. 0 -> {}]
  BY FS_EmptySet DEF Walks
<1> QED
  BY <1>1

\* Init without a log_meta.
LEMMA InitEmptyStep == ASSUME IInv, InitEmpty PROVE IInv'
<1>1. /\ mode = "down" /\ mode' = "up" /\ disk' = disk /\ meta' = meta /\ closed' = closed /\ open' = open
      /\ first_log_index' = 1 /\ last_log_index' = 0 /\ cache' = cache /\ req' = req
      /\ meta.state = "none"
  BY DEF InitEmpty
<1>2. /\ DOMAIN disk = {} /\ meta.first = 1 /\ closed = {} /\ open = 0 /\ req = NoRequest
  BY <1>1 DEF IInv, DiskInv, DownInv
<1>3. pending' = SaveMeta(1)
  <2>1. PICK w \in Walks(DOMAIN disk) : pending' = Unlinks(w) \o SaveMeta(1)
    BY DEF InitEmpty
  <2>2. w = <<>>
    BY <1>2, NoWalk
  <2>3. Unlinks(w) = <<>>
    BY <2>2 DEF Unlinks
  <2> QED
    BY <2>1, <2>3 DEF SaveMeta
<1>4. UpInv'
  BY <1>1, <1>2, <1>3 DEF UpInv, Starting, SaveMeta
<1>5. pending' \in Seq(Call)
  BY <1>3 DEF SaveMeta, Call
<1>6. TypeInv'
  BY <1>1, <1>5 DEF IInv, TypeInv, DiskType
<1> QED
  BY <1>1, <1>4, <1>6, DiskSame DEF IInv

\* The hypothesis of the other modules.
LEMMA IndexSetsFinite == IndexSets
<1> SUFFICES ASSUME NEW S \in SUBSET (1 .. MaxIndex)
             PROVE  /\ Cardinality(S) \in Nat /\ (S # {} => Max(S) \in S /\ \A f \in S : f <= Max(S))
                    /\ Cardinality(S) <= 1 => \A f, g \in S : f = g
  BY DEF IndexSets
<1>1. MaxIndex \in Nat
  BY SegmentAssumption
<1>2. IsFiniteSet(1 .. MaxIndex)
  BY <1>1, FS_Interval
<1>3. IsFiniteSet(S) /\ Cardinality(S) \in Nat
  BY <1>2, FS_Subset, FS_CardinalityType, Zenon
<1>4. S # {} => Max(S) \in S /\ \A f \in S : f <= Max(S)
  <2>1. S \subseteq Nat /\ \A x \in S : x <= MaxIndex
    BY <1>1
  <2> QED
    BY <1>1, <2>1, Greatest, ZenonT(30)
<1>5. ASSUME Cardinality(S) <= 1, NEW f \in S, NEW g \in S PROVE f = g
  <2> SUFFICES ASSUME f # g PROVE FALSE
    OBVIOUS
  <2>1. IsFiniteSet(S \ {f}) /\ Cardinality(S \ {f}) = Cardinality(S) - 1
    BY <1>3, FS_RemoveElement
  <2>2. Cardinality(S \ {f}) = 0
    <3>1. Cardinality(S \ {f}) \in Nat
      BY <2>1, FS_CardinalityType
    <3> QED
      BY <1>3, <1>5, <2>1, <3>1
  <2>3. S \ {f} = {}
    BY <2>1, <2>2, FS_EmptySet
  <2> QED
    BY <2>3
<1> QED
  BY <1>3, <1>4, <1>5

-----------------------------------------------------------------------------
\* The invariant holds before the first process comes up.
LEMMA InitStart == Init => IInv
<1> SUFFICES ASSUME Init PROVE IInv
  OBVIOUS
<1>1. DOMAIN disk = {} /\ meta = [state |-> "none", first |-> 1] /\ mode = "down" /\ disk = [f \in {} |-> 0]
  BY DEF Init
<1>2. DiskType
  BY <1>1 DEF DiskType
<1>3. DiskInv
  BY <1>1 DEF DiskInv, Disjoint
<1>4. TypeInv
  BY <1>1, <1>2, SegmentAssumption DEF Init, TypeInv
<1> QED
  BY <1>1, <1>3, <1>4 DEF Init, IInv, DownInv

\* The invariant is kept by every system call.
LEMMA SystemCallStep == ASSUME IInv, SystemCall PROVE IInv'
<1>1. mode = "up" /\ pending # <<>> /\ UpInv
  BY DEF SystemCall, IInv
<1>2. \/ req = NoRequest /\ Starting
      \/ \E t \in Term : Appending(t)
      \/ \E k \in Nat : PoppingFront(k) \/ PoppingBack(k)
  BY <1>1, Zenon DEF UpInv
<1> QED
  BY <1>2, StartingCall, AppendingCall, PoppingFrontCall, PoppingBackCall, Zenon

\* A step that changes nothing that UpInv is about.
LEMMA SameUp ==
  ASSUME UpInv, UNCHANGED Segments, UNCHANGED <<req, pending>>
  PROVE  UpInv'
<1>1. disk' = disk /\ meta' = meta /\ closed' = closed /\ open' = open /\ first_log_index' = first_log_index
      /\ last_log_index' = last_log_index /\ req' = req /\ pending' = pending
  BY DEF Segments
<1>2. Quiet' = Quiet /\ LogIndices' = LogIndices /\ (\A i : EntryAt(i)' = EntryAt(i)) /\ NotTorn(DOMAIN disk)' = NotTorn(DOMAIN disk)
  BY SegmentsSame
<1>3. Done => Done'
  BY <1>1, <1>2 DEF Done
<1>4. Starting => Starting'
  BY <1>1, <1>2 DEF Starting, NotTorn, SaveMeta, Ftruncate
<1>5. \A k : /\ Settled(k)' = Settled(k) /\ OpenSettled(k)' = OpenSettled(k)
            /\ PoppingFrom(k, 1)' = PoppingFrom(k, 1) /\ PoppingFrom(k, 2)' = PoppingFrom(k, 2) /\ PoppingFrom(k, 3)' = PoppingFrom(k, 3)
            /\ Cutting(k)' = Cutting(k)
  BY <1>1, <1>2 DEF Settled, OpenSettled, Filled, End, PoppingFrom, Popping, Kept, Cutting, TrimFront, Unlink, Ftruncate
<1>7. Shut(closed)' = Shut(closed)
  BY <1>1 DEF Shut
<1>8. ASSUME NEW t \in Term, Appending(t) PROVE Appending(t)'
  BY <1>1, <1>2, <1>8, Zenon DEF Appending, Settled, OpenSettled, Filled, End, Shut, NotTorn, Kept, Rolls, Write, Create, Rename
<1>9. ASSUME NEW k \in Nat, PoppingFront(k) PROVE PoppingFront(k)'
  BY <1>1, <1>2, <1>5, <1>7, <1>9, Zenon DEF PoppingFront, Settled, OpenSettled, Filled, End
<1>10. ASSUME NEW k \in Nat, PoppingBack(k) PROVE PoppingBack(k)'
  <2>1. /\ PoppingTo(k, Len(pending) - 1)' = PoppingTo(k, Len(pending) - 1)
        /\ PoppingTo(k, Len(pending) - 2)' = PoppingTo(k, Len(pending) - 2)
        /\ PoppingTo(k, Len(pending) - 3)' = PoppingTo(k, Len(pending) - 3)
    BY <1>1 DEF PoppingTo, Popping, Kept, Unlink
  <2>2. Settled(k)' = Settled(k) /\ OpenSettled(k)' = OpenSettled(k) /\ Cutting(k)' = Cutting(k)
    BY <1>5, Zenon
  <2> QED
    BY <1>1, <1>2, <1>7, <1>10, <2>1, <2>2, Zenon DEF PoppingBack, TrimBack, Rename
<1> QED
  BY <1>1, <1>2, <1>3, <1>4, <1>8, <1>9, <1>10, Zenon DEF UpInv

\* The files and the memory stay as IInv says, unless the process dies with an
\* empty log.
LEMMA StepKeeps == ASSUME IInv, [Next]_vars, "empty_restart" \notin Faults PROVE IInv'
<1>1. NoHoles /\ IndexSets
  BY DiskNoHoles, IndexSetsFinite DEF IInv, TypeInv
<1>2. \A k \in 0 .. MaxIndex + 1 : k \in Nat
  BY SegmentAssumption
<1>3. CASE vars' = vars
  <2>1. DiskType' = DiskType /\ DiskInv' = DiskInv
    BY <1>3, DiskSame DEF vars
  <2>2. TypeInv' = TypeInv
    BY <1>3, <2>1 DEF vars, memory, TypeInv
  <2>3. mode = "up" => UpInv'
    BY <1>3, SameUp DEF vars, memory, Segments, IInv
  <2> QED
    BY <1>3, <2>1, <2>2, <2>3 DEF vars, memory, IInv, DownInv, LogIndices, Indices
<1>4. ASSUME NEW k \in 0 .. MaxIndex + 1, TruncatePrefix(k) \/ TruncateSuffix(k) PROVE IInv'
  BY <1>1, <1>2, <1>4, TruncatePrefixStep, TruncateSuffixStep, Zenon
<1>5. ASSUME NEW k \in 1 .. MaxIndex + 1, Reset(k) PROVE IInv'
  <2>1. k \in Nat
    BY SegmentAssumption
  <2> QED
    BY <1>5, <2>1, ResetStep, Zenon
<1> QED
  BY <1>1, <1>3, <1>4, <1>5, SystemCallStep, ReturnStep, AppendEntryStep, ClearCacheEntryStep, InitFailsStep, InitEmptyStep,
     LoadSegmentsStep, CrashStep, Zenon DEF Next

\* Why Init failed.
Failed == mode = "failed" => meta.state = "torn" \/ Cardinality(OpenFiles) > 1

\* A failed Init stays failed, with the directory as it was.
LEMMA StepFails == ASSUME Failed, [Next]_vars PROVE Failed'
<1>1. CASE mode = "failed"
  <2>1. UNCHANGED <<mode, disk, meta>>
    BY <1>1 DEF Next, SystemCall, Return, AppendEntry, TruncatePrefix, TruncateSuffix, Reset, ClearCacheEntry, Idle,
                InitFails, InitEmpty, LoadSegments, Crash, vars
  <2> QED
    BY <2>1 DEF Failed, OpenFiles
<1>2. CASE InitFails
  BY <1>2 DEF InitFails, Failed, OpenFiles
<1>3. CASE mode # "failed" /\ ~InitFails
  <2>1. mode' # "failed"
    BY <1>3, Zenon DEF Next, SystemCall, Return, AppendEntry, TruncatePrefix, TruncateSuffix, Reset, ClearCacheEntry, Idle,
                       InitEmpty, LoadSegments, Crash, vars
  <2> QED
    BY <2>1 DEF Failed
<1> QED
  BY <1>1, <1>2, <1>3

\* Two open files are what GetOpenSegment leaves half-way.
LEMMA TwoOpenFiles ==
  ASSUME DiskType, DiskInv, Cardinality(OpenFiles) > 1
  PROVE  \E f, g \in OpenFiles : /\ OpenFiles = {f, g} /\ g = f + Len(disk[f].ents)
                                 /\ disk[g].ents = <<>> /\ Len(disk[f].ents) > SegmentSize
<1>1. \E f, g \in OpenFiles : f # g
  <2> SUFFICES ASSUME \A f, g \in OpenFiles : f = g PROVE FALSE
    OBVIOUS
  <2>1. OpenFiles = {} \/ \E f \in OpenFiles : OpenFiles = {f}
    OBVIOUS
  <2>2. Cardinality({}) = 0 /\ \A f : Cardinality({f}) = 1
    BY FS_EmptySet, FS_Singleton, ZenonT(30)
  <2>3. Cardinality(OpenFiles) = 0 \/ Cardinality(OpenFiles) = 1
    BY <2>1, <2>2, Zenon
  <2> QED
    BY <2>3
<1>2. \A f \in OpenFiles : f \in DOMAIN disk /\ f \in Nat /\ disk[f].open /\ disk[f].ents \in Seq(Term) /\ End(f) = f + Len(disk[f].ents)
  BY FileType DEF OpenFiles, End
<1>3. PICK f \in OpenFiles, g \in OpenFiles : f < g
  BY <1>1, <1>2
<1>4. \A x, y \in OpenFiles : x < y => disk[y].ents = <<>> /\ y = End(x) /\ Len(disk[x].ents) > SegmentSize
  BY <1>2, ZenonT(30) DEF DiskInv
<1>5. \A h \in OpenFiles : ~(h < f)
  <2>1. ~(Len(<<>>) > SegmentSize)
    BY SegmentAssumption
  <2> QED
    BY <1>3, <1>4, <2>1
<1>6. \A h \in OpenFiles : h = f \/ h = g
  BY <1>2, <1>3, <1>4, <1>5
<1>7. OpenFiles = {f, g}
  BY <1>6, Zenon
<1> QED
  BY <1>2, <1>3, <1>4, <1>7

-----------------------------------------------------------------------------
\* The cache is kept by every step.
LEMMA CacheStep == ASSUME IInv, IInv', [Next]_vars, CacheInv PROVE CacheInv'
<1>1. NoHoles /\ IndexSets
  BY DiskNoHoles, IndexSetsFinite DEF IInv, TypeInv
<1>2. \A k \in 0 .. MaxIndex + 1 : k \in Nat
  BY SegmentAssumption
<1>3. CASE vars' = vars
  BY <1>3, CacheSame DEF vars, memory
<1>4. CASE Return
  BY <1>4, CacheSame DEF Return, memory
<1>5. ASSUME NEW k \in 1 .. MaxIndex + 1, Reset(k) PROVE CacheInv'
  BY <1>5, CacheSame DEF Reset, memory
<1>6. ASSUME NEW t \in Term, AppendEntry(t) PROVE CacheInv'
  <2>1. Appending(t)'
    BY <1>1, <1>6, AppendEntryStep, Zenon
  <2> QED
    BY <1>6, <2>1, CacheAppend, Zenon
<1>7. ASSUME NEW k \in 0 .. MaxIndex + 1, TruncatePrefix(k) \/ TruncateSuffix(k) PROVE CacheInv'
  <2>1. k \in Nat
    BY <1>2
  <2>2. PoppingFront(k)' \/ PoppingBack(k)'
    BY <1>1, <1>7, <2>1, TruncatePrefixStep, TruncateSuffixStep, Zenon
  <2> QED
    BY <1>7, <2>1, <2>2, CacheTruncate, Zenon
<1>8. CASE InitFails
  <2>1. mode' = "failed"
    BY <1>8 DEF InitFails
  <2> QED
    BY <2>1 DEF CacheInv
<1> QED
  BY <1>3, <1>4, <1>5, <1>6, <1>7, <1>8, CacheCall, CacheClear, CacheRestart, CacheCrash, Zenon DEF Next

\* The invariant.
LEMMA Invariance == ASSUME "empty_restart" \notin Faults PROVE Spec => [](IInv /\ Failed /\ CacheInv)
<1>1. Init => IInv /\ Failed /\ CacheInv
  BY InitStart DEF Init, Failed, CacheInv
<1>2. IInv /\ Failed /\ CacheInv /\ [Next]_vars => (IInv /\ Failed /\ CacheInv)'
  BY StepKeeps, StepFails, CacheStep
<1> QED
  BY <1>1, <1>2, PTL DEF Spec

\* DiskInv has it that closed files are complete.
LEMMA DiskIsClosed == ASSUME DiskType, DiskInv PROVE ClosedComplete
<1> SUFFICES ASSUME NEW f \in ClosedFiles PROVE disk[f].last = f + Len(disk[f].ents) - 1 /\ ~disk[f].torn
  BY DEF ClosedComplete
<1>1. f \in DOMAIN disk /\ ~disk[f].open
  BY DEF ClosedFiles, OpenFiles
<1>2. disk[f].last = End(f) - 1 /\ ~disk[f].torn
  BY <1>1, Zenon DEF DiskInv
<1>3. f \in Nat /\ Len(disk[f].ents) \in Nat
  BY <1>1, FileType
<1>4. (f + Len(disk[f].ents)) - 1 = f + Len(disk[f].ents) - 1
  BY <1>3
<1> QED
  BY <1>2, <1>4 DEF End

\* Segment::Load can trust the name of a closed segment: it holds every entry
\* up to the last index in its name, at every point where the process may die.
THEOREM ClosedCompleteHolds == ASSUME "empty_restart" \notin Faults PROVE Spec => []ClosedComplete
<1>1. IInv => ClosedComplete
  BY DiskIsClosed DEF IInv, TypeInv
<1> QED
  BY <1>1, Invariance, PTL

\* The files do not overlap and leave no index out from the first index in
\* log_meta on, at every point of an append or a truncation.
THEOREM NoHolesHolds == ASSUME "empty_restart" \notin Faults PROVE Spec => []NoHoles
<1>1. IInv => NoHoles
  BY DiskNoHoles DEF IInv, TypeInv
<1> QED
  BY <1>1, Invariance, PTL

\* Init fails only after a death while SaveMeta rewrote log_meta, or between
\* the two calls with which GetOpenSegment replaces a full segment.
THEOREM FailsOnlyMidUpdateHolds == ASSUME "empty_restart" \notin Faults PROVE Spec => []FailsOnlyMidUpdate
<1>1. IInv /\ Failed => FailsOnlyMidUpdate
  BY TwoOpenFiles DEF IInv, TypeInv, Failed, FailsOnlyMidUpdate
<1> QED
  BY <1>1, Invariance, PTL

\* GetEntry reads every index from first_log_index to last_log_index, and what
\* it reads is the entry on the disk, from whichever of the three places.
THEOREM ReadsBackHolds == ASSUME "empty_restart" \notin Faults PROVE Spec => []ReadsBack
<1>1. IInv /\ CacheInv => ReadsBack
  BY ReadsTheDisk
<1> QED
  BY <1>1, Invariance, PTL

\* SegmentLogStorage is a durable log: every system call, call, return, death
\* and restart is a step of DurableLog or none.
THEOREM Refinement == ASSUME "empty_restart" \notin Faults PROVE Spec => RefinesDurableLog
<1>1. Init => Durable!Init
  BY InitRefines
<1>2. IInv /\ IInv' /\ [Next]_vars => [Durable!Next]_(Durable!vars)
  BY StepRefines
<1> QED
  BY <1>1, <1>2, Invariance, PTL DEF Spec, RefinesDurableLog, Durable!Spec
=============================================================================

---------------------------- MODULE SegmentLogInv ---------------------------
(***************************************************************************)
(* The invariant of SegmentLog, what a system call does to the disk, and   *)
(* that Init, AppendEntry, the calls that leave the files alone and a death*)
(* of the process keep the invariant.                                      *)
(*                                                                         *)
(* That the files are complete and follow each other is not inductive: what*)
(* a call does to them depends on which calls are still to come.  IInv says*)
(* of every operation how far it has got: which calls are pending, which   *)
(* files they are about, and what memory and disk have in common meanwhile.*)
(* The process may die at each of these points, and DownInv is what is     *)
(* left.  The facts about finite sets that the steps need are hypotheses   *)
(* here and in the next modules (IndexSets, NoHoles); SegmentLogProofs     *)
(* shows them.                                                             *)
(***************************************************************************)
EXTENDS SegmentLog, TLAPS

\* The longer of these proofs take the provers more than their default time.
USE SMTT(30), Zenon, Z3T(30)

\* A segment file, by what its name says (open, last) and what it holds.
File == [open : BOOLEAN, last : Int, ents : Seq(Term), torn : BOOLEAN]

\* The system calls.
Call ==
  [call : {"create", "unlink"}, seg : Nat] \cup [call : {"rename"}, seg : Nat, open : BOOLEAN]
  \cup [call : {"write"}, seg : Nat, term : Term] \cup [call : {"ftruncate"}, seg : Nat, len : Nat]
  \cup [call : {"truncate_meta"}] \cup [call : {"write_meta"}, first : Nat]
  \cup [call : {"trim_front", "trim_back"}, index : Nat]

\* What may be in the directory.
DiskType ==
  /\ disk \in [DOMAIN disk -> File] /\ DOMAIN disk \subseteq 1 .. MaxIndex
  /\ meta \in [state : {"none", "torn", "ok"}, first : Nat \ {0}]

\* The types of the variables.
TypeInv ==
  /\ DiskType
  /\ mode \in {"down", "up", "failed"}
  /\ closed \subseteq 1 .. MaxIndex /\ open \in 0 .. MaxIndex
  /\ first_log_index \in Nat /\ last_log_index \in Nat
  /\ cache \in Seq([index : Nat, term : Term])
  /\ pending \in Seq(Call)

\* Sets of indices are finite and have a greatest member (SegmentLogProofs).
IndexSets ==
  \A S \in SUBSET (1 .. MaxIndex) :
    /\ Cardinality(S) \in Nat /\ (S # {} => Max(S) \in S /\ \A f \in S : f <= Max(S))
    /\ Cardinality(S) <= 1 => \A f, g \in S : f = g

\* The index after the last entry of a file.
End(f) == f + Len(disk[f].ents)

\* No file goes on behind the beginning of the next.
Disjoint == \A f, g \in DOMAIN disk : f < g => End(f) <= g

\* The files, whenever the process may die: they follow each other, closed
\* ones are complete, and of two open ones the second is the empty file that
\* GetOpenSegment made behind a full one.
DiskInv ==
  /\ Disjoint
  /\ \A f \in DOMAIN disk : f > meta.first => f - 1 \in LogIndices
  /\ \A f \in DOMAIN disk : ~disk[f].open => disk[f].last = End(f) - 1 /\ ~disk[f].torn /\ disk[f].ents # <<>>
  /\ \A f, g \in DOMAIN disk :
       f < g /\ disk[f].open => /\ disk[g].open /\ disk[g].ents = <<>> /\ g = End(f)
                                /\ Len(disk[f].ents) > SegmentSize
  /\ meta.state = "none" => DOMAIN disk = {} /\ meta.first = 1

\* The segments that the memory knows.
Kept == closed \cup ({open} \ {0})

\* The files of S have their final names.
Shut(S) == \A f \in S : f \in DOMAIN disk /\ ~disk[f].open

\* Every index up to k is on the disk.
Filled(k) == meta.first .. k \subseteq LogIndices

\* No file of S ends in part of an entry.
NotTorn(S) == \A f \in S : ~disk[f].torn

\* The disk is as the memory says, up to index k.
Settled(k) ==
  /\ meta.first <= k + 1 /\ Filled(k)
  /\ \A f \in closed : End(f) <= k + 1
  /\ \A f \in closed : open # 0 => f < open

\* open_segment_ has a file, and it ends at index k.
OpenSettled(k) == open # 0 => open \in DOMAIN disk /\ disk[open].open /\ End(open) = k + 1

\* No operation is under way.
Quiet ==
  /\ meta.state = "ok" /\ first_log_index = meta.first
  /\ DOMAIN disk = Kept /\ Shut(closed)
  /\ Settled(last_log_index) /\ OpenSettled(last_log_index)

\* Init has calls left: it creates log_meta, or cuts the torn end of the open
\* segment.
Starting ==
  \/ /\ DOMAIN disk = {} /\ closed = {} /\ open = 0 /\ first_log_index = 1 /\ last_log_index = 0 /\ meta.first = 1
     /\ \/ meta.state = "none" /\ pending = SaveMeta(1)
        \/ meta.state = "torn" /\ pending = <<[call |-> "write_meta", first |-> 1]>>
  \/ /\ Quiet /\ open # 0 /\ NotTorn(closed)
     /\ pending = <<Ftruncate(open, Len(disk[open].ents))>>

\* GetOpenSegment replaces the full segment o.
Rolls(o) ==
  /\ open = last_log_index /\ open # 0
  /\ disk[o].open /\ Len(disk[o].ents) > SegmentSize /\ End(o) = last_log_index

\* AppendEntry has calls left.
Appending(t) ==
  /\ req = [op |-> "append", index |-> last_log_index, term |-> t]
  /\ meta.state = "ok" /\ first_log_index = meta.first
  /\ open # 0 /\ closed \subseteq DOMAIN disk /\ DOMAIN disk \subseteq Kept
  /\ NotTorn(DOMAIN disk) /\ Settled(last_log_index - 1)
  /\ \/ /\ pending = <<Write(open, t)>>
        /\ OpenSettled(last_log_index - 1) /\ Shut(closed)
     \/ /\ pending = <<Create(open), Write(open, t)>>
        /\ open \notin DOMAIN disk /\ open = last_log_index /\ Shut(closed)
     \/ \E o \in closed :
          /\ Rolls(o) /\ Shut(closed \ {o})
          /\ \/ /\ pending = <<Create(open), Rename(o, FALSE), Write(open, t)>>
                /\ open \notin DOMAIN disk
             \/ /\ pending = <<Rename(o, FALSE), Write(open, t)>>
                /\ OpenSettled(last_log_index - 1)

\* The calls from lo to hi unlink the files that the memory does not know.
Popping(lo, hi) ==
  /\ \A i \in lo .. hi : pending[i] = Unlink(pending[i].seg)
  /\ DOMAIN disk = Kept \cup {pending[i].seg : i \in lo .. hi}
  /\ \A i \in lo .. hi : pending[i].seg \notin Kept
  /\ \A i, j \in lo .. hi : i < j => pending[i].seg # pending[j].seg

\* The calls of TruncatePrefix from lo on: unlinks, and the trim of the cache.
PoppingFrom(k, lo) ==
  /\ Len(pending) >= lo /\ pending[Len(pending)] = TrimFront(k)
  /\ Popping(lo, Len(pending) - 1)
  /\ \A i \in lo .. Len(pending) - 1 : End(pending[i].seg) <= k

\* TruncatePrefix has calls left.
PoppingFront(k) ==
  /\ req = [op |-> "prefix", index |-> k]
  /\ first_log_index = k /\ k <= last_log_index + 1
  /\ NotTorn(DOMAIN disk) /\ Shut(closed)
  /\ Settled(last_log_index) /\ OpenSettled(last_log_index)
  /\ \/ /\ PoppingFrom(k, 3) /\ meta.state = "ok" /\ meta.first < k
        /\ pending[1] = [call |-> "truncate_meta"] /\ pending[2] = [call |-> "write_meta", first |-> k]
     \/ /\ PoppingFrom(k, 2) /\ meta.state = "torn" /\ meta.first < k
        /\ pending[1] = [call |-> "write_meta", first |-> k]
     \/ PoppingFrom(k, 1) /\ meta.state = "ok" /\ meta.first = k

\* The calls of TruncateSuffix up to hi: unlinks, from the back.
PoppingTo(k, hi) ==
  /\ hi >= 0 /\ Popping(1, hi)
  /\ \A i \in 1 .. hi : pending[i].seg > k \/ k < meta.first
  /\ \A i \in 1 .. hi : \A f \in Kept : f < pending[i].seg
  /\ \A i, j \in 1 .. hi : i < j => pending[i].seg > pending[j].seg

\* The last call but one cuts the last segment.
Cutting(k) ==
  /\ open # 0 /\ open <= k /\ k + 1 < End(open)
  /\ pending[Len(pending) - 1] = Ftruncate(open, k + 1 - open)

\* TruncateSuffix has calls left.
PoppingBack(k) ==
  /\ req = [op |-> "suffix", index |-> k]
  /\ k = last_log_index /\ first_log_index = meta.first /\ meta.state = "ok"
  /\ NotTorn(DOMAIN disk) /\ Shut(closed) /\ Settled(k)
  /\ Len(pending) >= 1 /\ pending[Len(pending)] = TrimBack(k)
  /\ \/ PoppingTo(k, Len(pending) - 1) /\ OpenSettled(k)
     \/ /\ PoppingTo(k, Len(pending) - 2) /\ Cutting(k) /\ disk[open].open
     \/ /\ PoppingTo(k, Len(pending) - 3) /\ Cutting(k) /\ ~disk[open].open
        /\ pending[Len(pending) - 2] = Rename(open, TRUE)

\* The effect of the request is on the disk.
Done ==
  \/ req = NoRequest
  \/ \E t \in Term : /\ req = [op |-> "append", index |-> last_log_index, term |-> t]
                     /\ last_log_index \in LogIndices /\ EntryAt(last_log_index) = t
  \/ req = [op |-> "prefix", index |-> meta.first]
  \/ req = [op |-> "suffix", index |-> last_log_index]
  \/ \E k \in Nat : req = [op |-> "reset", index |-> k]

\* How far the operation under way has got.
UpInv ==
  \/ pending = <<>> /\ Quiet /\ NotTorn(DOMAIN disk) /\ Done
  \/ req = NoRequest /\ Starting
  \/ \E t \in Term : Appending(t)
  \/ \E k \in Nat : PoppingFront(k) \/ PoppingBack(k)

\* What a dead process leaves.
DownInv ==
  /\ closed = {} /\ open = 0 /\ pending = <<>> /\ req = NoRequest
  /\ meta.state = "ok" => LogIndices # {}

\* The inductive invariant.
IInv ==
  /\ TypeInv /\ DiskInv
  /\ mode = "up" => UpInv
  /\ mode = "down" => DownInv

-----------------------------------------------------------------------------
\* What DiskType says of one file.
LEMMA FileType ==
  DiskType => \A f \in DOMAIN disk : /\ f \in Nat \ {0} /\ disk[f] \in File /\ Len(disk[f].ents) \in Nat
                                     /\ disk[f].ents \in Seq(Term) /\ End(f) \in Nat /\ f <= End(f)
  BY DEF DiskType, File, End

\* An index is in the log when a file holds it and log_meta does not exclude it.
LEMMA InLog ==
  DiskType => \A i : i \in LogIndices <=> i \in Int /\ i >= meta.first /\ \E f \in DOMAIN disk : f <= i /\ i < End(f)
<1> SUFFICES ASSUME DiskType, NEW i
             PROVE  i \in LogIndices <=> i \in Int /\ i >= meta.first /\ \E f \in DOMAIN disk : f <= i /\ i < End(f)
  OBVIOUS
<1>1. \A f \in DOMAIN disk : i \in Indices(f) <=> i \in Int /\ f <= i /\ i < End(f)
  BY FileType DEF Indices, End
<1> QED
  BY <1>1 DEF LogIndices

\* The same of the next state.
LEMMA InLogNext ==
  (DiskType => \A i : i \in LogIndices <=> i \in Int /\ i >= meta.first /\ \E f \in DOMAIN disk : f <= i /\ i < End(f))'
  BY InLog, PTL

\* The entry at an index is the one in the file that holds the index.
LEMMA EntryOf ==
  DiskType /\ Disjoint =>
    \A f \in DOMAIN disk : \A i \in Int : f <= i /\ i < End(f) => EntryAt(i) = disk[f].ents[i + 1 - f]
<1> SUFFICES ASSUME DiskType, Disjoint, NEW f \in DOMAIN disk, NEW i \in Int, f <= i, i < End(f)
             PROVE  EntryAt(i) = disk[f].ents[i + 1 - f]
  OBVIOUS
<1>1. \A g \in DOMAIN disk : i \in Indices(g) <=> g <= i /\ i < End(g)
  BY FileType DEF Indices, End
<1>2. \A g \in DOMAIN disk : i \in Indices(g) <=> g = f
  BY <1>1, FileType DEF Disjoint
<1> QED
  BY <1>2 DEF EntryAt

\* The same of the next state.
LEMMA EntryOfNext ==
  (DiskType /\ Disjoint =>
    \A f \in DOMAIN disk : \A i \in Int : f <= i /\ i < End(f) => EntryAt(i) = disk[f].ents[i + 1 - f])'
  BY EntryOf, PTL

\* Segment s is the last one and no other is open.
OneOpen(s) == \A f \in DOMAIN disk : f <= s /\ (f # s => ~disk[f].open)

\* Nothing is new where the directory is the same.
LEMMA DiskSame ==
  ASSUME disk' = disk, meta' = meta
  PROVE  /\ DiskType' = DiskType /\ DiskInv' = DiskInv /\ LogIndices' = LogIndices
         /\ \A f : End(f)' = End(f)
         /\ \A i : EntryAt(i)' = EntryAt(i)
  BY DEF DiskType, DiskInv, Disjoint, LogIndices, Indices, End, EntryAt

\* Unlinking a file that is before the first index, or the last one.
LEMMA UnlinkDisk ==
  ASSUME DiskType, DiskInv, NEW s \in DOMAIN disk,
         disk' = [f \in DOMAIN disk \ {s} |-> disk[f]], meta' = meta,
         meta.state # "none",
         End(s) <= meta.first \/ \A f \in DOMAIN disk : f <= s
  PROVE  /\ DiskType' /\ DiskInv'
         /\ \A f \in DOMAIN disk' : End(f)' = End(f)
         /\ \A i : i \in LogIndices' <=> i \in LogIndices /\ ~(s <= i /\ i < End(s))
         /\ \A i \in LogIndices' : EntryAt(i)' = EntryAt(i)
<1>1. DOMAIN disk' = DOMAIN disk \ {s} /\ \A f \in DOMAIN disk' : disk'[f] = disk[f]
  OBVIOUS
<1>2. \A f \in DOMAIN disk' : End(f)' = End(f)
  BY <1>1 DEF End
<1>3. DiskType'
  BY DEF DiskType
<1>4. ASSUME NEW i PROVE i \in LogIndices' <=> i \in LogIndices /\ ~(s <= i /\ i < End(s))
  <2>1. i \in LogIndices' <=> i \in Int /\ i >= meta.first /\ \E f \in DOMAIN disk \ {s} : f <= i /\ i < End(f)
    BY <1>1, <1>2, <1>3, InLogNext
  <2>2. i \in LogIndices <=> i \in Int /\ i >= meta.first /\ \E f \in DOMAIN disk : f <= i /\ i < End(f)
    BY InLog
  <2>3. i \in Int => \A f \in DOMAIN disk \ {s} : f <= i /\ i < End(f) => ~(s <= i /\ i < End(s))
    BY FileType DEF DiskInv, Disjoint
  <2> QED
    BY <2>1, <2>2, <2>3
<1>5. ASSUME NEW f \in DOMAIN disk', f > meta'.first PROVE f - 1 \in LogIndices'
  <2>1. f - 1 \in LogIndices /\ f # s
    BY <1>1, <1>5 DEF DiskInv
  <2>2. ~(s <= f - 1 /\ f - 1 < End(s))
    <3>1. CASE End(s) <= meta.first
      BY <1>1, <1>5, <3>1, FileType DEF DiskType
    <3>2. CASE \A g \in DOMAIN disk : g <= s
      BY <1>1, <2>1, <3>2, FileType
    <3> QED
      BY <3>1, <3>2
  <2> QED
    BY <1>4, <2>1, <2>2
<1>6. DiskInv'
  BY <1>1, <1>2, <1>5 DEF DiskInv, Disjoint
<1>7. ASSUME NEW i \in LogIndices' PROVE EntryAt(i)' = EntryAt(i)
  <2>1. PICK f \in DOMAIN disk' : i \in Int /\ f <= i /\ i < End(f)
    BY <1>2, <1>3, InLogNext
  <2>2. EntryAt(i)' = disk'[f].ents[i + 1 - f]
    BY <1>2, <1>3, <1>6, <2>1, EntryOfNext DEF DiskInv
  <2>3. EntryAt(i) = disk[f].ents[i + 1 - f]
    BY <1>1, <2>1, EntryOf DEF DiskInv
  <2> QED
    BY <1>1, <2>2, <2>3
<1> QED
  BY <1>2, <1>3, <1>4, <1>6, <1>7

\* A step that changes the entries of no file: the names and the torn flag.
LEMMA SameEntries ==
  ASSUME DiskType, Disjoint, DiskType', DOMAIN disk' = DOMAIN disk, meta'.first = meta.first,
         \A f \in DOMAIN disk : disk'[f].ents = disk[f].ents
  PROVE  /\ \A f \in DOMAIN disk : End(f)' = End(f)
         /\ LogIndices' = LogIndices
         /\ \A i \in LogIndices : EntryAt(i)' = EntryAt(i)
<1>1. \A f \in DOMAIN disk : End(f)' = End(f) /\ Indices(f)' = Indices(f)
  BY DEF End, Indices
<1>2. LogIndices' = LogIndices
  BY <1>1 DEF LogIndices
<1>3. ASSUME NEW i \in LogIndices PROVE EntryAt(i)' = EntryAt(i)
  <2>1. PICK f \in DOMAIN disk : i \in Int /\ f <= i /\ i < End(f)
    BY InLog
  <2>2. Disjoint'
    BY <1>1 DEF Disjoint
  <2>3. EntryAt(i) = disk[f].ents[i + 1 - f] /\ EntryAt(i)' = disk'[f].ents[i + 1 - f]
    BY <1>1, <2>1, <2>2, EntryOf, EntryOfNext
  <2> QED
    BY <2>3
<1> QED
  BY <1>1, <1>2, <1>3

\* rename to or from the name of an open segment.
LEMMA RenameDisk ==
  ASSUME DiskType, DiskInv, NEW s \in DOMAIN disk, NEW o \in BOOLEAN, meta' = meta, meta.state # "none",
         disk' = [disk EXCEPT ![s].open = o, ![s].last = IF o THEN 0 ELSE LastIndex(s)],
         o => OneOpen(s),
         ~o => ~disk[s].torn /\ disk[s].ents # <<>> /\ \A f \in DOMAIN disk : f < s => ~disk[f].open
  PROVE  /\ DiskType' /\ DiskInv' /\ DOMAIN disk' = DOMAIN disk
         /\ \A f \in DOMAIN disk : /\ disk'[f].torn = disk[f].torn /\ disk'[f].ents = disk[f].ents
                                   /\ disk'[f].open = IF f = s THEN o ELSE disk[f].open
         /\ \A f \in DOMAIN disk : End(f)' = End(f)
         /\ LogIndices' = LogIndices
         /\ \A i \in LogIndices : EntryAt(i)' = EntryAt(i)
<1>1. LastIndex(s) = End(s) - 1
  BY FileType DEF LastIndex, End, DiskInv
<1>2. /\ DOMAIN disk' = DOMAIN disk
      /\ \A f \in DOMAIN disk : f # s => disk'[f] = disk[f]
      /\ disk'[s] = [disk[s] EXCEPT !.open = o, !.last = IF o THEN 0 ELSE End(s) - 1]
  BY <1>1 DEF DiskType
<1>3. /\ disk'[s].torn = disk[s].torn /\ disk'[s].ents = disk[s].ents /\ disk'[s].open = o
      /\ disk'[s].last = (IF o THEN 0 ELSE End(s) - 1) /\ disk'[s] \in File
  <2> DEFINE l == IF o THEN 0 ELSE End(s) - 1
  <2>1. l \in Int /\ disk[s] \in File
    BY FileType
  <2> HIDE DEF l
  <2>2. disk'[s] = [disk[s] EXCEPT !.open = o, !.last = l]
    BY <1>2, Zenon DEF l
  <2>3. disk'[s] = [open |-> o, last |-> l, ents |-> disk[s].ents, torn |-> disk[s].torn]
    BY <2>1, <2>2, Zenon DEF File
  <2>4. disk'[s] \in File
    BY <2>1, <2>3 DEF File
  <2> QED
    BY <2>3, <2>4, Zenon DEF l
<1>4. DiskType'
  <2>1. \A f \in DOMAIN disk : disk'[f] \in File
    BY <1>2, <1>3 DEF DiskType
  <2>2. disk' = [f \in DOMAIN disk |-> disk'[f]]
    BY Zenon
  <2> QED
    BY <2>1, <2>2 DEF DiskType
<1>5. \A f \in DOMAIN disk : /\ disk'[f].torn = disk[f].torn /\ disk'[f].ents = disk[f].ents
                             /\ disk'[f].open = IF f = s THEN o ELSE disk[f].open
  BY <1>2, <1>3
<1>6. /\ \A f \in DOMAIN disk : End(f)' = End(f)
      /\ LogIndices' = LogIndices
      /\ \A i \in LogIndices : EntryAt(i)' = EntryAt(i)
  BY <1>2, <1>4, <1>5, SameEntries DEF DiskInv
<1>7. \A f \in DOMAIN disk : ~disk'[f].open =>
         disk'[f].last = End(f) - 1 /\ ~disk'[f].torn /\ disk'[f].ents # <<>>
  BY <1>2, <1>3, <1>5, Zenon DEF DiskInv
<1>8. ASSUME NEW f \in DOMAIN disk, NEW g \in DOMAIN disk, f < g, disk'[f].open
      PROVE  disk'[g].open /\ disk'[g].ents = <<>> /\ g = End(f) /\ Len(disk'[f].ents) > SegmentSize
  <2>1. f # s
    BY <1>3, <1>8, FileType DEF OneOpen
  <2>2. disk[f].open
    BY <1>5, <1>8, <2>1
  <2>3. g # s
    BY <1>3, <1>8, <2>2, FileType DEF OneOpen
  <2> QED
    BY <1>5, <1>8, <2>2, <2>3 DEF DiskInv
<1>9. DiskInv'
  BY <1>2, <1>6, <1>7, <1>8 DEF DiskInv, Disjoint
<1> QED
  BY <1>2, <1>4, <1>5, <1>6, <1>9

\* The process dies while it writes to an open segment.
LEMMA TornDisk ==
  ASSUME DiskType, DiskInv, NEW s \in DOMAIN disk, disk[s].open, meta' = meta,
         disk' = [disk EXCEPT ![s].torn = TRUE]
  PROVE  /\ DiskType' /\ DiskInv' /\ DOMAIN disk' = DOMAIN disk
         /\ LogIndices' = LogIndices
         /\ \A i \in LogIndices : EntryAt(i)' = EntryAt(i)
<1>1. /\ DOMAIN disk' = DOMAIN disk /\ \A f \in DOMAIN disk : f # s => disk'[f] = disk[f]
      /\ disk'[s] = [disk[s] EXCEPT !.torn = TRUE]
  BY DEF DiskType
<1>2. disk'[s] = [open |-> disk[s].open, last |-> disk[s].last, ents |-> disk[s].ents, torn |-> TRUE]
  BY <1>1, FileType, ZenonT(30) DEF File
<1>3. disk'[s] \in File
  BY <1>2, FileType, Zenon DEF File
<1>4. DiskType'
  <2>1. \A f \in DOMAIN disk : disk'[f] \in File
    BY <1>1, <1>3, Zenon DEF DiskType
  <2>2. disk' = [f \in DOMAIN disk |-> disk'[f]]
    BY Zenon
  <2> QED
    BY <2>1, <2>2, Zenon DEF DiskType
<1>5. \A f \in DOMAIN disk : /\ disk'[f].ents = disk[f].ents /\ disk'[f].open = disk[f].open
                             /\ disk'[f].last = disk[f].last /\ (~disk[f].open => disk'[f].torn = disk[f].torn)
  BY <1>1, <1>2, Zenon
<1>6. /\ \A f \in DOMAIN disk : End(f)' = End(f)
      /\ LogIndices' = LogIndices
      /\ \A i \in LogIndices : EntryAt(i)' = EntryAt(i)
  BY <1>1, <1>4, <1>5, SameEntries DEF DiskInv
<1>7. DiskInv'
  BY <1>1, <1>5, <1>6 DEF DiskInv, Disjoint
<1> QED
  BY <1>1, <1>4, <1>6, <1>7

\* The entries of files that stay as they are, in a log with disjoint files.
LEMMA EntryStays ==
  ASSUME DiskType, Disjoint, DiskType', Disjoint', NEW i \in Int, NEW f \in DOMAIN disk, f \in DOMAIN disk',
         f <= i, i < End(f), i < End(f)', disk'[f].ents[i + 1 - f] = disk[f].ents[i + 1 - f]
  PROVE  EntryAt(i)' = EntryAt(i)
<1>1. EntryAt(i) = disk[f].ents[i + 1 - f]
  BY EntryOf
<1>2. EntryAt(i)' = disk'[f].ents[i + 1 - f]
  BY EntryOfNext
<1> QED
  BY <1>1, <1>2

\* writev of one entry to the open segment, which is the last one.
LEMMA WriteDisk ==
  ASSUME DiskType, DiskInv, NEW s \in DOMAIN disk, NEW t \in Term, meta' = meta, meta.state # "none",
         disk' = [disk EXCEPT ![s].ents = Append(@, t)],
         disk[s].open, OneOpen(s), meta.first <= End(s)
  PROVE  /\ DiskType' /\ DiskInv' /\ DOMAIN disk' = DOMAIN disk
         /\ \A f \in DOMAIN disk : disk'[f].torn = disk[f].torn /\ disk'[f].open = disk[f].open
         /\ \A f \in DOMAIN disk : f # s => End(f)' = End(f)
         /\ End(s)' = End(s) + 1
         /\ \A i : i \in LogIndices' <=> i \in LogIndices \/ i = End(s)
         /\ \A i \in LogIndices : EntryAt(i)' = EntryAt(i)
         /\ \A i : i = End(s) => EntryAt(i)' = t
<1>1. /\ DOMAIN disk' = DOMAIN disk /\ \A f \in DOMAIN disk : f # s => disk'[f] = disk[f]
      /\ disk'[s] = [disk[s] EXCEPT !.ents = Append(disk[s].ents, t)]
  BY DEF DiskType
<1>2. disk'[s] = [open |-> disk[s].open, last |-> disk[s].last, ents |-> Append(disk[s].ents, t), torn |-> disk[s].torn]
  BY <1>1, FileType, ZenonT(30) DEF File
<1>3. /\ Append(disk[s].ents, t) \in Seq(Term) /\ Len(Append(disk[s].ents, t)) = Len(disk[s].ents) + 1
      /\ \A i \in 1 .. Len(disk[s].ents) : Append(disk[s].ents, t)[i] = disk[s].ents[i]
      /\ Append(disk[s].ents, t)[Len(disk[s].ents) + 1] = t
  BY FileType
<1>4. disk'[s] \in File
  BY <1>2, <1>3, FileType, Zenon DEF File
<1>5. DiskType'
  <2>1. \A f \in DOMAIN disk : disk'[f] \in File
    BY <1>1, <1>4, Zenon DEF DiskType
  <2>2. disk' = [f \in DOMAIN disk |-> disk'[f]]
    BY Zenon
  <2> QED
    BY <2>1, <2>2, Zenon DEF DiskType
<1>6. \A f \in DOMAIN disk : /\ disk'[f].torn = disk[f].torn /\ disk'[f].open = disk[f].open
                             /\ disk'[f].last = disk[f].last
  BY <1>1, <1>2, Zenon
<1>7. \A f \in DOMAIN disk : f # s => End(f)' = End(f)
  BY <1>1 DEF End
<1>8. End(s)' = End(s) + 1 /\ disk'[s].ents = Append(disk[s].ents, t)
  <2>1. disk'[s].ents = Append(disk[s].ents, t)
    BY <1>2, Zenon
  <2>2. End(s)' = s + Len(Append(disk[s].ents, t))
    BY <2>1, Zenon DEF End
  <2>3. s \in Nat /\ Len(disk[s].ents) \in Nat
    BY FileType
  <2>4. End(s) = s + Len(disk[s].ents)
    BY DEF End
  <2>5. End(s)' = s + (Len(disk[s].ents) + 1)
    BY <1>3, <2>2, Zenon
  <2>6. End(s)' = End(s) + 1
    BY <2>3, <2>4, <2>5
  <2> QED
    BY <2>1, <2>6, Zenon
<1>9. ASSUME NEW i PROVE i \in LogIndices' <=> i \in LogIndices \/ i = End(s)
  <2>1. i \in LogIndices' <=> i \in Int /\ i >= meta.first /\ \E f \in DOMAIN disk : f <= i /\ i < End(f)'
    BY <1>1, <1>5, InLogNext, Zenon
  <2>2. i \in LogIndices <=> i \in Int /\ i >= meta.first /\ \E f \in DOMAIN disk : f <= i /\ i < End(f)
    BY InLog, Zenon
  <2>3. s \in Int /\ End(s) \in Int /\ s <= End(s)
    BY FileType
  <2>4. i \in Int => (s <= i /\ i < End(s)' <=> (s <= i /\ i < End(s)) \/ i = End(s))
    BY <1>8, <2>3
  <2> QED
    BY <1>7, <2>1, <2>2, <2>3, <2>4
<1>10. Disjoint'
  BY <1>1, <1>7, FileType DEF Disjoint, DiskInv, OneOpen
<1>11. DiskInv'
  BY <1>1, <1>6, <1>7, <1>9, <1>10, FileType DEF DiskInv, OneOpen
<1>12. ASSUME NEW i \in LogIndices PROVE EntryAt(i)' = EntryAt(i)
  <2>1. PICK f \in DOMAIN disk : i \in Int /\ f <= i /\ i < End(f)
    BY InLog, Zenon
  <2>2. i < End(f)'
    <3>1. CASE f # s
      BY <1>7, <2>1, <3>1
    <3>2. CASE f = s
      BY <1>8, <2>1, <3>2, FileType
    <3> QED
      BY <3>1, <3>2, Zenon
  <2>3. disk'[f].ents[i + 1 - f] = disk[f].ents[i + 1 - f]
    <3>1. CASE f # s
      BY <1>1, <3>1, Zenon
    <3>2. CASE f = s
      <4>1. i + 1 - s \in 1 .. Len(disk[s].ents)
        BY <2>1, <3>2, FileType DEF End
      <4> QED
        BY <1>3, <1>8, <3>2, <4>1, Zenon
    <3> QED
      BY <3>1, <3>2, Zenon
  <2>4. Disjoint
    BY DEF DiskInv
  <2> QED
    BY <1>1, <1>5, <1>10, <2>1, <2>2, <2>3, <2>4, EntryStays, Zenon
<1>13. ASSUME NEW i, i = End(s) PROVE EntryAt(i)' = t
  <2>1. i \in Int /\ s <= i /\ i < End(s)' /\ i + 1 - s = Len(disk[s].ents) + 1
    BY <1>8, <1>13, FileType DEF End
  <2>2. EntryAt(i)' = disk'[s].ents[i + 1 - s]
    BY <1>1, <1>5, <1>10, <2>1, EntryOfNext, Zenon
  <2> QED
    BY <1>3, <1>8, <2>1, <2>2, Zenon
<1> QED
  BY <1>1, <1>5, <1>6, <1>7, <1>8, <1>9, <1>11, <1>12, <1>13

\* ftruncate of the open segment, which is the last one.
LEMMA FtruncateDisk ==
  ASSUME DiskType, DiskInv, NEW s \in DOMAIN disk, NEW n \in Nat, n <= Len(disk[s].ents), meta' = meta,
         meta.state # "none",
         disk' = [disk EXCEPT ![s].ents = SubSeq(@, 1, n), ![s].torn = FALSE],
         disk[s].open, OneOpen(s)
  PROVE  /\ DiskType' /\ DiskInv' /\ DOMAIN disk' = DOMAIN disk
         /\ \A f \in DOMAIN disk : disk'[f].open = disk[f].open
         /\ \A f \in DOMAIN disk : f # s => disk'[f].torn = disk[f].torn /\ End(f)' = End(f)
         /\ ~disk'[s].torn /\ End(s)' = s + n
         /\ \A i : i \in LogIndices' <=> i \in LogIndices /\ i < s + n
         /\ \A i \in LogIndices' : EntryAt(i)' = EntryAt(i)
<1>1. /\ DOMAIN disk' = DOMAIN disk /\ \A f \in DOMAIN disk : f # s => disk'[f] = disk[f]
      /\ disk'[s] = [disk[s] EXCEPT !.ents = SubSeq(disk[s].ents, 1, n), !.torn = FALSE]
  BY DEF DiskType
<1>2. disk'[s] = [open |-> disk[s].open, last |-> disk[s].last, ents |-> SubSeq(disk[s].ents, 1, n), torn |-> FALSE]
  BY <1>1, FileType, ZenonT(30) DEF File
<1>3. /\ SubSeq(disk[s].ents, 1, n) \in Seq(Term) /\ Len(SubSeq(disk[s].ents, 1, n)) = n
      /\ \A i \in 1 .. n : SubSeq(disk[s].ents, 1, n)[i] = disk[s].ents[i]
  BY FileType
<1>4. disk'[s] \in File
  BY <1>2, <1>3, FileType, Zenon DEF File
<1>5. DiskType'
  <2>1. \A f \in DOMAIN disk : disk'[f] \in File
    BY <1>1, <1>4, Zenon DEF DiskType
  <2>2. disk' = [f \in DOMAIN disk |-> disk'[f]]
    BY Zenon
  <2> QED
    BY <2>1, <2>2 DEF DiskType
<1>6. \A f \in DOMAIN disk : disk'[f].open = disk[f].open /\ disk'[f].last = disk[f].last
  BY <1>1, <1>2, Zenon
<1>7. \A f \in DOMAIN disk : f # s => disk'[f] = disk[f] /\ End(f)' = End(f)
  BY <1>1 DEF End
<1>8. End(s)' = s + n /\ disk'[s].ents = SubSeq(disk[s].ents, 1, n) /\ ~disk'[s].torn
  BY <1>2, <1>3, Zenon DEF End
<1>9. s \in Int /\ End(s) \in Int /\ End(s) = s + Len(disk[s].ents) /\ Len(disk[s].ents) \in Nat /\ s + n <= End(s)
  BY FileType DEF End
<1>10. ASSUME NEW i PROVE i \in LogIndices' <=> i \in LogIndices /\ i < s + n
  <2>1. i \in LogIndices' <=> i \in Int /\ i >= meta.first /\ \E f \in DOMAIN disk : f <= i /\ i < End(f)'
    BY <1>1, <1>5, InLogNext, Zenon
  <2>2. i \in LogIndices <=> i \in Int /\ i >= meta.first /\ \E f \in DOMAIN disk : f <= i /\ i < End(f)
    BY InLog, Zenon
  <2>3. i \in Int => (s <= i /\ i < End(s)' <=> s <= i /\ i < End(s) /\ i < s + n)
    BY <1>8, <1>9
  <2>4. i \in Int => \A f \in DOMAIN disk : f # s => ((f <= i /\ i < End(f)') <=> (f <= i /\ i < End(f)))
    BY <1>7, Zenon
  <2>5. i \in Int => \A f \in DOMAIN disk : f # s /\ i < End(f) => i < s + n
    BY <1>9, FileType DEF OneOpen, DiskInv, Disjoint
  <2> QED
    BY <2>1, <2>2, <2>3, <2>4, <2>5, Zenon
<1>11. Disjoint'
  BY <1>1, <1>7, FileType DEF Disjoint, DiskInv, OneOpen
<1>12. ASSUME NEW f \in DOMAIN disk, f > meta.first PROVE f - 1 \in LogIndices'
  BY <1>9, <1>10, <1>12, FileType DEF DiskInv, OneOpen
<1>13. DiskInv'
  <2>1. \A f \in DOMAIN disk : f # s => ~disk[f].open
    BY DEF OneOpen
  <2>2. \A f \in DOMAIN disk : ~disk'[f].open => f # s /\ disk'[f] = disk[f] /\ End(f)' = End(f)
    BY <1>6, <1>7, Zenon
  <2>3. \A f, g \in DOMAIN disk : ~(f < g /\ disk'[f].open)
    BY <1>6, <2>1, FileType DEF OneOpen
  <2> QED
    BY <1>1, <1>11, <1>12, <2>2, <2>3 DEF DiskInv
<1>14. ASSUME NEW i \in LogIndices' PROVE EntryAt(i)' = EntryAt(i)
  <2>1. i \in LogIndices /\ i < s + n
    BY <1>10
  <2>2. PICK f \in DOMAIN disk : i \in Int /\ f <= i /\ i < End(f)
    BY <2>1, InLog, Zenon
  <2>3. i < End(f)' /\ disk'[f].ents[i + 1 - f] = disk[f].ents[i + 1 - f]
    <3>1. CASE f # s
      BY <1>7, <2>2, <3>1, Zenon
    <3>2. CASE f = s
      <4>1. i + 1 - s \in 1 .. n
        BY <1>9, <2>1, <2>2, <3>2
      <4> QED
        BY <1>3, <1>8, <2>1, <3>2, <4>1, Zenon
    <3> QED
      BY <3>1, <3>2, Zenon
  <2>4. Disjoint
    BY DEF DiskInv
  <2> QED
    BY <1>1, <1>5, <1>11, <2>2, <2>3, <2>4, EntryStays, Zenon
<1> QED
  BY <1>1, <1>5, <1>6, <1>7, <1>8, <1>10, <1>13, <1>14, Zenon

\* A new open segment after all the others.
LEMMA CreateDisk ==
  ASSUME DiskType, DiskInv, NEW s \in 1 .. MaxIndex, s \notin DOMAIN disk, meta' = meta, meta.state # "none",
         disk' = [f \in DOMAIN disk \cup {s} |->
                    IF f = s THEN [open |-> TRUE, last |-> 0, ents |-> <<>>, torn |-> FALSE] ELSE disk[f]],
         \A f \in DOMAIN disk : End(f) <= s /\ (disk[f].open => End(f) = s /\ Len(disk[f].ents) > SegmentSize),
         s > meta.first => s - 1 \in LogIndices
  PROVE  /\ DiskType' /\ DiskInv' /\ DOMAIN disk' = DOMAIN disk \cup {s}
         /\ \A f \in DOMAIN disk : disk'[f] = disk[f] /\ End(f)' = End(f)
         /\ disk'[s] = [open |-> TRUE, last |-> 0, ents |-> <<>>, torn |-> FALSE] /\ End(s)' = s
         /\ LogIndices' = LogIndices
         /\ \A i \in LogIndices : EntryAt(i)' = EntryAt(i)
<1> DEFINE new == [open |-> TRUE, last |-> 0, ents |-> <<>>, torn |-> FALSE]
<1>1. /\ DOMAIN disk' = DOMAIN disk \cup {s} /\ \A f \in DOMAIN disk : disk'[f] = disk[f]
      /\ disk'[s] = new
  BY Zenon
<1>2. new \in File /\ Len(new.ents) = 0
  BY DEF File
<1>3. DiskType'
  <2>1. \A f \in DOMAIN disk' : disk'[f] \in File
    BY <1>1, <1>2, Zenon DEF DiskType
  <2>2. disk' = [f \in DOMAIN disk' |-> disk'[f]]
    BY Zenon
  <2>3. meta' \in [state : {"none", "torn", "ok"}, first : Nat \ {0}] /\ DOMAIN disk' \subseteq 1 .. MaxIndex
    BY <1>1, Zenon DEF DiskType
  <2> QED
    BY <2>1, <2>2, <2>3, Zenon DEF DiskType
<1>4. \A f \in DOMAIN disk : End(f)' = End(f)
  BY <1>1 DEF End
<1>5. End(s)' = s
  BY <1>1, <1>2 DEF End
<1>6. \A i : i \in LogIndices' <=> i \in LogIndices
  <2>1. \A i : i \in LogIndices' <=> i \in Int /\ i >= meta.first /\ \E f \in DOMAIN disk \cup {s} : f <= i /\ i < End(f)'
    BY <1>1, <1>3, InLogNext, Zenon
  <2>2. \A i \in Int : ~(s <= i /\ i < End(s)')
    BY <1>5
  <2>3. \A i : i \in LogIndices <=> i \in Int /\ i >= meta.first /\ \E f \in DOMAIN disk : f <= i /\ i < End(f)
    BY InLog, Zenon
  <2>4. \A i \in Int : (\E f \in DOMAIN disk \cup {s} : f <= i /\ i < End(f)') <=> \E f \in DOMAIN disk : f <= i /\ i < End(f)
    BY <1>4, <2>2
  <2> QED
    BY <2>1, <2>3, <2>4, Zenon
<1>7. LogIndices' = LogIndices
  BY <1>6, Zenon
<1>8. Disjoint'
  BY <1>1, <1>4, <1>5, FileType DEF Disjoint, DiskInv
<1>9. DiskInv'
  <2>1. \A f \in DOMAIN disk' : f > meta'.first => f - 1 \in LogIndices'
    BY <1>1, <1>7, Zenon DEF DiskInv
  <2>2. \A f \in DOMAIN disk' : ~disk'[f].open => disk'[f].last = End(f)' - 1 /\ ~disk'[f].torn /\ disk'[f].ents # <<>>
    <3>1. disk'[s].open
      BY <1>1, Zenon
    <3>2. \A f \in DOMAIN disk' : ~disk'[f].open => f \in DOMAIN disk
      BY <1>1, <3>1, Zenon
    <3> QED
      BY <1>1, <1>4, <3>2 DEF DiskInv
  <2>3. ASSUME NEW f \in DOMAIN disk', NEW g \in DOMAIN disk', f < g, disk'[f].open
        PROVE  /\ disk'[g].open /\ disk'[g].ents = <<>> /\ g = End(f)' /\ Len(disk'[f].ents) > SegmentSize
    <3>1. f \in DOMAIN disk /\ f # s /\ End(f)' = End(f) /\ disk'[f] = disk[f]
      BY <1>1, <1>4, <2>3, FileType
    <3>2. CASE g = s
      <4>1. disk'[g].open /\ disk'[g].ents = <<>>
        BY <1>1, <3>2, Zenon
      <4> QED
        BY <2>3, <3>1, <3>2, <4>1
    <3>3. CASE g # s
      <4>1. g \in DOMAIN disk /\ disk'[g] = disk[g] /\ disk[f].open
        BY <1>1, <2>3, <3>1, <3>3
      <4>2. disk[g].open /\ disk[g].ents = <<>> /\ g = End(f) /\ Len(disk[f].ents) > SegmentSize
        BY <2>3, <3>1, <4>1 DEF DiskInv
      <4> QED
        BY <3>1, <4>1, <4>2
    <3> QED
      BY <3>2, <3>3, Zenon
  <2> QED
    BY <1>8, <2>1, <2>2, <2>3, Zenon DEF DiskInv
<1>10. ASSUME NEW i \in LogIndices PROVE EntryAt(i)' = EntryAt(i)
  <2>1. PICK f \in DOMAIN disk : i \in Int /\ f <= i /\ i < End(f)
    BY InLog, Zenon
  <2>2. Disjoint
    BY DEF DiskInv
  <2> QED
    BY <1>1, <1>3, <1>4, <1>8, <2>1, <2>2, EntryStays, Zenon
<1> QED
  BY <1>1, <1>3, <1>4, <1>5, <1>7, <1>9, <1>10, Zenon

\* pb_write_file: the first index of the log changes with the second call.
LEMMA TruncateMetaDisk ==
  ASSUME DiskType, DiskInv, disk' = disk, meta' = [meta EXCEPT !.state = "torn"]
  PROVE  /\ DiskType' /\ DiskInv' /\ meta'.state = "torn" /\ meta'.first = meta.first
         /\ LogIndices' = LogIndices
         /\ \A f : End(f)' = End(f)
         /\ \A i : EntryAt(i)' = EntryAt(i)
<1>1. meta'.state = "torn" /\ meta'.first = meta.first /\ meta' \in [state : {"none", "torn", "ok"}, first : Nat \ {0}]
  BY DEF DiskType
<1>2. DiskType'
  BY <1>1 DEF DiskType
<1>3. LogIndices' = LogIndices /\ (\A f : End(f)' = End(f)) /\ \A i : EntryAt(i)' = EntryAt(i)
  BY <1>1 DEF LogIndices, Indices, End, EntryAt
<1>4. DiskInv'
  BY <1>1, <1>3 DEF DiskInv, Disjoint
<1> QED
  BY <1>1, <1>2, <1>3, <1>4

\* Writing log_meta: the indices before k leave the log.
LEMMA WriteMetaDisk ==
  ASSUME DiskType, DiskInv, disk' = disk, NEW k \in Nat, meta' = [state |-> "ok", first |-> k], meta.first <= k
  PROVE  /\ DiskType' /\ DiskInv' /\ meta'.state = "ok" /\ meta'.first = k
         /\ \A i : i \in LogIndices' <=> i \in LogIndices /\ i >= k
         /\ \A f : End(f)' = End(f)
         /\ \A i : EntryAt(i)' = EntryAt(i)
<1>1. meta'.state = "ok" /\ meta'.first = k /\ meta.first \in Nat \ {0}
  BY DEF DiskType
<1>2. DiskType'
  BY <1>1 DEF DiskType
<1>3. (\A f : End(f)' = End(f)) /\ \A i : EntryAt(i)' = EntryAt(i)
  BY DEF Indices, End, EntryAt
<1>4. \A i : i \in LogIndices' <=> i \in LogIndices /\ i >= k
  <2>1. \A i : i \in LogIndices' <=> i \in Int /\ i >= k /\ \E f \in DOMAIN disk : f <= i /\ i < End(f)
    BY <1>1, <1>2, <1>3, InLogNext, Zenon
  <2>2. \A i : i \in LogIndices <=> i \in Int /\ i >= meta.first /\ \E f \in DOMAIN disk : f <= i /\ i < End(f)
    BY InLog, Zenon
  <2>3. \A i \in Int : i >= k => i >= meta.first
    BY <1>1
  <2> QED
    BY <2>1, <2>2, <2>3, Zenon
<1>5. \A f \in DOMAIN disk : f > k => f - 1 \in LogIndices'
  BY <1>1, <1>4, FileType DEF DiskInv
<1>6. DiskInv'
  BY <1>1, <1>3, <1>5 DEF DiskInv, Disjoint
<1> QED
  BY <1>1, <1>2, <1>3, <1>4, <1>6, Zenon

-----------------------------------------------------------------------------
\* Steps that touch neither the files nor the segments in memory.
Segments == <<disk, meta, closed, open, first_log_index, last_log_index>>

\* What such a step leaves as it was.
LEMMA SegmentsSame ==
  ASSUME UNCHANGED Segments
  PROVE  /\ Quiet' = Quiet /\ NotTorn(DOMAIN disk)' = NotTorn(DOMAIN disk)
         /\ DiskInv' = DiskInv /\ LogIndices' = LogIndices /\ \A i : EntryAt(i)' = EntryAt(i)
  BY DEF Segments, Quiet, NotTorn, DiskInv, Disjoint, LogIndices, Indices, EntryAt, End,
         Kept, Shut, Settled, Filled, OpenSettled

\* Only a storage that has carried out its request is without system calls.
LEMMA QuietWhenIdle ==
  ASSUME UpInv, pending = <<>>
  PROVE  Quiet /\ NotTorn(DOMAIN disk) /\ Done
<1>1. ~Starting
  BY DEF Starting, SaveMeta
<1>2. \A t \in Term : ~Appending(t)
  BY DEF Appending
<1>3. \A k \in Nat : ~PoppingFront(k) /\ ~PoppingBack(k)
  BY DEF PoppingFront, PoppingBack, PoppingFrom
<1> QED
  BY <1>1, <1>2, <1>3 DEF UpInv

\* The calls that the operations make are calls.
LEMMA CallsAreCalls ==
  /\ \A f \in Nat : Create(f) \in Call /\ Unlink(f) \in Call
  /\ \A f \in Nat : \A o \in BOOLEAN : Rename(f, o) \in Call
  /\ \A f \in Nat : \A t \in Term : Write(f, t) \in Call
  /\ \A f, n \in Nat : Ftruncate(f, n) \in Call
  /\ \A k \in Nat : TrimFront(k) \in Call /\ TrimBack(k) \in Call
  /\ \A k \in Nat : [call |-> "truncate_meta"] \in Call /\ [call |-> "write_meta", first |-> k] \in Call
<1>1. \A f \in Nat : Create(f) \in Call /\ Unlink(f) \in Call
  BY DEF Call, Create, Unlink
<1>2. \A f \in Nat : \A o \in BOOLEAN : Rename(f, o) \in Call
  BY Zenon DEF Call, Rename
<1>3. \A f \in Nat : \A t \in Term : Write(f, t) \in Call
  BY DEF Call, Write
<1>4. \A f, n \in Nat : Ftruncate(f, n) \in Call
  BY DEF Call, Ftruncate
<1>5. \A k \in Nat : TrimFront(k) \in Call /\ TrimBack(k) \in Call
  BY DEF Call, TrimFront, TrimBack
<1>6. \A k \in Nat : [call |-> "truncate_meta"] \in Call /\ [call |-> "write_meta", first |-> k] \in Call
  BY DEF Call
<1> QED
  BY <1>1, <1>2, <1>3, <1>4, <1>5, <1>6

\* What each system call does to the variables.
LEMMA CreateCall == ASSUME NEW s, DiskCall(Create(s))
                    PROVE  /\ meta' = meta
                           /\ disk' = [f \in DOMAIN disk \cup {s} |->
                                IF f = s THEN [open |-> TRUE, last |-> 0, ents |-> <<>>, torn |-> FALSE] ELSE disk[f]]
  BY DEF DiskCall, Create

\* rename, to the final name or back.
LEMMA RenameCall == ASSUME NEW s, NEW o, DiskCall(Rename(s, o))
                    PROVE  /\ meta' = meta
                           /\ disk' = [disk EXCEPT ![s].open = o, ![s].last = IF o THEN 0 ELSE LastIndex(s)]
  BY DEF DiskCall, Rename

\* unlink.
LEMMA UnlinkCall == ASSUME NEW s, DiskCall(Unlink(s))
                    PROVE  meta' = meta /\ disk' = [f \in DOMAIN disk \ {s} |-> disk[f]]
  BY DEF DiskCall, Unlink

\* write, of one entry.
LEMMA WriteCall == ASSUME NEW s, NEW t, DiskCall(Write(s, t))
                   PROVE  meta' = meta /\ disk' = [disk EXCEPT ![s].ents = Append(@, t)]
  BY DEF DiskCall, Write

\* ftruncate.
LEMMA FtruncateCall == ASSUME NEW s, NEW n, DiskCall(Ftruncate(s, n))
                       PROVE  meta' = meta /\ disk' = [disk EXCEPT ![s].ents = SubSeq(@, 1, n), ![s].torn = FALSE]
  BY DEF DiskCall, Ftruncate

\* The two calls of pb_write_file.
LEMMA MetaCalls ==
  /\ DiskCall([call |-> "truncate_meta"]) => disk' = disk /\ meta' = [meta EXCEPT !.state = "torn"]
  /\ \A k : DiskCall([call |-> "write_meta", first |-> k]) => disk' = disk /\ meta' = [state |-> "ok", first |-> k]
  BY DEF DiskCall

\* Trimming the cache leaves the directory alone.
LEMMA TrimCalls ==
  \A k : DiskCall(TrimFront(k)) \/ DiskCall(TrimBack(k)) => disk' = disk /\ meta' = meta
  BY DEF DiskCall, TrimFront, TrimBack

\* What a system call leaves alone.
LEMMA CallFrame ==
  ASSUME TypeInv, SystemCall
  PROVE  /\ pending # <<>> /\ DiskCall(pending[1]) /\ mode = "up" /\ mode' = "up"
         /\ pending' = Tail(pending) /\ pending' \in Seq(Call) /\ Len(pending) \in Nat
         /\ Len(pending') = Len(pending) - 1
         /\ \A i \in 1 .. Len(pending) - 1 : pending'[i] = pending[i + 1]
         /\ cache' \in Seq([index : Nat, term : Term])
         /\ UNCHANGED <<closed, open, first_log_index, last_log_index, req>>
<1>1. /\ pending # <<>> /\ DiskCall(Head(pending)) /\ mode = "up" /\ mode' = "up"
      /\ pending' = Tail(pending) /\ pending \in Seq(Call)
      /\ UNCHANGED <<closed, open, first_log_index, last_log_index, req>>
  BY DEF SystemCall, TypeInv
<1>2. cache' \in Seq([index : Nat, term : Term])
  BY DEF SystemCall, TypeInv
<1>3. Head(pending) = pending[1]
  BY <1>1
<1>4. /\ pending' \in Seq(Call) /\ Len(pending) \in Nat /\ Len(pending') = Len(pending) - 1
      /\ \A i \in 1 .. Len(pending) - 1 : pending'[i] = pending[i + 1]
  BY <1>1
<1> QED
  BY <1>1, <1>2, <1>3, <1>4

\* A system call keeps the types that the directory does not depend on.
LEMMA CallType == ASSUME TypeInv, SystemCall, DiskType' PROVE TypeInv'
  BY CallFrame, Zenon DEF TypeInv

\* What is to be shown of a system call.
LEMMA CallKeeps == ASSUME TypeInv, SystemCall, DiskType', DiskInv', UpInv' PROVE IInv'
  BY CallFrame, CallType DEF IInv

-----------------------------------------------------------------------------
\* Reset does nothing.
LEMMA ResetStep == ASSUME IInv, NEW k \in Nat, Reset(k) PROVE IInv'
<1>1. mode = "up" /\ pending = <<>> /\ UNCHANGED Segments /\ mode' = "up" /\ pending' = <<>> /\ cache' = cache
  BY DEF Reset, Idle, Segments, memory
<1>2. Quiet /\ NotTorn(DOMAIN disk)
  BY <1>1, QuietWhenIdle DEF IInv
<1>3. Done'
  BY DEF Reset, Done
<1>4. UpInv'
  BY <1>1, <1>2, <1>3, SegmentsSame DEF UpInv
<1>5. TypeInv'
  BY <1>1 DEF IInv, TypeInv, DiskType, Segments
<1> QED
  BY <1>1, <1>4, <1>5, SegmentsSame DEF IInv

\* An operation returns when it has no calls left.
LEMMA ReturnStep == ASSUME IInv, Return PROVE IInv'
<1>1. mode = "up" /\ pending = <<>> /\ UNCHANGED Segments /\ mode' = "up" /\ pending' = <<>> /\ cache' = cache
  BY DEF Return, Segments, memory
<1>2. Quiet /\ NotTorn(DOMAIN disk)
  BY <1>1, QuietWhenIdle DEF IInv
<1>3. Done'
  BY DEF Return, Done
<1>4. UpInv'
  BY <1>1, <1>2, <1>3, SegmentsSame DEF UpInv
<1>5. TypeInv'
  BY <1>1 DEF IInv, TypeInv, DiskType, Segments
<1> QED
  BY <1>1, <1>4, <1>5, SegmentsSame DEF IInv

\* ClearCacheEntry changes the cache only.
LEMMA ClearCacheEntryStep == ASSUME IInv, ClearCacheEntry PROVE IInv'
<1>1. /\ mode = "up" /\ pending = <<>> /\ UNCHANGED Segments /\ mode' = "up" /\ pending' = <<>>
      /\ req = NoRequest /\ req' = NoRequest /\ cache # <<>> /\ cache' = Tail(cache)
  BY DEF ClearCacheEntry, Idle, Segments
<1>2. Quiet /\ NotTorn(DOMAIN disk)
  BY <1>1, QuietWhenIdle DEF IInv
<1>3. UpInv'
  BY <1>1, <1>2, SegmentsSame DEF UpInv, Done
<1>4. TypeInv'
  BY <1>1 DEF IInv, TypeInv, DiskType, Segments
<1> QED
  BY <1>1, <1>3, <1>4, SegmentsSame DEF IInv

\* A failed Init leaves the directory as it was.
LEMMA InitFailsStep == ASSUME IInv, InitFails PROVE IInv'
<1>1. UNCHANGED Segments /\ mode' = "failed" /\ UNCHANGED <<pending, cache>>
  BY DEF InitFails, Segments, memory
<1>2. TypeInv'
  BY <1>1 DEF IInv, TypeInv, DiskType, Segments
<1> QED
  BY <1>1, <1>2, SegmentsSame DEF IInv

\* The calls of Init.
LEMMA StartingCall == ASSUME IInv, req = NoRequest, Starting, SystemCall PROVE IInv'
<1>1. TypeInv /\ DiskType /\ DiskInv
  BY DEF IInv, TypeInv
<1>2. CASE DOMAIN disk = {}
  <2>1. /\ closed = {} /\ open = 0 /\ first_log_index = 1 /\ last_log_index = 0 /\ meta.first = 1
        /\ \/ meta.state = "none" /\ pending = SaveMeta(1)
           \/ meta.state = "torn" /\ pending = <<[call |-> "write_meta", first |-> 1]>>
    BY <1>2 DEF Starting, Quiet, Kept
  <2>2. CASE pending = SaveMeta(1)
    <3>1. pending[1] = [call |-> "truncate_meta"] /\ Tail(pending) = <<[call |-> "write_meta", first |-> 1]>>
      BY <2>2 DEF SaveMeta
    <3>2. disk' = disk /\ meta' = [meta EXCEPT !.state = "torn"]
      BY <1>1, <3>1, CallFrame, MetaCalls
    <3>3. DiskType' /\ DiskInv' /\ meta'.state = "torn" /\ meta'.first = meta.first
      BY <1>1, <3>2, TruncateMetaDisk
    <3>4. UpInv'
      BY <1>1, <1>2, <2>1, <3>1, <3>2, <3>3, CallFrame, Zenon DEF UpInv, Starting
    <3> QED
      BY <1>1, <3>3, <3>4, CallKeeps
  <2>3. CASE pending = <<[call |-> "write_meta", first |-> 1]>>
    <3>1. pending[1] = [call |-> "write_meta", first |-> 1] /\ Tail(pending) = <<>>
      BY <2>3
    <3>2. disk' = disk /\ meta' = [state |-> "ok", first |-> 1]
      BY <1>1, <3>1, CallFrame, MetaCalls
    <3>3. DiskType' /\ DiskInv' /\ meta'.state = "ok" /\ meta'.first = 1
      BY <1>1, <2>1, <3>2, WriteMetaDisk
    <3>4. /\ pending' = <<>> /\ req' = NoRequest /\ closed' = {} /\ open' = 0 /\ DOMAIN disk' = {}
          /\ first_log_index' = 1 /\ last_log_index' = 0
      BY <1>1, <1>2, <2>1, <3>1, <3>2, CallFrame, Zenon
    <3>5. NotTorn(DOMAIN disk)' /\ Done'
      BY <3>4 DEF NotTorn, Done
    <3>6. Settled(last_log_index)' /\ OpenSettled(last_log_index)' /\ Shut(closed)' /\ Kept' = {}
      BY <3>3, <3>4 DEF Settled, OpenSettled, Filled, Shut, Kept
    <3>7. Quiet'
      BY <3>3, <3>4, <3>6 DEF Quiet
    <3> QED
      BY <1>1, <3>3, <3>4, <3>5, <3>7, CallKeeps DEF UpInv
  <2> QED
    BY <2>1, <2>2, <2>3
<1>3. CASE Quiet /\ open # 0 /\ NotTorn(closed) /\ pending = <<Ftruncate(open, Len(disk[open].ents))>>
  <2>1. /\ open \in DOMAIN disk /\ disk[open].open /\ meta.state = "ok" /\ DOMAIN disk = closed \cup {open}
        /\ (\A f \in closed : f < open /\ ~disk[f].open) /\ End(open) = last_log_index + 1
    BY <1>3 DEF Quiet, Kept, Shut, Settled, OpenSettled
  <2>2. PICK s \in DOMAIN disk : s = open
    BY <2>1, Zenon
  <2>3. PICK n \in Nat : n = Len(disk[s].ents)
    BY <1>1, FileType, Zenon
  <2>4. s \in Nat /\ End(s) = s + n /\ n <= Len(disk[s].ents)
    BY <1>1, <2>3, FileType DEF End
  <2>5. pending[1] = Ftruncate(s, n) /\ Tail(pending) = <<>>
    BY <1>3, <2>2, <2>3
  <2>6. meta' = meta /\ disk' = [disk EXCEPT ![s].ents = SubSeq(@, 1, n), ![s].torn = FALSE]
    BY <1>1, <2>5, CallFrame, FtruncateCall, Zenon
  <2>7. OneOpen(s) /\ disk[s].open /\ meta.state # "none"
    BY <1>1, <2>1, <2>2, FileType DEF OneOpen
  <2>8. /\ DiskType' /\ DiskInv' /\ DOMAIN disk' = DOMAIN disk
        /\ \A f \in DOMAIN disk : disk'[f].open = disk[f].open
        /\ \A f \in DOMAIN disk : f # s => disk'[f].torn = disk[f].torn /\ End(f)' = End(f)
        /\ ~disk'[s].torn /\ End(s)' = s + n
        /\ \A i : i \in LogIndices' <=> i \in LogIndices /\ i < s + n
    BY <1>1, <2>4, <2>6, <2>7, FtruncateDisk, Zenon
  <2>9. open' = s /\ closed' = closed /\ last_log_index' = last_log_index /\ pending' = <<>> /\ req' = NoRequest
    BY <1>1, <2>2, <2>5, CallFrame
  <2>10. LogIndices' = LogIndices
    <3>1. ASSUME NEW i \in LogIndices PROVE i < s + n
      <4>1. PICK f \in DOMAIN disk : i \in Int /\ i < End(f)
        BY <1>1, InLog, Zenon
      <4>2. f = s \/ End(f) <= s
        BY <1>1, <2>1, <2>2 DEF DiskInv, Disjoint
      <4> QED
        BY <1>1, <2>4, <4>1, <4>2, FileType
    <3> QED
      BY <2>8, <3>1, Zenon
  <2>11. Settled(last_log_index)'
    <3>1. Settled(last_log_index) /\ s \notin closed
      BY <1>3, <2>1, <2>2 DEF Quiet, Settled
    <3>2. \A f \in closed : f \in DOMAIN disk /\ f # s /\ End(f)' = End(f)
      BY <2>1, <2>8, <3>1
    <3> QED
      BY <2>2, <2>6, <2>9, <2>10, <3>1, <3>2 DEF Settled, Filled
  <2>12. Quiet'
    <3>1. OpenSettled(last_log_index)' /\ Shut(closed)' /\ DOMAIN disk' = Kept'
      BY <2>1, <2>2, <2>4, <2>8, <2>9 DEF OpenSettled, Shut, Kept
    <3>2. meta'.state = "ok" /\ first_log_index' = meta'.first
      BY <1>1, <1>3, <2>6, CallFrame DEF Quiet
    <3> QED
      BY <2>11, <3>1, <3>2 DEF Quiet
  <2>13. NotTorn(DOMAIN disk)'
    BY <1>3, <2>1, <2>2, <2>8 DEF NotTorn
  <2> QED
    BY <1>1, <2>8, <2>9, <2>12, <2>13, CallKeeps DEF UpInv, Done
<1> QED
  BY <1>2, <1>3 DEF Starting

\* The storage after the entry has been written.
LEMMA WriteDone ==
  ASSUME IInv, NEW t \in Term, Appending(t), pending = <<Write(open, t)>>, SystemCall,
         OpenSettled(last_log_index - 1), Shut(closed)
  PROVE  IInv'
<1>1. TypeInv /\ DiskType /\ DiskInv /\ last_log_index \in Nat
  BY DEF IInv, TypeInv
<1>2. /\ meta.state = "ok" /\ first_log_index = meta.first /\ open # 0 /\ closed \subseteq DOMAIN disk
      /\ DOMAIN disk \subseteq closed \cup {open} /\ NotTorn(DOMAIN disk) /\ Settled(last_log_index - 1)
      /\ open \in DOMAIN disk /\ disk[open].open
      /\ req = [op |-> "append", index |-> last_log_index, term |-> t]
  BY DEF Appending, Kept, OpenSettled
<1>3. \A f \in closed : f < open /\ ~disk[f].open
  BY <1>2 DEF Settled, Shut
<1>4. PICK s \in DOMAIN disk : s = open
  BY <1>2, Zenon
<1>5. pending[1] = Write(s, t) /\ Tail(pending) = <<>>
  BY <1>4
<1>6. meta' = meta /\ disk' = [disk EXCEPT ![s].ents = Append(@, t)]
  BY <1>1, <1>5, CallFrame, WriteCall
<1>7. OneOpen(s) /\ disk[s].open /\ meta.state # "none"
  BY <1>1, <1>2, <1>3, <1>4, FileType DEF OneOpen
<1>8. End(s) = last_log_index
  BY <1>1, <1>2, <1>4 DEF OpenSettled
<1>9. meta.first <= End(s)
  BY <1>1, <1>2, <1>8 DEF Settled
<1>10. /\ DiskType' /\ DiskInv' /\ DOMAIN disk' = DOMAIN disk
       /\ \A f \in DOMAIN disk : disk'[f].torn = disk[f].torn /\ disk'[f].open = disk[f].open
       /\ \A f \in DOMAIN disk : f # s => End(f)' = End(f)
       /\ End(s)' = End(s) + 1
       /\ \A i : i \in LogIndices' <=> i \in LogIndices \/ i = End(s)
       /\ \A i : i = End(s) => EntryAt(i)' = t
  BY <1>1, <1>6, <1>7, <1>9, WriteDisk, Zenon
<1>11. open' = s /\ closed' = closed /\ last_log_index' = last_log_index /\ pending' = <<>> /\ req' = req /\ s \notin closed
  <2>1. s \notin closed
    BY <1>1, <1>3, <1>4, FileType
  <2>2. open' = s /\ closed' = closed /\ last_log_index' = last_log_index /\ pending' = <<>> /\ req' = req
    BY <1>1, <1>4, <1>5, CallFrame
  <2> QED
    BY <2>1, <2>2
<1>12. Settled(last_log_index)'
  <2>1. \A f \in closed : f \in DOMAIN disk /\ f # s /\ End(f)' = End(f)
    BY <1>2, <1>10, <1>11
  <2>2. Filled(last_log_index)'
    BY <1>1, <1>2, <1>6, <1>8, <1>10, <1>11 DEF Settled, Filled, DiskType
  <2>3. meta'.first <= last_log_index' + 1 /\ \A f \in closed : End(f)' <= last_log_index + 1
    BY <1>1, <1>2, <1>6, <1>11, <2>1, FileType DEF Settled, DiskType
  <2> QED
    BY <1>3, <1>4, <1>11, <2>2, <2>3 DEF Settled
<1>13. Quiet'
  <2>1. OpenSettled(last_log_index)' /\ Shut(closed)' /\ DOMAIN disk' = Kept'
    BY <1>2, <1>3, <1>4, <1>8, <1>10, <1>11, Zenon DEF OpenSettled, Shut, Kept
  <2>2. meta'.state = "ok" /\ first_log_index' = meta'.first
    BY <1>1, <1>2, <1>6, CallFrame
  <2> QED
    BY <1>12, <2>1, <2>2 DEF Quiet
<1>14. NotTorn(DOMAIN disk)'
  BY <1>2, <1>10 DEF NotTorn
<1>15. Done'
  BY <1>2, <1>8, <1>10, <1>11 DEF Done
<1> QED
  BY <1>1, <1>10, <1>11, <1>13, <1>14, <1>15, CallKeeps DEF UpInv

\* The storage after GetOpenSegment has made the new file.
LEMMA CreateDone ==
  ASSUME IInv, NEW t \in Term, Appending(t), SystemCall,
         pending[1] = Create(open), open \notin DOMAIN disk, open = last_log_index,
         \A f \in closed : ~disk[f].open \/ Rolls(f)
  PROVE  /\ DiskType' /\ DiskInv' /\ meta' = meta
         /\ DOMAIN disk' = DOMAIN disk \cup {open} /\ disk'[open].open /\ NotTorn(DOMAIN disk)'
         /\ \A f \in DOMAIN disk : disk'[f] = disk[f] /\ End(f)' = End(f)
         /\ Settled(last_log_index - 1)' /\ OpenSettled(last_log_index - 1)' 
<1>1. TypeInv /\ DiskType /\ DiskInv /\ last_log_index \in Nat
  BY DEF IInv, TypeInv
<1>2. /\ meta.state = "ok" /\ open # 0 /\ closed \subseteq DOMAIN disk
      /\ DOMAIN disk \subseteq closed /\ NotTorn(DOMAIN disk) /\ Settled(last_log_index - 1)
  BY DEF Appending, Kept
<1>3. PICK s \in 1 .. MaxIndex : s = open
  <2>1. open \in 1 .. MaxIndex
    BY <1>1, <1>2, SegmentAssumption DEF TypeInv
  <2> QED
    BY <2>1, Zenon
<1>4. meta' = meta /\ disk' = [f \in DOMAIN disk \cup {s} |->
                       IF f = s THEN [open |-> TRUE, last |-> 0, ents |-> <<>>, torn |-> FALSE] ELSE disk[f]]
  <2>1. DiskCall(Create(s))
    BY <1>1, <1>3, CallFrame, Zenon
  <2> QED
    BY <2>1, CreateCall, Zenon
<1>5. \A f \in DOMAIN disk : End(f) <= s /\ (disk[f].open => End(f) = s /\ Len(disk[f].ents) > SegmentSize)
  BY <1>1, <1>2, <1>3 DEF Settled, Shut, Rolls
<1>6. s > meta.first => s - 1 \in LogIndices
  BY <1>1, <1>2, <1>3 DEF Settled, Filled, DiskType
<1>7. /\ DiskType' /\ DiskInv' /\ DOMAIN disk' = DOMAIN disk \cup {s}
      /\ \A f \in DOMAIN disk : disk'[f] = disk[f] /\ End(f)' = End(f)
      /\ disk'[s] = [open |-> TRUE, last |-> 0, ents |-> <<>>, torn |-> FALSE] /\ End(s)' = s
      /\ LogIndices' = LogIndices
  <2>1. s \notin DOMAIN disk /\ meta.state # "none"
    BY <1>2, <1>3
  <2> QED
    BY <1>1, <1>4, <1>5, <1>6, <2>1, CreateDisk, Zenon
<1>8. open' = s /\ closed' = closed /\ last_log_index' = last_log_index
  BY <1>1, <1>3, CallFrame
<1>9. disk'[s].open /\ ~disk'[s].torn
  <2>1. disk'[s].open = TRUE /\ disk'[s].torn = FALSE
    BY <1>7
  <2> QED
    BY <2>1
<1>10. Settled(last_log_index - 1)'
  BY <1>2, <1>3, <1>4, <1>7, <1>8 DEF Settled, Filled
<1>11. OpenSettled(last_log_index - 1)'
  BY <1>1, <1>3, <1>7, <1>8, <1>9 DEF OpenSettled
<1>12. NotTorn(DOMAIN disk)'
  BY <1>2, <1>7, <1>9, Zenon DEF NotTorn
<1> QED
  BY <1>3, <1>4, <1>7, <1>9, <1>10, <1>11, <1>12, Zenon

\* The storage after the full segment got its final name.
LEMMA RolledOver ==
  ASSUME IInv, NEW t \in Term, Appending(t), SystemCall, NEW o \in closed,
         pending = <<Rename(o, FALSE), Write(open, t)>>,
         Rolls(o), Shut(closed \ {o}), OpenSettled(last_log_index - 1)
  PROVE  IInv'
<1>1. TypeInv /\ DiskType /\ DiskInv /\ last_log_index \in Nat
  BY Zenon DEF IInv, TypeInv
<1>2. /\ meta.state = "ok" /\ open # 0 /\ closed \subseteq DOMAIN disk /\ first_log_index = meta.first
      /\ DOMAIN disk \subseteq Kept /\ NotTorn(DOMAIN disk) /\ Settled(last_log_index - 1)
      /\ req = [op |-> "append", index |-> last_log_index, term |-> t]
  BY DEF Appending
<1>3. pending[1] = Rename(o, FALSE) /\ Tail(pending) = <<Write(open, t)>>
  OBVIOUS
<1>4. meta' = meta /\ disk' = [disk EXCEPT ![o].open = FALSE, ![o].last = IF FALSE THEN 0 ELSE LastIndex(o)]
  BY <1>1, <1>3, CallFrame, RenameCall, Zenon
<1>5. o \in DOMAIN disk /\ meta.state # "none"
  BY <1>2
<1>6. ~disk[o].torn /\ disk[o].ents # <<>>
  BY <1>1, <1>2, <1>5, FileType, SegmentAssumption DEF NotTorn, Rolls
<1>7. ASSUME NEW f \in DOMAIN disk, f < o PROVE ~disk[f].open
  BY <1>1, <1>2, <1>7, FileType DEF Settled, Kept, Shut
<1>8. /\ DiskType' /\ DiskInv' /\ DOMAIN disk' = DOMAIN disk
      /\ \A f \in DOMAIN disk : /\ disk'[f].torn = disk[f].torn /\ disk'[f].ents = disk[f].ents
                                /\ disk'[f].open = IF f = o THEN FALSE ELSE disk[f].open
      /\ \A f \in DOMAIN disk : End(f)' = End(f)
      /\ LogIndices' = LogIndices
  BY <1>1, <1>4, <1>5, <1>6, <1>7, RenameDisk, Zenon
<1>9. UNCHANGED <<closed, open, last_log_index, first_log_index, req>> /\ pending' = <<Write(open, t)>>
  BY <1>1, <1>3, CallFrame
<1>10. Shut(closed)'
  BY <1>2, <1>8, <1>9, Zenon DEF Shut
<1>11. Settled(last_log_index - 1)'
  BY <1>2, <1>4, <1>8, <1>9 DEF Settled, Filled
<1>12. OpenSettled(last_log_index - 1)'
  <2>1. open \in DOMAIN disk /\ open # o /\ disk[open].open /\ End(open) = last_log_index
    BY <1>1, <1>2 DEF OpenSettled, Settled, TypeInv
  <2>2. PICK s \in DOMAIN disk : s = open
    BY <2>1, Zenon
  <2>3. disk'[s].open /\ End(s)' = last_log_index
    BY <1>8, <2>1, <2>2, Zenon
  <2> QED
    BY <1>1, <1>8, <1>9, <2>2, <2>3 DEF OpenSettled
<1>13. NotTorn(DOMAIN disk)' /\ Kept' = Kept
  BY <1>2, <1>8, <1>9, Zenon DEF NotTorn, Kept
<1>14. Appending(t)'
  BY <1>2, <1>4, <1>8, <1>9, <1>10, <1>11, <1>12, <1>13 DEF Appending, Write
<1> QED
  BY <1>1, <1>8, <1>14, CallKeeps DEF UpInv

\* Lists of two and three calls.
LEMMA TailOfThree == \A a, b, c : <<a, b, c>>[1] = a /\ Tail(<<a, b, c>>) = <<b, c>>
  OBVIOUS

\* The calls of AppendEntry: one to three, as the segment is there, is missing
\* or is full.
LEMMA AppendingCall == ASSUME IInv, NEW t \in Term, Appending(t), SystemCall PROVE IInv'
<1>1. TypeInv /\ DiskType /\ DiskInv /\ open # 0 /\ closed \subseteq DOMAIN disk /\ DOMAIN disk \subseteq Kept
  BY DEF IInv, TypeInv, Appending
<1>2. UNCHANGED <<closed, open, last_log_index, first_log_index, req>> /\ pending' = Tail(pending)
  BY <1>1, CallFrame
<1>3. CASE pending = <<Write(open, t)>> /\ OpenSettled(last_log_index - 1) /\ Shut(closed)
  BY <1>3, WriteDone
<1>4. CASE /\ pending = <<Create(open), Write(open, t)>>
           /\ open \notin DOMAIN disk /\ open = last_log_index /\ Shut(closed)
  <2>1. pending[1] = Create(open) /\ pending' = <<Write(open, t)>>
    BY <1>2, <1>4
  <2>2. /\ DiskType' /\ DiskInv' /\ meta' = meta
        /\ DOMAIN disk' = DOMAIN disk \cup {open} /\ NotTorn(DOMAIN disk)'
        /\ \A f \in DOMAIN disk : disk'[f] = disk[f]
        /\ Settled(last_log_index - 1)' /\ OpenSettled(last_log_index - 1)'
    <3>1. \A f \in closed : ~disk[f].open \/ Rolls(f)
      BY <1>4 DEF Shut
    <3> QED
      BY <1>4, <2>1, <3>1, CreateDone, Zenon
  <2>3. Shut(closed)' /\ closed' \subseteq DOMAIN disk' /\ DOMAIN disk' \subseteq Kept'
    BY <1>1, <1>2, <1>4, <2>2 DEF Shut, Kept
  <2>4. Appending(t)'
    BY <1>1, <1>2, <2>1, <2>2, <2>3, Zenon DEF Appending, Write
  <2> QED
    BY <1>1, <2>2, <2>4, CallKeeps DEF UpInv
<1>5. ASSUME NEW o \in closed, Rolls(o), Shut(closed \ {o}),
             pending = <<Create(open), Rename(o, FALSE), Write(open, t)>>, open \notin DOMAIN disk
      PROVE  IInv'
  <2>1. pending[1] = Create(open) /\ pending' = <<Rename(o, FALSE), Write(open, t)>> /\ open = last_log_index
    <3>1. pending[1] = Create(open) /\ Tail(pending) = <<Rename(o, FALSE), Write(open, t)>>
      BY <1>5, TailOfThree, Zenon
    <3> QED
      BY <1>2, <1>5, <3>1, Zenon DEF Rolls
  <2>2. /\ DiskType' /\ DiskInv' /\ meta' = meta
        /\ DOMAIN disk' = DOMAIN disk \cup {open} /\ NotTorn(DOMAIN disk)'
        /\ \A f \in DOMAIN disk : disk'[f] = disk[f] /\ End(f)' = End(f)
        /\ Settled(last_log_index - 1)' /\ OpenSettled(last_log_index - 1)'
    <3>1. \A f \in closed : ~disk[f].open \/ Rolls(f)
      BY <1>5 DEF Shut
    <3> QED
      BY <1>5, <2>1, <3>1, CreateDone, Zenon
  <2>3. Shut(closed \ {o})' /\ closed' \subseteq DOMAIN disk' /\ DOMAIN disk' \subseteq Kept'
    BY <1>1, <1>2, <1>5, <2>2, Zenon DEF Shut, Kept
  <2>4. Rolls(o)'
    BY <1>1, <1>2, <1>5, <2>2 DEF Rolls
  <2>5. Appending(t)'
    BY <1>1, <1>2, <2>1, <2>2, <2>3, <2>4, Zenon DEF Appending, Write, Rename
  <2> QED
    BY <1>1, <2>2, <2>5, CallKeeps, Zenon DEF UpInv
<1>6. ASSUME NEW o \in closed, Rolls(o), Shut(closed \ {o}),
             pending = <<Rename(o, FALSE), Write(open, t)>>, OpenSettled(last_log_index - 1)
      PROVE  IInv'
  BY <1>6, RolledOver, Zenon
<1> QED
  BY <1>3, <1>4, <1>5, <1>6, Zenon DEF Appending

\* Sequences that agree at every place, and the ones that AppendCalls puts
\* together.
LEMMA SameSeq ==
  ASSUME NEW S, NEW s \in Seq(S), NEW u \in Seq(S), Len(s) = Len(u), \A i \in 1 .. Len(s) : s[i] = u[i]
  PROVE  s = u
  OBVIOUS

\* Two calls in a list.
LEMMA TwoInOne ==
  ASSUME NEW S, NEW a \in S, NEW b \in S
  PROVE  <<a>> \o <<b>> = <<a, b>> /\ <<a, b>> \in Seq(S) /\ <<a>> \o <<>> = <<a>>
<1>1. <<a>> \in Seq(S) /\ <<b>> \in Seq(S) /\ <<a, b>> \in Seq(S) /\ Len(<<a>>) = 1 /\ Len(<<b>>) = 1 /\ Len(<<a, b>>) = 2
  OBVIOUS
<1>2. <<a>> \o <<b>> \in Seq(S) /\ Len(<<a>> \o <<b>>) = 2
  BY <1>1
<1>3. (<<a>> \o <<b>>)[1] = a
  BY <1>1
<1>4. (<<a>> \o <<b>>)[2] = b
  BY <1>1
<1>5. \A i \in 1 .. Len(<<a>> \o <<b>>) : (<<a>> \o <<b>>)[i] = <<a, b>>[i]
  BY <1>2, <1>3, <1>4
<1>6. <<a>> \o <<b>> = <<a, b>>
  BY <1>1, <1>2, <1>5, SameSeq, Zenon
<1>7. <<a>> \o <<>> = <<a>>
  BY <1>1
<1> QED
  BY <1>1, <1>6, <1>7

\* Three calls in a list.
LEMMA ThreeInOne ==
  ASSUME NEW S, NEW a \in S, NEW b \in S, NEW c \in S
  PROVE  <<a>> \o <<b>> \o <<c>> = <<a, b, c>> /\ <<a, b, c>> \in Seq(S)
<1>1. <<a, b>> \in Seq(S) /\ <<c>> \in Seq(S) /\ <<a, b, c>> \in Seq(S) /\ Len(<<a, b>>) = 2 /\ Len(<<c>>) = 1 /\ Len(<<a, b, c>>) = 3
  OBVIOUS
<1>2. <<a, b>> \o <<c>> \in Seq(S) /\ Len(<<a, b>> \o <<c>>) = 3
  BY <1>1
<1>3. (<<a, b>> \o <<c>>)[1] = a
  BY <1>1
<1>4. (<<a, b>> \o <<c>>)[2] = b
  BY <1>1
<1>5. (<<a, b>> \o <<c>>)[3] = c
  BY <1>1
<1>6. \A i \in 1 .. Len(<<a, b>> \o <<c>>) : (<<a, b>> \o <<c>>)[i] = <<a, b, c>>[i]
  BY <1>2, <1>3, <1>4, <1>5
<1>7. <<a, b>> \o <<c>> = <<a, b, c>>
  BY <1>1, <1>2, <1>6, SameSeq, Zenon
<1> QED
  BY <1>1, <1>7, TwoInOne, Zenon

\* AppendEntry finds the storage at rest and lists its calls.
LEMMA AppendEntryStep == ASSUME IInv, NEW t \in Term, AppendEntry(t) PROVE IInv' /\ Appending(t)'
<1>1. TypeInv /\ DiskType /\ DiskInv /\ last_log_index \in Nat /\ MaxIndex \in Nat
  BY SegmentAssumption DEF IInv, TypeInv
<1>2. PICK n \in Nat : n = last_log_index + 1
  <2>1. last_log_index + 1 \in Nat
    BY <1>1
  <2> QED
    BY <2>1, Zenon
<1>3. /\ mode = "up" /\ pending = <<>> /\ n <= MaxIndex /\ mode' = "up"
      /\ last_log_index' = n /\ disk' = disk /\ meta' = meta /\ first_log_index' = first_log_index
      /\ req' = [op |-> "append", index |-> n, term |-> t]
      /\ cache' = Append(cache, [index |-> n, term |-> t])
  BY <1>2 DEF AppendEntry, Idle
<1>4. Quiet /\ NotTorn(DOMAIN disk)
  BY <1>3, QuietWhenIdle DEF IInv
<1>5. /\ meta.state = "ok" /\ first_log_index = meta.first /\ DOMAIN disk = closed \cup ({open} \ {0})
      /\ Shut(closed) /\ Settled(n - 1) /\ OpenSettled(n - 1) /\ n - 1 = last_log_index /\ n >= 1
  BY <1>1, <1>2, <1>4 DEF Quiet, Kept
<1>6. \A f \in closed : f \in DOMAIN disk /\ f \in Nat /\ End(f) \in Nat /\ f < End(f) /\ End(f) <= n
  <2>1. \A f \in closed : f \in DOMAIN disk /\ ~disk[f].open /\ disk[f].ents # <<>>
    BY <1>1, <1>5 DEF Shut, DiskInv
  <2>2. \A f \in closed : Len(disk[f].ents) # 0
    BY <1>1, <2>1, FileType
  <2>3. \A f \in closed : f \in Nat /\ End(f) = f + Len(disk[f].ents) /\ Len(disk[f].ents) \in Nat
    BY <1>1, <2>1, FileType DEF End
  <2> QED
    BY <1>5, <2>1, <2>2, <2>3 DEF Settled
<1>7. cache' \in Seq([index : Nat, term : Term])
  BY <1>1, <1>3 DEF TypeInv
<1>8. DiskType' /\ DiskInv' /\ LogIndices' = LogIndices /\ \A f : End(f)' = End(f)
  BY <1>1, <1>3, DiskSame
<1>9. ASSUME closed' \subseteq 1 .. MaxIndex, open' \in 1 .. MaxIndex, pending' \in Seq(Call), Appending(t)'
      PROVE  IInv'
  <2>1. open' \in 0 .. MaxIndex
    BY <1>9
  <2>2. TypeInv'
    BY <1>1, <1>3, <1>7, <1>8, <1>9, <2>1 DEF TypeInv
  <2> QED
    BY <1>3, <1>8, <1>9, <2>2 DEF IInv, UpInv
<1>10. ASSUME open' \in 1 .. MaxIndex, closed' \subseteq DOMAIN disk, DOMAIN disk \subseteq Kept',
              \A f \in closed' : End(f) <= n /\ f < open'
       PROVE  /\ Settled(last_log_index - 1)' /\ NotTorn(DOMAIN disk)' /\ open' # 0
              /\ closed' \subseteq DOMAIN disk' /\ DOMAIN disk' \subseteq Kept'
              /\ req' = [op |-> "append", index |-> last_log_index', term |-> t]
              /\ meta'.state = "ok" /\ first_log_index' = meta'.first
  <2>1. last_log_index' - 1 = n - 1 /\ n - 1 + 1 = n
    BY <1>3
  <2>2. Settled(last_log_index - 1)'
    BY <1>3, <1>5, <1>8, <1>10, <2>1 DEF Settled, Filled
  <2>3. NotTorn(DOMAIN disk)'
    BY <1>3, <1>4 DEF NotTorn
  <2> QED
    BY <1>3, <1>5, <1>10, <2>2, <2>3
<1>11. CASE open = 0
  <2>1. open' = n /\ closed' = closed /\ pending' = <<Create(n)>> \o <<>> \o <<Write(n, t)>>
    BY <1>2, <1>5, <1>11 DEF AppendEntry, AppendCalls
  <2>2. pending' = <<Create(n), Write(n, t)>> /\ pending' \in Seq(Call)
    <3>1. Create(n) \in Call /\ Write(n, t) \in Call
      BY CallsAreCalls
    <3> QED
      BY <2>1, <3>1, TwoInOne, Zenon
  <2>3. pending' \in Seq(Call)
    BY <2>2
  <2>4. closed' \subseteq 1 .. MaxIndex /\ open' \in 1 .. MaxIndex
    BY <1>1, <1>3, <1>5, <2>1 DEF TypeInv
  <2>5. closed' \subseteq DOMAIN disk /\ DOMAIN disk \subseteq Kept' /\ \A f \in closed' : End(f) <= n /\ f < open'
    BY <1>5, <1>6, <1>11, <2>1 DEF Kept
  <2>6. open' \notin DOMAIN disk' /\ open' = last_log_index' /\ Shut(closed)'
    BY <1>3, <1>5, <1>6, <1>11, <2>1 DEF Shut
  <2>7. Appending(t)'
    BY <1>10, <2>1, <2>2, <2>4, <2>5, <2>6, Zenon DEF Appending, Create, Write
  <2> QED
    BY <1>9, <2>3, <2>4, <2>7
<1>12. ASSUME open # 0
       PROVE  /\ open \in DOMAIN disk /\ disk[open].open /\ End(open) = n /\ Len(disk[open].ents) \in Nat
              /\ open \in 1 .. MaxIndex /\ open \in Nat /\ n = open + Len(disk[open].ents) /\ open \notin closed
              /\ \A f \in closed : f < open
  <2>1. /\ open \in DOMAIN disk /\ disk[open].open /\ (\A f \in closed : f < open) /\ End(open) = n - 1 + 1
    BY <1>5, <1>12 DEF OpenSettled, Settled
  <2>2. open \in 1 .. MaxIndex /\ open \in Nat /\ Len(disk[open].ents) \in Nat
    BY <1>1, <2>1, FileType DEF DiskType
  <2>3. n = open + Len(disk[open].ents)
    BY <2>1 DEF End
  <2> QED
    BY <2>1, <2>2, <2>3
<1>13. CASE open # 0 /\ Len(disk[open].ents) > SegmentSize
  <2>1. n # open /\ open < n
    BY <1>12, <1>13, SegmentAssumption
  <2>2. open' = n /\ closed' = closed \cup {open} /\ pending' = <<Create(n)>> \o <<Rename(open, FALSE)>> \o <<Write(n, t)>>
    BY <1>2, <1>13, <2>1, Zenon DEF AppendEntry, AppendCalls
  <2>3. pending' = <<Create(n), Rename(open, FALSE), Write(n, t)>> /\ pending' \in Seq(Call)
    <3>1. Create(n) \in Call /\ Rename(open, FALSE) \in Call /\ Write(n, t) \in Call
      BY <1>12, <1>13, CallsAreCalls, Zenon
    <3> QED
      BY <2>2, <3>1, ThreeInOne, Zenon
  <2>4. pending' \in Seq(Call)
    BY <2>3, Zenon
  <2>5. closed' \subseteq 1 .. MaxIndex /\ open' \in 1 .. MaxIndex
    BY <1>1, <1>3, <1>5, <1>12, <1>13, <2>2 DEF TypeInv
  <2>6. closed' \subseteq DOMAIN disk /\ DOMAIN disk \subseteq Kept' /\ \A f \in closed' : End(f) <= n /\ f < open'
    BY <1>5, <1>6, <1>12, <1>13, <2>1, <2>2 DEF Kept
  <2>7. open' \notin DOMAIN disk' /\ open' = last_log_index' /\ Shut(closed \ {open})
    BY <1>3, <1>5, <1>6, <2>1, <2>2 DEF Shut
  <2>8. PICK o \in closed' : o = open
    BY <2>2, Zenon
  <2>9. Rolls(o)' /\ Shut(closed \ {o})' /\ pending' = <<Create(open'), Rename(o, FALSE), Write(open', t)>>
    <3>1. Rolls(o)'
      BY <1>3, <1>8, <1>12, <1>13, <2>5, <2>7, <2>8 DEF Rolls
    <3>2. Shut(closed \ {o})'
      BY <1>3, <1>5, <1>12, <1>13, <2>2, <2>8 DEF Shut
    <3> QED
      BY <2>2, <2>3, <2>8, <3>1, <3>2, Zenon
  <2>10. Appending(t)'
    <3>1. pending' = <<Create(open)', Rename(o, FALSE)', Write(open, t)'>>
      BY <2>9 DEF Create, Rename, Write
    <3> QED
      BY <1>10, <2>5, <2>6, <2>7, <2>9, <3>1, Zenon DEF Appending
  <2> QED
    BY <1>9, <2>4, <2>5, <2>10
<1>14. CASE open # 0 /\ ~(Len(disk[open].ents) > SegmentSize)
  <2>1. open' = open /\ closed' = closed /\ pending' = <<>> \o <<>> \o <<Write(open, t)>>
    BY <1>2, <1>14, Zenon DEF AppendEntry, AppendCalls
  <2>2. pending' = <<Write(open, t)>>
    BY <2>1
  <2>3. pending' \in Seq(Call)
    <3>1. Write(open, t) \in Call
      BY <1>12, <1>14, CallsAreCalls
    <3> QED
      BY <2>2, <3>1
  <2>4. closed' \subseteq 1 .. MaxIndex /\ open' \in 1 .. MaxIndex
    BY <1>1, <1>12, <1>14, <2>1 DEF TypeInv
  <2>5. closed' \subseteq DOMAIN disk /\ DOMAIN disk \subseteq Kept' /\ \A f \in closed' : End(f) <= n /\ f < open'
    BY <1>5, <1>6, <1>12, <1>14, <2>1 DEF Kept
  <2>6. OpenSettled(last_log_index - 1)' /\ Shut(closed)'
    BY <1>3, <1>5, <1>8, <1>12, <1>14, <2>1 DEF Shut, OpenSettled, End
  <2>7. Appending(t)'
    BY <1>10, <2>1, <2>2, <2>4, <2>5, <2>6 DEF Appending, Write
  <2> QED
    BY <1>9, <2>3, <2>4, <2>7
<1> QED
  BY <1>11, <1>13, <1>14, Zenon

-----------------------------------------------------------------------------
\* A restart finds the last entry in the last file, or just before it.
LEMMA LastFile ==
  ASSUME DiskType, DiskInv, IndexSets, NoHoles, LogIndices # {}
  PROVE  \E m \in DOMAIN disk :
           /\ \A f \in DOMAIN disk : f <= m /\ (f # m => f < m /\ End(f) <= m)
           /\ meta.first < End(m) /\ m <= End(m) /\ End(m) \in Nat
           /\ meta.first .. End(m) - 1 \subseteq LogIndices
<1>1. PICK i \in LogIndices : TRUE
  OBVIOUS
<1>2. i \in Int /\ i >= meta.first /\ \E f \in DOMAIN disk : f <= i /\ i < End(f)
  BY <1>1, InLog
<1>3. PICK g \in DOMAIN disk : g <= i /\ i < End(g)
  BY <1>2
<1>4. DOMAIN disk \in SUBSET (1 .. MaxIndex) /\ DOMAIN disk # {}
  BY <1>3 DEF DiskType
<1>5. PICK m \in DOMAIN disk : \A f \in DOMAIN disk : f <= m
  BY <1>4, Zenon DEF IndexSets
<1>6. meta.first \in Nat /\ \A f \in DOMAIN disk : f \in Nat /\ End(f) \in Nat /\ f <= End(f)
  BY FileType DEF DiskType
<1>7. \A f \in DOMAIN disk : f # m => f < m
  BY <1>5, <1>6
<1>8. \A f \in DOMAIN disk : f # m => End(f) <= m
  BY <1>7 DEF DiskInv, Disjoint
<1>9. meta.first < End(m)
  BY <1>2, <1>3, <1>6, <1>8
<1>10. End(m) - 1 \in LogIndices
  <2>1. CASE m < End(m)
    <3>1. End(m) - 1 \in Int /\ End(m) - 1 >= meta.first /\ m <= End(m) - 1 /\ End(m) - 1 < End(m)
      BY <1>6, <1>9, <2>1
    <3> QED
      BY <3>1, InLog, Zenon
  <2>2. CASE m = End(m)
    <3>1. m > meta.first
      BY <1>6, <1>9, <2>2
    <3> QED
      BY <2>2, <3>1 DEF DiskInv
  <2> QED
    BY <1>6, <2>1, <2>2
<1>11. meta.first .. End(m) - 1 \subseteq LogIndices
  BY <1>10, Zenon DEF NoHoles
<1> QED
  BY <1>5, <1>6, <1>7, <1>8, <1>9, <1>11

\* LoadSegments rebuilds the memory from what a dead process left.
LEMMA LoadSegmentsStep == ASSUME IInv, LoadSegments, IndexSets, NoHoles PROVE IInv'
<1>1. /\ TypeInv /\ DiskType /\ DiskInv /\ mode = "down" /\ meta.state = "ok" /\ mode' = "up"
      /\ disk' = disk /\ meta' = meta /\ cache' = cache /\ req' = req
      /\ first_log_index' = meta.first /\ closed' = ClosedFiles /\ Cardinality(OpenFiles) <= 1
  BY DEF IInv, TypeInv, LoadSegments
<1>2. LogIndices # {} /\ req = NoRequest
  BY <1>1 DEF IInv, DownInv
<1>3. PICK m \in DOMAIN disk :
        /\ \A f \in DOMAIN disk : f <= m /\ (f # m => f < m /\ End(f) <= m)
        /\ meta.first < End(m) /\ m <= End(m) /\ End(m) \in Nat
        /\ meta.first .. End(m) - 1 \subseteq LogIndices
  BY <1>1, <1>2, LastFile
<1>4. OpenFiles \in SUBSET (1 .. MaxIndex) /\ ClosedFiles \in SUBSET (1 .. MaxIndex)
  BY <1>1 DEF OpenFiles, ClosedFiles, DiskType
<1>5. m \in Nat \ {0} /\ meta.first \in Nat \ {0} /\ Len(disk[m].ents) \in Nat /\ End(m) = m + Len(disk[m].ents)
  BY <1>1, FileType DEF DiskType, End
<1>6. \A f \in OpenFiles : f = m
  <2>1. \A f, g \in OpenFiles : f = g
    BY <1>1, <1>4, Zenon DEF IndexSets
  <2>2. \A f \in DOMAIN disk : f < m /\ disk[f].open => disk[m].open
    BY <1>1 DEF DiskInv
  <2> QED
    BY <1>3, <2>1, <2>2, Zenon DEF OpenFiles
<1>7. LastIndex(m) = End(m) - 1
  <2>1. CASE disk[m].open
    <3>1. LastIndex(m) = m + Len(disk[m].ents) - 1
      BY <2>1 DEF LastIndex
    <3> QED
      BY <1>5, <3>1
  <2>2. CASE ~disk[m].open
    BY <1>1, <2>2 DEF LastIndex, DiskInv
  <2> QED
    BY <2>1, <2>2
<1>8. End(m) - 1 # 0 /\ ~(meta.first > End(m) - 1)
  BY <1>3, <1>5
<1>9. DiskType' /\ DiskInv' /\ LogIndices' = LogIndices /\ \A f : End(f)' = End(f)
  BY <1>1, DiskSame
<1>10. \A f \in ClosedFiles : f \in DOMAIN disk /\ ~disk[f].open /\ ~disk[f].torn
  BY <1>1, Zenon DEF ClosedFiles, OpenFiles, DiskInv
<1>11. ASSUME NEW o \in {0, m}, open' = o, DOMAIN disk = ClosedFiles \cup ({o} \ {0}), o = m => disk[m].open,
              o # 0 => m \notin ClosedFiles, last_log_index' = End(m) - 1
       PROVE  Quiet'
  <2>1. Settled(last_log_index)'
    <3>1. meta'.first <= last_log_index' + 1
      BY <1>1, <1>3, <1>5, <1>11
    <3>2. Filled(last_log_index)'
      BY <1>1, <1>3, <1>9, <1>11 DEF Filled
    <3>3. \A f \in closed' : End(f)' <= last_log_index' + 1
      BY <1>1, <1>3, <1>5, <1>9, <1>10, <1>11, FileType
    <3>4. \A f \in closed' : open' # 0 => f < open'
      BY <1>1, <1>3, <1>10, <1>11
    <3> QED
      BY <3>1, <3>2, <3>3, <3>4 DEF Settled
  <2>2. OpenSettled(last_log_index)'
    <3>1. open' # 0 => open' = m /\ disk[m].open
      BY <1>11
    <3>2. End(m) - 1 + 1 = End(m)
      BY <1>3
    <3> QED
      BY <1>1, <1>9, <1>11, <3>1, <3>2 DEF OpenSettled, End
  <2>3. Shut(closed)' /\ DOMAIN disk' = Kept'
    BY <1>1, <1>10, <1>11 DEF Shut, Kept
  <2> QED
    BY <1>1, <2>1, <2>2, <2>3 DEF Quiet
<1>12. ASSUME Quiet', pending' = <<>>, NotTorn(DOMAIN disk), open' \in 0 .. MaxIndex, last_log_index' = End(m) - 1
       PROVE  IInv'
  <2>1. Done' /\ NotTorn(DOMAIN disk)' /\ mode' = "up"
    BY <1>1, <1>2, <1>12 DEF Done, NotTorn
  <2>2. TypeInv'
    <3>1. pending' \in Seq(Call) /\ last_log_index' \in Nat /\ first_log_index' \in Nat
      BY <1>1, <1>3, <1>5, <1>12
    <3> QED
      BY <1>1, <1>4, <1>9, <1>12, <3>1, Zenon DEF TypeInv
  <2> QED
    BY <1>9, <1>12, <2>1, <2>2 DEF IInv, UpInv
<1>13. CASE OpenFiles = {}
  <2>1. ClosedFiles = DOMAIN disk /\ ClosedFiles # {}
    BY <1>13 DEF ClosedFiles
  <2>2. Max(ClosedFiles) = m
    <3>1. Max(ClosedFiles) \in DOMAIN disk /\ m <= Max(ClosedFiles)
      BY <1>4, <2>1, Zenon DEF IndexSets
    <3> QED
      BY <1>1, <1>3, <1>5, <3>1, FileType
  <2>3. open' = 0 /\ last_log_index' = End(m) - 1 /\ pending' = <<>> \o <<>>
    <3>1. /\ open' = (IF 0 # 0 /\ meta.first > LastIndex(0) THEN 0 ELSE 0)
          /\ last_log_index' = (IF LastIndex(m) = 0 THEN meta.first - 1 ELSE LastIndex(m))
          /\ pending' = <<>> \o <<>>
      BY <1>13, <2>1, <2>2, Zenon DEF LoadSegments
    <3> QED
      BY <1>7, <1>8, <3>1
  <2>4. pending' = <<>>
    BY <2>3
  <2>5. Quiet'
    BY <1>5, <1>11, <2>1, <2>3, Zenon
  <2>6. NotTorn(DOMAIN disk)
    BY <1>10, <2>1 DEF NotTorn
  <2>7. 0 \in 0 .. MaxIndex
    BY SegmentAssumption
  <2> QED
    BY <1>12, <2>3, <2>4, <2>5, <2>6, <2>7
<1>14. CASE OpenFiles # {}
  <2>1. m \in OpenFiles /\ OpenFiles = {m} /\ disk[m].open
    BY <1>6, <1>14 DEF OpenFiles
  <2>2. Max(OpenFiles) = m
    BY <1>4, <1>6, <1>14, Zenon DEF IndexSets
  <2>3. /\ open' = m /\ last_log_index' = End(m) - 1
        /\ pending' = (IF disk[m].torn THEN <<Ftruncate(m, Len(disk[m].ents))>> ELSE <<>>) \o <<>>
    <3>1. m # 0
      BY <1>5
    <3>2. /\ open' = m
          /\ last_log_index' = (IF LastIndex(m) = 0 THEN meta.first - 1 ELSE LastIndex(m))
          /\ pending' = (IF disk[m].torn THEN <<Ftruncate(m, Len(disk[m].ents))>> ELSE <<>>) \o <<>>
      BY <1>7, <1>8, <1>14, <2>2, <3>1, Zenon DEF LoadSegments
    <3> QED
      BY <1>7, <1>8, <3>2, Zenon
  <2>4. DOMAIN disk = ClosedFiles \cup ({m} \ {0}) /\ m \notin ClosedFiles
    BY <1>5, <2>1, Zenon DEF ClosedFiles
  <2>5. Quiet'
    BY <1>11, <2>1, <2>3, <2>4
  <2>6. open' \in 0 .. MaxIndex /\ open' # 0
    BY <1>1, <1>5, <2>3 DEF DiskType
  <2>7. CASE ~disk[m].torn
    <3>1. pending' = <<>> \o <<>>
      BY <2>3, <2>7, Zenon
    <3>2. pending' = <<>>
      BY <3>1
    <3>3. NotTorn(DOMAIN disk)
      BY <1>10, <2>4, <2>7, Zenon DEF NotTorn
    <3> QED
      BY <1>12, <2>3, <2>5, <2>6, <3>2, <3>3
  <2>8. CASE disk[m].torn
    <3>1. PICK c \in Call : c = Ftruncate(m, Len(disk[m].ents))
      BY <1>5, CallsAreCalls, Zenon
    <3>2. pending' = <<c>> \o <<>>
      BY <2>3, <2>8, <3>1, Zenon
    <3>3. pending' = <<c>> /\ pending' \in Seq(Call)
      BY <3>2
    <3>4. pending' = <<Ftruncate(open', Len(disk'[open'].ents))>>
      BY <1>1, <2>3, <3>1, <3>3, Zenon
    <3>5. NotTorn(closed)'
      BY <1>1, <1>10, Zenon DEF NotTorn
    <3>6. UpInv'
      BY <1>1, <1>2, <2>5, <2>6, <3>4, <3>5, Zenon DEF UpInv, Starting, Ftruncate
    <3>7. last_log_index' \in Nat /\ first_log_index' \in Nat
      BY <1>1, <1>3, <1>5, <2>3
    <3>8. TypeInv'
      BY <1>1, <1>4, <1>9, <2>6, <3>3, <3>7, Zenon DEF TypeInv
    <3> QED
      BY <1>1, <1>9, <3>6, <3>8 DEF IInv
  <2> QED
    BY <2>7, <2>8
<1> QED
  BY <1>13, <1>14

\* Only an append writes to a segment, and then it is open.
LEMMA WritesOpenFile ==
  ASSUME UpInv, TypeInv, pending # <<>>, pending[1].call = "write"
  PROVE  pending[1].seg \in DOMAIN disk /\ disk[pending[1].seg].open
<1>1. ~Starting
  BY DEF Starting, SaveMeta, Ftruncate
<1>2. ASSUME NEW k \in Nat, PoppingFront(k) PROVE FALSE
  <2>1. /\ pending[1] # [call |-> "truncate_meta"] /\ pending[1] # [call |-> "write_meta", first |-> k]
        /\ (\A f : pending[1] # Unlink(f)) /\ pending[1] # TrimFront(k)
    BY DEF Unlink, TrimFront
  <2>2. PICK n \in Nat : n = Len(pending)
    BY DEF TypeInv
  <2>3. n >= 1 /\ pending[n] = TrimFront(k) /\ \A i \in 1 .. n - 1 : pending[i] = Unlink(pending[i].seg)
    BY <1>2, <2>1, <2>2, Zenon DEF PoppingFront, PoppingFrom, Popping
  <2> QED
    BY <2>1, <2>3
<1>3. ASSUME NEW k \in Nat, PoppingBack(k) PROVE FALSE
  <2>1. /\ (\A f : pending[1] # Unlink(f)) /\ pending[1] # TrimBack(k)
        /\ pending[1] # Ftruncate(open, k + 1 - open) /\ pending[1] # Rename(open, TRUE)
    BY DEF Unlink, TrimBack, Ftruncate, Rename
  <2>2. PICK n \in Nat : n = Len(pending)
    BY DEF TypeInv
  <2>3. n >= 1 /\ pending[n] = TrimBack(k)
    BY <1>3, <2>2 DEF PoppingBack
  <2>4. CASE PoppingTo(k, n - 1)
    <3>1. \A i \in 1 .. n - 1 : pending[i] = Unlink(pending[i].seg)
      BY <2>4 DEF PoppingTo, Popping
    <3> QED
      BY <2>1, <2>3, <3>1
  <2>5. CASE PoppingTo(k, n - 2) /\ Cutting(k)
    <3>1. n - 2 >= 0 /\ (\A i \in 1 .. n - 2 : pending[i] = Unlink(pending[i].seg)) /\ pending[n - 1] = Ftruncate(open, k + 1 - open)
      <4>1. PoppingTo(k, n - 2) /\ pending[Len(pending) - 1] = Ftruncate(open, k + 1 - open)
        BY <2>5, Zenon DEF Cutting
      <4>2. n - 2 >= 0 /\ \A i \in 1 .. n - 2 : pending[i] = Unlink(pending[i].seg)
        BY <4>1, Zenon DEF PoppingTo, Popping
      <4> QED
        BY <2>2, <4>1, <4>2, Zenon
    <3> QED
      BY <2>1, <3>1
  <2>6. CASE PoppingTo(k, n - 3) /\ pending[n - 2] = Rename(open, TRUE)
    <3>1. n - 3 >= 0 /\ (\A i \in 1 .. n - 3 : pending[i] = Unlink(pending[i].seg))
      BY <2>6 DEF PoppingTo, Popping
    <3> QED
      <4>1. n - 2 = 1 \/ 1 \in 1 .. n - 3
        BY <2>2, <3>1
      <4> QED
        BY <2>1, <2>6, <3>1, <4>1, Zenon
  <2> QED
    BY <1>3, <2>2, <2>4, <2>5, <2>6, ZenonT(30) DEF PoppingBack
<1>4. PICK t \in Term : Appending(t)
  BY <1>1, <1>2, <1>3, Zenon DEF UpInv
<1>5. CASE pending = <<Write(open, t)>> /\ OpenSettled(last_log_index - 1)
  <2>1. pending[1] = Write(open, t) /\ open \in DOMAIN disk /\ disk[open].open
    BY <1>4, <1>5 DEF Appending, OpenSettled
  <2>2. Write(open, t).seg = open
    BY DEF Write
  <2> QED
    BY <2>1, <2>2, Zenon
<1>6. CASE pending = <<Create(open), Write(open, t)>>
  BY <1>6 DEF Create
<1>7. ASSUME NEW o, pending = <<Create(open), Rename(o, FALSE), Write(open, t)>> PROVE FALSE
  <2>1. pending[1] = Create(open)
    BY <1>7, TailOfThree, Zenon
  <2> QED
    BY <2>1 DEF Create
<1>8. ASSUME NEW o, pending = <<Rename(o, FALSE), Write(open, t)>> PROVE FALSE
  BY <1>8 DEF Rename
<1> QED
  BY <1>4, <1>5, <1>6, <1>7, <1>8, Zenon DEF Appending

\* A restart always finds a log, unless the process dies with an empty one.
LEMMA CrashStep == ASSUME IInv, Crash, "empty_restart" \notin Faults PROVE IInv'
<1>1. /\ TypeInv /\ DiskType /\ DiskInv /\ mode = "up" /\ UpInv /\ mode' = "down" /\ LogIndices # {}
      /\ closed' = {} /\ open' = 0 /\ first_log_index' = 0 /\ last_log_index' = 1 /\ cache' = <<>>
      /\ req' = NoRequest /\ pending' = <<>> /\ meta' = meta
  BY DEF IInv, TypeInv, Crash
<1>2. DiskType' /\ DiskInv' /\ LogIndices' = LogIndices
  <2>1. CASE disk' = disk
    BY <1>1, <2>1, DiskSame
  <2>2. CASE disk' # disk
    <3>1. pending # <<>> /\ Head(pending).call = "write" /\ disk' = [disk EXCEPT ![Head(pending).seg].torn = TRUE]
      BY <2>2, Zenon DEF Crash
    <3>2. Head(pending) = pending[1]
      BY <1>1, <3>1 DEF TypeInv
    <3>3. PICK s \in DOMAIN disk : s = pending[1].seg /\ disk[s].open
      BY <1>1, <3>1, <3>2, WritesOpenFile, Zenon
    <3>4. disk' = [disk EXCEPT ![s].torn = TRUE]
      BY <3>1, <3>2, <3>3, Zenon
    <3> QED
      BY <1>1, <3>3, <3>4, TornDisk, Zenon
  <2> QED
    BY <2>1, <2>2
<1>3. TypeInv'
  BY <1>1, <1>2, SegmentAssumption DEF TypeInv
<1> QED
  BY <1>1, <1>2, <1>3 DEF IInv, DownInv
=============================================================================

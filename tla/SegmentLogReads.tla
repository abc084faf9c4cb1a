--------------------------- MODULE SegmentLogReads ---------------------------
(***************************************************************************)
(* What GetEntry reads, and SegmentLog as a DurableLog.                    *)
(*                                                                         *)
(* A system call leaves the log alone, or appends one entry, or drops a    *)
(* prefix or part of a suffix (CallEffect).  From this follow that the     *)
(* cache stays a copy of the end of the log (CacheInv) and that every step *)
(* is one of DurableLog.                                                   *)
(***************************************************************************)
EXTENDS SegmentLogInv

\* The longer of these proofs take the provers more than their default time.
USE SMTT(30), Zenon, Z3T(30)

\* What a system call may do to the log.
Untouched ==
  /\ meta'.first = meta.first /\ LogIndices' = LogIndices
  /\ \A i \in LogIndices : EntryAt(i)' = EntryAt(i)

\* The entry of an append is now behind all the others.
Grows(t) ==
  /\ req = [op |-> "append", index |-> last_log_index, term |-> t] /\ meta'.first = meta.first
  /\ meta.first <= last_log_index /\ meta.first .. last_log_index - 1 \subseteq LogIndices
  /\ \A i \in LogIndices : i < last_log_index
  /\ \A i : i \in LogIndices' <=> i \in LogIndices \/ i = last_log_index
  /\ \A i \in LogIndices : EntryAt(i)' = EntryAt(i)
  /\ \A i : i = last_log_index => EntryAt(i)' = t

\* The entries before k are gone.
DropsFront(k) ==
  /\ req = [op |-> "prefix", index |-> k] /\ meta.first < k /\ meta'.first = k
  /\ \A i : i \in LogIndices' <=> i \in LogIndices /\ i >= k
  /\ \A i \in LogIndices' : EntryAt(i)' = EntryAt(i)

\* Entries at the end, all behind k, are gone.
DropsBack(k) ==
  /\ req = [op |-> "suffix", index |-> k] /\ meta'.first = meta.first
  /\ \E j \in LogIndices \cup {meta.first} : j > k /\ \A i : i \in LogIndices' <=> i \in LogIndices /\ i <= j - 1
  /\ \A i \in LogIndices' : EntryAt(i)' = EntryAt(i)

\* The log is the same if every file holds what it held and new ones are empty.
LEMMA SameFiles ==
  ASSUME DiskType, Disjoint, DiskType', Disjoint', meta'.first = meta.first,
         \A f \in DOMAIN disk : f \in DOMAIN disk' /\ disk'[f].ents = disk[f].ents,
         \A f \in DOMAIN disk' : f \in DOMAIN disk \/ disk'[f].ents = <<>>
  PROVE  Untouched
<1>1. \A f \in DOMAIN disk : End(f)' = End(f) /\ f \in DOMAIN disk'
  BY DEF End
<1>2. \A f \in DOMAIN disk' : f \notin DOMAIN disk => End(f)' = f
  <2>1. \A f \in DOMAIN disk' : f \in Nat
    BY DEF DiskType
  <2> QED
    BY <2>1 DEF End
<1>3. ASSUME NEW i PROVE i \in LogIndices' <=> i \in LogIndices
  <2>1. i \in LogIndices <=> i \in Int /\ i >= meta.first /\ \E f \in DOMAIN disk : f <= i /\ i < End(f)
    BY InLog, Zenon
  <2>2. i \in LogIndices' <=> i \in Int /\ i >= meta'.first /\ \E f \in DOMAIN disk' : f <= i /\ i < End(f)'
    BY InLogNext, Zenon
  <2>3. ASSUME NEW f \in DOMAIN disk', i \in Int, f <= i, i < End(f)' PROVE f \in DOMAIN disk
    BY <1>2, <2>3 DEF DiskType
  <2> QED
    BY <1>1, <2>1, <2>2, <2>3
<1>4. ASSUME NEW i \in LogIndices PROVE EntryAt(i)' = EntryAt(i)
  <2>1. PICK f \in DOMAIN disk : i \in Int /\ f <= i /\ i < End(f)
    BY InLog, Zenon
  <2>2. f \in DOMAIN disk' /\ i < End(f)' /\ disk'[f].ents[i + 1 - f] = disk[f].ents[i + 1 - f]
    BY <1>1, <2>1
  <2> QED
    BY <2>1, <2>2, EntryStays, Zenon
<1> QED
  BY <1>3, <1>4, Zenon DEF Untouched

\* What the effects of the calls need of the invariant.
LEMMA InvTypes == ASSUME IInv, IInv' PROVE TypeInv /\ DiskType /\ Disjoint /\ DiskType' /\ Disjoint' /\ DiskInv
<1>1. TypeInv /\ DiskInv /\ TypeInv' /\ DiskInv'
  BY Zenon DEF IInv
<1>2. DiskType /\ DiskType'
  BY <1>1, Zenon DEF TypeInv
<1>3. Disjoint /\ Disjoint'
  BY <1>1, Zenon DEF DiskInv
<1> QED
  BY <1>1, <1>2, <1>3

\* Init does not touch the log.
LEMMA StartingEffect == ASSUME IInv, IInv', Starting, SystemCall PROVE Untouched
<1>1. TypeInv /\ DiskType /\ Disjoint /\ DiskType' /\ Disjoint'
  BY InvTypes
<1>2. CASE DOMAIN disk = {}
  <2>1. /\ meta.first = 1
        /\ \/ pending = SaveMeta(1)
           \/ pending = <<[call |-> "write_meta", first |-> 1]>>
    BY <1>2 DEF Starting, Quiet, Kept
  <2>2. pending[1] = [call |-> "truncate_meta"] \/ pending[1] = [call |-> "write_meta", first |-> 1]
    BY <2>1 DEF SaveMeta
  <2>3. disk' = disk /\ (meta' = [meta EXCEPT !.state = "torn"] \/ meta' = [state |-> "ok", first |-> 1])
    BY <1>1, <2>2, CallFrame, MetaCalls, Zenon
  <2>4. meta'.first = meta.first
    BY <1>1, <2>1, <2>3 DEF DiskType
  <2> QED
    BY <1>1, <1>2, <2>3, <2>4, SameFiles
<1>3. CASE Quiet /\ open # 0 /\ pending = <<Ftruncate(open, Len(disk[open].ents))>>
  <2>1. open \in DOMAIN disk
    BY <1>3 DEF Quiet, OpenSettled
  <2>2. PICK s \in DOMAIN disk : s = open
    BY <2>1, Zenon
  <2>3. PICK n \in Nat : n = Len(disk[s].ents)
    BY <1>1, FileType, Zenon
  <2>4. pending[1] = Ftruncate(s, n)
    BY <1>3, <2>2, <2>3
  <2>5. meta' = meta /\ disk' = [disk EXCEPT ![s].ents = SubSeq(@, 1, n), ![s].torn = FALSE]
    BY <1>1, <2>4, CallFrame, FtruncateCall, Zenon
  <2>6. disk[s].ents \in Seq(Term) /\ SubSeq(disk[s].ents, 1, n) = disk[s].ents /\ disk[s] \in File /\ disk \in [DOMAIN disk -> File]
    BY <1>1, <2>3, FileType DEF DiskType
  <2>7. DOMAIN disk' = DOMAIN disk /\ \A f \in DOMAIN disk : disk'[f].ents = disk[f].ents
    BY <2>5, <2>6, Zenon DEF File
  <2> QED
    BY <1>1, <2>5, <2>7, SameFiles
<1> QED
  BY <1>2, <1>3 DEF Starting

-----------------------------------------------------------------------------
\* The last system call of an operation.
Final == pending[Len(pending)]

\* The first and the last member of a short list.
LEMMA ShortLists ==
  /\ \A p, a : p = <<a>> => p # <<>> /\ Len(p) = 1 /\ p[1] = a /\ p[Len(p)] = a
  /\ \A p, a, b : p = <<a, b>> => p # <<>> /\ Len(p) = 2 /\ p[1] = a /\ p[Len(p)] = b
  /\ \A p, a, b, c : p = <<a, b, c>> => p # <<>> /\ Len(p) = 3 /\ p[1] = a /\ p[Len(p)] = c
  OBVIOUS

\* The calls of AppendEntry that are left.
LEMMA AppendPending ==
  ASSUME NEW t \in Term, Appending(t)
  PROVE  /\ pending # <<>> /\ Final = Write(open, t)
         /\ \/ /\ Len(pending) = 1 /\ pending[1] = Write(open, t) /\ pending = <<Write(open, t)>>
               /\ OpenSettled(last_log_index - 1) /\ Shut(closed)
            \/ Len(pending) # 1 /\ open \notin DOMAIN disk /\ pending[1] = Create(open)
            \/ Len(pending) # 1 /\ \E o \in DOMAIN disk : pending[1] = Rename(o, FALSE)
<1>1. closed \subseteq DOMAIN disk /\ 2 # 1 /\ 3 # 1
  BY DEF Appending
<1>2. \/ pending = <<Write(open, t)>> /\ OpenSettled(last_log_index - 1) /\ Shut(closed)
      \/ open \notin DOMAIN disk /\ pending = <<Create(open), Write(open, t)>>
      \/ \E o \in closed : \/ open \notin DOMAIN disk /\ pending = <<Create(open), Rename(o, FALSE), Write(open, t)>>
                          \/ pending = <<Rename(o, FALSE), Write(open, t)>>
  BY Zenon DEF Appending
<1>3. CASE pending = <<Write(open, t)>> /\ OpenSettled(last_log_index - 1) /\ Shut(closed)
  BY <1>3, ShortLists, Zenon DEF Final
<1>4. CASE open \notin DOMAIN disk /\ pending = <<Create(open), Write(open, t)>>
  BY <1>1, <1>4, ShortLists, Zenon DEF Final
<1>5. ASSUME NEW o \in closed, open \notin DOMAIN disk, pending = <<Create(open), Rename(o, FALSE), Write(open, t)>>
      PROVE  Final = Write(open, t) /\ Len(pending) # 1 /\ pending[1] = Create(open)
  BY <1>1, <1>5, ShortLists, Zenon DEF Final
<1>6. ASSUME NEW o \in closed, pending = <<Rename(o, FALSE), Write(open, t)>>
      PROVE  Final = Write(open, t) /\ Len(pending) # 1 /\ o \in DOMAIN disk /\ pending[1] = Rename(o, FALSE)
  BY <1>1, <1>6, ShortLists, Zenon DEF Final
<1>7. pending # <<>>
  BY <1>2, ShortLists, Zenon
<1> QED
  BY <1>2, <1>3, <1>4, <1>5, <1>6, <1>7, Zenon

\* The write of AppendEntry appends the entry to the log.
LEMMA WriteEffect ==
  ASSUME IInv, NEW t \in Term, Appending(t), pending = <<Write(open, t)>>, SystemCall,
         OpenSettled(last_log_index - 1), Shut(closed)
  PROVE  Grows(t)
<1>1. TypeInv /\ DiskType /\ DiskInv /\ last_log_index \in Nat
  BY DEF IInv, TypeInv
<1>2. /\ meta.state = "ok" /\ open # 0
      /\ DOMAIN disk \subseteq closed \cup {open} /\ Settled(last_log_index - 1)
      /\ open \in DOMAIN disk /\ disk[open].open
      /\ req = [op |-> "append", index |-> last_log_index, term |-> t]
  BY DEF Appending, Kept, OpenSettled
<1>3. \A f \in closed : f < open /\ ~disk[f].open /\ End(f) <= (last_log_index - 1) + 1
  BY <1>2 DEF Settled, Shut
<1>4. PICK s \in DOMAIN disk : s = open
  BY <1>2, Zenon
<1>5. pending[1] = Write(s, t)
  BY <1>4
<1>6. meta' = meta /\ disk' = [disk EXCEPT ![s].ents = Append(@, t)]
  BY <1>1, <1>5, CallFrame, WriteCall
<1>7. OneOpen(s) /\ disk[s].open /\ meta.state # "none"
  BY <1>1, <1>2, <1>3, <1>4, FileType DEF OneOpen
<1>8. End(s) = last_log_index
  BY <1>1, <1>2, <1>4 DEF OpenSettled
<1>9. meta.first <= End(s)
  BY <1>1, <1>2, <1>8 DEF Settled
<1>10. /\ \A i : i \in LogIndices' <=> i \in LogIndices \/ i = End(s)
       /\ \A i \in LogIndices : EntryAt(i)' = EntryAt(i)
       /\ \A i : i = End(s) => EntryAt(i)' = t
  BY <1>1, <1>6, <1>7, <1>9, WriteDisk, Zenon
<1>11. ASSUME NEW i \in LogIndices PROVE i < last_log_index
  <2>1. PICK f \in DOMAIN disk : i \in Int /\ i < End(f)
    BY <1>1, InLog, Zenon
  <2>2. f = s \/ End(f) <= (last_log_index - 1) + 1
    BY <1>2, <1>3, <1>4, Zenon
  <2> QED
    BY <1>1, <1>8, <2>1, <2>2, FileType
<1>12. meta.first .. last_log_index - 1 \subseteq LogIndices /\ meta.first <= last_log_index /\ meta'.first = meta.first
  BY <1>2, <1>6, <1>8, <1>9 DEF Settled, Filled
<1> QED
  BY <1>2, <1>8, <1>10, <1>11, <1>12, Zenon DEF Grows

\* The other calls of AppendEntry do not touch the log.
LEMMA AppendingEffect == ASSUME IInv, IInv', NEW t \in Term, Appending(t), SystemCall PROVE Untouched \/ Grows(t)
<1>1. TypeInv /\ DiskType /\ Disjoint /\ DiskType' /\ Disjoint' /\ disk \in [DOMAIN disk -> File]
  BY InvTypes DEF DiskType
<1>2. \/ pending = <<Write(open, t)>> /\ OpenSettled(last_log_index - 1) /\ Shut(closed)
      \/ open \notin DOMAIN disk /\ pending[1] = Create(open)
      \/ \E o \in DOMAIN disk : pending[1] = Rename(o, FALSE)
  BY AppendPending, Zenon
<1>3. CASE open \notin DOMAIN disk /\ pending[1] = Create(open)
  <2>1. /\ meta' = meta
        /\ disk' = [f \in DOMAIN disk \cup {open} |->
                      IF f = open THEN [open |-> TRUE, last |-> 0, ents |-> <<>>, torn |-> FALSE] ELSE disk[f]]
    <3>1. DiskCall(Create(open))
      BY <1>1, <1>3, CallFrame
    <3> QED
      BY <3>1, CreateCall, Zenon
  <2>2. /\ \A f \in DOMAIN disk : f \in DOMAIN disk' /\ disk'[f].ents = disk[f].ents
        /\ \A f \in DOMAIN disk' : f \in DOMAIN disk \/ disk'[f].ents = <<>>
    BY <1>3, <2>1
  <2> QED
    BY <1>1, <2>1, <2>2, SameFiles
<1>4. ASSUME NEW s \in DOMAIN disk, pending[1] = Rename(s, FALSE) PROVE Untouched
  <2>1. meta' = meta /\ disk' = [disk EXCEPT ![s].open = FALSE, ![s].last = IF FALSE THEN 0 ELSE LastIndex(s)]
    <3>1. DiskCall(Rename(s, FALSE))
      BY <1>1, <1>4, CallFrame, Zenon
    <3> QED
      BY <3>1, RenameCall, Zenon
  <2>2. DOMAIN disk' = DOMAIN disk /\ \A f \in DOMAIN disk : disk'[f].ents = disk[f].ents
    BY <1>1, <2>1 DEF File
  <2> QED
    BY <1>1, <2>1, <2>2, SameFiles
<1> QED
  BY <1>2, <1>3, <1>4, WriteEffect, Zenon

\* TruncatePrefix takes effect when log_meta is written: what it unlinks later
\* is out of the log already.
LEMMA FrontEffect == ASSUME IInv, IInv', NEW k \in Nat, PoppingFront(k), SystemCall PROVE Untouched \/ DropsFront(k)
<1>1. TypeInv /\ DiskType /\ DiskInv /\ Len(pending) \in Nat /\ meta.first \in Nat /\ Disjoint /\ DiskType' /\ Disjoint'
  BY InvTypes, CallFrame DEF DiskType
<1>2. req = [op |-> "prefix", index |-> k] /\ DiskCall(pending[1])
  BY <1>1, CallFrame, Zenon DEF PoppingFront
<1>3. CASE pending[1] = [call |-> "truncate_meta"]
  <2>1. disk' = disk /\ meta' = [meta EXCEPT !.state = "torn"]
    BY <1>2, <1>3, MetaCalls, Zenon
  <2>2. meta'.first = meta.first
    BY <1>1, <2>1 DEF DiskType
  <2> QED
    BY <1>1, <2>1, <2>2, SameFiles
<1>4. CASE meta.first < k /\ pending[1] = [call |-> "write_meta", first |-> k]
  <2>1. disk' = disk /\ meta' = [state |-> "ok", first |-> k]
    BY <1>2, <1>4, MetaCalls, Zenon
  <2>2. /\ meta'.first = k
        /\ \A i : i \in LogIndices' <=> i \in LogIndices /\ i >= k
        /\ \A i : EntryAt(i)' = EntryAt(i)
    BY <1>1, <1>4, <2>1, WriteMetaDisk
  <2> QED
    BY <1>2, <1>4, <2>2 DEF DropsFront
<1>5. CASE PoppingFrom(k, 1) /\ meta.state = "ok" /\ meta.first = k /\ Len(pending) >= 2
  <2>1. PICK hi \in Nat : hi = Len(pending) - 1
    <3>1. Len(pending) - 1 \in Nat
      BY <1>1, <1>5
    <3> QED
      BY <3>1, Zenon
  <2>2. hi >= 1 /\ Popping(1, hi) /\ (\A i \in 1 .. hi : End(pending[i].seg) <= k) /\ 1 \in 1 .. hi
    BY <1>1, <1>5, <2>1 DEF PoppingFrom
  <2>3. pending[1].seg \in DOMAIN disk /\ pending[1] = Unlink(pending[1].seg)
    BY <2>2 DEF Popping
  <2>4. PICK s \in DOMAIN disk : s = pending[1].seg
    BY <2>3, Zenon
  <2>5. meta' = meta /\ disk' = [f \in DOMAIN disk \ {s} |-> disk[f]]
    BY <1>2, <2>3, <2>4, UnlinkCall, Zenon
  <2>6. End(s) <= meta.first /\ meta.state # "none"
    BY <1>5, <2>2, <2>4
  <2>7. /\ \A i : i \in LogIndices' <=> i \in LogIndices /\ ~(s <= i /\ i < End(s))
        /\ \A i \in LogIndices' : EntryAt(i)' = EntryAt(i)
    BY <1>1, <2>5, <2>6, UnlinkDisk, Zenon
  <2>8. \A i \in LogIndices : ~(i < End(s))
    BY <1>1, <2>6, InLog, FileType
  <2>9. LogIndices' = LogIndices
    BY <2>7, <2>8, Zenon
  <2> QED
    BY <2>5, <2>7, <2>9 DEF Untouched
<1>6. CASE pending[1] = TrimFront(k)
  <2>1. disk' = disk /\ meta' = meta
    BY <1>2, <1>6, TrimCalls, Zenon
  <2> QED
    BY <1>1, <2>1, SameFiles
<1>7. PoppingFrom(k, 1) => pending[1] = TrimFront(k) \/ Len(pending) >= 2
  BY <1>1 DEF PoppingFrom
<1> QED
  BY <1>3, <1>4, <1>5, <1>6, <1>7, Zenon DEF PoppingFront

\* An unlink of TruncateSuffix drops the entries of the last file.
LEMMA UnlinkEffect ==
  ASSUME IInv, NEW k \in Nat, PoppingBack(k), SystemCall, NEW hi \in Nat, hi >= 1, PoppingTo(k, hi)
  PROVE  Untouched \/ DropsBack(k)
<1>1. TypeInv /\ DiskType /\ DiskInv /\ meta.first \in Nat
  BY CallFrame DEF IInv, TypeInv, DiskType
<1>2. meta.state # "none" /\ req = [op |-> "suffix", index |-> k] /\ DiskCall(pending[1])
  <2>1. meta.state = "ok" /\ req = [op |-> "suffix", index |-> k]
    BY Zenon DEF PoppingBack
  <2> QED
    BY <1>1, <2>1, CallFrame
<1>3. /\ Popping(1, hi) /\ 1 \in 1 .. hi
      /\ \A i \in 1 .. hi : pending[i].seg > k \/ k < meta.first
      /\ \A i \in 1 .. hi : \A f \in Kept : f < pending[i].seg
      /\ \A i, j \in 1 .. hi : i < j => pending[i].seg > pending[j].seg
  BY DEF PoppingTo
<1>4. pending[1].seg \in DOMAIN disk /\ pending[1] = Unlink(pending[1].seg)
  BY <1>3 DEF Popping
<1>5. PICK s \in DOMAIN disk : s = pending[1].seg
  BY <1>4, Zenon
<1>6. meta' = meta /\ disk' = [f \in DOMAIN disk \ {s} |-> disk[f]]
  BY <1>2, <1>4, <1>5, UnlinkCall, Zenon
<1>7. ASSUME NEW f \in DOMAIN disk PROVE f <= s
  <2>1. f \in Kept \/ \E i \in 1 .. hi : f = pending[i].seg
    BY <1>3 DEF Popping
  <2>2. CASE f \in Kept
    BY <1>1, <1>3, <1>5, <2>2, FileType
  <2>3. ASSUME NEW i \in 1 .. hi, f = pending[i].seg PROVE f <= s
    BY <1>1, <1>3, <1>5, <2>3, FileType
  <2> QED
    BY <2>1, <2>2, <2>3
<1>8. /\ \A i : i \in LogIndices' <=> i \in LogIndices /\ ~(s <= i /\ i < End(s))
      /\ \A i \in LogIndices' : EntryAt(i)' = EntryAt(i)
  BY <1>1, <1>2, <1>6, <1>7, UnlinkDisk, Zenon
<1>9. s \in Nat /\ End(s) \in Nat /\ s <= End(s) /\ (s > k \/ k < meta.first)
  BY <1>1, <1>3, <1>5, FileType
<1>10. ASSUME NEW i \in LogIndices PROVE i \in Int /\ i >= meta.first /\ i < End(s)
  <2>1. PICK f \in DOMAIN disk : i \in Int /\ i >= meta.first /\ i < End(f)
    BY <1>1, InLog, Zenon
  <2>2. f = s \/ (f < s /\ End(f) <= s)
    BY <1>1, <1>7, FileType DEF DiskInv, Disjoint
  <2> QED
    BY <1>1, <1>9, <2>1, <2>2, FileType
<1>11. CASE meta.first <= s /\ s < End(s)
  <2>1. s \in LogIndices
    BY <1>1, <1>9, <1>11, InLog
  <2>2. s > k
    BY <1>1, <1>9, <1>11
  <2>3. \A i \in LogIndices : ~(s <= i /\ i < End(s)) <=> i <= s - 1
    BY <1>9, <1>10
  <2> QED
    BY <1>2, <1>6, <1>8, <2>1, <2>2, <2>3, Zenon DEF DropsBack
<1>12. CASE ~(s < End(s))
  <2>1. LogIndices' = LogIndices
    BY <1>8, <1>9, <1>10, <1>12
  <2> QED
    BY <1>6, <1>8, <2>1, Zenon DEF Untouched
<1>13. CASE s < meta.first
  <2>1. \A i \in LogIndices : ~(s <= i /\ i < End(s)) <=> i <= meta.first - 1
    BY <1>1, <1>9, <1>10, <1>13
  <2>2. meta.first > k
    BY <1>1, <1>9, <1>13
  <2> QED
    BY <1>2, <1>6, <1>8, <2>1, <2>2, Zenon DEF DropsBack
<1>14. meta.first <= s \/ s < meta.first
  BY <1>1, <1>9
<1> QED
  BY <1>11, <1>12, <1>13, <1>14, Zenon

\* ftruncate drops the entries behind k.
LEMMA CutEffect ==
  ASSUME IInv, NEW k \in Nat, PoppingBack(k), SystemCall, PoppingTo(k, 0), Cutting(k), Len(pending) = 2, disk[open].open
  PROVE  DropsBack(k)
<1>1. TypeInv /\ DiskType /\ DiskInv /\ meta.first \in Nat
  BY CallFrame DEF IInv, TypeInv, DiskType
<1>2. /\ req = [op |-> "suffix", index |-> k] /\ meta.state # "none" /\ Shut(closed) /\ Settled(k)
      /\ open # 0 /\ open <= k /\ k + 1 < End(open) /\ pending[1] = Ftruncate(open, k + 1 - open)
  <2>1. /\ req = [op |-> "suffix", index |-> k] /\ meta.state = "ok" /\ Shut(closed) /\ Settled(k)
    BY Zenon DEF PoppingBack
  <2> QED
    BY <2>1 DEF Cutting
<1>3. DiskCall(pending[1])
  BY <1>1, CallFrame, Zenon
<1>4. DOMAIN disk = closed \cup {open}
  BY <1>2 DEF PoppingTo, Popping, Kept
<1>5. PICK s \in DOMAIN disk : s = open
  BY <1>4, Zenon
<1>6. s \in Nat /\ End(s) = s + Len(disk[s].ents) /\ Len(disk[s].ents) \in Nat
  BY <1>1, FileType DEF End
<1>7. PICK n \in Nat : n = k + 1 - s
  <2>1. k + 1 - s \in Nat
    BY <1>2, <1>5, <1>6
  <2> QED
    BY <2>1, Zenon
<1>8. n <= Len(disk[s].ents) /\ s + n = k + 1
  BY <1>2, <1>5, <1>6, <1>7
<1>9. meta' = meta /\ disk' = [disk EXCEPT ![s].ents = SubSeq(@, 1, n), ![s].torn = FALSE]
  <2>1. DiskCall(Ftruncate(s, n))
    BY <1>2, <1>3, <1>5, <1>7, Zenon
  <2> QED
    BY <2>1, FtruncateCall, Zenon
<1>10. \A f \in closed : f < s /\ ~disk[f].open
  BY <1>2, <1>5 DEF Settled, Shut
<1>11. OneOpen(s) /\ disk[s].open
  BY <1>1, <1>2, <1>4, <1>5, <1>10, FileType DEF OneOpen
<1>12. /\ \A i : i \in LogIndices' <=> i \in LogIndices /\ i < s + n
       /\ \A i \in LogIndices' : EntryAt(i)' = EntryAt(i)
  BY <1>1, <1>2, <1>8, <1>9, <1>11, FtruncateDisk, Zenon
<1>13. k + 1 \in LogIndices
  BY <1>1, <1>2, <1>5, <1>6, InLog DEF Settled
<1>14. k + 1 > k /\ \A i \in LogIndices : i < s + n <=> i <= (k + 1) - 1
  <2>1. \A i \in LogIndices : i \in Int
    BY <1>1, InLog
  <2> QED
    BY <1>8, <2>1
<1> QED
  BY <1>2, <1>9, <1>12, <1>13, <1>14, Zenon DEF DropsBack

\* The other calls of TruncateSuffix do not touch the log.
LEMMA BackEffect == ASSUME IInv, IInv', NEW k \in Nat, PoppingBack(k), SystemCall PROVE Untouched \/ DropsBack(k)
<1>1. TypeInv /\ DiskType /\ Disjoint /\ DiskType' /\ Disjoint' /\ disk \in [DOMAIN disk -> File]
  BY InvTypes DEF DiskType
<1>2. PICK n \in Nat : n = Len(pending)
  BY <1>1, CallFrame, Zenon
<1>3. n >= 1 /\ pending[n] = TrimBack(k) /\ DiskCall(pending[1])
  BY <1>1, <1>2, CallFrame, Zenon DEF PoppingBack
<1>4. \/ PoppingTo(k, n - 1)
      \/ PoppingTo(k, n - 2) /\ Cutting(k) /\ disk[open].open
      \/ PoppingTo(k, n - 3) /\ Cutting(k) /\ ~disk[open].open /\ pending[n - 2] = Rename(open, TRUE)
  BY <1>2, Zenon DEF PoppingBack
<1>5. \A m : PoppingTo(k, m) => m >= 0
  BY Zenon DEF PoppingTo
<1>6. CASE PoppingTo(k, n - 1)
  <2>1. CASE n = 1
    <3>1. disk' = disk /\ meta' = meta
      BY <1>3, <2>1, TrimCalls, Zenon
    <3> QED
      BY <1>1, <3>1, SameFiles
  <2>2. CASE n # 1
    <3>1. n - 1 \in Nat /\ n - 1 >= 1
      BY <1>3, <2>2
    <3> QED
      BY <1>6, <3>1, UnlinkEffect, Zenon
  <2> QED
    BY <2>1, <2>2
<1>7. CASE PoppingTo(k, n - 2) /\ Cutting(k) /\ disk[open].open
  <2>1. CASE n = 2
    <3>1. n - 2 = 0
      BY <2>1
    <3> QED
      BY <1>2, <1>7, <2>1, <3>1, CutEffect, Zenon
  <2>2. CASE n # 2
    <3>1. n - 2 \in Nat /\ n - 2 >= 1
      BY <1>5, <1>7, <2>2
    <3> QED
      BY <1>7, <3>1, UnlinkEffect, Zenon
  <2> QED
    BY <2>1, <2>2
<1>8. CASE PoppingTo(k, n - 3) /\ Cutting(k) /\ pending[n - 2] = Rename(open, TRUE)
  <2>1. CASE n = 3
    <3>1. n - 3 = 0 /\ n - 2 = 1
      BY <2>1
    <3>2. PoppingTo(k, 0) /\ DiskCall(Rename(open, TRUE))
      BY <1>3, <1>8, <3>1, Zenon
    <3>3. open \in DOMAIN disk
      BY <1>8, <3>2 DEF PoppingTo, Popping, Kept, Cutting
    <3>4. PICK s \in DOMAIN disk : s = open
      BY <3>3, Zenon
    <3>5. meta' = meta /\ disk' = [disk EXCEPT ![s].open = TRUE, ![s].last = IF TRUE THEN 0 ELSE LastIndex(s)]
      BY <3>2, <3>4, RenameCall, Zenon
    <3>6. DOMAIN disk' = DOMAIN disk /\ \A f \in DOMAIN disk : disk'[f].ents = disk[f].ents
      BY <1>1, <3>5 DEF File
    <3> QED
      BY <1>1, <3>5, <3>6, SameFiles
  <2>2. CASE n # 3
    <3>1. n - 3 \in Nat /\ n - 3 >= 1
      BY <1>5, <1>8, <2>2
    <3> QED
      BY <1>8, <3>1, UnlinkEffect, Zenon
  <2> QED
    BY <2>1, <2>2
<1> QED
  BY <1>4, <1>6, <1>7, <1>8, Zenon

\* What a system call does to the log.
LEMMA CallEffect ==
  ASSUME IInv, IInv', SystemCall
  PROVE  \/ Untouched
         \/ \E t \in Term : Appending(t) /\ Grows(t)
         \/ \E k \in Nat : (PoppingFront(k) /\ DropsFront(k)) \/ (PoppingBack(k) /\ DropsBack(k))
<1>1. pending # <<>> /\ UpInv
  BY DEF SystemCall, IInv
<1>2. \/ Starting
      \/ \E t \in Term : Appending(t)
      \/ \E k \in Nat : PoppingFront(k) \/ PoppingBack(k)
  BY <1>1, Zenon DEF UpInv
<1>3. Starting => Untouched
  BY StartingEffect
<1>4. \A t \in Term : Appending(t) => Untouched \/ Grows(t)
  BY AppendingEffect
<1>5. \A k \in Nat : (PoppingFront(k) => Untouched \/ DropsFront(k)) /\ (PoppingBack(k) => Untouched \/ DropsBack(k))
  BY FrontEffect, BackEffect
<1> QED
  BY <1>2, <1>3, <1>4, <1>5, Zenon

-----------------------------------------------------------------------------
\* What GetEntry answers from memory.

\* The operation under way is an AppendEntry.
Writing == pending # <<>> /\ Final.call = "write"

\* The operation under way is a truncation.
Trimming == pending # <<>> /\ Final.call \in {"trim_front", "trim_back"}

\* The cached entries are the last ones before index n, and the first m of them
\* are on the disk.
Numbered(n) == \A i \in 1 .. Len(cache) : cache[i].index = n + i - Len(cache)
Copies(m) == \A i \in 1 .. m : \E j \in LogIndices : cache[i].index = j /\ cache[i].term = EntryAt(j)

\* latest_entry_ is no other entry than the one on the disk.
LatestOK == \A j \in LogIndices : latest.index = j => latest.term = EntryAt(j)

\* What the memory says of entries is on the disk, but for the one that is
\* being written; a truncation empties the cache before it ends.
CacheInv ==
  /\ mode = "down" => cache = <<>> /\ latest = Nil
  /\ mode = "up" =>
       /\ Writing => /\ cache # <<>> /\ Numbered(last_log_index) /\ Copies(Len(cache) - 1)
                     /\ latest = cache[Len(cache)] /\ latest = [index |-> last_log_index, term |-> Final.term]
       /\ ~Writing => LatestOK
       /\ ~Writing /\ ~Trimming => Numbered(last_log_index) /\ Copies(Len(cache))

\* Copies stay copies while the log keeps their entries.
LEMMA CopiesStay ==
  ASSUME NEW m, Copies(m), cache' = cache, \A j \in LogIndices : j \in LogIndices' /\ EntryAt(j)' = EntryAt(j)
  PROVE  Copies(m)'
<1> SUFFICES ASSUME NEW i \in 1 .. m PROVE \E j \in LogIndices' : cache[i].index = j /\ cache[i].term = EntryAt(j)'
  BY Zenon DEF Copies
<1>1. PICK j \in LogIndices : cache[i].index = j /\ cache[i].term = EntryAt(j)
  BY Zenon DEF Copies
<1> QED
  BY <1>1, Zenon

\* The same of latest_entry_, also when entries leave the log.
LEMMA LatestStays ==
  ASSUME LatestOK, latest' = latest, \A j \in LogIndices' : j \in LogIndices /\ EntryAt(j)' = EntryAt(j)
  PROVE  LatestOK'
  BY Zenon DEF LatestOK

\* The last system call of an operation tells which one it is.
Finals ==
  /\ Starting => pending # <<>> /\ ~Writing /\ ~Trimming
  /\ \A t \in Term : Appending(t) => Writing /\ ~Trimming /\ Final.term = t
  /\ \A k \in Nat : PoppingFront(k) \/ PoppingBack(k) => ~Writing /\ Trimming

\* It does.
LEMMA FinalCall == Finals
<1>1. Len(<<>>) = 0 /\ 0 # 1 /\ ~(0 >= 1) /\ ~(0 >= 2) /\ ~(0 >= 3)
  OBVIOUS
<1>2. Starting => pending # <<>> /\ ~Writing /\ ~Trimming
  <2>1. CASE pending = SaveMeta(1) \/ pending = <<[call |-> "write_meta", first |-> 1]>>
    <3>1. CASE pending = <<[call |-> "truncate_meta"], [call |-> "write_meta", first |-> 1]>>
      BY <3>1, ShortLists DEF Final, Writing, Trimming
    <3>2. CASE pending = <<[call |-> "write_meta", first |-> 1]>>
      BY <3>2, ShortLists DEF Final, Writing, Trimming
    <3> QED
      BY <2>1, <3>1, <3>2 DEF SaveMeta
  <2>2. CASE pending = <<Ftruncate(open, Len(disk[open].ents))>>
    <3>1. pending # <<>> /\ Final = Ftruncate(open, Len(disk[open].ents))
      BY <2>2, ShortLists, Zenon DEF Final
    <3>2. Final.call = "ftruncate"
      BY <3>1 DEF Ftruncate
    <3> QED
      BY <3>1, <3>2 DEF Writing, Trimming
  <2> QED
    BY <2>1, <2>2, Zenon DEF Starting
<1>3. ASSUME NEW t \in Term, Appending(t) PROVE Writing /\ ~Trimming /\ Final.term = t
  <2>1. Final = Write(open, t)
    BY <1>3, AppendPending, Zenon
  <2>2. Final.call = "write" /\ Final.term = t
    BY <2>1 DEF Write
  <2>3. pending # <<>>
    BY <1>3, AppendPending, Zenon
  <2> QED
    BY <2>2, <2>3 DEF Writing, Trimming
<1>4. ASSUME NEW k \in Nat, PoppingFront(k) \/ PoppingBack(k) PROVE ~Writing /\ Trimming
  <2>1. Final = TrimFront(k) \/ Final = TrimBack(k)
    <3>1. PoppingFront(k) => \E lo : PoppingFrom(k, lo)
      BY Zenon DEF PoppingFront
    <3>2. \A lo : PoppingFrom(k, lo) => Final = TrimFront(k)
      BY Zenon DEF PoppingFrom, Final
    <3>3. PoppingBack(k) => Final = TrimBack(k)
      BY Zenon DEF PoppingBack, Final
    <3> QED
      BY <1>4, <3>1, <3>2, <3>3, Zenon
  <2>2. pending # <<>>
    <3>1. PoppingFront(k) => PoppingFrom(k, 1) \/ PoppingFrom(k, 2) \/ PoppingFrom(k, 3)
      BY Zenon DEF PoppingFront
    <3>2. PoppingFront(k) => Len(pending) >= 1 \/ Len(pending) >= 2 \/ Len(pending) >= 3
      BY <3>1, Zenon DEF PoppingFrom
    <3>3. PoppingBack(k) => Len(pending) >= 1
      BY Zenon DEF PoppingBack
    <3> QED
      BY <1>1, <1>4, <3>2, <3>3, Zenon
  <2> QED
    BY <2>1, <2>2 DEF Writing, Trimming, TrimFront, TrimBack
<1> QED
  BY <1>2, <1>3, <1>4, Zenon DEF Finals

\* The same of the next state.
LEMMA FinalCallNext == Finals'
  BY FinalCall, PTL

\* Only a truncation begins by trimming the cache.
LEMMA FirstCall ==
  ASSUME Starting \/ \E t \in Term : Appending(t)
  PROVE  pending[1].call \notin {"trim_front", "trim_back"}
<1>1. Starting => \/ pending[1] = [call |-> "truncate_meta"] \/ pending[1] = [call |-> "write_meta", first |-> 1]
                  \/ \E n : pending[1] = Ftruncate(open, n)
  <2>1. CASE pending = SaveMeta(1)
    BY <2>1 DEF SaveMeta
  <2>2. CASE pending = <<[call |-> "write_meta", first |-> 1]>>
    BY <2>2
  <2>3. CASE pending = <<Ftruncate(open, Len(disk[open].ents))>>
    BY <2>3, ShortLists, Zenon
  <2> QED
    BY <2>1, <2>2, <2>3, Zenon DEF Starting
<1>2. \A t \in Term : Appending(t) => \/ pending[1] = Write(open, t) \/ pending[1] = Create(open)
                                     \/ \E o : pending[1] = Rename(o, FALSE)
  BY AppendPending, Zenon
<1>3. /\ \A n : Ftruncate(open, n).call = "ftruncate"
      /\ \A t : Write(open, t).call = "write"
      /\ Create(open).call = "create" /\ \A o : Rename(o, FALSE).call = "rename"
  BY DEF Ftruncate, Write, Create, Rename
<1>4. ASSUME NEW t \in Term, Appending(t) PROVE pending[1].call \in {"write", "create", "rename"}
  BY <1>2, <1>3, <1>4, Zenon
<1>5. ASSUME Starting PROVE pending[1].call \in {"truncate_meta", "write_meta", "ftruncate"}
  <2>1. [call |-> "truncate_meta"].call = "truncate_meta" /\ [call |-> "write_meta", first |-> 1].call = "write_meta"
    OBVIOUS
  <2> QED
    BY <1>1, <1>3, <1>5, <2>1, Zenon
<1> QED
  BY <1>4, <1>5

\* The last call of an AppendEntry is the write.
LEMMA OneWrite ==
  ASSUME IInv, SystemCall, NEW t \in Term, Appending(t), Len(pending) = 1
  PROVE  Grows(t)
<1>1. pending = <<Write(open, t)>> /\ OpenSettled(last_log_index - 1) /\ Shut(closed)
  BY AppendPending, Zenon
<1> QED
  BY <1>1, WriteEffect

\* The cache over a system call.
LEMMA CacheCall == ASSUME IInv, IInv', SystemCall, CacheInv PROVE CacheInv'
<1>1. TypeInv /\ UpInv /\ pending # <<>> /\ mode = "up" /\ mode' = "up" /\ last_log_index' = last_log_index /\ latest' = latest
  BY DEF IInv, SystemCall
<1>2. PICK n \in Nat : n = Len(pending)
  BY <1>1, CallFrame, Zenon
<1>3. n >= 1 /\ Len(pending') = n - 1 /\ (n >= 2 => pending' # <<>> /\ Final' = Final) /\ (n = 1 => pending' = <<>> /\ pending[1] = Final)
  <2>1. Len(pending') = n - 1 /\ pending' \in Seq(Call) /\ \A i \in 1 .. n - 1 : pending'[i] = pending[i + 1]
    BY <1>1, <1>2, CallFrame
  <2>2. pending \in Seq(Call) /\ n >= 1
    BY <1>1, <1>2 DEF TypeInv
  <2>3. n >= 2 => pending'[Len(pending')] = pending[n]
    BY <2>1
  <2> QED
    BY <1>2, <2>1, <2>2, <2>3 DEF Final
<1>4. cache' = IF pending[1].call \in {"trim_front", "trim_back"} THEN <<>> ELSE cache
  <2>1. pending[1] = Head(pending)
    BY <1>1 DEF TypeInv
  <2> QED
    BY <2>1, Zenon DEF SystemCall
<1>5. CASE Starting /\ ~Writing /\ ~Trimming
  <2>1. Untouched
    BY <1>5, StartingEffect
  <2>2. ~Writing' /\ ~Trimming'
    <3>1. n >= 2 \/ n = 1
      BY <1>3
    <3> QED
      BY <1>1, <1>3, <1>5, <3>1, Zenon DEF Writing, Trimming
  <2>3. LatestOK' /\ Copies(Len(cache))
    BY <1>1, <1>5, <2>1, LatestStays DEF CacheInv, Untouched
  <2>4. cache' = cache
    BY <1>4, <1>5, FirstCall
  <2>5. Copies(Len(cache))' /\ Numbered(last_log_index)'
    BY <1>1, <1>5, <2>1, <2>3, <2>4, CopiesStay DEF CacheInv, Untouched, Numbered
  <2> QED
    BY <1>1, <2>2, <2>3, <2>5 DEF CacheInv
<1>6. ASSUME NEW t \in Term, Appending(t), Writing, ~Trimming, Final.term = t PROVE CacheInv'
  <2>1. /\ cache # <<>> /\ Numbered(last_log_index) /\ Copies(Len(cache) - 1)
        /\ latest = cache[Len(cache)] /\ latest = [index |-> last_log_index, term |-> t]
    BY <1>1, <1>6, Zenon DEF CacheInv
  <2>2. cache' = cache
    BY <1>4, <1>6, FirstCall
  <2>3. Numbered(last_log_index)'
    BY <1>1, <2>1, <2>2 DEF Numbered
  <2>4. Untouched \/ Grows(t)
    BY <1>6, AppendingEffect
  <2>5. \A j \in LogIndices : j \in LogIndices' /\ EntryAt(j)' = EntryAt(j)
    BY <2>4, Zenon DEF Untouched, Grows
  <2>6. CASE n >= 2
    <3>1. Writing' /\ Final' = Final
      BY <1>3, <1>6, <2>6 DEF Writing
    <3>2. Copies(Len(cache) - 1)'
      BY <2>1, <2>2, <2>5, CopiesStay DEF Copies
    <3> QED
      BY <1>1, <1>6, <2>1, <2>2, <2>3, <3>1, <3>2, Zenon DEF CacheInv
  <2>7. CASE n = 1
    <3>1. ~Writing' /\ ~Trimming' /\ pending' = <<>>
      BY <1>3, <2>7 DEF Writing, Trimming
    <3>3. Grows(t)
      BY <1>2, <1>6, <2>7, OneWrite
    <3>4. last_log_index \in LogIndices' /\ \A j : j = last_log_index => EntryAt(j)' = t
      BY <3>3, Zenon DEF Grows
    <3>5. LatestOK'
      BY <1>1, <2>1, <3>4 DEF LatestOK
    <3>6. Copies(Len(cache))'
      <4>1. cache \in Seq([index : Nat, term : Term]) /\ Len(cache) \in Nat
        BY <1>1 DEF TypeInv
      <4>2. ASSUME NEW i \in 1 .. Len(cache) PROVE \E j \in LogIndices' : cache[i].index = j /\ cache[i].term = EntryAt(j)'
        <5>1. CASE i = Len(cache)
          <6>1. cache[i] = latest
            BY <2>1, <5>1, Zenon
          <6>2. latest.index = last_log_index /\ latest.term = t
            BY <2>1
          <6> QED
            BY <3>4, <6>1, <6>2, Zenon
        <5>2. CASE i # Len(cache)
          <6>1. i \in 1 .. Len(cache) - 1
            BY <4>1, <5>2
          <6> QED
            BY <2>1, <2>5, <6>1, Zenon DEF Copies
        <5> QED
          BY <5>1, <5>2
      <4> QED
        BY <2>2, <4>2, Zenon DEF Copies
    <3> QED
      BY <1>1, <2>3, <3>1, <3>5, <3>6 DEF CacheInv
  <2> QED
    BY <1>3, <2>6, <2>7
<1>7. ASSUME NEW k \in Nat, PoppingFront(k) \/ PoppingBack(k), ~Writing, Trimming PROVE CacheInv'
  <2>1. Untouched \/ DropsFront(k) \/ DropsBack(k)
    BY <1>7, FrontEffect, BackEffect, Zenon
  <2>2. \A j \in LogIndices' : j \in LogIndices /\ EntryAt(j)' = EntryAt(j)
    BY <2>1, Zenon DEF Untouched, DropsFront, DropsBack
  <2>3. LatestOK'
    BY <1>1, <1>7, <2>2, LatestStays DEF CacheInv
  <2>4. CASE n >= 2
    <3>1. ~Writing' /\ Trimming'
      BY <1>3, <1>7, <2>4 DEF Writing, Trimming
    <3> QED
      BY <1>1, <2>3, <3>1 DEF CacheInv
  <2>5. CASE n = 1
    <3>1. ~Writing' /\ cache' = <<>>
      BY <1>3, <1>4, <1>7, <2>5 DEF Writing, Trimming
    <3>2. Numbered(last_log_index)' /\ Copies(Len(cache))'
      BY <3>1 DEF Numbered, Copies
    <3> QED
      BY <1>1, <2>3, <3>1, <3>2 DEF CacheInv
  <2> QED
    BY <1>3, <2>4, <2>5
<1> QED
  BY <1>1, <1>5, <1>6, <1>7, FinalCall, Zenon DEF Finals, UpInv

\* The cache over the calls on the storage.
LEMMA CacheAppend ==
  ASSUME IInv, CacheInv, NEW t \in Term, AppendEntry(t), Appending(t)'
  PROVE  CacheInv'
<1>1. /\ mode = "up" /\ mode' = "up" /\ pending = <<>> /\ disk' = disk /\ meta' = meta
      /\ last_log_index' = last_log_index + 1 /\ latest' = [index |-> last_log_index + 1, term |-> t]
      /\ cache' = Append(cache, [index |-> last_log_index + 1, term |-> t])
  BY DEF AppendEntry, Idle
<1>2. cache \in Seq([index : Nat, term : Term]) /\ last_log_index \in Nat
  BY DEF IInv, TypeInv
<1>3. Numbered(last_log_index) /\ Copies(Len(cache))
  BY <1>1, Zenon DEF CacheInv, Writing, Trimming
<1>4. Writing' /\ ~Trimming' /\ Final'.term = t
  BY FinalCallNext DEF Finals
<1>5. PICK n \in Nat : n = Len(cache)
  BY <1>2
<1>6. [index |-> last_log_index + 1, term |-> t] \in [index : Nat, term : Term]
  BY <1>2
<1>7. /\ Len(cache') = n + 1 /\ cache'[n + 1] = [index |-> last_log_index + 1, term |-> t]
      /\ \A i \in 1 .. n : cache'[i] = cache[i]
  BY <1>1, <1>2, <1>5, <1>6
<1>8. Numbered(last_log_index)'
  <2>1. ASSUME NEW i \in 1 .. n + 1 PROVE cache'[i].index = (last_log_index + 1) + (i - (n + 1))
    <3>1. CASE i = n + 1
      BY <1>2, <1>7, <3>1
    <3>2. CASE i # n + 1
      <4>1. i \in 1 .. n
        BY <3>2
      <4>2. cache[i].index = last_log_index + (i - n)
        BY <1>3, <1>5, <4>1, Zenon DEF Numbered
      <4> QED
        BY <1>2, <1>7, <4>1, <4>2
    <3> QED
      BY <3>1, <3>2
  <2> QED
    BY <1>1, <1>7, <2>1 DEF Numbered
<1>9. Copies(Len(cache) - 1)'
  <2>1. LogIndices' = LogIndices /\ \A i : EntryAt(i)' = EntryAt(i)
    BY <1>1, DiskSame
  <2>2. Len(cache') - 1 = n
    BY <1>7
  <2>3. ASSUME NEW i \in 1 .. n PROVE \E j \in LogIndices' : cache'[i].index = j /\ cache'[i].term = EntryAt(j)'
    BY <1>3, <1>5, <1>7, <2>1, Zenon DEF Copies
  <2> QED
    BY <2>2, <2>3, Zenon DEF Copies
<1>10. cache' # <<>> /\ latest' = cache'[Len(cache')]
  BY <1>1, <1>7
<1> QED
  BY <1>1, <1>4, <1>8, <1>9, <1>10 DEF CacheInv

\* A truncation begins with the cache as it was.
LEMMA CacheTruncate ==
  ASSUME IInv, CacheInv, NEW k \in Nat, TruncatePrefix(k) \/ TruncateSuffix(k), PoppingFront(k)' \/ PoppingBack(k)'
  PROVE  CacheInv'
<1>1. mode = "up" /\ mode' = "up" /\ pending = <<>> /\ disk' = disk /\ meta' = meta /\ latest' = latest
  BY Zenon DEF TruncatePrefix, TruncateSuffix, Idle
<1>2. LatestOK /\ LogIndices' = LogIndices /\ \A i : EntryAt(i)' = EntryAt(i)
  BY <1>1, DiskSame, Zenon DEF CacheInv, Writing
<1>3. LatestOK'
  BY <1>1, <1>2, LatestStays
<1>4. ~Writing' /\ Trimming'
  BY FinalCallNext DEF Finals
<1> QED
  BY <1>1, <1>3, <1>4 DEF CacheInv

\* ClearCacheEntry takes the oldest copy away.
LEMMA CacheClear == ASSUME IInv, CacheInv, ClearCacheEntry PROVE CacheInv'
<1>1. /\ mode = "up" /\ mode' = "up" /\ pending = <<>> /\ pending' = <<>> /\ disk' = disk /\ meta' = meta /\ latest' = latest
      /\ last_log_index' = last_log_index /\ cache # <<>> /\ cache' = Tail(cache)
  BY DEF ClearCacheEntry, Idle
<1>2. cache \in Seq([index : Nat, term : Term]) /\ last_log_index \in Nat
  BY DEF IInv, TypeInv
<1>3. LatestOK /\ Numbered(last_log_index) /\ Copies(Len(cache))
  BY <1>1, Zenon DEF CacheInv, Writing, Trimming
<1>4. LogIndices' = LogIndices /\ \A i : EntryAt(i)' = EntryAt(i)
  BY <1>1, DiskSame
<1>5. PICK n \in Nat : n = Len(cache)
  BY <1>2
<1>6. Len(cache') = n - 1 /\ \A i \in 1 .. n - 1 : i + 1 \in 1 .. n /\ cache'[i] = cache[i + 1]
  BY <1>1, <1>2, <1>5
<1>7. Numbered(last_log_index)'
  <2>1. ASSUME NEW i \in 1 .. n - 1 PROVE cache'[i].index = last_log_index + (i - (n - 1))
    <3>1. cache[i + 1].index = last_log_index + ((i + 1) - n)
      BY <1>3, <1>5, <1>6, Zenon DEF Numbered
    <3> QED
      BY <1>2, <1>6, <3>1
  <2> QED
    BY <1>1, <1>6, <2>1 DEF Numbered
<1>8. Copies(Len(cache))'
  <2>1. ASSUME NEW i \in 1 .. n - 1 PROVE \E j \in LogIndices' : cache'[i].index = j /\ cache'[i].term = EntryAt(j)'
    BY <1>3, <1>4, <1>5, <1>6, ZenonT(30) DEF Copies
  <2> QED
    BY <1>6, <2>1, Zenon DEF Copies
<1>9. LatestOK'
  BY <1>1, <1>3, <1>4, LatestStays
<1> QED
  BY <1>1, <1>7, <1>8, <1>9, Zenon DEF CacheInv, Writing, Trimming

\* The cache over everything else.
LEMMA CacheSame ==
  ASSUME CacheInv, UNCHANGED <<disk, meta, mode, cache, latest, last_log_index, pending>> PROVE CacheInv'
<1>1. /\ disk' = disk /\ meta' = meta /\ mode' = mode /\ cache' = cache /\ latest' = latest
      /\ last_log_index' = last_log_index /\ pending' = pending
  OBVIOUS
<1>2. LogIndices' = LogIndices /\ \A i : EntryAt(i)' = EntryAt(i)
  BY <1>1, DiskSame
<1>3. Writing' = Writing /\ Trimming' = Trimming /\ Final' = Final
  BY <1>1 DEF Writing, Trimming, Final
<1>4. Numbered(last_log_index)' = Numbered(last_log_index)
  BY <1>1 DEF Numbered
<1>5. LatestOK => LatestOK'
  BY <1>1, <1>2, LatestStays
<1>6. (Copies(Len(cache)) => Copies(Len(cache))') /\ (Copies(Len(cache) - 1) => Copies(Len(cache) - 1)')
  BY <1>1, <1>2 DEF Copies
<1> QED
  BY <1>1, <1>3, <1>4, <1>5, <1>6, Zenon DEF CacheInv

\* A new process has an empty cache.
LEMMA CacheRestart ==
  ASSUME IInv, IInv', CacheInv, InitEmpty \/ LoadSegments PROVE CacheInv'
<1>1. mode = "down" /\ mode' = "up" /\ cache' = cache /\ latest' = latest /\ disk' = disk /\ meta' = meta /\ req' = req
  BY Zenon DEF InitEmpty, LoadSegments
<1>2. cache' = <<>> /\ latest' = Nil /\ req' = NoRequest
  BY <1>1 DEF CacheInv, IInv, DownInv
<1>3. Numbered(last_log_index)' /\ Copies(Len(cache))'
  BY <1>2 DEF Numbered, Copies
<1>4. LatestOK'
  <2>1. DiskType' /\ latest'.index = 0
    BY <1>2 DEF IInv, TypeInv, Nil
  <2>2. \A j \in LogIndices' : j # 0
    BY <2>1, InLogNext DEF DiskType
  <2> QED
    BY <2>1, <2>2, Zenon DEF LatestOK
<1>5. ~Writing'
  <2>1. UpInv' /\ TypeInv'
    BY <1>1 DEF IInv
  <2>2. /\ \A t \in Term : last_log_index' \in Nat => [op |-> "append", index |-> last_log_index', term |-> t] # NoRequest
        /\ \A k \in Nat : [op |-> "prefix", index |-> k] # NoRequest /\ [op |-> "suffix", index |-> k] # NoRequest
    BY SegmentAssumption DEF Request
  <2>3. last_log_index' \in Nat
    BY <2>1 DEF TypeInv
  <2>4. pending' = <<>> \/ Starting'
    <3>1. \A t \in Term : ~Appending(t)'
      BY <1>2, <2>2, <2>3, Zenon DEF Appending
    <3>2. \A k \in Nat : ~PoppingFront(k)' /\ ~PoppingBack(k)'
      BY <1>2, <2>2, Zenon DEF PoppingFront, PoppingBack
    <3> QED
      BY <2>1, <3>1, <3>2, Zenon DEF UpInv
  <2> QED
    BY <2>4, FinalCallNext, Zenon DEF Finals, Writing
<1> QED
  BY <1>1, <1>3, <1>4, <1>5 DEF CacheInv

\* So has a dead one.
LEMMA CacheCrash == ASSUME Crash PROVE CacheInv'
  BY DEF Crash, CacheInv

-----------------------------------------------------------------------------
\* GetSegment finds the file that holds the index.
LEMMA ReadsOnDisk ==
  ASSUME IInv, Quiet, NEW i \in LogIndices, i \in first_log_index .. last_log_index, ~(latest.index = i /\ i # 0),
         ~(cache # <<>> /\ i \in cache[1].index .. cache[Len(cache)].index)
  PROVE  GetEntry(i) = EntryAt(i)
<1>1. TypeInv /\ DiskType /\ DiskInv /\ Disjoint
  BY DEF IInv, TypeInv, DiskInv
<1>2. PICK h \in DOMAIN disk : i \in Int /\ i >= meta.first /\ h <= i /\ i < End(h)
  BY <1>1, InLog, Zenon
<1>3. EntryAt(i) = disk[h].ents[i + 1 - h]
  BY <1>1, <1>2, EntryOf, Zenon
<1>4. h \in Nat /\ h # 0 /\ End(h) \in Nat /\ End(h) = h + Len(disk[h].ents) /\ Len(disk[h].ents) \in Nat
  BY <1>1, <1>2, FileType DEF End
<1>5. ~(i > LastIndex(h))
  BY <1>1, <1>2, <1>4 DEF LastIndex, DiskInv
<1>6. DOMAIN disk = closed \cup ({open} \ {0}) /\ \A f \in closed : f \in DOMAIN disk /\ (open # 0 => f < open)
  BY DEF Quiet, Kept, Settled
<1>7. (IF open # 0 /\ i >= open THEN open ELSE Max({g \in closed : g <= i} \cup {0})) = h
  <2>1. CASE open # 0 /\ i >= open
    <3>1. open \in DOMAIN disk /\ open \in Nat
      BY <1>1, <1>6, <2>1, FileType
    <3>2. ~(h < open) /\ (h # open => h < open)
      BY <1>1, <1>2, <1>4, <1>6, <2>1, <3>1 DEF Disjoint
    <3> QED
      BY <2>1, <3>2
  <2>2. CASE ~(open # 0 /\ i >= open)
    <3>1. h \in closed
      BY <1>2, <1>4, <1>6, <2>2
    <3>2. \A g \in closed : g \in Nat /\ (g <= i => g <= h)
      BY <1>1, <1>2, <1>4, <1>6, FileType DEF Disjoint
    <3> DEFINE S == {g \in closed : g <= i} \cup {0}
    <3>3. h \in S /\ \A g \in S : g \in Nat /\ h >= g
      BY <1>2, <1>4, <3>1, <3>2
    <3>4. \A x \in S : (\A g \in S : x >= g) => x = h
      BY <1>4, <3>3
    <3>5. Max(S) = h
      <4> HIDE DEF S
      <4> QED
        BY <3>3, <3>4 DEF Max
    <3> QED
      BY <2>2, <3>5
  <2> QED
    BY <2>1, <2>2
<1> QED
  BY <1>3, <1>4, <1>5, <1>7, Zenon DEF GetEntry

\* An entry that the cache answers for is the one on the disk.
LEMMA ReadsCached ==
  ASSUME IInv, CacheInv, Idle, Quiet, NEW i \in LogIndices, ~(latest.index = i /\ i # 0),
         cache # <<>>, i \in cache[1].index .. cache[Len(cache)].index
  PROVE  GetEntry(i) = EntryAt(i)
<1>1. cache \in Seq([index : Nat, term : Term]) /\ last_log_index \in Nat
  BY DEF IInv, TypeInv
<1>2. Numbered(last_log_index) /\ Copies(Len(cache))
  BY Zenon DEF CacheInv, Idle, Writing, Trimming
<1>3. PICK n \in Nat : n = Len(cache)
  BY <1>1
<1>4. PICK l \in Nat : l = last_log_index
  BY <1>1
<1>5. n >= 1
  BY <1>1, <1>3
<1>6. \A m \in 1 .. n : cache[m].index = l + m - n
  BY <1>2, <1>3, <1>4, Zenon DEF Numbered
<1>7. PICK c : c = cache[1].index /\ c = l + 1 - n /\ i \in c .. l
  <2>1. cache[1].index = l + 1 - n /\ cache[n].index = l + n - n
    BY <1>5, <1>6
  <2>2. l + n - n = l
    OBVIOUS
  <2>3. cache[Len(cache)].index = l
    BY <1>3, <2>1, <2>2, Zenon
  <2> QED
    BY <2>1, <2>3, Zenon
<1>8. PICK m \in 1 .. n : m = i + 1 - c
  <2>1. i + 1 - c \in 1 .. n
    BY <1>7
  <2> QED
    BY <2>1, Zenon
<1>9. cache[m].index = i
  <2>1. l + m - n = i
    BY <1>7, <1>8
  <2> QED
    BY <1>6, <2>1, Zenon
<1>10. cache[m].term = EntryAt(i)
  BY <1>2, <1>3, <1>9, Zenon DEF Copies
<1> QED
  BY <1>7, <1>8, <1>10, Zenon DEF GetEntry

\* GetEntry answers with the entry on the disk.
LEMMA ReadsTheDisk == ASSUME IInv, CacheInv PROVE ReadsBack
<1> SUFFICES ASSUME Idle, NEW i \in first_log_index .. last_log_index PROVE i \in LogIndices /\ GetEntry(i) = Log[i]
  BY DEF ReadsBack
<1>1. Quiet
  BY QuietWhenIdle DEF IInv, Idle
<1>2. i \in LogIndices
  BY <1>1 DEF Quiet, Settled, Filled
<1>3. CASE latest.index = i /\ i # 0
  <2>1. LatestOK
    BY Zenon DEF CacheInv, Idle, Writing
  <2>2. latest.term = EntryAt(i)
    BY <1>2, <1>3, <2>1, Zenon DEF LatestOK
  <2> QED
    BY <1>2, <1>3, <2>2, Zenon DEF GetEntry, Log
<1>4. CASE ~(latest.index = i /\ i # 0) /\ cache # <<>> /\ i \in cache[1].index .. cache[Len(cache)].index
  BY <1>1, <1>2, <1>4, ReadsCached, Zenon DEF Log
<1>5. CASE ~(latest.index = i /\ i # 0) /\ ~(cache # <<>> /\ i \in cache[1].index .. cache[Len(cache)].index)
  BY <1>1, <1>2, <1>5, ReadsOnDisk, Zenon DEF Log
<1> QED
  BY <1>3, <1>4, <1>5, Zenon

-----------------------------------------------------------------------------
\* The storage as a DurableLog.

\* The log as a function.
LEMMA LogDomain == DOMAIN Log = LogIndices /\ \A i \in LogIndices : Log[i] = EntryAt(i)
  BY DEF Log

\* The same of the next state.
LEMMA LogNext == DOMAIN Log' = LogIndices' /\ Log' = [i \in LogIndices' |-> EntryAt(i)']
  BY DEF Log

\* DurableLog sees every request but a Reset.
LEMMA Requests ==
  ASSUME NEW k \in Nat
  PROVE  /\ \A t \in Term : req = [op |-> "append", index |-> k, term |-> t] =>
              Served = req /\ req # NoRequest /\ req.op = "append" /\ req.index = k /\ req.term = t
         /\ \A o \in {"prefix", "suffix"} : req = [op |-> o, index |-> k] =>
              Served = req /\ req # NoRequest /\ req.op = o /\ req.index = k
<1>1. \A r \in Request : r # NoRequest
  BY SegmentAssumption
<1>2. /\ \A t \in Term : [op |-> "append", index |-> k, term |-> t] \in Request
      /\ \A o \in {"prefix", "suffix"} : [op |-> o, index |-> k] \in Request
  BY DEF Request
<1>3. /\ \A t \in Term : req = [op |-> "append", index |-> k, term |-> t] =>
           req.op = "append" /\ req.op # "reset" /\ req.index = k /\ req.term = t
      /\ \A o \in {"prefix", "suffix"} : req = [op |-> o, index |-> k] => req.op = o /\ req.op # "reset" /\ req.index = k
  OBVIOUS
<1> QED
  BY <1>1, <1>2, <1>3, Zenon DEF Served

\* What DurableLog does not see.
LEMMA UntouchedRefines ==
  ASSUME Untouched, (mode = "up")' = (mode = "up"), Served' = Served
  PROVE  UNCHANGED Durable!vars
<1>1. Log' = Log
  <2>1. [i \in LogIndices' |-> EntryAt(i)'] = [i \in LogIndices |-> EntryAt(i)]
    BY Zenon DEF Untouched
  <2> QED
    BY <2>1, LogNext, Zenon DEF Log
<1> QED
  BY <1>1, Zenon DEF Untouched, Durable!vars

\* The write of an AppendEntry is an Append.
LEMMA GrowsRefines ==
  ASSUME TypeInv, NEW t \in Term, Grows(t), mode = "up", mode' = "up", req' = req
  PROVE  Durable!Append
<1>1. PICK n \in Nat : n = last_log_index
  BY DEF TypeInv
<1>2. req = [op |-> "append", index |-> n, term |-> t]
  BY <1>1 DEF Grows
<1>3. Served = req /\ req # NoRequest /\ req.op = "append" /\ req.index = n /\ req.term = t /\ Served' = Served
  BY <1>2, Requests, Zenon DEF Served
<1>4. meta.first \in Nat /\ \A i \in LogIndices : i \in Int
  BY InLog DEF TypeInv, DiskType
<1>5. Durable!IsNext(n)
  <2>1. n >= meta.first /\ \A i \in LogIndices : ~(i >= n)
    BY <1>1, <1>4 DEF Grows
  <2>2. n # meta.first => n - 1 \in LogIndices
    <3>1. n # meta.first => n - 1 \in meta.first .. n - 1
      BY <1>4, <2>1
    <3> QED
      BY <1>1, <3>1, Zenon DEF Grows
  <2> QED
    BY <2>1, <2>2, LogDomain, Zenon DEF Durable!IsNext, Durable!From
<1>6. Log' = [i \in DOMAIN Log \cup {n} |-> IF i = n THEN t ELSE Log[i]]
  <2>1. LogIndices' = LogIndices \cup {n} /\ n \notin LogIndices
    BY <1>1, <1>4 DEF Grows
  <2>2. \A i \in LogIndices' : EntryAt(i)' = IF i = n THEN t ELSE Log[i]
    BY <1>1, <2>1, LogDomain, Zenon DEF Grows
  <2> QED
    BY <2>1, <2>2, LogNext, LogDomain, Zenon
<1> QED
  BY <1>3, <1>5, <1>6, Zenon DEF Durable!Append, Grows

\* The write of log_meta in a TruncatePrefix is a DropPrefix.
LEMMA DropsFrontRefines ==
  ASSUME NEW k \in Nat, DropsFront(k), TypeInv, mode = "up", mode' = "up", req' = req
  PROVE  Durable!DropPrefix
<1>1. Served = req /\ req # NoRequest /\ req.op = "prefix" /\ req.index = k /\ Served' = Served
  BY Requests, Zenon DEF Served, DropsFront
<1>2. k > meta.first /\ meta'.first = k
  BY DEF DropsFront, TypeInv, DiskType
<1>3. Log' = [i \in {j \in DOMAIN Log : j >= k} |-> Log[i]]
  <2>1. LogIndices' = {j \in DOMAIN Log : j >= k}
    BY LogDomain, Zenon DEF DropsFront
  <2>2. \A i \in LogIndices' : EntryAt(i)' = Log[i]
    BY <2>1, LogDomain, Zenon DEF DropsFront
  <2> QED
    BY <2>1, <2>2, LogNext, Zenon
<1> QED
  BY <1>1, <1>2, <1>3, Zenon DEF Durable!DropPrefix, Durable!Only, Durable!From

\* An unlink or the ftruncate of a TruncateSuffix is a DropSuffix.
LEMMA DropsBackRefines ==
  ASSUME NEW k \in Nat, DropsBack(k), mode = "up", mode' = "up", req' = req
  PROVE  Durable!DropSuffix
<1>1. Served = req /\ req # NoRequest /\ req.op = "suffix" /\ req.index = k /\ Served' = Served /\ meta'.first = meta.first
  BY Requests, Zenon DEF Served, DropsBack
<1>2. PICK j \in LogIndices \cup {meta.first} : j > k /\ \A i : i \in LogIndices' <=> i \in LogIndices /\ i <= j - 1
  BY Zenon DEF DropsBack
<1>3. Log' = [i \in {x \in DOMAIN Log : x <= j - 1} |-> Log[i]]
  <2>1. LogIndices' = {x \in DOMAIN Log : x <= j - 1}
    BY <1>2, LogDomain, Zenon
  <2>2. \A i \in LogIndices' : EntryAt(i)' = Log[i]
    BY <2>1, LogDomain, Zenon DEF DropsBack
  <2> QED
    BY <2>1, <2>2, LogNext, Zenon
<1> QED
  BY <1>1, <1>2, <1>3, LogDomain, Zenon DEF Durable!DropSuffix, Durable!Only, Durable!UpTo

\* A system call is a step of the log, or none.
LEMMA CallRefines == ASSUME IInv, IInv', SystemCall PROVE [Durable!Next]_(Durable!vars)
<1>1. mode = "up" /\ mode' = "up" /\ req' = req
  BY Zenon DEF SystemCall
<1>2. (mode = "up")' = (mode = "up") /\ Served' = Served /\ TypeInv
  BY <1>1, InvTypes, Zenon DEF Served
<1>3. CASE Untouched
  BY <1>2, <1>3, UntouchedRefines, Zenon
<1>4. ASSUME NEW t \in Term, Grows(t) PROVE Durable!Next
  BY <1>1, <1>2, <1>4, GrowsRefines, Zenon DEF Durable!Next
<1>5. ASSUME NEW k \in Nat, DropsFront(k) PROVE Durable!Next
  BY <1>1, <1>2, <1>5, DropsFrontRefines, Zenon DEF Durable!Next
<1>6. ASSUME NEW k \in Nat, DropsBack(k) PROVE Durable!Next
  BY <1>1, <1>2, <1>6, DropsBackRefines, Zenon DEF Durable!Next
<1> QED
  BY <1>3, <1>4, <1>5, <1>6, CallEffect, Zenon

\* The log is what is in the directory.
LEMMA SameLog == ASSUME disk' = disk, meta' = meta PROVE Log' = Log /\ meta'.first = meta.first
  BY DEF Log, LogIndices, Indices, EntryAt

\* A storage at rest has no entry behind last_log_index.
LEMMA QuietEnd == ASSUME TypeInv, Quiet, NEW i \in LogIndices PROVE i \in Int /\ i <= last_log_index
<1>1. PICK f \in DOMAIN disk : i \in Int /\ f <= i /\ i < End(f)
  BY InLog, Zenon DEF TypeInv
<1>2. End(f) <= last_log_index + 1
  <2>1. End(f) \in Nat /\ last_log_index \in Nat
    BY FileType DEF TypeInv
  <2>2. f \in closed \/ (f = open /\ open # 0)
    BY Zenon DEF Quiet, Kept
  <2>3. End(f) <= last_log_index + 1 \/ End(f) = last_log_index + 1
    BY <2>2, Zenon DEF Quiet, Settled, OpenSettled
  <2> QED
    BY <2>1, <2>3
<1> QED
  BY <1>1, <1>2, FileType DEF TypeInv

\* An operation returns with its effect in the log.
LEMMA ReturnRefines == ASSUME IInv, Return PROVE [Durable!Next]_(Durable!vars)
<1>1. mode = "up" /\ mode' = "up" /\ req # NoRequest /\ req' = NoRequest /\ pending = <<>> /\ disk' = disk /\ meta' = meta
  BY Zenon DEF Return
<1>2. UpInv /\ TypeInv
  BY <1>1 DEF IInv
<1>3. Quiet /\ Done
  BY <1>1, <1>2, QuietWhenIdle, Zenon
<1>4. Served' = NoRequest /\ Log' = Log /\ meta'.first = meta.first
  BY <1>1, SameLog, Zenon DEF Served
<1>5. PICK n \in Nat : n = last_log_index
  BY <1>2 DEF TypeInv
<1>6. meta.first \in Nat
  BY <1>2 DEF TypeInv, DiskType
<1>7. ASSUME NEW k \in Nat, req = [op |-> "reset", index |-> k] PROVE UNCHANGED Durable!vars
  <2>1. req.op = "reset"
    BY <1>7
  <2> QED
    BY <1>1, <1>4, <2>1, Zenon DEF Served, Durable!vars
<1>8. ASSUME NEW t \in Term, req = [op |-> "append", index |-> n, term |-> t], n \in LogIndices, EntryAt(n) = t
      PROVE  Durable!Return
  <2>1. Served = req /\ req.op = "append" /\ req.index = n /\ req.term = t
    BY <1>8, Requests, Zenon
  <2>2. Served.op # "prefix" /\ Served.op # "suffix"
    BY <2>1
  <2> QED
    BY <1>1, <1>4, <1>8, <2>1, <2>2, LogDomain, Zenon DEF Durable!Return
<1>9. ASSUME req = [op |-> "prefix", index |-> meta.first] PROVE Durable!Return
  <2>1. Served = req /\ req.op = "prefix" /\ req.index = meta.first
    BY <1>6, <1>9, Requests, Zenon
  <2>2. Served.op # "append" /\ Served.op # "suffix" /\ meta.first >= meta.first
    BY <1>6, <2>1
  <2> QED
    BY <1>1, <1>4, <2>1, <2>2, Zenon DEF Durable!Return
<1>10. ASSUME req = [op |-> "suffix", index |-> n] PROVE Durable!Return
  <2>1. Served = req /\ req.op = "suffix" /\ req.index = n
    BY <1>10, Requests, Zenon
  <2>2. Served.op # "append" /\ Served.op # "prefix"
    BY <2>1
  <2>3. \A i \in LogIndices : ~(i >= n + 1)
    <3>1. \A i \in LogIndices : i \in Int /\ i <= n
      BY <1>2, <1>3, <1>5, QuietEnd, Zenon
    <3> QED
      BY <3>1
  <2>4. Durable!From(Served.index + 1) = {}
    BY <2>1, <2>3, LogDomain, Zenon DEF Durable!From
  <2> QED
    BY <1>1, <1>4, <2>1, <2>2, <2>4, Zenon DEF Durable!Return
<1> QED
  BY <1>1, <1>3, <1>5, <1>7, <1>8, <1>9, <1>10, Zenon DEF Done, Durable!Next

\* AppendEntry is called for the next index.
LEMMA AppendRefines == ASSUME IInv, NEW t \in Term, AppendEntry(t) PROVE Durable!Call
<1>1. Idle /\ mode' = "up" /\ disk' = disk /\ meta' = meta
  BY Zenon DEF AppendEntry, Idle
<1>2. UpInv /\ TypeInv
  BY <1>1 DEF IInv, Idle
<1>3. Quiet
  BY <1>1, <1>2, QuietWhenIdle, Zenon DEF Idle
<1>4. PICK l \in Nat : l = last_log_index
  BY <1>2 DEF TypeInv
<1>5. PICK n \in Nat : n = l + 1
  OBVIOUS
<1>6. PICK r \in Request : r = [op |-> "append", index |-> n, term |-> t] /\ req' = r
  <2>1. req' = [op |-> "append", index |-> n, term |-> t]
    BY <1>4, <1>5, Zenon DEF AppendEntry
  <2> QED
    BY <2>1 DEF Request
<1>7. r # NoRequest /\ r.op = "append" /\ r.op # "reset" /\ r.index = n /\ r \in [op : {"append"}, index : Nat, term : Term]
  BY <1>6, SegmentAssumption
<1>8. Served = NoRequest /\ Served' = r /\ Log' = Log /\ meta'.first = meta.first
  BY <1>1, <1>6, <1>7, SameLog, Zenon DEF Served, Idle
<1>9. Durable!IsNext(n)
  <2>1. meta.first <= l + 1 /\ meta.first .. l \subseteq LogIndices /\ meta.first \in Nat
    BY <1>2, <1>3, <1>4 DEF Quiet, Settled, Filled, TypeInv, DiskType
  <2>2. n >= meta.first
    BY <1>5, <2>1
  <2>3. n # meta.first => n - 1 \in LogIndices
    <3>1. n # meta.first => n - 1 \in meta.first .. l
      BY <1>5, <2>1
    <3> QED
      BY <2>1, <3>1, Zenon
  <2>4. \A i \in LogIndices : ~(i >= n)
    <3>1. \A i \in LogIndices : i \in Int /\ i <= l
      BY <1>2, <1>3, <1>4, QuietEnd, Zenon
    <3> QED
      BY <1>5, <3>1
  <2> QED
    BY <2>2, <2>3, <2>4, LogDomain, Zenon DEF Durable!IsNext, Durable!From
<1> QED
  BY <1>1, <1>7, <1>8, <1>9, Zenon DEF Durable!Call, Idle

\* The truncations are calls.
LEMMA TruncateRefines == ASSUME NEW k \in Nat, TruncatePrefix(k) \/ TruncateSuffix(k) PROVE Durable!Call
<1>1. Idle /\ mode' = "up" /\ disk' = disk /\ meta' = meta
  BY Zenon DEF TruncatePrefix, TruncateSuffix, Idle
<1>2. PICK o \in {"prefix", "suffix"} : req' = [op |-> o, index |-> k]
  BY Zenon DEF TruncatePrefix, TruncateSuffix
<1>3. PICK r : r = [op |-> o, index |-> k] /\ req' = r
  BY <1>2, Zenon
<1>4. r \in Request /\ r.op # "append" /\ r.op # "reset" /\ r \in [op : {"prefix", "suffix"}, index : Nat]
  BY <1>3 DEF Request
<1>5. r # NoRequest
  BY <1>4, SegmentAssumption
<1>6. Served = NoRequest /\ Served' = r /\ Log' = Log /\ meta'.first = meta.first
  BY <1>1, <1>3, <1>4, <1>5, SameLog, Zenon DEF Served, Idle
<1> QED
  BY <1>1, <1>4, <1>6, Zenon DEF Durable!Call, Idle

\* Reset is none.
LEMMA ResetRefines == ASSUME NEW k \in Nat, Reset(k) PROVE UNCHANGED Durable!vars
<1>1. Idle /\ mode' = mode /\ disk' = disk /\ meta' = meta /\ req' = [op |-> "reset", index |-> k]
  BY Zenon DEF Reset
<1>2. req'.op = "reset"
  BY <1>1
<1>3. Served = NoRequest /\ Served' = NoRequest
  BY <1>1, <1>2, Zenon DEF Served, Idle
<1> QED
  BY <1>1, <1>3, SameLog, Zenon DEF Durable!vars

\* What changes neither the directory nor the request is not seen.
LEMMA SameRefines ==
  ASSUME UNCHANGED <<disk, meta, req>>, (mode = "up")' = (mode = "up")
  PROVE  UNCHANGED Durable!vars
  BY SameLog, Zenon DEF Served, Durable!vars

\* A process that comes up finds the log as it was.
LEMMA RestartRefines == ASSUME InitEmpty \/ LoadSegments PROVE Durable!Restart
<1>1. mode = "down" /\ mode' = "up" /\ disk' = disk /\ meta' = meta /\ req' = req
  BY Zenon DEF InitEmpty, LoadSegments
<1>2. ~(mode = "up") /\ Served' = Served
  BY <1>1 DEF Served
<1> QED
  BY <1>1, <1>2, SameLog, Zenon DEF Durable!Restart

\* A process that dies leaves the log as it was; part of an entry is no entry.
LEMMA CrashRefines == ASSUME IInv, IInv', Crash PROVE Durable!Crash
<1>1. mode = "up" /\ mode' = "down" /\ meta' = meta /\ req' = NoRequest
  BY Zenon DEF Crash
<1>2. \/ disk' = disk
      \/ \E s : disk' = [disk EXCEPT ![s].torn = TRUE]
  BY DEF Crash
<1>3. /\ \A f \in DOMAIN disk : f \in DOMAIN disk' /\ disk'[f].ents = disk[f].ents
      /\ DOMAIN disk' = DOMAIN disk
  <2>1. \A f \in DOMAIN disk : disk[f] \in File
    BY InvTypes, FileType, Zenon
  <2>2. ASSUME NEW s, disk' = [disk EXCEPT ![s].torn = TRUE], NEW f \in DOMAIN disk
        PROVE  f \in DOMAIN disk' /\ disk'[f].ents = disk[f].ents
    BY <2>1, <2>2 DEF File
  <2>3. ASSUME NEW s, disk' = [disk EXCEPT ![s].torn = TRUE] PROVE DOMAIN disk' = DOMAIN disk
    BY <2>3
  <2> QED
    BY <1>2, <2>2, <2>3, Zenon
<1>4. Untouched
  BY <1>1, <1>3, InvTypes, SameFiles, Zenon
<1>5. Log' = Log
  <2>1. [i \in LogIndices' |-> EntryAt(i)'] = [i \in LogIndices |-> EntryAt(i)]
    BY <1>4, Zenon DEF Untouched
  <2> QED
    BY <2>1, LogNext, Zenon DEF Log
<1>6. Served' = NoRequest /\ ~(mode' = "up")
  BY <1>1 DEF Served
<1> QED
  BY <1>1, <1>4, <1>5, <1>6, Zenon DEF Durable!Crash, Untouched

\* Every step of the storage is one of the durable log, or none.
LEMMA StepRefines == ASSUME IInv, IInv', [Next]_vars PROVE [Durable!Next]_(Durable!vars)
<1>1. \A k \in 0 .. MaxIndex + 1 : k \in Nat
  BY SegmentAssumption
<1>2. \A k \in 1 .. MaxIndex + 1 : k \in Nat
  BY SegmentAssumption
<1>3. CASE vars' = vars
  BY <1>3, SameRefines DEF vars
<1>4. CASE ClearCacheEntry
  BY <1>4, SameRefines, Zenon DEF ClearCacheEntry
<1>5. CASE InitFails
  <2>1. mode = "down" /\ mode' = "failed" /\ disk' = disk /\ meta' = meta /\ req' = req
    BY <1>5, Zenon DEF InitFails
  <2>2. (mode = "up")' = (mode = "up")
    BY <2>1
  <2> QED
    BY <2>1, <2>2, SameRefines, Zenon
<1>6. ASSUME NEW t \in Term, AppendEntry(t) PROVE Durable!Next
  BY <1>6, AppendRefines, Zenon DEF Durable!Next
<1>7. ASSUME NEW k \in 0 .. MaxIndex + 1, TruncatePrefix(k) \/ TruncateSuffix(k) PROVE Durable!Next
  BY <1>1, <1>7, TruncateRefines, Zenon DEF Durable!Next
<1>8. ASSUME NEW k \in 1 .. MaxIndex + 1, Reset(k) PROVE UNCHANGED Durable!vars
  BY <1>2, <1>8, ResetRefines, Zenon
<1>9. CASE InitEmpty \/ LoadSegments
  BY <1>9, RestartRefines, Zenon DEF Durable!Next
<1>10. CASE Crash
  BY <1>10, CrashRefines, Zenon DEF Durable!Next
<1> QED
  BY <1>3, <1>4, <1>5, <1>6, <1>7, <1>8, <1>9, <1>10, CallRefines, ReturnRefines, Zenon DEF Next

\* The log begins empty.
LEMMA InitRefines == Init => Durable!Init
<1> SUFFICES ASSUME Init PROVE Durable!Init
  OBVIOUS
<1>1. DOMAIN disk = {} /\ meta.first = 1 /\ ~(mode = "up") /\ req = NoRequest
  BY DEF Init
<1>2. LogIndices = {}
  BY <1>1 DEF LogIndices
<1>3. Log = [i \in {} |-> 0]
  BY <1>2 DEF Log
<1> QED
  BY <1>1, <1>3, Zenon DEF Durable!Init, Served
=============================================================================

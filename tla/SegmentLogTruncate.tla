-------------------------- MODULE SegmentLogTruncate ------------------------
(***************************************************************************)
(* The invariant of SegmentLog is kept by TruncatePrefix and TruncateSuffix*)
(* and each of their system calls.                                         *)
(***************************************************************************)
EXTENDS SegmentLogInv

\* The longer of these proofs take the provers more than their default time.
USE SMTT(30), Zenon, Z3T(30)

\* A call on log_meta takes place: the unlinks move up in the list.
LEMMA ShiftFrom ==
  ASSUME TypeInv, SystemCall, NEW k \in Nat, NEW lo \in {2, 3}, PoppingFrom(k, lo), disk' = disk
  PROVE  PoppingFrom(k, lo - 1)'
<1>1. PICK n \in Nat : n = Len(pending)
  BY CallFrame, Zenon
<1>2. /\ lo \in Nat /\ lo >= 2 /\ n >= lo /\ Len(pending') = n - 1
      /\ \A i \in 1 .. n - 1 : pending'[i] = pending[i + 1]
      /\ closed' = closed /\ open' = open
  BY <1>1, CallFrame DEF PoppingFrom
<1>3. \A i \in lo - 1 .. n - 2 : i + 1 \in lo .. n - 1 /\ pending'[i] = pending[i + 1]
  BY <1>2
<1>4. \A i \in lo .. n - 1 : i - 1 \in lo - 1 .. n - 2 /\ pending'[i - 1] = pending[i]
  BY <1>2
<1>5. pending'[n - 1] = TrimFront(k)
  BY <1>1, <1>2 DEF PoppingFrom
<1>6. {pending'[i].seg : i \in lo - 1 .. n - 2} = {pending[i].seg : i \in lo .. n - 1}
  <2>1. ASSUME NEW i \in lo - 1 .. n - 2 PROVE \E j \in lo .. n - 1 : pending[j].seg = pending'[i].seg
    BY <1>3, Zenon
  <2>2. ASSUME NEW i \in lo .. n - 1 PROVE \E j \in lo - 1 .. n - 2 : pending'[j].seg = pending[i].seg
    BY <1>4, Zenon
  <2> QED
    BY <2>1, <2>2
<1>7. Popping(lo, n - 1) /\ \A i \in lo .. n - 1 : End(pending[i].seg) <= k
  BY <1>1 DEF PoppingFrom
<1>8. \A i, j \in lo - 1 .. n - 2 : i < j => i + 1 < j + 1
  BY <1>2
<1>9. Kept' = Kept
  BY <1>2 DEF Kept
<1>10. /\ \A i \in lo - 1 .. n - 2 : pending'[i] = Unlink(pending'[i].seg)
       /\ DOMAIN disk' = Kept' \cup {pending'[i].seg : i \in lo - 1 .. n - 2}
       /\ \A i \in lo - 1 .. n - 2 : pending'[i].seg \notin Kept'
       /\ \A i, j \in lo - 1 .. n - 2 : i < j => pending'[i].seg # pending'[j].seg
  <2>1. /\ \A i \in lo .. n - 1 : pending[i] = Unlink(pending[i].seg) /\ pending[i].seg \notin Kept
        /\ DOMAIN disk = Kept \cup {pending[i].seg : i \in lo .. n - 1}
        /\ \A i, j \in lo .. n - 1 : i < j => pending[i].seg # pending[j].seg
    BY <1>7, Zenon DEF Popping
  <2>2. DOMAIN disk' = Kept' \cup {pending'[i].seg : i \in lo - 1 .. n - 2}
    BY <1>6, <1>9, <2>1, Zenon
  <2>3. \A i \in lo - 1 .. n - 2 : pending'[i] = Unlink(pending'[i].seg) /\ pending'[i].seg \notin Kept'
    BY <1>3, <1>9, <2>1, Zenon
  <2>4. \A i, j \in lo - 1 .. n - 2 : i < j => pending'[i].seg # pending'[j].seg
    BY <1>3, <1>8, <2>1
  <2> QED
    BY <2>2, <2>3, <2>4, Zenon
<1>11. \A i \in lo - 1 .. n - 2 : End(pending'[i].seg) <= k
  BY <1>3, <1>7
<1>12. Len(pending') - 1 = n - 2 /\ Len(pending') = n - 1 /\ n - 1 >= lo - 1
  BY <1>2
<1> QED
  BY <1>5, <1>10, <1>11, <1>12, Zenon DEF PoppingFrom, Popping, End

\* An unlink takes place: the others move up in the list.
LEMMA ShiftUnlink ==
  ASSUME TypeInv, SystemCall, NEW hi \in Nat, hi >= 1, hi < Len(pending), Popping(1, hi),
         DOMAIN disk' = DOMAIN disk \ {pending[1].seg}
  PROVE  /\ \A i \in 1 .. hi - 1 : pending'[i] = pending[i + 1] /\ i + 1 \in 1 .. hi /\ i + 1 \in 2 .. hi
         /\ \A i \in 1 .. hi - 1 : pending'[i] = Unlink(pending'[i].seg) /\ pending'[i].seg \notin Kept'
         /\ DOMAIN disk' = Kept' \cup {pending'[i].seg : i \in 1 .. hi - 1}
         /\ \A i, j \in 1 .. hi - 1 : i < j => pending'[i].seg # pending'[j].seg
<1>1. /\ Len(pending) \in Nat /\ closed' = closed /\ open' = open
      /\ \A i \in 1 .. Len(pending) - 1 : pending'[i] = pending[i + 1]
  BY CallFrame
<1>2. \A i \in 1 .. hi - 1 : pending'[i] = pending[i + 1] /\ i + 1 \in 1 .. hi /\ i + 1 \in 2 .. hi
  BY <1>1
<1>3. Kept' = Kept
  BY <1>1 DEF Kept
<1>4. /\ \A i \in 1 .. hi : pending[i] = Unlink(pending[i].seg) /\ pending[i].seg \notin Kept
      /\ DOMAIN disk = Kept \cup {pending[i].seg : i \in 1 .. hi}
      /\ \A i, j \in 1 .. hi : i < j => pending[i].seg # pending[j].seg
  BY Zenon DEF Popping
<1>5. \A i \in 1 .. hi - 1 : pending'[i] = Unlink(pending'[i].seg) /\ pending'[i].seg \notin Kept'
  BY <1>2, <1>3, <1>4, Zenon
<1>6. \A i, j \in 1 .. hi - 1 : i < j => pending'[i].seg # pending'[j].seg
  <2>1. \A i, j \in 1 .. hi - 1 : i < j => i + 1 < j + 1
    OBVIOUS
  <2> QED
    BY <1>2, <1>4, <2>1
<1>7. DOMAIN disk' = Kept' \cup {pending'[i].seg : i \in 1 .. hi - 1}
  <2>1. 1 \in 1 .. hi
    OBVIOUS
  <2>2. \A i \in 1 .. hi : i = 1 \/ (i - 1 \in 1 .. hi - 1 /\ pending'[i - 1] = pending[i])
    BY <1>1
  <2>3. \A i \in 1 .. hi - 1 : pending[1].seg # pending'[i].seg
    <3>1. \A i \in 1 .. hi - 1 : 1 < i + 1
      OBVIOUS
    <3>2. ASSUME NEW i \in 1 .. hi - 1 PROVE pending[1].seg # pending[i + 1].seg
      BY <1>2, <1>4, <2>1, <3>1, Zenon
    <3> QED
      BY <1>2, <3>2, Zenon
  <2>4. ASSUME NEW x PROVE x \in DOMAIN disk' <=> x \in Kept' \cup {pending'[i].seg : i \in 1 .. hi - 1}
    <3>1. ASSUME x \in DOMAIN disk' PROVE x \in Kept' \cup {pending'[i].seg : i \in 1 .. hi - 1}
      <4>1. x \in Kept \/ \E i \in 1 .. hi : i # 1 /\ x = pending[i].seg
        <5>1. x \in DOMAIN disk /\ x # pending[1].seg
          BY <3>1
        <5> QED
          BY <1>4, <5>1, Zenon
      <4> QED
        BY <1>3, <2>2, <4>1
    <3>2. ASSUME x \in Kept' \cup {pending'[i].seg : i \in 1 .. hi - 1} PROVE x \in DOMAIN disk'
      <4>1. CASE x \in Kept
        BY <1>4, <2>1, <4>1
      <4>2. ASSUME NEW i \in 1 .. hi - 1, x = pending'[i].seg PROVE x \in DOMAIN disk'
        BY <1>2, <1>4, <2>3, <4>2
      <4> QED
        BY <1>3, <3>2, <4>1, <4>2
    <3> QED
      BY <3>1, <3>2
  <2> QED
    BY <2>4, Zenon
<1> QED
  BY <1>2, <1>5, <1>6, <1>7, Zenon

\* The calls of TruncatePrefix: log_meta, the files from the front, the cache.
LEMMA PoppingFrontCall == ASSUME IInv, NEW k \in Nat, PoppingFront(k), SystemCall PROVE IInv'
<1>1. TypeInv /\ DiskType /\ DiskInv /\ last_log_index \in Nat /\ Len(pending) \in Nat /\ meta.first \in Nat
  BY CallFrame, Zenon DEF IInv, TypeInv, DiskType
<1>2. /\ req = [op |-> "prefix", index |-> k] /\ first_log_index = k /\ k <= last_log_index + 1
      /\ NotTorn(DOMAIN disk) /\ Shut(closed) /\ Settled(last_log_index) /\ OpenSettled(last_log_index)
  BY DEF PoppingFront
<1>3. /\ UNCHANGED <<closed, open, last_log_index, first_log_index, req>> /\ DiskCall(pending[1])
      /\ pending' = Tail(pending) /\ Len(pending') = Len(pending) - 1
      /\ \A i \in 1 .. Len(pending) - 1 : pending'[i] = pending[i + 1]
  BY <1>1, CallFrame
<1>4. CASE /\ PoppingFrom(k, 3) /\ meta.state = "ok" /\ meta.first < k
           /\ pending[1] = [call |-> "truncate_meta"] /\ pending[2] = [call |-> "write_meta", first |-> k]
  <2>1. disk' = disk /\ meta' = [meta EXCEPT !.state = "torn"]
    BY <1>3, <1>4, MetaCalls
  <2>2. /\ DiskType' /\ DiskInv' /\ meta'.state = "torn" /\ meta'.first = meta.first
        /\ LogIndices' = LogIndices
    BY <1>1, <2>1, TruncateMetaDisk
  <2>3. PoppingFrom(k, 2)'
    BY <1>1, <1>4, <2>1, ShiftFrom
  <2>4. pending'[1] = [call |-> "write_meta", first |-> k]
    BY <1>1, <1>3, <1>4 DEF PoppingFrom
  <2>5. NotTorn(DOMAIN disk)' /\ Shut(closed)' /\ Settled(last_log_index)' /\ OpenSettled(last_log_index)'
    BY <1>2, <1>3, <2>1, <2>2 DEF NotTorn, Shut, Settled, Filled, OpenSettled, End
  <2>6. PoppingFront(k)'
    BY <1>2, <1>3, <1>4, <2>2, <2>3, <2>4, <2>5, Zenon DEF PoppingFront
  <2> QED
    BY <1>1, <2>2, <2>6, CallKeeps DEF UpInv
<1>5. CASE /\ PoppingFrom(k, 2) /\ meta.state = "torn" /\ meta.first < k
           /\ pending[1] = [call |-> "write_meta", first |-> k]
  <2>1. disk' = disk /\ meta' = [state |-> "ok", first |-> k]
    BY <1>3, <1>5, MetaCalls
  <2>2. /\ DiskType' /\ DiskInv' /\ meta'.state = "ok" /\ meta'.first = k
        /\ \A i : i \in LogIndices' <=> i \in LogIndices /\ i >= k
    BY <1>1, <1>5, <2>1, WriteMetaDisk
  <2>3. PoppingFrom(k, 1)'
    BY <1>1, <1>5, <2>1, ShiftFrom
  <2>4. NotTorn(DOMAIN disk)' /\ Shut(closed)' /\ OpenSettled(last_log_index)'
    <3>1. NotTorn(DOMAIN disk)'
      BY <1>2, <2>1, Zenon DEF NotTorn
    <3>2. Shut(closed)'
      BY <1>2, <1>3, <2>1, Zenon DEF Shut
    <3>3. OpenSettled(last_log_index)'
      BY <1>2, <1>3, <2>1, <2>2 DEF OpenSettled, End
    <3> QED
      BY <3>1, <3>2, <3>3, Zenon
  <2>5. Settled(last_log_index)'
    <3>1. meta'.first <= last_log_index' + 1
      BY <1>2, <1>3, <2>2
    <3>2. Filled(last_log_index)'
      <4> SUFFICES ASSUME NEW i \in meta'.first .. last_log_index' PROVE i \in LogIndices'
        BY Zenon DEF Filled
      <4>1. meta.first < k /\ meta'.first = k /\ last_log_index' = last_log_index
        BY <1>3, <1>5, <2>2, Zenon
      <4>2. i \in meta.first .. last_log_index /\ i >= k
        BY <1>1, <4>1
      <4> QED
        BY <1>2, <2>2, <4>2, Zenon DEF Settled, Filled
    <3>3. \A f \in closed' : End(f)' <= last_log_index' + 1
      BY <1>2, <1>3, <2>1, Zenon DEF Settled, End
    <3>4. \A f \in closed' : open' # 0 => f < open'
      BY <1>2, <1>3, Zenon DEF Settled
    <3> QED
      BY <3>1, <3>2, <3>3, <3>4, Zenon DEF Settled
  <2>6. PoppingFront(k)'
    BY <1>2, <1>3, <2>2, <2>3, <2>4, <2>5 DEF PoppingFront
  <2> QED
    BY <1>1, <2>2, <2>6, CallKeeps DEF UpInv
<1>6. CASE PoppingFrom(k, 1) /\ meta.state = "ok" /\ meta.first = k /\ Len(pending) >= 2
  <2>1. PICK hi \in Nat : hi = Len(pending) - 1
    <3>1. Len(pending) - 1 \in Nat
      BY <1>1, <1>6
    <3> QED
      BY <3>1, Zenon
  <2>2. hi >= 1 /\ hi < Len(pending) /\ Popping(1, hi) /\ (\A i \in 1 .. hi : End(pending[i].seg) <= k) /\ 1 \in 1 .. hi
    BY <1>1, <1>6, <2>1 DEF PoppingFrom
  <2>3. pending[1].seg \in DOMAIN disk /\ pending[1].seg \notin Kept /\ pending[1] = Unlink(pending[1].seg)
    BY <2>2 DEF Popping
  <2>4. PICK s \in DOMAIN disk : s = pending[1].seg
    BY <2>3, Zenon
  <2>5. meta' = meta /\ disk' = [f \in DOMAIN disk \ {s} |-> disk[f]]
    BY <1>3, <2>3, <2>4, UnlinkCall, Zenon
  <2>6. End(s) <= meta.first /\ meta.state # "none"
    BY <1>6, <2>2, <2>4
  <2>7. /\ DiskType' /\ DiskInv'
        /\ \A f \in DOMAIN disk' : End(f)' = End(f)
        /\ \A i : i \in LogIndices' <=> i \in LogIndices /\ ~(s <= i /\ i < End(s))
    BY <1>1, <2>5, <2>6, UnlinkDisk, Zenon
  <2>8. DOMAIN disk' = DOMAIN disk \ {s} /\ \A f \in DOMAIN disk' : disk'[f] = disk[f]
    BY <2>5, Zenon
  <2>9. LogIndices' = LogIndices
    <3>1. \A i \in LogIndices : ~(i < End(s))
      BY <1>1, <2>6, InLog, FileType
    <3> QED
      BY <2>7, <3>1, Zenon
  <2>10. /\ \A i \in 1 .. hi - 1 : pending'[i] = pending[i + 1] /\ i + 1 \in 1 .. hi
         /\ \A i \in 1 .. hi - 1 : pending'[i] = Unlink(pending'[i].seg) /\ pending'[i].seg \notin Kept'
         /\ DOMAIN disk' = Kept' \cup {pending'[i].seg : i \in 1 .. hi - 1}
         /\ \A i, j \in 1 .. hi - 1 : i < j => pending'[i].seg # pending'[j].seg
    BY <1>1, <2>2, <2>4, <2>8, ShiftUnlink, Zenon
  <2>11. PoppingFrom(k, 1)'
    <3>1. Len(pending') = hi /\ pending'[hi] = TrimFront(k) /\ hi >= 1
      BY <1>1, <1>3, <1>6, <2>1, <2>2 DEF PoppingFrom
    <3>2. \A i \in 1 .. hi - 1 : pending'[i].seg \in DOMAIN disk' /\ End(pending'[i].seg) <= k
      BY <2>2, <2>10
    <3>3. \A i \in 1 .. hi - 1 : \A f : f = pending'[i].seg => End(f)' <= k
      BY <2>7, <3>2, Zenon
    <3>4. Popping(1, Len(pending) - 1)'
      BY <2>10, <3>1, Zenon DEF Popping
    <3>5. \A i \in 1 .. hi - 1 : End(pending[i].seg)' <= k
      BY <3>3 DEF End
    <3> QED
      BY <3>1, <3>4, <3>5 DEF PoppingFrom
  <2>12. \A f \in Kept : f \in DOMAIN disk' /\ disk'[f] = disk[f] /\ End(f)' = End(f)
    BY <1>3, <2>7, <2>8, <2>10, Zenon DEF Kept
  <2>13. NotTorn(DOMAIN disk)' /\ Shut(closed)'
    BY <1>2, <1>3, <2>8, <2>12 DEF NotTorn, Shut, Kept
  <2>14. Settled(last_log_index)'
    BY <1>2, <1>3, <2>5, <2>9, <2>12, Zenon DEF Settled, Filled, Kept
  <2>15. OpenSettled(last_log_index)'
    BY <1>2, <1>3, <2>12 DEF OpenSettled, Kept, End
  <2>16. PoppingFront(k)'
    BY <1>2, <1>3, <1>6, <2>5, <2>11, <2>13, <2>14, <2>15 DEF PoppingFront
  <2> QED
    BY <1>1, <2>7, <2>16, CallKeeps DEF UpInv
<1>7. CASE PoppingFrom(k, 1) /\ meta.state = "ok" /\ meta.first = k /\ Len(pending) = 1
  <2>1. pending[1] = TrimFront(k) /\ pending' = <<>>
    BY <1>1, <1>3, <1>7 DEF PoppingFrom, TypeInv
  <2>2. disk' = disk /\ meta' = meta
    BY <1>3, <2>1, TrimCalls
  <2>3. DOMAIN disk = Kept
    BY <1>7 DEF PoppingFrom, Popping
  <2>4. UNCHANGED Segments
    BY <1>3, <2>2 DEF Segments
  <2>5. Quiet
    BY <1>2, <1>7, <2>3 DEF Quiet
  <2>6. Quiet' /\ NotTorn(DOMAIN disk)' /\ DiskType' /\ DiskInv'
    BY <1>1, <1>2, <2>2, <2>4, <2>5, SegmentsSame, DiskSame
  <2>7. Done'
    BY <1>2, <1>3, <1>7, <2>2 DEF Done
  <2> QED
    BY <1>1, <2>1, <2>6, <2>7, CallKeeps DEF UpInv
<1>8. PoppingFrom(k, 1) => Len(pending) = 1 \/ Len(pending) >= 2
  <2>1. PoppingFrom(k, 1) => Len(pending) >= 1
    BY Zenon DEF PoppingFrom
  <2>2. \A n \in Nat : n >= 1 => n = 1 \/ n >= 2
    OBVIOUS
  <2> QED
    BY <1>1, <2>1, <2>2, Zenon
<1> QED
  BY <1>4, <1>5, <1>6, <1>7, <1>8 DEF PoppingFront

\* The back: one more file is gone.
LEMMA UnlinkBack ==
  ASSUME IInv, NEW k \in Nat, PoppingBack(k), SystemCall, NEW hi \in Nat, hi >= 1, hi < Len(pending), PoppingTo(k, hi)
  PROVE  /\ DiskType' /\ DiskInv' /\ meta' = meta
         /\ hi - 1 >= 0 /\ Popping(1, hi - 1)'
         /\ \A i \in 1 .. hi - 1 : pending'[i].seg > k \/ k < meta'.first
         /\ \A i \in 1 .. hi - 1 : \A f \in Kept' : f < pending'[i].seg
         /\ \A i, j \in 1 .. hi - 1 : i < j => pending'[i].seg > pending'[j].seg
         /\ \A f \in Kept : f \in DOMAIN disk' /\ disk'[f] = disk[f] /\ End(f)' = End(f)
         /\ NotTorn(DOMAIN disk)' /\ Shut(closed)' /\ Settled(k)'
<1>1. TypeInv /\ DiskType /\ DiskInv /\ last_log_index \in Nat /\ Len(pending) \in Nat /\ meta.first \in Nat
  BY CallFrame DEF IInv, TypeInv, DiskType
<1>2. /\ k = last_log_index /\ meta.state = "ok"
      /\ NotTorn(DOMAIN disk) /\ Shut(closed) /\ Settled(k)
  BY DEF PoppingBack
<1>3. UNCHANGED <<closed, open, last_log_index, first_log_index, req>> /\ DiskCall(pending[1]) /\ Kept' = Kept
  BY <1>1, CallFrame DEF Kept
<1>4. /\ Popping(1, hi) /\ 1 \in 1 .. hi
      /\ \A i \in 1 .. hi : pending[i].seg > k \/ k < meta.first
      /\ \A i \in 1 .. hi : \A f \in Kept : f < pending[i].seg
      /\ \A i, j \in 1 .. hi : i < j => pending[i].seg > pending[j].seg
  BY DEF PoppingTo
<1>5. pending[1].seg \in DOMAIN disk /\ pending[1].seg \notin Kept /\ pending[1] = Unlink(pending[1].seg)
  BY <1>4 DEF Popping
<1>6. PICK s \in DOMAIN disk : s = pending[1].seg
  BY <1>5, Zenon
<1>7. meta' = meta /\ disk' = [f \in DOMAIN disk \ {s} |-> disk[f]]
  BY <1>3, <1>5, <1>6, UnlinkCall, Zenon
<1>8. ASSUME NEW f \in DOMAIN disk PROVE f <= s
  <2>1. f \in Kept \/ \E i \in 1 .. hi : f = pending[i].seg
    BY <1>4 DEF Popping
  <2>2. CASE f \in Kept
    BY <1>1, <1>4, <1>6, <2>2, FileType
  <2>3. ASSUME NEW i \in 1 .. hi, f = pending[i].seg PROVE f <= s
    BY <1>1, <1>4, <1>6, <2>3, FileType
  <2> QED
    BY <2>1, <2>2, <2>3
<1>9. /\ DiskType' /\ DiskInv'
      /\ \A f \in DOMAIN disk' : End(f)' = End(f)
      /\ \A i : i \in LogIndices' <=> i \in LogIndices /\ ~(s <= i /\ i < End(s))
  <2>1. meta.state # "none"
    BY <1>2
  <2> QED
    BY <1>1, <1>7, <1>8, <2>1, UnlinkDisk, Zenon
<1>10. DOMAIN disk' = DOMAIN disk \ {s} /\ \A f \in DOMAIN disk' : disk'[f] = disk[f]
  BY <1>7, Zenon
<1>11. /\ \A i \in 1 .. hi - 1 : pending'[i] = pending[i + 1] /\ i + 1 \in 1 .. hi
       /\ \A i \in 1 .. hi - 1 : pending'[i] = Unlink(pending'[i].seg) /\ pending'[i].seg \notin Kept'
       /\ DOMAIN disk' = Kept' \cup {pending'[i].seg : i \in 1 .. hi - 1}
       /\ \A i, j \in 1 .. hi - 1 : i < j => pending'[i].seg # pending'[j].seg
  BY <1>1, <1>4, <1>6, <1>10, ShiftUnlink, Zenon
<1>12. Popping(1, hi - 1)'
  BY <1>11, Zenon DEF Popping
<1>13. /\ \A i \in 1 .. hi - 1 : pending'[i].seg > k \/ k < meta'.first
       /\ \A i \in 1 .. hi - 1 : \A f \in Kept' : f < pending'[i].seg
  BY <1>3, <1>4, <1>7, <1>11, Zenon
<1>14. \A i, j \in 1 .. hi - 1 : i < j => pending'[i].seg > pending'[j].seg
  <2>1. \A i, j \in 1 .. hi - 1 : i < j => i + 1 < j + 1
    OBVIOUS
  <2> QED
    BY <1>4, <1>11, <2>1
<1>15. \A f \in Kept : f \in DOMAIN disk' /\ disk'[f] = disk[f] /\ End(f)' = End(f)
  BY <1>3, <1>9, <1>10, <1>11, Zenon
<1>16. NotTorn(DOMAIN disk)' /\ Shut(closed)'
  BY <1>2, <1>3, <1>10, <1>15 DEF NotTorn, Shut, Kept
<1>17. Settled(k)'
  <2>1. \A i \in meta.first .. k : i \in LogIndices /\ ~(s <= i)
    <3>1. s > k \/ k < meta.first
      BY <1>4, <1>6
    <3>2. s \in Nat /\ Filled(k)
      BY <1>1, <1>2, FileType DEF Settled
    <3>3. \A i \in meta.first .. k : ~(s <= i)
      BY <1>1, <3>1, <3>2
    <3> QED
      BY <3>2, <3>3, Zenon DEF Filled
  <2>2. meta'.first .. k \subseteq LogIndices'
    BY <1>7, <1>9, <2>1, Zenon
  <2> QED
    BY <1>2, <1>3, <1>7, <1>15, <2>2, Zenon DEF Settled, Filled, Kept
<1>18. hi - 1 >= 0
  OBVIOUS
<1> QED
  BY <1>7, <1>9, <1>12, <1>13, <1>14, <1>15, <1>16, <1>17, <1>18, Zenon

\* A cut of the last segment: OpenSettled holds from then on.
LEMMA CutBack ==
  ASSUME IInv, NEW k \in Nat, PoppingBack(k), SystemCall, PoppingTo(k, 0), Cutting(k), Len(pending) = 2, disk[open].open
  PROVE  IInv'
<1>1. TypeInv /\ DiskType /\ DiskInv /\ last_log_index \in Nat /\ Len(pending) \in Nat /\ meta.first \in Nat
  BY CallFrame DEF IInv, TypeInv, DiskType
<1>2. /\ req = [op |-> "suffix", index |-> k]
      /\ k = last_log_index /\ first_log_index = meta.first /\ meta.state = "ok"
      /\ NotTorn(DOMAIN disk) /\ Shut(closed) /\ Settled(k)
      /\ pending[2] = TrimBack(k)
      /\ open # 0 /\ open <= k /\ k + 1 < End(open) /\ pending[1] = Ftruncate(open, k + 1 - open)
  BY DEF PoppingBack, Cutting
<1>3. /\ UNCHANGED <<closed, open, last_log_index, first_log_index, req>> /\ DiskCall(pending[1]) /\ Kept' = Kept
      /\ Len(pending') = 1 /\ pending'[1] = pending[2]
  <2>1. UNCHANGED <<closed, open, last_log_index, first_log_index, req>> /\ DiskCall(pending[1]) /\ Kept' = Kept
    BY <1>1, CallFrame DEF Kept
  <2>2. Len(pending') = Len(pending) - 1 /\ \A i \in 1 .. Len(pending) - 1 : pending'[i] = pending[i + 1]
    BY <1>1, CallFrame, Zenon
  <2>3. 2 - 1 = 1 /\ 1 \in 1 .. 1 /\ 1 + 1 = 2
    OBVIOUS
  <2> QED
    BY <2>1, <2>2, <2>3, Zenon
<1>4. DOMAIN disk = closed \cup {open}
  BY <1>2 DEF PoppingTo, Popping, Kept
<1>5. PICK s \in DOMAIN disk : s = open
  BY <1>4, Zenon
<1>6. s \in Nat /\ End(s) = s + Len(disk[s].ents) /\ Len(disk[s].ents) \in Nat
  BY <1>1, FileType DEF End
<1>7. PICK n \in Nat : n = k + 1 - s
  <2>1. k + 1 - s \in Nat
    BY <1>2, <1>5, <1>6
  <2> QED
    BY <2>1, Zenon
<1>8. n <= Len(disk[s].ents) /\ s + n = k + 1
  BY <1>2, <1>5, <1>6, <1>7
<1>9. meta' = meta /\ disk' = [disk EXCEPT ![s].ents = SubSeq(@, 1, n), ![s].torn = FALSE]
  <2>1. pending[1] = Ftruncate(s, n)
    BY <1>2, <1>5, <1>7
  <2>2. DiskCall(Ftruncate(s, n))
    BY <1>3, <2>1, Zenon
  <2> QED
    BY <2>2, FtruncateCall, Zenon
<1>10. \A f \in closed : f < s /\ ~disk[f].open
  BY <1>2, <1>5 DEF Settled, Shut
<1>11. OneOpen(s) /\ disk[s].open /\ meta.state # "none"
  BY <1>1, <1>2, <1>4, <1>5, <1>10, FileType DEF OneOpen
<1>12. /\ DiskType' /\ DiskInv' /\ DOMAIN disk' = DOMAIN disk
       /\ \A f \in DOMAIN disk : disk'[f].open = disk[f].open
       /\ \A f \in DOMAIN disk : f # s => disk'[f].torn = disk[f].torn /\ End(f)' = End(f)
       /\ ~disk'[s].torn /\ End(s)' = s + n
       /\ \A i : i \in LogIndices' <=> i \in LogIndices /\ i < s + n
  BY <1>1, <1>8, <1>9, <1>11, FtruncateDisk, Zenon
<1>13. Settled(k)'
  <2>1. \A i \in meta.first .. k : i < s + n
    BY <1>1, <1>8
  <2>2. meta'.first .. k \subseteq LogIndices'
    BY <1>2, <1>9, <1>12, <2>1, Zenon DEF Settled, Filled
  <2>3. \A f \in closed : f # s /\ f \in DOMAIN disk /\ End(f)' = End(f)
    BY <1>4, <1>6, <1>10, <1>12
  <2> QED
    BY <1>2, <1>3, <1>9, <2>2, <2>3 DEF Settled, Filled
<1>14. OpenSettled(k)'
  BY <1>3, <1>5, <1>8, <1>11, <1>12 DEF OpenSettled
<1>15. NotTorn(DOMAIN disk)' /\ Shut(closed)'
  BY <1>2, <1>3, <1>12 DEF NotTorn, Shut
<1>16. PoppingTo(k, Len(pending) - 1)'
  <2>1. DOMAIN disk' = Kept'
    BY <1>3, <1>4, <1>5, <1>12, <1>2 DEF Kept
  <2>2. Len(pending') - 1 = 0 /\ 1 .. 0 = {}
    BY <1>3
  <2> QED
    BY <2>1, <2>2, Zenon DEF PoppingTo, Popping
<1>17. PoppingBack(k)'
  <2>1. Len(pending') >= 1 /\ pending'[Len(pending')] = TrimBack(k)
    BY <1>2, <1>3
  <2>2. meta'.first = first_log_index' /\ meta'.state = "ok" /\ k = last_log_index' /\ req' = [op |-> "suffix", index |-> k]
    BY <1>2, <1>3, <1>9
  <2> QED
    BY <1>13, <1>14, <1>15, <1>16, <2>1, <2>2, Zenon DEF PoppingBack
<1> QED
  BY <1>1, <1>12, <1>17, CallKeeps DEF UpInv

\* The last segment is given the name of an open one before it is cut.
LEMMA ReopenBack ==
  ASSUME IInv, NEW k \in Nat, PoppingBack(k), SystemCall, PoppingTo(k, 0), Cutting(k), Len(pending) = 3, 
         ~disk[open].open, pending[1] = Rename(open, TRUE)
  PROVE  IInv'
<1>1. TypeInv /\ DiskType /\ DiskInv /\ last_log_index \in Nat /\ Len(pending) \in Nat /\ meta.first \in Nat
  BY CallFrame DEF IInv, TypeInv, DiskType
<1>2. /\ req = [op |-> "suffix", index |-> k]
      /\ k = last_log_index /\ first_log_index = meta.first /\ meta.state = "ok"
      /\ NotTorn(DOMAIN disk) /\ Shut(closed) /\ Settled(k)
      /\ pending[3] = TrimBack(k)
      /\ open # 0 /\ open <= k /\ k + 1 < End(open) /\ pending[2] = Ftruncate(open, k + 1 - open)
  BY DEF PoppingBack, Cutting
<1>3. /\ UNCHANGED <<closed, open, last_log_index, first_log_index, req>> /\ DiskCall(pending[1]) /\ Kept' = Kept
      /\ Len(pending') = 2 /\ pending'[1] = pending[2] /\ pending'[2] = pending[3]
  <2>1. UNCHANGED <<closed, open, last_log_index, first_log_index, req>> /\ DiskCall(pending[1]) /\ Kept' = Kept
    BY <1>1, CallFrame, Zenon DEF Kept
  <2>2. Len(pending') = Len(pending) - 1 /\ \A i \in 1 .. Len(pending) - 1 : pending'[i] = pending[i + 1]
    BY <1>1, CallFrame, Zenon
  <2>3. 3 - 1 = 2 /\ 1 \in 1 .. 2 /\ 2 \in 1 .. 2 /\ 1 + 1 = 2 /\ 2 + 1 = 3
    OBVIOUS
  <2> QED
    BY <2>1, <2>2, <2>3, Zenon
<1>4. DOMAIN disk = closed \cup {open}
  BY <1>2 DEF PoppingTo, Popping, Kept
<1>5. PICK s \in DOMAIN disk : s = open
  BY <1>4, Zenon
<1>6. meta' = meta /\ disk' = [disk EXCEPT ![s].open = TRUE, ![s].last = IF TRUE THEN 0 ELSE LastIndex(s)]
  BY <1>3, <1>5, RenameCall, ZenonT(30)
<1>7. \A f \in closed : f < s /\ ~disk[f].open
  BY <1>2, <1>5 DEF Settled, Shut
<1>8. OneOpen(s) /\ meta.state # "none"
  BY <1>1, <1>2, <1>4, <1>5, <1>7, FileType DEF OneOpen
<1>9. /\ DiskType' /\ DiskInv' /\ DOMAIN disk' = DOMAIN disk
      /\ \A f \in DOMAIN disk : /\ disk'[f].torn = disk[f].torn /\ disk'[f].ents = disk[f].ents
                                /\ disk'[f].open = IF f = s THEN TRUE ELSE disk[f].open
      /\ \A f \in DOMAIN disk : End(f)' = End(f)
      /\ LogIndices' = LogIndices
  BY <1>1, <1>6, <1>8, RenameDisk, Zenon
<1>10. Settled(k)'
  BY <1>2, <1>3, <1>4, <1>6, <1>9 DEF Settled, Filled
<1>11. NotTorn(DOMAIN disk)' /\ Shut(closed)'
  <2>1. s \notin closed
    BY <1>1, <1>5, <1>7, FileType
  <2> QED
    BY <1>2, <1>3, <1>9, <2>1, Zenon DEF NotTorn, Shut
<1>12. PoppingTo(k, Len(pending) - 2)'
  <2>1. DOMAIN disk' = Kept'
    BY <1>3, <1>4, <1>5, <1>9, <1>2 DEF Kept
  <2>2. Len(pending') - 2 = 0 /\ 1 .. 0 = {}
    BY <1>3
  <2> QED
    BY <2>1, <2>2, Zenon DEF PoppingTo, Popping
<1>13. Cutting(k)' /\ disk'[open'].open
  <2>1. k + 1 < End(s)' /\ disk'[s].open
    BY <1>2, <1>5, <1>9, Zenon
  <2> QED
    BY <1>2, <1>3, <1>5, <2>1 DEF Cutting, End
<1>14. PoppingBack(k)'
  <2>1. Len(pending') >= 1 /\ pending'[Len(pending')] = TrimBack(k)
    BY <1>2, <1>3
  <2>2. meta'.first = first_log_index' /\ meta'.state = "ok" /\ k = last_log_index' /\ req' = [op |-> "suffix", index |-> k]
    BY <1>2, <1>3, <1>6
  <2> QED
    BY <1>10, <1>11, <1>12, <1>13, <2>1, <2>2, Zenon DEF PoppingBack
<1> QED
  BY <1>1, <1>9, <1>14, CallKeeps DEF UpInv

\* The calls of TruncateSuffix: the files from the back, the cut, the cache.
LEMMA PoppingBackCall == ASSUME IInv, NEW k \in Nat, PoppingBack(k), SystemCall PROVE IInv'
<1>1. TypeInv /\ DiskType /\ DiskInv /\ last_log_index \in Nat /\ meta.first \in Nat
  BY DEF IInv, TypeInv, DiskType
<1>2. /\ req = [op |-> "suffix", index |-> k]
      /\ k = last_log_index /\ first_log_index = meta.first /\ meta.state = "ok"
      /\ NotTorn(DOMAIN disk) /\ Shut(closed) /\ Settled(k)
  BY DEF PoppingBack
<1>3. UNCHANGED <<closed, open, last_log_index, first_log_index, req>> /\ Kept' = Kept
  BY <1>1, CallFrame DEF Kept
<1>4. PICK n \in Nat : n = Len(pending)
  BY <1>1, CallFrame, Zenon
<1>5. /\ n >= 1 /\ pending[n] = TrimBack(k) /\ Len(pending') = n - 1
      /\ \A i \in 1 .. n - 1 : pending'[i] = pending[i + 1]
  BY <1>1, <1>4, CallFrame DEF PoppingBack
<1>6. ASSUME NEW hi \in Nat, hi >= 1, hi < n, PoppingTo(k, hi)
      PROVE  /\ DiskType' /\ DiskInv' /\ meta' = meta
             /\ Len(pending') >= 1 /\ pending'[Len(pending')] = TrimBack(k) /\ hi - 1 \in Nat
             /\ PoppingTo(k, hi - 1)'
             /\ \A f \in Kept : f \in DOMAIN disk' /\ disk'[f] = disk[f] /\ End(f)' = End(f)
             /\ NotTorn(DOMAIN disk)' /\ Shut(closed)' /\ Settled(k)'
  <2>1. /\ DiskType' /\ DiskInv' /\ meta' = meta
        /\ hi - 1 >= 0 /\ Popping(1, hi - 1)'
        /\ \A i \in 1 .. hi - 1 : pending'[i].seg > k \/ k < meta'.first
        /\ \A i \in 1 .. hi - 1 : \A f \in Kept' : f < pending'[i].seg
        /\ \A i, j \in 1 .. hi - 1 : i < j => pending'[i].seg > pending'[j].seg
        /\ \A f \in Kept : f \in DOMAIN disk' /\ disk'[f] = disk[f] /\ End(f)' = End(f)
        /\ NotTorn(DOMAIN disk)' /\ Shut(closed)' /\ Settled(k)'
    BY <1>4, <1>6, UnlinkBack, Zenon
  <2>2. PoppingTo(k, hi - 1)'
    BY <2>1, Zenon DEF PoppingTo
  <2>3. n - 1 >= 1 /\ n - 1 \in 1 .. n - 1 /\ n - 1 + 1 = n /\ hi - 1 \in Nat
    BY <1>6
  <2>4. Len(pending') >= 1 /\ pending'[Len(pending')] = TrimBack(k)
    BY <1>5, <2>3, ZenonT(30)
  <2> QED
    BY <2>1, <2>2, <2>3, <2>4, Zenon
<1>7. CASE PoppingTo(k, n - 1) /\ OpenSettled(k) /\ n >= 2
  <2>1. PICK hi \in Nat : hi = n - 1 /\ hi >= 1 /\ hi < n
    <3>1. n - 1 \in Nat /\ n - 1 >= 1 /\ n - 1 < n
      BY <1>7
    <3> QED
      BY <3>1, Zenon
  <2>2. /\ DiskType' /\ DiskInv' /\ meta' = meta
        /\ Len(pending') >= 1 /\ pending'[Len(pending')] = TrimBack(k)
        /\ PoppingTo(k, hi - 1)'
        /\ \A f \in Kept : f \in DOMAIN disk' /\ disk'[f] = disk[f] /\ End(f)' = End(f)
        /\ NotTorn(DOMAIN disk)' /\ Shut(closed)' /\ Settled(k)'
    BY <1>6, <1>7, <2>1, ZenonT(30)
  <2>3. PoppingTo(k, Len(pending) - 1)'
    BY <1>5, <2>1, <2>2
  <2>4. OpenSettled(k)'
    BY <1>3, <1>7, <2>2, Zenon DEF OpenSettled, Kept, End
  <2>5. PoppingBack(k)'
    BY <1>2, <1>3, <2>2, <2>3, <2>4, Zenon DEF PoppingBack
  <2> QED
    BY <1>1, <2>2, <2>5, CallKeeps, Zenon DEF UpInv
<1>8. CASE PoppingTo(k, n - 1) /\ OpenSettled(k) /\ n = 1
  <2>1. pending[1] = TrimBack(k) /\ pending' = <<>> /\ DiskCall(pending[1])
    BY <1>1, <1>5, <1>8, CallFrame
  <2>2. disk' = disk /\ meta' = meta
    BY <2>1, TrimCalls, Zenon
  <2>3. DOMAIN disk = Kept
    BY <1>8 DEF PoppingTo, Popping
  <2>4. UNCHANGED Segments
    BY <1>3, <2>2 DEF Segments
  <2>5. Quiet
    BY <1>2, <1>8, <2>3 DEF Quiet
  <2>6. Quiet' /\ NotTorn(DOMAIN disk)' /\ DiskType' /\ DiskInv'
    BY <1>1, <1>2, <2>2, <2>4, <2>5, SegmentsSame, DiskSame
  <2>7. Done'
    BY <1>2, <1>3 DEF Done
  <2> QED
    BY <1>1, <2>1, <2>6, <2>7, CallKeeps DEF UpInv
<1>9. ASSUME Cutting(k) PROVE open \in Kept /\ pending[n - 1] = Ftruncate(open, k + 1 - open)
  BY <1>4, <1>9 DEF Cutting, Kept
<1>10. ASSUME Cutting(k), n >= 3, open \in DOMAIN disk', disk'[open] = disk[open], Len(pending') = n - 1
       PROVE  Cutting(k)' /\ disk'[open'].open = disk[open].open
  <2>1. n - 2 \in 1 .. n - 1 /\ n - 2 + 1 = n - 1 /\ n - 1 - 1 = n - 2
    BY <1>10
  <2>2. pending'[Len(pending') - 1] = Ftruncate(open, k + 1 - open)
    BY <1>5, <1>9, <1>10, <2>1, Zenon
  <2> QED
    BY <1>3, <1>10, <2>2 DEF Cutting, End
<1>11. CASE PoppingTo(k, n - 2) /\ Cutting(k) /\ disk[open].open
  <2>1. PICK hi \in Nat : hi = n - 2
    <3>1. n - 2 \in Nat
      BY <1>11 DEF PoppingTo
    <3> QED
      BY <3>1, Zenon
  <2>2. CASE hi >= 1
    <3>1. hi < n /\ n >= 3 /\ hi - 1 = n - 1 - 2
      BY <2>1, <2>2
    <3>2. /\ DiskType' /\ DiskInv' /\ meta' = meta
          /\ Len(pending') >= 1 /\ pending'[Len(pending')] = TrimBack(k)
          /\ PoppingTo(k, hi - 1)'
          /\ \A f \in Kept : f \in DOMAIN disk' /\ disk'[f] = disk[f] /\ End(f)' = End(f)
          /\ NotTorn(DOMAIN disk)' /\ Shut(closed)' /\ Settled(k)'
      BY <1>6, <1>11, <2>2, <2>1, <3>1, Zenon
    <3>3. PoppingTo(k, Len(pending) - 2)'
      BY <1>5, <2>1, <3>2
    <3>4. Cutting(k)' /\ disk'[open'].open
      BY <1>5, <1>9, <1>10, <1>11, <3>1, <3>2, Zenon
    <3>5. PoppingBack(k)'
      BY <1>2, <1>3, <3>2, <3>3, <3>4, Zenon DEF PoppingBack
    <3> QED
      BY <1>1, <3>2, <3>5, CallKeeps DEF UpInv
  <2>3. CASE hi = 0
    <3>1. n = 2 /\ PoppingTo(k, 0)
      BY <1>11, <2>1, <2>3
    <3> QED
      BY <1>4, <1>11, <3>1, CutBack, Zenon
  <2>4. hi >= 1 \/ hi = 0
    OBVIOUS
  <2> QED
    BY <2>2, <2>3, <2>4, Zenon
<1>12. CASE /\ PoppingTo(k, n - 3) /\ Cutting(k) /\ ~disk[open].open
            /\ pending[n - 2] = Rename(open, TRUE)
  <2>1. PICK hi \in Nat : hi = n - 3
    <3>1. n - 3 \in Nat
      BY <1>12 DEF PoppingTo
    <3> QED
      BY <3>1, Zenon
  <2>2. CASE hi >= 1
    <3>1. hi < n /\ n >= 3 /\ hi - 1 = n - 1 - 3
      BY <2>1, <2>2
    <3>2. /\ DiskType' /\ DiskInv' /\ meta' = meta
          /\ Len(pending') >= 1 /\ pending'[Len(pending')] = TrimBack(k)
          /\ PoppingTo(k, hi - 1)'
          /\ \A f \in Kept : f \in DOMAIN disk' /\ disk'[f] = disk[f] /\ End(f)' = End(f)
          /\ NotTorn(DOMAIN disk)' /\ Shut(closed)' /\ Settled(k)'
      BY <1>6, <1>12, <2>2, <2>1, <3>1, ZenonT(30)
    <3>3. PoppingTo(k, Len(pending) - 3)'
      BY <1>5, <2>1, <3>2
    <3>4. Cutting(k)' /\ ~disk'[open'].open
      BY <1>5, <1>9, <1>10, <1>12, <3>1, <3>2, Zenon
    <3>5. pending'[Len(pending') - 2] = Rename(open', TRUE)
      <4>1. n - 3 \in 1 .. n - 1 /\ n - 3 + 1 = n - 2 /\ n - 1 - 2 = n - 3
        BY <2>1, <2>2
      <4> QED
        BY <1>3, <1>5, <1>12, <4>1, Zenon
    <3>6. PoppingBack(k)'
      BY <1>2, <1>3, <3>2, <3>3, <3>4, <3>5, Zenon DEF PoppingBack
    <3> QED
      BY <1>1, <3>2, <3>6, CallKeeps DEF UpInv
  <2>3. CASE hi = 0
    <3>1. n = 3 /\ n - 2 = 1 /\ PoppingTo(k, 0)
      BY <1>12, <2>1, <2>3
    <3> QED
      BY <1>4, <1>12, <3>1, ReopenBack, Zenon
  <2>4. hi >= 1 \/ hi = 0
    OBVIOUS
  <2> QED
    BY <2>2, <2>3, <2>4, Zenon
<1>13. n = 1 \/ n >= 2
  BY <1>5
<1> QED
  BY <1>4, <1>7, <1>8, <1>11, <1>12, <1>13, Zenon DEF PoppingBack

-----------------------------------------------------------------------------
\* A walk through a set of segments in the order of the map.
LEMMA WalkInOrder ==
  ASSUME NEW S, S \subseteq Nat, Cardinality(S) \in Nat, NEW w \in InOrder(S)
  PROVE  /\ w \in Seq(S) /\ Len(w) \in Nat
         /\ \A i \in 1 .. Len(w) : w[i] \in S
         /\ \A f \in S : \E i \in 1 .. Len(w) : w[i] = f
         /\ \A i, j \in 1 .. Len(w) : i < j => w[i] < w[j]
<1>1. PICK n \in Nat : n = Cardinality(S)
  OBVIOUS
<1>2. w \in [1 .. n -> S] /\ Range(w) = S /\ \A i, j \in DOMAIN w : i < j => w[i] < w[j]
  BY <1>1, Zenon DEF InOrder, Walks
<1>3. w \in Seq(S) /\ Len(w) = n /\ DOMAIN w = 1 .. n
  BY <1>2
<1>4. \A f \in S : \E i \in 1 .. n : w[i] = f
  BY <1>2, <1>3, Zenon DEF Range
<1> QED
  BY <1>2, <1>3, <1>4

\* What is where in two lists of calls put together.
LEMMA JoinCalls ==
  ASSUME NEW s \in Seq(Call), NEW u \in Seq(Call)
  PROVE  /\ s \o u \in Seq(Call) /\ Len(s \o u) = Len(s) + Len(u)
         /\ \A i \in 1 .. Len(s) : (s \o u)[i] = s[i]
         /\ \A i \in Len(s) + 1 .. Len(s) + Len(u) : (s \o u)[i] = u[i - Len(s)]
<1>1. s \o u \in Seq(Call) /\ Len(s \o u) = Len(s) + Len(u)
  OBVIOUS
<1>2. \A i \in 1 .. Len(s) : (s \o u)[i] = s[i]
  OBVIOUS
<1>3. \A i \in Len(s) + 1 .. Len(s) + Len(u) : (s \o u)[i] = u[i - Len(s)]
  OBVIOUS
<1> QED
  BY <1>1, <1>2, <1>3

\* The list of unlinks of a list of files.
LEMMA UnlinksOf ==
  ASSUME NEW fs \in Seq(Nat)
  PROVE  /\ Unlinks(fs) \in Seq(Call) /\ Len(Unlinks(fs)) = Len(fs)
         /\ \A i \in 1 .. Len(fs) : Unlinks(fs)[i] = Unlink(fs[i])
<1>1. \A f \in Nat : Unlink(f) \in Call
  BY CallsAreCalls
<1> QED
  BY <1>1 DEF Unlinks

\* The calls of TruncatePrefix.
LEMMA PrefixCallsOf ==
  ASSUME NEW k \in Nat, NEW fs \in Seq(Nat), NEW p, p = PrefixCalls(k, fs)
  PROVE  /\ p \in Seq(Call) /\ Len(p) = Len(fs) + 3 /\ p[Len(p)] = TrimFront(k)
         /\ p[1] = [call |-> "truncate_meta"] /\ p[2] = [call |-> "write_meta", first |-> k]
         /\ \A i \in 3 .. Len(p) - 1 : i - 2 \in 1 .. Len(fs) /\ p[i] = Unlink(fs[i - 2])
<1>1. PICK u \in Seq(Call) : u = Unlinks(fs) /\ Len(u) = Len(fs) /\ \A i \in 1 .. Len(fs) : u[i] = Unlink(fs[i])
  BY UnlinksOf, Zenon
<1>2. PICK m \in Seq(Call) : /\ m = SaveMeta(k) /\ Len(m) = 2 /\ m[1] = [call |-> "truncate_meta"]
                             /\ m[2] = [call |-> "write_meta", first |-> k]
  <2>1. PICK a \in Call, b \in Call : a = [call |-> "truncate_meta"] /\ b = [call |-> "write_meta", first |-> k]
    BY CallsAreCalls, Zenon
  <2>2. <<a, b>> \in Seq(Call) /\ Len(<<a, b>>) = 2 /\ <<a, b>>[1] = a /\ <<a, b>>[2] = b
    OBVIOUS
  <2> QED
    BY <2>1, <2>2, Zenon DEF SaveMeta
<1>3. PICK z \in Seq(Call) : z = <<TrimFront(k)>> /\ Len(z) = 1 /\ z[1] = TrimFront(k)
  <2>1. PICK a \in Call : a = TrimFront(k)
    BY CallsAreCalls, Zenon
  <2>2. <<a>> \in Seq(Call) /\ Len(<<a>>) = 1 /\ <<a>>[1] = a
    OBVIOUS
  <2> QED
    BY <2>1, <2>2, Zenon
<1>4. p = m \o u \o z
  BY <1>1, <1>2, <1>3, Zenon DEF PrefixCalls
<1>5. PICK n \in Nat : n = Len(fs)
  OBVIOUS
<1>6. PICK q : q = m \o u
  BY Zenon
<1>7. PICK r : r = q \o z
  BY Zenon
<1>8. r = p
  BY <1>4, <1>6, <1>7, Zenon
<1>9. /\ q \in Seq(Call) /\ Len(q) = 2 + n
      /\ (\A i \in 1 .. 2 : q[i] = m[i]) /\ \A i \in 2 + 1 .. 2 + n : q[i] = u[i - 2]
  <2>1. 2 \in Nat /\ Len(m) = 2 /\ Len(u) = n
    BY <1>1, <1>2, <1>5
  <2>2. /\ q \in Seq(Call) /\ Len(q) = Len(m) + Len(u) /\ (\A i \in 1 .. Len(m) : q[i] = m[i])
        /\ \A i \in Len(m) + 1 .. Len(m) + Len(u) : q[i] = u[i - Len(m)]
    BY <1>6, JoinCalls
  <2> QED
    BY <2>1, <2>2
<1>10. /\ r \in Seq(Call) /\ Len(r) = 2 + n + 1
       /\ (\A i \in 1 .. 2 + n : r[i] = q[i]) /\ \A i \in 2 + n + 1 .. 2 + n + 1 : r[i] = z[i - (2 + n)]
  <2>1. 2 + n \in Nat /\ 1 \in Nat /\ Len(q) = 2 + n /\ Len(z) = 1
    BY <1>3, <1>9
  <2>2. /\ r \in Seq(Call) /\ Len(r) = Len(q) + Len(z) /\ (\A i \in 1 .. Len(q) : r[i] = q[i])
        /\ \A i \in Len(q) + 1 .. Len(q) + Len(z) : r[i] = z[i - Len(q)]
    <3>1. q \in Seq(Call)
      BY <1>9
    <3> QED
      BY <1>7, <3>1, JoinCalls
  <2> QED
    BY <2>1, <2>2
<1>11. Len(r) = n + 3 /\ Len(r) - 1 = n + 2 /\ 2 + n + 1 - (2 + n) = 1 /\ Len(r) \in 2 + n + 1 .. 2 + n + 1 /\ Len(r) - (2 + n) = 1
  BY <1>10
<1>12. r[Len(r)] = z[1]
  BY <1>10, <1>11, Zenon
<1>13. r[1] = m[1] /\ r[2] = m[2]
  <2>1. 1 \in 1 .. 2 /\ 2 \in 1 .. 2 /\ 1 \in 1 .. 2 + n /\ 2 \in 1 .. 2 + n
    OBVIOUS
  <2> QED
    BY <1>9, <1>10, <2>1
<1>14. \A i \in 3 .. n + 2 : i - 2 \in 1 .. n /\ r[i] = u[i - 2]
  <2>1. \A i \in 3 .. n + 2 : i - 2 \in 1 .. n /\ i \in 2 + 1 .. 2 + n /\ i \in 1 .. 2 + n
    OBVIOUS
  <2> QED
    BY <1>9, <1>10, <2>1, Zenon
<1>15. \A i \in 3 .. Len(r) - 1 : i - 2 \in 1 .. Len(fs) /\ r[i] = Unlink(fs[i - 2])
  BY <1>1, <1>5, <1>11, <1>14, Zenon
<1> QED
  BY <1>2, <1>3, <1>5, <1>8, <1>10, <1>11, <1>12, <1>13, <1>15, Zenon

\* A segment in memory, and what LastIndex says of it.
LEMMA IdleSegments ==
  ASSUME TypeInv, DiskInv, Quiet
  PROVE  /\ \A f \in closed : /\ f \in DOMAIN disk /\ ~disk[f].open /\ f \in Nat \ {0} /\ End(f) \in Nat /\ f < End(f)
                              /\ LastIndex(f) = End(f) - 1 /\ (open # 0 => f < open)
                              /\ End(f) <= last_log_index + 1
         /\ open # 0 => /\ open \in DOMAIN disk /\ disk[open].open /\ open \in Nat /\ End(open) \in Nat /\ open <= End(open)
                        /\ LastIndex(open) = End(open) - 1 /\ End(open) = last_log_index + 1 /\ open \notin closed
<1>1. DiskType
  BY DEF TypeInv
<1>2. ASSUME NEW f \in closed
      PROVE  /\ f \in DOMAIN disk /\ ~disk[f].open /\ f \in Nat \ {0} /\ End(f) \in Nat /\ f < End(f)
             /\ LastIndex(f) = End(f) - 1 /\ (open # 0 => f < open) /\ End(f) <= last_log_index + 1
  <2>1. f \in DOMAIN disk /\ ~disk[f].open /\ (open # 0 => f < open) /\ End(f) <= last_log_index + 1
    BY DEF Quiet, Shut, Settled
  <2>2. disk[f].last = End(f) - 1 /\ disk[f].ents # <<>>
    BY <2>1 DEF DiskInv
  <2>3. f \in Nat \ {0} /\ End(f) \in Nat /\ disk[f].ents \in Seq(Term) /\ End(f) = f + Len(disk[f].ents)
    BY <1>1, <2>1, FileType DEF End
  <2>4. Len(disk[f].ents) # 0 /\ Len(disk[f].ents) \in Nat
    BY <2>2, <2>3
  <2>5. LastIndex(f) = End(f) - 1
    BY <2>1, <2>2, Zenon DEF LastIndex
  <2> QED
    BY <2>1, <2>3, <2>4, <2>5
<1>3. ASSUME open # 0
      PROVE  /\ open \in DOMAIN disk /\ disk[open].open /\ open \in Nat /\ End(open) \in Nat /\ open <= End(open)
             /\ LastIndex(open) = End(open) - 1 /\ End(open) = last_log_index + 1 /\ open \notin closed
  <2>1. open \in DOMAIN disk /\ disk[open].open /\ End(open) = last_log_index + 1
    BY <1>3 DEF Quiet, OpenSettled
  <2>2. open \in Nat /\ End(open) \in Nat /\ open <= End(open) /\ Len(disk[open].ents) \in Nat
    BY <1>1, <2>1, FileType
  <2>3. LastIndex(open) = End(open) - 1
    <3>1. LastIndex(open) = open + Len(disk[open].ents) - 1
      BY <2>1 DEF LastIndex
    <3> QED
      BY <2>2, <3>1 DEF End
  <2>4. open \notin closed
    BY <1>2, <1>3, <2>2
  <2> QED
    BY <2>1, <2>2, <2>3, <2>4
<1> QED
  BY <1>2, <1>3, Zenon

\* A list of segments, each once.
Lists(fs, S) ==
  /\ fs \in Seq(Nat)
  /\ \A i \in 1 .. Len(fs) : fs[i] \in S
  /\ \A f \in S : \E i \in 1 .. Len(fs) : fs[i] = f

\* From the front to the back.
Ascends(fs) == \A i, j \in 1 .. Len(fs) : i < j => fs[i] < fs[j]

\* From the back to the front.
Descends(fs) == \A i, j \in 1 .. Len(fs) : i < j => fs[i] > fs[j]

\* A walk through a SegmentMap lists its segments in ascending order.
LEMMA WalkLists ==
  ASSUME NEW S, S \subseteq Nat, Cardinality(S) \in Nat, NEW w \in InOrder(S) PROVE Lists(w, S) /\ Ascends(w)
<1>1. /\ w \in Seq(S) /\ Len(w) \in Nat /\ (\A i \in 1 .. Len(w) : w[i] \in S)
      /\ (\A f \in S : \E i \in 1 .. Len(w) : w[i] = f) /\ \A i, j \in 1 .. Len(w) : i < j => w[i] < w[j]
  BY WalkInOrder, ZenonT(30)
<1>2. PICK n \in Nat : n = Len(w)
  BY <1>1, Zenon
<1>3. w \in [1 .. n -> S]
  BY <1>1, <1>2
<1>4. w \in [1 .. n -> Nat]
  BY <1>3, Zenon
<1>5. w \in Seq(Nat)
  BY <1>4
<1> QED
  BY <1>1, <1>5, Zenon DEF Lists, Ascends

\* One more file at the end of a list.
LEMMA ListsThen ==
  ASSUME NEW fs, NEW S, Lists(fs, S), NEW o \in Nat
  PROVE  /\ Lists(fs \o <<o>>, S \cup {o})
         /\ Ascends(fs) /\ (\A f \in S : f < o) => Ascends(fs \o <<o>>)
         /\ Descends(fs) /\ (\A f \in S : f > o) => Descends(fs \o <<o>>)
<1>1. fs \in Seq(Nat) /\ (\A i \in 1 .. Len(fs) : fs[i] \in S) /\ \A f \in S : \E i \in 1 .. Len(fs) : fs[i] = f
  BY Zenon DEF Lists
<1>2. PICK n \in Nat : n = Len(fs)
  BY <1>1
<1>3. PICK p : p = fs \o <<o>>
  BY Zenon
<1>4. p \in Seq(Nat) /\ Len(p) = n + 1 /\ (\A i \in 1 .. n : p[i] = fs[i]) /\ p[n + 1] = o
  BY <1>1, <1>2, <1>3
<1>5. n + 1 \in 1 .. n + 1 /\ \A i : i \in 1 .. n + 1 <=> i \in 1 .. n \/ i = n + 1
  OBVIOUS
<1>6. \A i \in 1 .. n + 1 : p[i] \in S \cup {o}
  BY <1>1, <1>2, <1>4, <1>5, Zenon
<1>7. \A f \in S \cup {o} : \E i \in 1 .. n + 1 : p[i] = f
  BY <1>1, <1>2, <1>4, <1>5, Zenon
<1>8. \A i, j \in 1 .. n + 1 : i < j => i \in 1 .. n /\ (j \in 1 .. n \/ j = n + 1)
  OBVIOUS
<1>9. ASSUME Ascends(fs), \A f \in S : f < o PROVE Ascends(p)
  <2>1. \A i, j \in 1 .. n : i < j => fs[i] < fs[j]
    BY <1>2, <1>9, Zenon DEF Ascends
  <2>2. \A i \in 1 .. n : fs[i] < o
    BY <1>1, <1>2, <1>9, Zenon
  <2>3. \A i, j \in 1 .. n + 1 : i < j => p[i] < p[j]
    BY <1>4, <1>8, <2>1, <2>2
  <2> QED
    BY <1>4, <2>3, Zenon DEF Ascends
<1>10. ASSUME Descends(fs), \A f \in S : f > o PROVE Descends(p)
  <2>1. \A i, j \in 1 .. n : i < j => fs[i] > fs[j]
    BY <1>2, <1>10, Zenon DEF Descends
  <2>2. \A i \in 1 .. n : fs[i] > o
    BY <1>1, <1>2, <1>10, Zenon
  <2>3. \A i, j \in 1 .. n + 1 : i < j => p[i] > p[j]
    BY <1>4, <1>8, <2>1, <2>2
  <2> QED
    BY <1>4, <2>3, Zenon DEF Descends
<1> QED
  BY <1>3, <1>4, <1>6, <1>7, <1>9, <1>10, Zenon DEF Lists

\* TruncatePrefix finds the storage at rest; the files it pops are those that
\* end before k.
LEMMA TruncatePrefixStep ==
  ASSUME IInv, NEW k \in Nat, TruncatePrefix(k), IndexSets
  PROVE  IInv' /\ PoppingFront(k)'
<1>1. TypeInv /\ DiskType /\ DiskInv /\ last_log_index \in Nat /\ closed \subseteq 1 .. MaxIndex /\ MaxIndex \in Nat
  BY SegmentAssumption DEF IInv, TypeInv
<1>2. PICK P : P = {f \in closed : \A g \in closed : g <= f => LastIndex(g) < k}
  BY Zenon
<1>3. PICK b \in BOOLEAN : b = (P = closed /\ open # 0 /\ LastIndex(open) < k)
  BY Zenon
<1>4. /\ mode = "up" /\ pending = <<>> /\ first_log_index < k /\ k <= last_log_index + 1 /\ mode' = "up"
      /\ req' = [op |-> "prefix", index |-> k] /\ first_log_index' = k /\ closed' = closed \ P
      /\ disk' = disk /\ meta' = meta /\ cache' = cache
  BY <1>2 DEF TruncatePrefix, Idle
<1>5. /\ open' = IF b THEN 0 ELSE open
      /\ last_log_index' = IF P = closed /\ open' = 0 THEN k - 1 ELSE last_log_index
  BY <1>2, <1>3, Zenon DEF TruncatePrefix
<1>6. PICK w \in InOrder(P) : pending' = PrefixCalls(k, w \o (IF b THEN <<open>> ELSE <<>>))
  BY <1>2, <1>3, Zenon DEF TruncatePrefix
<1>7. Quiet /\ NotTorn(DOMAIN disk)
  BY <1>4, QuietWhenIdle DEF IInv
<1>8. /\ \A f \in closed : /\ f \in DOMAIN disk /\ ~disk[f].open /\ f \in Nat \ {0} /\ End(f) \in Nat /\ f < End(f)
                           /\ LastIndex(f) = End(f) - 1 /\ (open # 0 => f < open) /\ End(f) <= last_log_index + 1
      /\ open # 0 => /\ open \in DOMAIN disk /\ disk[open].open /\ open \in Nat /\ End(open) \in Nat /\ open <= End(open)
                     /\ LastIndex(open) = End(open) - 1 /\ End(open) = last_log_index + 1 /\ open \notin closed
  BY <1>1, <1>7, IdleSegments, Zenon
<1>9. meta.state = "ok" /\ first_log_index = meta.first /\ meta.first < k /\ DOMAIN disk = Kept /\ Settled(last_log_index)
  BY <1>4, <1>7 DEF Quiet
<1>10. DiskType' /\ DiskInv' /\ LogIndices' = LogIndices /\ \A f : End(f)' = End(f)
  BY <1>1, <1>4, DiskSame
<1>11. P \subseteq closed /\ P \subseteq Nat /\ P \in SUBSET (1 .. MaxIndex) /\ \A f \in P : End(f) <= k
  <2>1. P \subseteq closed /\ \A f \in P : f <= f => LastIndex(f) < k
    BY <1>2, Zenon
  <2>2. \A f \in P : f \in Nat /\ End(f) \in Nat /\ LastIndex(f) = End(f) - 1
    BY <1>8, <2>1
  <2>3. \A f \in P : End(f) <= k
    BY <2>1, <2>2
  <2> QED
    BY <1>1, <2>1, <2>2, <2>3
<1>12. PICK o \in Nat : o = open
  BY <1>1 DEF TypeInv
<1>13. b => o # 0 /\ End(o) <= k /\ P = closed /\ \A f \in P : f < o
  <2> SUFFICES ASSUME b PROVE o # 0 /\ End(o) <= k /\ P = closed /\ \A f \in P : f < o
    BY Zenon
  <2>1. P = closed /\ open # 0 /\ LastIndex(open) < k
    BY <1>3, Zenon
  <2>2. End(open) \in Nat /\ LastIndex(open) = End(open) - 1 /\ \A f \in closed : f < open
    BY <1>8, <2>1
  <2>3. End(open) <= k
    BY <2>1, <2>2
  <2> QED
    BY <1>12, <2>1, <2>2, <2>3, Zenon
<1>14. PICK fs : fs = w \o (IF b THEN <<o>> ELSE <<>>)
  BY Zenon
<1>15. Lists(fs, P \cup (IF b THEN {o} ELSE {})) /\ Ascends(fs)
  <2>1. Cardinality(P) \in Nat
    BY <1>11, Zenon DEF IndexSets
  <2>2. Lists(w, P) /\ Ascends(w)
    BY <1>11, <2>1, WalkLists, Zenon
  <2>3. CASE b
    <3>1. fs = w \o <<o>> /\ \A f \in P : f < o
      BY <1>13, <1>14, <2>3, Zenon
    <3> QED
      BY <2>2, <2>3, <3>1, ListsThen, Zenon
  <2>4. CASE ~b
    <3>1. fs = w \o <<>> /\ P \cup (IF b THEN {o} ELSE {}) = P
      BY <1>14, <2>4, Zenon
    <3>2. w \in Seq(Nat)
      BY <2>2 DEF Lists
    <3>3. fs = w
      BY <3>1, <3>2
    <3> QED
      BY <2>2, <3>1, <3>3, Zenon
  <2> QED
    BY <2>3, <2>4
<1>16. pending' = PrefixCalls(k, fs)
  BY <1>6, <1>12, <1>14, Zenon
<1>17. PICK p : p = pending'
  OBVIOUS
<1>18. /\ p \in Seq(Call) /\ Len(p) = Len(fs) + 3 /\ p[Len(p)] = TrimFront(k)
       /\ p[1] = [call |-> "truncate_meta"] /\ p[2] = [call |-> "write_meta", first |-> k]
       /\ \A i \in 3 .. Len(p) - 1 : i - 2 \in 1 .. Len(fs) /\ p[i] = Unlink(fs[i - 2])
  <2>1. fs \in Seq(Nat) /\ p = PrefixCalls(k, fs)
    BY <1>15, <1>16, <1>17, Zenon DEF Lists
  <2> QED
    BY <2>1, PrefixCallsOf
<1>19. PICK n \in Nat : n = Len(fs)
  BY <1>15 DEF Lists
<1>20. Len(p) = n + 3 /\ \A i \in 3 .. n + 2 : i - 2 \in 1 .. n /\ p[i] = Unlink(p[i].seg) /\ p[i].seg = fs[i - 2]
  <2>1. \A f : Unlink(f).seg = f
    BY DEF Unlink
  <2>2. Len(p) = n + 3 /\ Len(p) - 1 = n + 2
    BY <1>18, <1>19
  <2>3. \A i \in 3 .. n + 2 : i - 2 \in 1 .. n /\ p[i] = Unlink(fs[i - 2])
    BY <1>18, <1>19, <2>2
  <2> QED
    BY <2>1, <2>2, <2>3, Zenon
<1>21. PICK Q : Q = P \cup (IF b THEN {o} ELSE {})
  BY Zenon
<1>22. /\ \A f \in Q : f \in DOMAIN disk /\ f \notin Kept' /\ End(f) <= k
       /\ \A f \in DOMAIN disk : f \in Q \/ f \in Kept'
       /\ Kept' \subseteq DOMAIN disk
  <2>1. CASE b
    <3>1. Q = closed \cup {o} /\ Kept' = {} /\ DOMAIN disk = closed \cup {o}
      BY <1>4, <1>5, <1>9, <1>12, <1>13, <1>21, <2>1 DEF Kept
    <3> QED
      BY <1>11, <1>13, <2>1, <3>1
  <2>2. CASE ~b
    <3>1. Q = P /\ Kept' = (closed \ P) \cup ({open} \ {0}) /\ DOMAIN disk = closed \cup ({open} \ {0})
      BY <1>4, <1>5, <1>9, <1>21, <2>2 DEF Kept
    <3> QED
      BY <1>8, <1>11, <3>1
  <2> QED
    BY <2>1, <2>2
<1>23. /\ \A i \in 3 .. n + 2 : p[i].seg \in Q
       /\ \A f \in Q : \E i \in 3 .. n + 2 : f = p[i].seg
       /\ \A i, j \in 3 .. n + 2 : i < j => p[i].seg # p[j].seg
  <2>1. \A i \in 3 .. n + 2 : i - 2 \in 1 .. n /\ p[i].seg = fs[i - 2]
    BY <1>20
  <2>2. \A i \in 1 .. n : fs[i] \in Q
    BY <1>15, <1>19, <1>21, Zenon DEF Lists
  <2>3. \A f \in Q : \E i \in 1 .. n : fs[i] = f
    BY <1>15, <1>19, <1>21, Zenon DEF Lists
  <2>4. \A i \in 1 .. n : i + 2 \in 3 .. n + 2 /\ i + 2 - 2 = i
    OBVIOUS
  <2>5. \A i \in 1 .. n : p[i + 2].seg = fs[i]
    BY <2>1, <2>4
  <2>6. \A f \in Q : \E i \in 3 .. n + 2 : f = p[i].seg
    BY <2>3, <2>4, <2>5, Zenon
  <2>7. \A i, j \in 3 .. n + 2 : i < j => i - 2 < j - 2
    OBVIOUS
  <2>8. \A i, j \in 3 .. n + 2 : i < j => p[i].seg # p[j].seg
    <3>1. \A i \in 1 .. n : fs[i] \in Nat
      BY <1>15, <1>19 DEF Lists
    <3>2. \A i, j \in 1 .. n : i < j => fs[i] # fs[j]
      BY <1>15, <1>19, <3>1 DEF Ascends
    <3> QED
      BY <2>1, <2>7, <3>2
  <2> QED
    BY <2>1, <2>2, <2>6, <2>8
<1>24. Len(p) - 1 = n + 2 /\ Len(p) >= 3
  BY <1>20
<1>25. Popping(3, Len(pending) - 1)'
  <2>1. DOMAIN disk' = Kept' \cup {p[i].seg : i \in 3 .. n + 2}
    <3>1. Q = {p[i].seg : i \in 3 .. n + 2}
      BY <1>23
    <3>2. DOMAIN disk = Kept' \cup Q
      BY <1>22, Zenon
    <3> QED
      BY <1>4, <3>1, <3>2, Zenon
  <2>2. \A i \in 3 .. n + 2 : p[i] = Unlink(p[i].seg) /\ p[i].seg \notin Kept'
    BY <1>20, <1>22, <1>23, Zenon
  <2> QED
    BY <1>17, <1>23, <1>24, <2>1, <2>2 DEF Popping
<1>26. PoppingFrom(k, 3)'
  <2>1. \A i \in 3 .. n + 2 : End(p[i].seg)' <= k
    BY <1>10, <1>22, <1>23, Zenon
  <2> QED
    BY <1>17, <1>18, <1>24, <1>25, <2>1 DEF PoppingFrom
<1>27. last_log_index' \in Nat /\ k <= last_log_index' + 1 /\ last_log_index' <= last_log_index
  BY <1>1, <1>4, <1>5, <1>9 DEF DiskType
<1>28. Settled(last_log_index)'
  <2>1. meta'.first <= last_log_index' + 1 /\ meta.first \in Nat
    BY <1>1, <1>4, <1>9, <1>27 DEF DiskType
  <2>2. Filled(last_log_index)'
    BY <1>1, <1>4, <1>9, <1>10, <1>27, <2>1 DEF Settled, Filled
  <2>3. \A f \in closed' : End(f)' <= last_log_index' + 1 /\ (open' # 0 => f < open')
    BY <1>4, <1>5, <1>8, <1>10, <1>11
  <2> QED
    BY <2>1, <2>2, <2>3 DEF Settled
<1>29. OpenSettled(last_log_index)'
  BY <1>4, <1>5, <1>8, <1>10 DEF OpenSettled
<1>30. Shut(closed)' /\ NotTorn(DOMAIN disk)'
  BY <1>4, <1>7, <1>8 DEF Shut, NotTorn
<1>31. PoppingFront(k)'
  BY <1>4, <1>9, <1>17, <1>18, <1>26, <1>27, <1>28, <1>29, <1>30 DEF PoppingFront
<1>32. TypeInv'
  <2>1. closed' \subseteq 1 .. MaxIndex /\ open \in 0 .. MaxIndex
    BY <1>1, <1>4, Zenon DEF TypeInv
  <2>2. open' = 0 \/ open' = open
    BY <1>5, Zenon
  <2>3. open' \in 0 .. MaxIndex
    BY <1>1, <2>1, <2>2
  <2> QED
    BY <1>1, <1>4, <1>10, <1>17, <1>18, <1>27, <2>1, <2>3, Zenon DEF TypeInv
<1> QED
  BY <1>4, <1>10, <1>31, <1>32 DEF IInv, UpInv

-----------------------------------------------------------------------------
\* One more file at the beginning of a list.
LEMMA ListsFirst ==
  ASSUME NEW fs, NEW S, Lists(fs, S), NEW o \in Nat
  PROVE  /\ Lists(<<o>> \o fs, S \cup {o})
         /\ Descends(fs) /\ (\A f \in S : f < o) => Descends(<<o>> \o fs)
<1>1. fs \in Seq(Nat) /\ (\A i \in 1 .. Len(fs) : fs[i] \in S) /\ \A f \in S : \E i \in 1 .. Len(fs) : fs[i] = f
  BY Zenon DEF Lists
<1>2. PICK n \in Nat : n = Len(fs)
  BY <1>1
<1>3. PICK p : p = <<o>> \o fs
  BY Zenon
<1>4. p \in Seq(Nat) /\ Len(p) = n + 1 /\ p[1] = o /\ \A i \in 2 .. n + 1 : p[i] = fs[i - 1]
  BY <1>1, <1>2, <1>3
<1>5. /\ 1 \in 1 .. n + 1 /\ \A i \in 1 .. n + 1 : i = 1 \/ (i \in 2 .. n + 1 /\ i - 1 \in 1 .. n)
      /\ \A i \in 1 .. n : i + 1 \in 2 .. n + 1 /\ i + 1 \in 1 .. n + 1 /\ i + 1 - 1 = i
  OBVIOUS
<1>6. \A i \in 1 .. n + 1 : p[i] \in S \cup {o}
  BY <1>1, <1>2, <1>4, <1>5, Zenon
<1>7. \A f \in S \cup {o} : \E i \in 1 .. n + 1 : p[i] = f
  <2>1. \A i \in 1 .. n : p[i + 1] = fs[i]
    BY <1>4, <1>5
  <2>2. ASSUME NEW f \in S PROVE \E i \in 1 .. n + 1 : p[i] = f
    <3>1. PICK i \in 1 .. n : fs[i] = f
      BY <1>1, <1>2, Zenon
    <3>2. i + 1 \in 1 .. n + 1 /\ p[i + 1] = f
      BY <1>5, <2>1, <3>1, Zenon
    <3> QED
      BY <3>2, Zenon
  <2> QED
    BY <1>4, <1>5, <2>2, Zenon
<1>8. ASSUME Descends(fs), \A f \in S : f < o PROVE Descends(p)
  <2>1. \A i, j \in 1 .. n : i < j => fs[i] > fs[j]
    BY <1>2, <1>8, Zenon DEF Descends
  <2>2. \A i \in 1 .. n : fs[i] < o /\ fs[i] \in Nat
    BY <1>1, <1>2, <1>8
  <2>3. ASSUME NEW i \in 1 .. n + 1, NEW j \in 1 .. n + 1, i < j PROVE p[i] > p[j]
    <3>1. j \in 2 .. n + 1 /\ j - 1 \in 1 .. n /\ p[j] = fs[j - 1]
      BY <1>4, <2>3
    <3>2. CASE i = 1
      BY <1>4, <2>2, <3>1, <3>2
    <3>3. CASE i # 1
      <4>1. i \in 2 .. n + 1 /\ i - 1 \in 1 .. n /\ p[i] = fs[i - 1] /\ i - 1 < j - 1
        BY <1>4, <2>3, <3>3
      <4> QED
        BY <2>1, <3>1, <4>1
    <3> QED
      BY <3>2, <3>3
  <2> QED
    BY <1>4, <2>3, Zenon DEF Descends
<1> QED
  BY <1>3, <1>4, <1>6, <1>7, <1>8, Zenon DEF Lists

\* PopSegmentsFromBack takes the segments the other way round.
LEMMA ReverseLists ==
  ASSUME NEW w, NEW S, Lists(w, S), Ascends(w) PROVE Lists(Reverse(w), S) /\ Descends(Reverse(w))
<1>1. w \in Seq(Nat) /\ (\A i \in 1 .. Len(w) : w[i] \in S) /\ \A f \in S : \E i \in 1 .. Len(w) : w[i] = f
  BY Zenon DEF Lists
<1>2. PICK n \in Nat : n = Len(w)
  BY <1>1
<1>3. PICK p : p = Reverse(w)
  BY Zenon
<1>4. DOMAIN w = 1 .. n /\ \A i \in 1 .. n : w[i] \in Nat
  BY <1>1, <1>2
<1>5. p = [i \in 1 .. n |-> w[n + 1 - i]]
  BY <1>2, <1>3, <1>4, Zenon DEF Reverse
<1>6. \A i \in 1 .. n : n + 1 - i \in 1 .. n /\ n + 1 - (n + 1 - i) = i
  OBVIOUS
<1>7. p \in [1 .. n -> Nat] /\ \A i \in 1 .. n : p[i] = w[n + 1 - i]
  BY <1>4, <1>5, <1>6
<1>8. p \in Seq(Nat) /\ Len(p) = n
  BY <1>7
<1>9. \A i \in 1 .. n : p[i] \in S
  BY <1>1, <1>2, <1>6, <1>7, Zenon
<1>10. \A f \in S : \E i \in 1 .. n : p[i] = f
  <2>1. \A i \in 1 .. n : p[n + 1 - i] = w[i]
    BY <1>6, <1>7
  <2>2. ASSUME NEW f \in S PROVE \E i \in 1 .. n : p[i] = f
    <3>1. PICK i \in 1 .. n : w[i] = f
      BY <1>1, <1>2, Zenon
    <3>2. n + 1 - i \in 1 .. n /\ p[n + 1 - i] = f
      BY <1>6, <2>1, <3>1, Zenon
    <3> QED
      BY <3>2, Zenon
  <2> QED
    BY <2>2, Zenon
<1>11. \A i, j \in 1 .. n : i < j => p[i] > p[j]
  <2>1. \A i, j \in 1 .. n : i < j => n + 1 - j < n + 1 - i
    OBVIOUS
  <2>2. \A i, j \in 1 .. n : i < j => w[n + 1 - j] < w[n + 1 - i]
    BY <1>2, <1>6, <2>1, Zenon DEF Ascends
  <2> QED
    BY <1>4, <1>6, <1>7, <2>2
<1> QED
  BY <1>3, <1>8, <1>9, <1>10, <1>11, Zenon DEF Lists, Descends

\* One more call at the end of a list.
LEMMA JoinOne ==
  ASSUME NEW s \in Seq(Call), NEW c \in Call
  PROVE  /\ s \o <<c>> \in Seq(Call) /\ Len(s \o <<c>>) = Len(s) + 1 /\ (s \o <<c>>)[Len(s) + 1] = c
         /\ \A i \in 1 .. Len(s) : (s \o <<c>>)[i] = s[i]
         /\ s \o <<>> = s
  OBVIOUS

\* The calls of TruncateSuffix, with and without a segment to cut.
SuffixShape(p, k, fs, c, l) ==
  /\ p \in Seq(Call) /\ p[Len(p)] = TrimBack(k) /\ \A i \in 1 .. Len(fs) : p[i] = Unlink(fs[i])
  /\ ~c => Len(p) = Len(fs) + 1
  /\ c => p[Len(p) - 1] = Ftruncate(l, k + 1 - l)
  /\ c /\ l = open => Len(p) = Len(fs) + 2
  /\ c /\ l # open => Len(p) = Len(fs) + 3 /\ p[Len(p) - 2] = Rename(l, TRUE)

\* The calls of TruncateSuffix are as SuffixShape says.
LEMMA SuffixCallsOf ==
  ASSUME NEW k \in Nat, NEW fs \in Seq(Nat), NEW l \in Nat, l <= k + 1, NEW c \in BOOLEAN
  PROVE  SuffixShape(SuffixCalls(k, fs, c, l), k, fs, c, l)
<1> SUFFICES ASSUME NEW n \in Nat, n = Len(fs), NEW p, p = SuffixCalls(k, fs, c, l)
             PROVE  /\ p \in Seq(Call) /\ p[Len(p)] = TrimBack(k) /\ \A i \in 1 .. n : p[i] = Unlink(fs[i])
                    /\ ~c => Len(p) = n + 1
                    /\ c => p[Len(p) - 1] = Ftruncate(l, k + 1 - l)
                    /\ c /\ l = open => Len(p) = n + 2
                    /\ c /\ l # open => Len(p) = n + 3 /\ p[Len(p) - 2] = Rename(l, TRUE)
  <2>1. Len(fs) \in Nat
    OBVIOUS
  <2> QED
    BY <2>1, Zenon DEF SuffixShape
<1>1. PICK u \in Seq(Call) : u = Unlinks(fs) /\ Len(u) = n /\ \A i \in 1 .. n : u[i] = Unlink(fs[i])
  BY UnlinksOf, Zenon
<1>2. k + 1 - l \in Nat
  OBVIOUS
<1>3. TrimBack(k) \in Call /\ Ftruncate(l, k + 1 - l) \in Call /\ Rename(l, TRUE) \in Call
  BY <1>2, CallsAreCalls, Zenon
<1>4. PICK a \in Call : a = TrimBack(k)
  BY <1>3, Zenon
<1>5. PICK b \in Call : b = Ftruncate(l, k + 1 - l)
  BY <1>3, Zenon
<1>6. PICK d \in Call : d = Rename(l, TRUE)
  BY <1>3, Zenon
<1>7. CASE ~c
  <2>1. p = u \o <<>> \o <<>> \o <<a>>
    BY <1>1, <1>4, <1>7, Zenon DEF SuffixCalls
  <2>2. u \o <<>> = u
    BY JoinOne
  <2>3. p = u \o <<a>>
    BY <2>1, <2>2, Zenon
  <2>4. p \in Seq(Call) /\ Len(p) = n + 1 /\ p[n + 1] = a /\ \A i \in 1 .. n : p[i] = u[i]
    <3>1. /\ u \o <<a>> \in Seq(Call) /\ Len(u \o <<a>>) = Len(u) + 1 /\ (u \o <<a>>)[Len(u) + 1] = a
          /\ \A i \in 1 .. Len(u) : (u \o <<a>>)[i] = u[i]
      BY JoinOne, Zenon
    <3> QED
      BY <1>1, <2>3, <3>1, Zenon
  <2> QED
    BY <1>1, <1>4, <1>7, <2>4, Zenon
<1>8. CASE c /\ l = open
  <2>1. p = u \o <<>> \o <<b>> \o <<a>>
    BY <1>1, <1>4, <1>5, <1>8, Zenon DEF SuffixCalls
  <2>2. u \o <<>> = u
    BY JoinOne
  <2>3. PICK v : v = u \o <<b>>
    BY Zenon
  <2>4. p = v \o <<a>>
    BY <2>1, <2>2, <2>3, Zenon
  <2>5. v \in Seq(Call) /\ Len(v) = n + 1 /\ v[n + 1] = b /\ \A i \in 1 .. n : v[i] = u[i]
    <3>1. /\ u \o <<b>> \in Seq(Call) /\ Len(u \o <<b>>) = Len(u) + 1 /\ (u \o <<b>>)[Len(u) + 1] = b
          /\ \A i \in 1 .. Len(u) : (u \o <<b>>)[i] = u[i]
      BY JoinOne, Zenon
    <3> QED
      BY <1>1, <2>3, <3>1, Zenon
  <2>6. p \in Seq(Call) /\ Len(p) = n + 1 + 1 /\ p[n + 1 + 1] = a /\ \A i \in 1 .. n + 1 : p[i] = v[i]
    <3>1. /\ v \o <<a>> \in Seq(Call) /\ Len(v \o <<a>>) = Len(v) + 1 /\ (v \o <<a>>)[Len(v) + 1] = a
          /\ \A i \in 1 .. Len(v) : (v \o <<a>>)[i] = v[i]
      BY <2>5, JoinOne, Zenon
    <3> QED
      BY <2>4, <2>5, <3>1, Zenon
  <2>7. Len(p) = n + 2 /\ Len(p) - 1 = n + 1 /\ n + 1 + 1 = n + 2 /\ n + 1 \in 1 .. n + 1 /\ \A i \in 1 .. n : i \in 1 .. n + 1
    BY <2>6
  <2> QED
    BY <1>1, <1>4, <1>5, <1>8, <2>5, <2>6, <2>7, Zenon
<1>9. CASE c /\ l # open
  <2>1. p = u \o <<d>> \o <<b>> \o <<a>>
    BY <1>1, <1>4, <1>5, <1>6, <1>9, Zenon DEF SuffixCalls
  <2>2. PICK x : x = u \o <<d>>
    BY Zenon
  <2>3. PICK v : v = x \o <<b>>
    BY Zenon
  <2>4. p = v \o <<a>>
    BY <2>1, <2>2, <2>3, Zenon
  <2>5. x \in Seq(Call) /\ Len(x) = n + 1 /\ x[n + 1] = d /\ \A i \in 1 .. n : x[i] = u[i]
    <3>1. /\ u \o <<d>> \in Seq(Call) /\ Len(u \o <<d>>) = Len(u) + 1 /\ (u \o <<d>>)[Len(u) + 1] = d
          /\ \A i \in 1 .. Len(u) : (u \o <<d>>)[i] = u[i]
      BY JoinOne, Zenon
    <3> QED
      BY <1>1, <2>2, <3>1, Zenon
  <2>6. v \in Seq(Call) /\ Len(v) = n + 1 + 1 /\ v[n + 1 + 1] = b /\ \A i \in 1 .. n + 1 : v[i] = x[i]
    <3>1. /\ x \o <<b>> \in Seq(Call) /\ Len(x \o <<b>>) = Len(x) + 1 /\ (x \o <<b>>)[Len(x) + 1] = b
          /\ \A i \in 1 .. Len(x) : (x \o <<b>>)[i] = x[i]
      BY <2>5, JoinOne, Zenon
    <3> QED
      BY <2>3, <2>5, <3>1, Zenon
  <2>7. p \in Seq(Call) /\ Len(p) = n + 1 + 1 + 1 /\ p[n + 1 + 1 + 1] = a /\ \A i \in 1 .. n + 1 + 1 : p[i] = v[i]
    <3>1. /\ v \o <<a>> \in Seq(Call) /\ Len(v \o <<a>>) = Len(v) + 1 /\ (v \o <<a>>)[Len(v) + 1] = a
          /\ \A i \in 1 .. Len(v) : (v \o <<a>>)[i] = v[i]
      BY <2>6, JoinOne, Zenon
    <3> QED
      BY <2>4, <2>6, <3>1, Zenon
  <2>8. /\ Len(p) = n + 3 /\ Len(p) - 1 = n + 1 + 1 /\ Len(p) - 2 = n + 1 /\ n + 1 + 1 + 1 = n + 3
        /\ n + 1 \in 1 .. n + 1 /\ n + 1 \in 1 .. n + 1 + 1 /\ n + 1 + 1 \in 1 .. n + 1 + 1
        /\ \A i \in 1 .. n : i \in 1 .. n + 1 /\ i \in 1 .. n + 1 + 1
    BY <2>7
  <2>9. p[Len(p)] = a /\ p[Len(p) - 1] = b /\ p[Len(p) - 2] = d
    BY <2>5, <2>6, <2>7, <2>8, Zenon
  <2>10. \A i \in 1 .. n : p[i] = u[i]
    BY <2>5, <2>6, <2>7, <2>8, Zenon
  <2> QED
    BY <1>1, <1>4, <1>5, <1>6, <1>9, <2>7, <2>8, <2>9, <2>10, Zenon
<1> QED
  BY <1>7, <1>8, <1>9, Zenon

\* A descending list of files makes the calls that PoppingTo describes.
LEMMA PoppingToList ==
  ASSUME NEW fs, NEW Q, Lists(fs, Q), Descends(fs), NEW k \in Nat, NEW n \in Nat, n = Len(fs),
         \A i \in 1 .. n : pending'[i] = Unlink(fs[i]),
         DOMAIN disk' = Kept' \cup Q, \A f \in Q : f \notin Kept' /\ (f > k \/ k < meta'.first),
         \A f \in Q : \A g \in Kept' : g < f
  PROVE  PoppingTo(k, n)'
<1>1. /\ fs \in Seq(Nat) /\ (\A i \in 1 .. n : fs[i] \in Q) /\ (\A f \in Q : \E i \in 1 .. n : fs[i] = f)
      /\ \A i, j \in 1 .. n : i < j => fs[i] > fs[j]
  BY Zenon DEF Lists, Descends
<1>2. \A f : Unlink(f).seg = f
  BY DEF Unlink
<1>3. \A i \in 1 .. n : pending'[i] = Unlink(pending'[i].seg) /\ pending'[i].seg = fs[i]
  BY <1>2, Zenon
<1>4. Q = {pending'[i].seg : i \in 1 .. n}
  BY <1>1, <1>3
<1>5. \A i, j \in 1 .. n : i < j => pending'[i].seg > pending'[j].seg
  BY <1>1, <1>3
<1>6. \A i, j \in 1 .. n : i < j => fs[i] # fs[j]
  BY <1>1
<1>7. \A i, j \in 1 .. n : i < j => pending'[i].seg # pending'[j].seg
  BY <1>3, <1>6
<1>8. DOMAIN disk' = Kept' \cup {pending'[i].seg : i \in 1 .. n}
  BY <1>4, Zenon
<1>9. \A i \in 1 .. n : pending'[i].seg \in Q
  BY <1>1, <1>3, Zenon
<1>10. \A i \in 1 .. n : pending'[i].seg \notin Kept' /\ (pending'[i].seg > k \/ k < meta'.first)
  BY <1>9, Zenon
<1>11. \A i \in 1 .. n : \A g \in Kept' : g < pending'[i].seg
  BY <1>9, Zenon
<1>12. n >= 0
  OBVIOUS
<1> QED
  BY <1>3, <1>5, <1>7, <1>8, <1>10, <1>11, <1>12, Zenon DEF PoppingTo, Popping

\* TruncateSuffix finds the storage at rest; the files it pops are those
\* behind k, and the one that holds k is cut.
LEMMA TruncateSuffixStep ==
  ASSUME IInv, NEW k \in Nat, TruncateSuffix(k), IndexSets
  PROVE  IInv' /\ PoppingBack(k)'
<1>1. TypeInv /\ DiskType /\ DiskInv /\ last_log_index \in Nat /\ closed \subseteq 1 .. MaxIndex /\ MaxIndex \in Nat
  BY SegmentAssumption DEF IInv, TypeInv
<1>2. PICK o \in Nat : o = open
  BY <1>1 DEF TypeInv
<1>3. PICK ko \in BOOLEAN : ko = (o # 0 /\ o <= k)
  BY Zenon
<1>4. PICK K : K = IF ko THEN closed ELSE {f \in closed : f <= k}
  BY Zenon
<1>5. PICK l : l = IF ko THEN o ELSE IF K # {} THEN Max(K) ELSE 0
  BY Zenon
<1>6. PICK dl \in BOOLEAN : dl = (l # 0 /\ (IF l = 0 THEN k + 1 ELSE first_log_index) > k)
  BY Zenon
<1>7. PICK ct \in BOOLEAN : ct = (l # 0 /\ ~dl /\ k < LastIndex(l))
  BY Zenon
<1>8. PICK fs : \E w \in InOrder(closed \ K) :
        /\ fs = (IF o # 0 /\ ~ko THEN <<o>> ELSE <<>>) \o Reverse(w) \o (IF dl THEN <<l>> ELSE <<>>)
        /\ pending' = SuffixCalls(k, fs, ct, l)
  BY <1>2, <1>3, <1>4, <1>5, <1>6, <1>7, ZenonT(30) DEF TruncateSuffix
<1>9. /\ mode = "up" /\ pending = <<>> /\ first_log_index - 1 <= k /\ k < last_log_index /\ mode' = "up"
      /\ req' = [op |-> "suffix", index |-> k] /\ last_log_index' = k
      /\ disk' = disk /\ meta' = meta /\ cache' = cache
  BY Zenon DEF TruncateSuffix, Idle
<1>10. /\ first_log_index' = IF l = 0 THEN k + 1 ELSE first_log_index
       /\ closed' = IF dl \/ ct THEN K \ {l} ELSE K
       /\ open' = IF ct \/ (ko /\ ~dl) THEN l ELSE 0
  BY <1>2, <1>3, <1>4, <1>5, <1>6, <1>7, ZenonT(30) DEF TruncateSuffix
<1>11. Quiet /\ NotTorn(DOMAIN disk)
  BY <1>9, QuietWhenIdle DEF IInv
<1>12. \A f \in closed : /\ f \in DOMAIN disk /\ ~disk[f].open /\ f \in Nat \ {0} /\ End(f) \in Nat /\ f < End(f)
                         /\ LastIndex(f) = End(f) - 1 /\ (o # 0 => f < o) /\ End(f) <= last_log_index + 1
  BY <1>1, <1>2, <1>11, IdleSegments, Zenon
<1>13. o # 0 => /\ o \in DOMAIN disk /\ disk[o].open /\ End(o) \in Nat /\ o <= End(o)
                /\ LastIndex(o) = End(o) - 1 /\ End(o) = last_log_index + 1 /\ o \notin closed
  BY <1>1, <1>2, <1>11, IdleSegments, Zenon
<1>14. PICK F \in Nat : F = meta.first
  BY <1>1 DEF DiskType
<1>15. /\ meta.state = "ok" /\ first_log_index = F /\ DOMAIN disk = closed \cup ({o} \ {0}) /\ F <= k + 1
       /\ F .. last_log_index \subseteq LogIndices
  BY <1>2, <1>9, <1>11, <1>14 DEF Quiet, Kept, Settled, Filled
<1>16. DiskType' /\ DiskInv' /\ LogIndices' = LogIndices /\ \A f : End(f)' = End(f)
  BY <1>1, <1>9, DiskSame
<1>17. /\ K \subseteq closed /\ (\A f \in closed \ K : f > k)
       /\ (ko => K = closed /\ l = o /\ o # 0 /\ o <= k) /\ (~ko /\ o # 0 => o > k)
       /\ (~ko => \A f \in K : f <= k)
  <2>1. CASE ko
    BY <1>3, <1>4, <1>5, <2>1, Zenon
  <2>2. CASE ~ko
    <3>1. K = {f \in closed : f <= k} /\ (o # 0 => ~(o <= k))
      BY <1>3, <1>4, <2>2, Zenon
    <3>2. \A f \in closed \ K : ~(f <= k) /\ f \in Nat
      BY <1>12, <3>1
    <3> QED
      BY <2>2, <3>1, <3>2
  <2> QED
    BY <2>1, <2>2
<1>18. /\ l = 0 => K = {} /\ ~ko
       /\ l # 0 => l \in Nat /\ l <= k /\ l \in DOMAIN disk /\ (ko \/ l \in K) /\ \A f \in K : f <= l
  <2>1. CASE ko
    <3>1. l = o /\ o # 0 /\ o <= k /\ o \in DOMAIN disk /\ \A f \in K : f \in Nat /\ f < o
      BY <1>12, <1>13, <1>17, <2>1, Zenon
    <3> QED
      BY <2>1, <3>1
  <2>2. CASE ~ko /\ K = {}
    <3>1. l = 0
      BY <1>5, <2>2, Zenon
    <3> QED
      BY <2>2, <3>1
  <2>3. CASE ~ko /\ K # {}
    <3>1. l = Max(K) /\ K \in SUBSET (1 .. MaxIndex)
      BY <1>1, <1>5, <1>17, <2>3
    <3>2. l \in K /\ \A f \in K : f <= l
      BY <2>3, <3>1, Zenon DEF IndexSets
    <3>3. l \in closed /\ l \in Nat \ {0} /\ l \in DOMAIN disk /\ l <= k
      BY <1>12, <1>17, <2>3, <3>2, Zenon
    <3> QED
      BY <2>3, <3>2, <3>3
  <2> QED
    BY <2>1, <2>2, <2>3, Zenon
<1>19. l = 0 => k + 1 = F
  <2> SUFFICES ASSUME l = 0, F <= k PROVE FALSE
    BY <1>15
  <2>1. k \in F .. last_log_index
    BY <1>1, <1>9
  <2>2. PICK f \in DOMAIN disk : f <= k
    <3>1. k \in LogIndices
      BY <1>15, <2>1, Zenon
    <3> QED
      BY <1>1, <3>1, InLog
  <2>3. K = {} /\ ~ko
    BY <1>18
  <2>4. CASE f \in closed
    BY <1>17, <1>12, <2>2, <2>3, <2>4
  <2>5. CASE f = o /\ o # 0
    BY <1>17, <2>2, <2>3, <2>5
  <2> QED
    BY <1>15, <2>4, <2>5, Zenon
<1>20. first_log_index' = F
  BY <1>10, <1>15, <1>19
<1>21. (dl => l # 0 /\ k < F) /\ (l # 0 /\ ~dl => F <= k)
  <2>1. dl = (l # 0 /\ F > k)
    BY <1>6, <1>15, Zenon
  <2>2. (F > k) <=> ~(F <= k)
    BY <1>14
  <2>3. (F > k) => k < F
    BY <1>14
  <2> QED
    BY <2>1, <2>2, <2>3, Zenon
<1>22. l # 0 => End(l) \in Nat /\ LastIndex(l) = End(l) - 1 /\ (ko => End(l) = last_log_index + 1)
  BY <1>12, <1>13, <1>17, <1>18, Zenon
<1>23. (ct => l # 0 /\ ~dl /\ k + 1 < End(l)) /\ (l # 0 /\ ~dl /\ ~ct => ~ko /\ End(l) <= k + 1)
  <2>1. (ct => l # 0 /\ ~dl /\ k < LastIndex(l)) /\ (l # 0 /\ ~dl /\ ~ct => ~(k < LastIndex(l)))
    BY <1>7, Zenon
  <2> QED
    BY <1>1, <1>9, <1>22, <2>1
<1>24. \A f \in K : f # l => f < l /\ End(f) <= l /\ End(f) <= k
  <2> SUFFICES ASSUME NEW f \in K, f # l PROVE f < l /\ End(f) <= l /\ End(f) <= k
    OBVIOUS
  <2>1. f \in DOMAIN disk /\ f \in Nat /\ End(f) \in Nat
    BY <1>12, <1>17
  <2>2. l # 0 /\ l \in Nat /\ l <= k /\ l \in DOMAIN disk /\ f <= l
    BY <1>18
  <2>3. f < l
    BY <2>1, <2>2
  <2>4. End(f) <= l
    BY <1>1, <2>1, <2>2, <2>3 DEF DiskInv, Disjoint
  <2> QED
    BY <2>1, <2>2, <2>3, <2>4
<1>25. PICK Q : Q = (closed \ K) \cup (IF o # 0 /\ ~ko THEN {o} ELSE {}) \cup (IF dl THEN {l} ELSE {})
  BY Zenon
<1>26. Lists(fs, Q) /\ Descends(fs)
  <2>1. PICK w \in InOrder(closed \ K) :
          fs = (IF o # 0 /\ ~ko THEN <<o>> ELSE <<>>) \o Reverse(w) \o (IF dl THEN <<l>> ELSE <<>>)
    BY <1>8, Zenon
  <2>2. PICK C : C = closed \ K
    BY Zenon
  <2>3. C \subseteq Nat /\ Cardinality(C) \in Nat /\ w \in InOrder(C) /\ \A f \in C : f > k /\ (o # 0 => f < o)
    <3>1. C \in SUBSET (1 .. MaxIndex)
      BY <1>1, <2>2, Zenon
    <3> QED
      BY <1>12, <1>17, <2>2, <3>1, Zenon DEF IndexSets
  <2>4. PICK v : v = Reverse(w)
    BY Zenon
  <2>5. Lists(v, C) /\ Descends(v)
    BY <2>3, <2>4, WalkLists, ReverseLists, Zenon
  <2>6. PICK x : x = (IF o # 0 /\ ~ko THEN <<o>> ELSE <<>>) \o v
    BY Zenon
  <2>7. PICK X : X = C \cup (IF o # 0 /\ ~ko THEN {o} ELSE {})
    BY Zenon
  <2>8. Lists(x, X) /\ Descends(x)
    <3>1. CASE o # 0 /\ ~ko
      <4>1. x = <<o>> \o v /\ X = C \cup {o} /\ \A f \in C : f < o
        BY <2>3, <2>6, <2>7, <3>1, Zenon
      <4> QED
        BY <2>5, <4>1, ListsFirst, Zenon
    <3>2. CASE ~(o # 0 /\ ~ko)
      <4>1. x = <<>> \o v /\ X = C
        BY <2>6, <2>7, <3>2, Zenon
      <4>2. v \in Seq(Nat)
        BY <2>5 DEF Lists
      <4>3. x = v
        BY <4>1, <4>2
      <4> QED
        BY <2>5, <4>1, <4>3, Zenon
    <3> QED
      BY <3>1, <3>2, Zenon
  <2>9. \A f \in X : f > k
    BY <1>17, <2>3, <2>7
  <2>10. fs = x \o (IF dl THEN <<l>> ELSE <<>>) /\ Q = X \cup (IF dl THEN {l} ELSE {})
    BY <1>25, <2>1, <2>2, <2>4, <2>6, <2>7, Zenon
  <2>11. CASE dl
    <3>1. fs = x \o <<l>> /\ Q = X \cup {l} /\ l \in Nat /\ l <= k
      BY <1>18, <1>21, <2>10, <2>11, Zenon
    <3>2. \A f \in X : f \in Nat
      BY <2>3, <2>7, Zenon
    <3>3. \A f \in X : f > l
      BY <2>9, <3>1, <3>2
    <3> QED
      BY <2>8, <3>1, <3>3, ListsThen, Zenon
  <2>12. CASE ~dl
    <3>1. fs = x \o <<>> /\ Q = X
      BY <2>10, <2>12, Zenon
    <3>2. x \in Seq(Nat)
      BY <2>8 DEF Lists
    <3>3. fs = x
      BY <3>1, <3>2
    <3> QED
      BY <2>8, <3>1, <3>3, Zenon
  <2> QED
    BY <2>11, <2>12
<1>27. /\ dl => closed' = K \ {l} /\ open' = 0 /\ Kept' = K \ {l}
       /\ ct => closed' = K \ {l} /\ open' = l /\ Kept' = K \cup {l} /\ ~dl
       /\ ~dl /\ ~ct => closed' = K /\ open' = 0 /\ Kept' = K /\ ~ko
  <2>1. CASE dl
    <3>1. ~ct /\ closed' = K \ {l} /\ open' = 0
      BY <1>10, <1>23, <2>1, Zenon
    <3> QED
      BY <2>1, <3>1 DEF Kept
  <2>2. CASE ct
    <3>1. ~dl /\ closed' = K \ {l} /\ open' = l /\ l # 0
      BY <1>10, <1>23, <2>2, Zenon
    <3> QED
      BY <2>2, <3>1 DEF Kept
  <2>3. CASE ~dl /\ ~ct
    <3>1. ~ko
      BY <1>18, <1>23, <2>3, Zenon
    <3>2. closed' = K /\ open' = 0
      BY <1>10, <2>3, <3>1, Zenon
    <3> QED
      BY <2>3, <3>1, <3>2 DEF Kept
  <2> QED
    BY <2>1, <2>2, <2>3, Zenon
<1>28. /\ \A f \in Q : f \in DOMAIN disk /\ f \notin Kept' /\ (f > k \/ k < F) /\ f \in Nat
       /\ \A f \in Q : \A g \in Kept' : g < f
       /\ DOMAIN disk = Kept' \cup Q
  <2>1. ASSUME NEW f \in closed \ K PROVE f > k /\ f \in Nat /\ f \in DOMAIN disk /\ f \notin K /\ f # l
    <3>1. f > k /\ f \in Nat /\ f \in DOMAIN disk /\ f \notin K /\ f # 0
      BY <1>12, <1>17
    <3> QED
      BY <1>18, <3>1
  <2>2. ASSUME o # 0, ~ko PROVE o > k /\ o \in DOMAIN disk /\ o \notin K /\ o # l
    <3>1. o > k /\ o \in DOMAIN disk /\ o \notin K
      BY <1>13, <1>17, <2>2
    <3> QED
      BY <1>18, <2>2, <3>1
  <2>3. ASSUME dl PROVE l \in DOMAIN disk /\ k < F /\ l \notin Kept' /\ l \in Nat /\ l <= k
    BY <1>18, <1>21, <1>27, <2>3
  <2>4. \A g \in Kept' : g \in Nat /\ g <= k /\ g \in DOMAIN disk /\ (g \in K \/ g = l) /\ (dl => g < l)
    <3>1. \A g \in K : g \in Nat /\ g <= k /\ g \in DOMAIN disk
      <4>1. CASE l = 0
        BY <1>18, <4>1
      <4>2. CASE l # 0
        BY <1>12, <1>17, <1>18, <4>2
      <4> QED
        BY <4>1, <4>2
    <3>2. CASE dl
      BY <1>24, <1>27, <3>1, <3>2
    <3>3. CASE ct
      <4>1. l # 0 /\ l \in Nat /\ l <= k /\ l \in DOMAIN disk /\ Kept' = K \cup {l} /\ ~dl
        BY <1>18, <1>23, <1>27, <3>3
      <4> QED
        BY <3>1, <4>1
    <3>4. CASE ~dl /\ ~ct
      BY <1>27, <3>1, <3>4
    <3> QED
      BY <3>2, <3>3, <3>4
  <2>5. ASSUME NEW f \in Q
        PROVE  \/ f \in closed \ K
               \/ f = o /\ o # 0 /\ ~ko
               \/ f = l /\ dl
    BY <1>25, Zenon
  <2>6. ASSUME NEW f \in Q
        PROVE  f \in DOMAIN disk /\ f \notin Kept' /\ (f > k \/ k < F) /\ f \in Nat /\ \A g \in Kept' : g < f
    <3>1. CASE f \in closed \ K
      <4>1. f > k /\ f \in Nat /\ f \in DOMAIN disk /\ f \notin K /\ f # l
        BY <2>1, <3>1, Zenon
      <4> QED
        BY <2>4, <4>1
    <3>2. CASE f = o /\ o # 0 /\ ~ko
      <4>1. o > k /\ o \in DOMAIN disk /\ o \notin K /\ o # l
        BY <2>2, <3>2, Zenon
      <4> QED
        BY <2>4, <3>2, <4>1
    <3>3. CASE f = l /\ dl
      BY <2>3, <2>4, <3>3
    <3> QED
      BY <2>5, <3>1, <3>2, <3>3, Zenon
  <2>7. ASSUME NEW f \in DOMAIN disk PROVE f \in Kept' \cup Q
    <3>1. CASE f \in closed
      <4>1. CASE f \notin K
        BY <1>25, <3>1, <4>1, Zenon
      <4>2. CASE f \in K
        <5>1. f \in Kept' \/ (dl /\ f = l)
          BY <1>27, <4>2, Zenon
        <5> QED
          BY <1>25, <5>1, Zenon
      <4> QED
        BY <4>1, <4>2
    <3>2. CASE f = o /\ o # 0
      <4>1. CASE ko
        <5>1. l = o /\ (dl \/ ct)
          BY <1>17, <1>27, <4>1, Zenon
        <5> QED
          BY <1>25, <1>27, <3>2, <5>1
      <4>2. CASE ~ko
        BY <1>25, <3>2, <4>2, Zenon
      <4> QED
        BY <4>1, <4>2
    <3> QED
      BY <1>15, <3>1, <3>2, Zenon
  <2>8. DOMAIN disk = Kept' \cup Q
    BY <2>4, <2>6, <2>7, Zenon
  <2> QED
    BY <2>6, <2>8, Zenon
<1>29. PICK n \in Nat : n = Len(fs) /\ fs \in Seq(Nat)
  BY <1>26 DEF Lists
<1>30. PICK p : p = pending'
  BY Zenon
<1>31. /\ p \in Seq(Call) /\ p[Len(p)] = TrimBack(k) /\ \A i \in 1 .. n : p[i] = Unlink(fs[i])
       /\ ~ct => Len(p) = n + 1
       /\ ct => p[Len(p) - 1] = Ftruncate(l, k + 1 - l)
       /\ ct /\ l = o => Len(p) = n + 2
       /\ ct /\ l # o => Len(p) = n + 3 /\ p[Len(p) - 2] = Rename(l, TRUE)
  <2>1. l \in Nat /\ l <= k + 1 /\ p = SuffixCalls(k, fs, ct, l)
    BY <1>8, <1>18, <1>30
  <2>2. SuffixShape(p, k, fs, ct, l)
    BY <1>29, <2>1, SuffixCallsOf, Zenon
  <2> QED
    BY <1>2, <1>29, <2>2, Zenon DEF SuffixShape
<1>32. PoppingTo(k, n)'
  <2>1. n = Len(fs) /\ \A i \in 1 .. n : pending'[i] = Unlink(fs[i])
    BY <1>29, <1>30, <1>31, Zenon
  <2>2. /\ DOMAIN disk' = Kept' \cup Q /\ (\A f \in Q : f \notin Kept' /\ (f > k \/ k < meta'.first))
        /\ \A f \in Q : \A g \in Kept' : g < f
    BY <1>9, <1>14, <1>28, Zenon
  <2> QED
    BY <1>26, <2>1, <2>2, PoppingToList, Zenon
<1>33. Settled(k)' /\ Shut(closed)' /\ NotTorn(DOMAIN disk)'
  <2>1. closed' \subseteq K /\ \A f \in closed' : f = l => ~dl /\ ~ct
    BY <1>27, Zenon
  <2>2. \A f \in closed' : End(f) <= k + 1
    <3>1. ASSUME NEW f \in closed', f # l PROVE End(f) <= k + 1
      BY <1>12, <1>17, <1>24, <2>1, <3>1
    <3>2. ASSUME l \in closed' PROVE End(l) <= k + 1
      <4>1. l \in K /\ l # 0
        BY <1>12, <1>17, <2>1, <3>2
      <4> QED
        BY <1>23, <2>1, <3>2, <4>1, ZenonT(30)
    <3> QED
      BY <3>1, <3>2, Zenon
  <2>3. \A f \in closed' : open' # 0 => f < open'
    BY <1>24, <1>27, <2>1
  <2>4. F <= k + 1 /\ F .. k \subseteq LogIndices
    BY <1>1, <1>9, <1>15
  <2>5. Settled(k)'
    BY <1>9, <1>14, <1>16, <2>2, <2>3, <2>4 DEF Settled, Filled
  <2>6. Shut(closed)'
    BY <1>9, <1>12, <1>17, <2>1 DEF Shut
  <2> QED
    BY <1>9, <1>11, <2>5, <2>6 DEF NotTorn
<1>34. /\ Len(pending') >= 1
       /\ \/ PoppingTo(k, Len(pending) - 1)' /\ OpenSettled(k)'
          \/ PoppingTo(k, Len(pending) - 2)' /\ Cutting(k)' /\ disk'[open'].open
          \/ /\ PoppingTo(k, Len(pending) - 3)' /\ Cutting(k)' /\ ~disk'[open'].open
             /\ pending'[Len(pending') - 2] = Rename(open', TRUE)
  <2>1. CASE ~ct
    <3>1. Len(pending') - 1 = n /\ Len(pending') >= 1 /\ open' = 0
      BY <1>27, <1>30, <1>31, <2>1
    <3>2. PoppingTo(k, Len(pending) - 1)'
      BY <1>32, <3>1, Zenon DEF PoppingTo, Popping
    <3> QED
      BY <3>1, <3>2, ZenonT(30) DEF OpenSettled
  <2>2. ASSUME ct PROVE open' = l /\ l # 0 /\ Cutting(k)'
    <3>1. open' = l /\ l # 0 /\ l <= k /\ k + 1 < End(l)' /\ pending'[Len(pending') - 1] = Ftruncate(l, k + 1 - l)
      BY <1>16, <1>18, <1>23, <1>27, <1>30, <1>31, <2>2
    <3>2. pending'[Len(pending') - 1] = Ftruncate(open', k + 1 - open')
      BY <3>1, Zenon
    <3>3. k + 1 < open' + Len(disk'[open'].ents)
      BY <3>1, Zenon DEF End
    <3> QED
      BY <3>1, <3>2, <3>3, ZenonT(30) DEF Cutting, End, Ftruncate
  <2>3. CASE ct /\ l = o
    <3>1. Len(pending') - 2 = n /\ Len(pending') >= 1
      BY <1>30, <1>31, <2>3
    <3>2. PoppingTo(k, Len(pending) - 2)'
      BY <1>32, <3>1, Zenon DEF PoppingTo, Popping
    <3>3. disk'[open'].open
      BY <1>9, <1>13, <2>2, <2>3, Zenon
    <3> QED
      BY <2>2, <2>3, <3>1, <3>2, <3>3, Zenon
  <2>4. CASE ct /\ l # o
    <3>1. pending'[Len(pending') - 2] = Rename(l, TRUE) /\ Len(pending') = n + 3
      BY <1>30, <1>31, <2>4, Zenon
    <3>2. Len(pending') - 3 = n /\ Len(pending') >= 1
      BY <3>1
    <3>3. PoppingTo(k, Len(pending) - 3)'
      BY <1>32, <3>2, Zenon DEF PoppingTo, Popping
    <3>4. ~disk'[open'].open
      BY <1>9, <1>12, <1>17, <1>18, <2>2, <2>4, Zenon
    <3> QED
      BY <2>2, <2>4, <3>1, <3>2, <3>3, <3>4, Zenon
  <2> QED
    BY <2>1, <2>3, <2>4, Zenon
<1>35. PoppingBack(k)'
  <2>1. pending'[Len(pending')] = TrimBack(k)
    BY <1>30, <1>31, Zenon
  <2> QED
    BY <1>9, <1>14, <1>15, <1>20, <1>33, <1>34, <2>1, Zenon DEF PoppingBack, TrimBack, Rename
<1>36. TypeInv'
  <2>1. closed' \subseteq 1 .. MaxIndex
    BY <1>1, <1>17, <1>27, Zenon
  <2>2. open' \in 0 .. MaxIndex
    <3>1. open' = 0 \/ (open' = l /\ l # 0)
      BY <1>23, <1>27, Zenon
    <3>2. l # 0 => l \in 1 .. MaxIndex
      BY <1>1, <1>18 DEF DiskType
    <3> QED
      BY <1>1, <3>1, <3>2
  <2>3. first_log_index' \in Nat /\ last_log_index' \in Nat
    BY <1>9, <1>20
  <2> QED
    BY <1>1, <1>9, <1>16, <1>30, <1>31, <2>1, <2>2, <2>3, Zenon DEF TypeInv
<1> QED
  BY <1>9, <1>16, <1>35, <1>36 DEF IInv, UpInv
=============================================================================

----------------------------- MODULE SegmentLog -----------------------------
(***************************************************************************)
(* SegmentLogStorage and Segment of mraft/segment_log_storage.{h,cpp}: the *)
(* raft log in a directory of segment files, with crashes.                 *)
(*                                                                         *)
(* One thread, the event base of a Raft node, calls the storage, so an     *)
(* operation updates the memory at once and leaves the list of its system  *)
(* calls in "pending"; they take place one by one, and the process may die *)
(* between any two of them, or in the middle of a write.  What the system  *)
(* has been told to write stays written: the crash is one of the process.  *)
(*                                                                         *)
(* A segment is known by its first index.  Unlink renames to *.tmp, which  *)
(* ListSegments removes unread, and then unlinks: one call here.  An entry *)
(* is its term, and takes one unit of a segment's size.                    *)
(***************************************************************************)
EXTENDS Integers, Sequences, FiniteSets, FiniteSetsExt, Functions

CONSTANTS
  Term,
  SegmentSize,  \* FLAGS_raft_max_segment_size, in entries
  MaxIndex,     \* bound: no entry beyond this index
  MaxCrash,     \* bound: how often the process dies
  Faults,       \* which of "torn_meta", "empty_restart" may happen
  NoRequest

\* The calls on the storage that change it.
Request == [op : {"append"}, index : Nat, term : Term] \cup [op : {"prefix", "suffix", "reset"}, index : Nat]

ASSUME SegmentAssumption ==
  /\ SegmentSize \in Nat /\ MaxIndex \in Nat /\ MaxCrash \in Nat
  /\ Faults \subseteq {"torn_meta", "empty_restart"}
  /\ NoRequest \notin Request

VARIABLES
  disk,             \* segment files, by first index
  meta,             \* log_meta
  mode,             \* "down", "up", or "failed": Init returned an error
  closed,           \* segments_: first indices
  open,             \* open_segment_: first index, 0 for nullptr
  first_log_index,
  last_log_index,
  cache,            \* latest_entries_cache_
  latest,           \* latest_entry_, index 0 for nullptr
  req,              \* the operation being carried out
  pending,          \* its system calls that have not taken place
  crashes

memory == <<closed, open, first_log_index, last_log_index, cache, latest>>
vars == <<disk, meta, mode, memory, req, pending, crashes>>

Nil == [index |-> 0, term |-> 0]
Idle == mode = "up" /\ req = NoRequest /\ pending = <<>>

\* The ways to walk through a set of segments, each once.
Walks(S) == {w \in [1 .. Cardinality(S) -> S] : Range(w) = S}

\* Mistake: the map is walked the wrong way.
InOrder_Backwards(S) == {w \in Walks(S) : \A i, j \in DOMAIN w : i < j => w[i] > w[j]}

\* The members of a SegmentMap from begin() to end().
InOrder(S) == {w \in Walks(S) : \A i, j \in DOMAIN w : i < j => w[i] < w[j]}

Reverse(w) == [i \in DOMAIN w |-> w[Len(w) + 1 - i]]

\* Segment::LastIndex of a loaded segment.
LastIndex(f) == IF disk[f].open THEN f + Len(disk[f].ents) - 1 ELSE disk[f].last

Init ==
  /\ disk = [f \in {} |-> 0]
  /\ meta = [state |-> "none", first |-> 1]
  /\ mode = "down"
  /\ closed = {} /\ open = 0
  /\ first_log_index = 0 /\ last_log_index = 1
  /\ cache = <<>> /\ latest = Nil
  /\ req = NoRequest /\ pending = <<>> /\ crashes = 0

-----------------------------------------------------------------------------
\* The system calls.

Create(f) == [call |-> "create", seg |-> f]
\* Mistake: a segment that is to be cut keeps its final name.
Rename_NoReopen(f, o) == [call |-> "rename", seg |-> f, open |-> FALSE]
Rename(f, o) == [call |-> "rename", seg |-> f, open |-> o]
Unlink(f) == [call |-> "unlink", seg |-> f]
Unlinks(fs) == [i \in DOMAIN fs |-> Unlink(fs[i])]
Write(f, t) == [call |-> "write", seg |-> f, term |-> t]
Ftruncate(f, n) == [call |-> "ftruncate", seg |-> f, len |-> n]

\* pb_write_file: opening log_meta truncates it, then it is written.
SaveMeta(k) == <<[call |-> "truncate_meta"], [call |-> "write_meta", first |-> k]>>
\* Not a system call: the loop that trims latest_entries_cache_.
TrimFront(k) == [call |-> "trim_front", index |-> k]
TrimBack(k) == [call |-> "trim_back", index |-> k]

DiskCall(c) ==
  /\ disk' = CASE c.call = "create" ->
                    [f \in DOMAIN disk \cup {c.seg} |->
                       IF f = c.seg THEN [open |-> TRUE, last |-> 0, ents |-> <<>>, torn |-> FALSE] ELSE disk[f]]
               [] c.call = "rename" ->
                    [disk EXCEPT ![c.seg].open = c.open,
                                 ![c.seg].last = IF c.open THEN 0 ELSE LastIndex(c.seg)]
               [] c.call = "unlink" -> [f \in DOMAIN disk \ {c.seg} |-> disk[f]]
               [] c.call = "write" -> [disk EXCEPT ![c.seg].ents = Append(@, c.term)]
               [] c.call = "ftruncate" ->
                    [disk EXCEPT ![c.seg].ents = SubSeq(@, 1, c.len), ![c.seg].torn = FALSE]
               [] OTHER -> disk
  /\ meta' = CASE c.call = "truncate_meta" -> [meta EXCEPT !.state = "torn"]
               [] c.call = "write_meta" -> [state |-> "ok", first |-> c.first]
               [] OTHER -> meta

\* The loops run until the cache is empty; one that meets an entry it should
\* keep never ends.
TrimEnds(c) ==
  /\ c.call = "trim_front" => \A i \in DOMAIN cache : cache[i].index < c.index
  /\ c.call = "trim_back" => \A i \in DOMAIN cache : cache[i].index > c.index

\* Mistake: the cache is not trimmed.
SystemCall_KeepsCache ==
  LET c == Head(pending) IN
  /\ mode = "up" /\ pending # <<>>
  /\ DiskCall(c)
  /\ pending' = Tail(pending)
  /\ UNCHANGED <<mode, memory, req, crashes>>

SystemCall ==
  LET c == Head(pending) IN
  /\ mode = "up" /\ pending # <<>>
  /\ TrimEnds(c)
  /\ DiskCall(c)
  /\ cache' = IF c.call \in {"trim_front", "trim_back"} THEN <<>> ELSE cache
  /\ pending' = Tail(pending)
  /\ UNCHANGED <<mode, closed, open, first_log_index, last_log_index, latest, req, crashes>>

Return ==
  /\ mode = "up" /\ req # NoRequest /\ pending = <<>>
  /\ req' = NoRequest
  /\ UNCHANGED <<disk, meta, mode, memory, pending, crashes>>

-----------------------------------------------------------------------------
\* Mistake: the entry is written before the full segment is closed.
AppendCalls_WriteFirst(seg, full, t) ==
  (IF seg # open THEN <<Create(seg)>> ELSE <<>>)
  \o <<Write(seg, t)>>
  \o (IF full THEN <<Rename(open, FALSE)>> ELSE <<>>)

\* GetOpenSegment replaces a full segment: the new file is made first, then the
\* old one gets its final name.
AppendCalls(seg, full, t) ==
  (IF seg # open THEN <<Create(seg)>> ELSE <<>>)
  \o (IF full THEN <<Rename(open, FALSE)>> ELSE <<>>)
  \o <<Write(seg, t)>>

\* AppendEntry.  Segment::Append refuses an entry that does not follow the
\* segment's last one.
AppendEntry(t) ==
  LET n == last_log_index + 1
      full == open # 0 /\ Len(disk[open].ents) > SegmentSize
      seg == IF open = 0 \/ full THEN n ELSE open
  IN
  /\ Idle /\ n <= MaxIndex
  /\ seg = open => n = LastIndex(open) + 1
  /\ req' = [op |-> "append", index |-> n, term |-> t]
  /\ pending' = AppendCalls(seg, full, t)
  /\ closed' = IF full THEN closed \cup {open} ELSE closed
  /\ open' = seg
  /\ last_log_index' = n
  /\ cache' = Append(cache, [index |-> n, term |-> t])
  /\ latest' = [index |-> n, term |-> t]
  /\ UNCHANGED <<disk, meta, mode, first_log_index, crashes>>

\* Mistake: the files go before the meta says so.
PrefixCalls_MetaLast(k, popped) ==
  Unlinks(popped) \o SaveMeta(k) \o <<TrimFront(k)>>

\* The meta first, then the files from the front.
PrefixCalls(k, popped) ==
  SaveMeta(k) \o Unlinks(popped) \o <<TrimFront(k)>>

\* TruncatePrefix(k) with PopSegments.
TruncatePrefix(k) ==
  LET popped == {f \in closed : \A g \in closed : g <= f => LastIndex(g) < k}
      pop_open == popped = closed /\ open # 0 /\ LastIndex(open) < k
  IN
  /\ Idle /\ first_log_index < k /\ k <= last_log_index + 1
  /\ req' = [op |-> "prefix", index |-> k]
  /\ first_log_index' = k
  /\ closed' = closed \ popped
  /\ open' = IF pop_open THEN 0 ELSE open
  /\ last_log_index' = IF popped = closed /\ open' = 0 THEN k - 1 ELSE last_log_index
  /\ \E walk \in InOrder(popped) :
       pending' = PrefixCalls(k, walk \o (IF pop_open THEN <<open>> ELSE <<>>))
  /\ UNCHANGED <<disk, meta, mode, cache, latest, crashes>>

\* Files go from the back, then the last one left is cut, after it got the name
\* of an open one.
SuffixCalls(k, popped, cut, last) ==
  Unlinks(popped)
  \o (IF cut /\ last # open THEN <<Rename(last, TRUE)>> ELSE <<>>)
  \o (IF cut THEN <<Ftruncate(last, k + 1 - last)>> ELSE <<>>)
  \o <<TrimBack(k)>>

\* TruncateSuffix(k) with PopSegmentsFromBack.
TruncateSuffix(k) ==
  LET keep_open == open # 0 /\ open <= k
      kept == IF keep_open THEN closed ELSE {f \in closed : f <= k}
      last == IF keep_open THEN open ELSE IF kept # {} THEN Max(kept) ELSE 0
      first == IF last = 0 THEN k + 1 ELSE first_log_index
      drop_last == last # 0 /\ first > k
      cut == last # 0 /\ ~drop_last /\ k < LastIndex(last)
      popped(walk) == (IF open # 0 /\ ~keep_open THEN <<open>> ELSE <<>>)
                      \o Reverse(walk)
                      \o (IF drop_last THEN <<last>> ELSE <<>>)
  IN
  /\ Idle /\ first_log_index - 1 <= k /\ k < last_log_index
  /\ req' = [op |-> "suffix", index |-> k]
  /\ last_log_index' = k
  /\ first_log_index' = first
  /\ closed' = IF drop_last \/ cut THEN kept \ {last} ELSE kept
  /\ open' = IF cut \/ (keep_open /\ ~drop_last) THEN last ELSE 0
  /\ \E walk \in InOrder(closed \ kept) : pending' = SuffixCalls(k, popped(walk), cut, last)
  /\ UNCHANGED <<disk, meta, mode, cache, latest, crashes>>

\* ClearCacheEntry, called when the oldest cached entry has been applied.
ClearCacheEntry ==
  /\ Idle /\ cache # <<>>
  /\ cache' = Tail(cache)
  /\ UNCHANGED <<disk, meta, mode, closed, open, first_log_index, last_log_index, latest, req, pending, crashes>>

\* Reset has an empty body.
Reset(k) ==
  /\ Idle
  /\ req' = [op |-> "reset", index |-> k]
  /\ UNCHANGED <<disk, meta, mode, memory, pending, crashes>>

-----------------------------------------------------------------------------
\* Init: LoadMeta, ListSegments, LoadSegments.

OpenFiles == {f \in DOMAIN disk : disk[f].open}
ClosedFiles == DOMAIN disk \ OpenFiles

\* LoadMeta cannot read the file, or ListSegments meets a second open segment.
InitFails ==
  /\ mode = "down"
  /\ meta.state = "torn" \/ (meta.state = "ok" /\ Cardinality(OpenFiles) > 1)
  /\ mode' = "failed"
  /\ UNCHANGED <<disk, meta, memory, req, pending, crashes>>

\* There is no log_meta: whatever else is there is removed.
InitEmpty ==
  /\ mode = "down" /\ meta.state = "none"
  /\ mode' = "up"
  /\ first_log_index' = 1 /\ last_log_index' = 0
  /\ \E walk \in Walks(DOMAIN disk) : pending' = Unlinks(walk) \o SaveMeta(1)
  /\ UNCHANGED <<disk, meta, closed, open, cache, latest, req, crashes>>

LoadSegments ==
  LET f == IF OpenFiles = {} THEN 0 ELSE Max(OpenFiles)
      discard == f # 0 /\ meta.first > LastIndex(f)
      by_closed == IF ClosedFiles = {} THEN last_log_index ELSE LastIndex(Max(ClosedFiles))
      last == IF f # 0 /\ ~discard THEN LastIndex(f) ELSE by_closed
  IN
  /\ mode = "down" /\ meta.state = "ok" /\ Cardinality(OpenFiles) <= 1
  /\ mode' = "up"
  /\ first_log_index' = meta.first
  /\ last_log_index' = IF last = 0 THEN meta.first - 1 ELSE last
  /\ closed' = ClosedFiles
  /\ open' = IF discard THEN 0 ELSE f
  /\ pending' = (IF f # 0 /\ disk[f].torn THEN <<Ftruncate(f, Len(disk[f].ents))>> ELSE <<>>)
                \o (IF discard THEN <<Unlink(f)>> ELSE <<>>)
  /\ UNCHANGED <<disk, meta, cache, latest, req, crashes>>

\* The entries that the files hold, by index.
Indices(f) == f .. f + Len(disk[f].ents) - 1
LogIndices == {i \in UNION {Indices(f) : f \in DOMAIN disk} : i >= meta.first}
EntryAt(i) == LET f == CHOOSE f \in DOMAIN disk : i \in Indices(f) IN disk[f].ents[i + 1 - f]
Log == [i \in LogIndices |-> EntryAt(i)]

\* The process dies.  If it was writing an entry, part of it may be there.
Crash ==
  /\ mode = "up" /\ crashes < MaxCrash
  /\ "torn_meta" \in Faults \/ meta.state # "torn"
  /\ "empty_restart" \in Faults \/ LogIndices # {}
  /\ mode' = "down"
  /\ disk' \in {disk} \cup (IF pending # <<>> /\ Head(pending).call = "write"
                            THEN {[disk EXCEPT ![Head(pending).seg].torn = TRUE]} ELSE {})
  /\ closed' = {} /\ open' = 0
  /\ first_log_index' = 0 /\ last_log_index' = 1
  /\ cache' = <<>> /\ latest' = Nil
  /\ req' = NoRequest /\ pending' = <<>>
  /\ crashes' = crashes + 1
  /\ UNCHANGED meta

Next ==
  \/ SystemCall \/ Return
  \/ \E t \in Term : AppendEntry(t)
  \/ \E k \in 0..MaxIndex + 1 : TruncatePrefix(k) \/ TruncateSuffix(k)
  \/ \E k \in 1..MaxIndex + 1 : Reset(k)
  \/ ClearCacheEntry
  \/ InitFails \/ InitEmpty \/ LoadSegments
  \/ Crash

Spec == Init /\ [][Next]_vars

\* The thread runs on, and a dead process is started again.
FairSpec ==
  /\ Spec
  /\ WF_vars(SystemCall \/ Return)
  /\ WF_vars(InitFails \/ InitEmpty \/ LoadSegments)

-----------------------------------------------------------------------------
\* GetEntry: the latest entry, the cache, then GetSegment and Segment::Get.
GetEntry(i) ==
  LET f == IF open # 0 /\ i >= open THEN open ELSE Max({g \in closed : g <= i} \cup {0}) IN
  IF latest.index = i /\ i # 0 THEN latest.term
  ELSE IF cache # <<>> /\ i \in cache[1].index .. cache[Len(cache)].index
       THEN cache[i + 1 - cache[1].index].term
  ELSE IF i \notin first_log_index..last_log_index \/ f = 0 \/ i > LastIndex(f) THEN 0
  ELSE disk[f].ents[i + 1 - f]

\* A file that carries a last index in its name holds all the entries up to
\* it, whenever the process may die: Segment::Load takes the last index of a
\* closed segment from the name, and GetMeta indexes the loaded entries by it.
ClosedComplete == \A f \in ClosedFiles : disk[f].last = f + Len(disk[f].ents) - 1 /\ ~disk[f].torn

\* No index is in two files, and from the first index in log_meta on there
\* are no holes, also when a truncation was cut short.
NoHoles ==
  /\ \A f, g \in DOMAIN disk : f # g => Indices(f) \cap Indices(g) = {}
  /\ \A i \in LogIndices : meta.first..i \subseteq LogIndices

\* Every index from first_log_index to last_log_index reads as the entry on
\* disk, whether GetEntry answers from latest_entry_, from the cache or from
\* the segment it picks.
ReadsBack == Idle /\ LogIndices # {} => \A i \in first_log_index..last_log_index : i \in LogIndices /\ GetEntry(i) = Log[i]

\* Init fails for two reasons only: a process died while SaveMeta rewrote
\* log_meta, or after GetOpenSegment made the new file and before the full one
\* got its final name.
FailsOnlyMidUpdate ==
  mode = "failed" /\ meta.state # "torn" =>
    \E f, g \in OpenFiles : OpenFiles = {f, g} /\ g = f + Len(disk[f].ents) /\ disk[g].ents = <<>> /\ Len(disk[f].ents) > SegmentSize

\* Reset does nothing, so DurableLog does not know it.
Served == IF req # NoRequest /\ req.op = "reset" THEN NoRequest ELSE req

\* The storage implements DurableLog: what was appended and acknowledged is
\* there, under its index, until it is truncated, over every crash.
Durable == INSTANCE DurableLog WITH log <- Log, first <- meta.first, up <- mode = "up", req <- Served
RefinesDurableLog == Durable!Spec

-----------------------------------------------------------------------------
\* What comments of the source say, and the code does not do.

\* "(last_index_kept, last_log_index] will be discarded": every operation
\* comes to its end, unless the process dies.
OperationsReturn == req # NoRequest ~> req = NoRequest

\* "The new process would see the latest `first_log_index'".
FirstIndexReadable == mode = "failed" => meta.state = "ok"

\* "last log index in log".
LastIndexIsLast == Idle => last_log_index = Max(LogIndices \cup {meta.first - 1})

\* "will be discarded": what TruncateSuffix removed is not to be read.
DiscardedIsGone == Idle => \A i \in last_log_index + 1 .. MaxIndex : GetEntry(i) = 0
=============================================================================

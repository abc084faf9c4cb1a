----------------------------- MODULE MraftNode ------------------------------
(***************************************************************************)
(* One mraft node (mraft.cpp): the Raft object around the raft library, its *)
(* meta file and its log store, driven by a client, by the other members of *)
(* its cluster (whose messages are lost, late and in any order), by crashes *)
(* and restarts.  Everything runs on the node's event loop except the       *)
(* client's call of RecvEntry, Shutdown and the thread that saves a         *)
(* snapshot, which are steps of their own.                                  *)
(*                                                                          *)
(* A handler is one action.  Inside it the calls into the library and the   *)
(* callbacks out of it are operators on a record `s` of the variables they  *)
(* change; RaftServer holds the library's side.                             *)
(***************************************************************************)
EXTENDS RaftServer

CONSTANTS Client,      \* clients; a client's entry carries its name
          MaxId,       \* bound on node ids
          MaxTerm,     \* bound on terms
          MaxLog,      \* bound on the length of the log
          SnapAfter,   \* entries applied before a run saves a snapshot
          SnapStarts,  \* the starts after which a run saves snapshots
          MaxStart,    \* bound on the number of starts
          PeerTypes,   \* types of the entries a leader sends this node
          Faults       \* what the bounds of a run let happen, see InitLoad

ASSUME MraftAssumption ==
  /\ {MaxId, MaxTerm, MaxLog, SnapAfter, MaxStart} \subseteq Nat \ {0}
  /\ Faults \subseteq {"stale_term", "compacted"}

VARIABLES
  phase,     \* "down", "joining" (Init waits for an answer), "up",
             \* "stopping" (Shutdown called, the event loop still runs)
  raft,      \* raft_server_
  meta,      \* meta_: self, peers (ids with an address), term (last_applied_term), voted
  saved,     \* the meta file, or NoFile
  log,       \* raft_log_store_, on disk
  fsm,       \* what OnApplyLog was given since the object was made
  client,    \* what became of each client's closure
  posted,    \* functions given to runInEventBaseThread: clients, or Stop
  snapper,   \* snapshot_save_thread_ and the snapshot it saves
  lastSnap,  \* index of last_snapshot_, 0 when there is none
  granted,   \* history: <<term, candidate>> of the votes this node gave
  starts     \* history: how often the node was started

vars == <<phase, raft, meta, saved, log, fsm, client, posted, snapper, lastSnap,
          granted, starts>>
ThreadVars == <<posted, snapper, lastSnap>>

NoFile == [self |-> 0]
Stop == "stop"
NewMeta == [self |-> 0, peers |-> {}, term |-> 0, voted |-> 0]
NoSnapper == [st |-> "none", dir |-> 0, upto |-> 0, content |-> <<>>]
Id == 1..MaxId

PeerEntry == [term : 0..MaxTerm, type : {"normal"}, arg : {"x"}]
ChangeEntry == [term : 0..MaxTerm, type : {"addnv", "add", "remove"}, arg : Id]
ClientEntry == [term : 0..MaxTerm, type : {"normal"}, arg : Client]

(* The variables a handler's calls change. *)
Sys == [up |-> TRUE, raft |-> raft, meta |-> meta, saved |-> saved, log |-> log,
        fsm |-> fsm, client |-> client]

Becomes(s) ==
  /\ raft' = s.raft /\ meta' = s.meta /\ saved' = s.saved /\ log' = s.log
  /\ fsm' = s.fsm /\ client' = s.client

(***************************************************************************)
(* The meta file.                                                           *)
(***************************************************************************)
SaveMeta(s) == [s EXCEPT !.saved = s.meta]

(* Mistake: the vote is kept in memory only. *)
PersistVote_NoSave(s, id) == [s EXCEPT !.meta.voted = id]

PersistVote(s, id) == SaveMeta([s EXCEPT !.meta.voted = id])

(* Nothing is written while the node loads: s.up is state_ = RAFT_UP. *)
PersistTerm(s, term, id) ==
  IF ~s.up THEN s
  ELSE SaveMeta([s EXCEPT !.meta = [@ EXCEPT !.voted = id, !.term = term]])

SetCurrentTerm(s, term) ==
  IF term <= s.raft.term THEN s
  ELSE [PersistTerm(s, term, None) EXCEPT !.raft = [@ EXCEPT !.term = term, !.voted = None]]

VoteForNodeid(s, id) == [PersistVote(s, id) EXCEPT !.raft.voted = id]

(***************************************************************************)
(* The log adaptor and the callbacks.                                       *)
(***************************************************************************)
raftLogAppend(l, e) == [l EXCEPT !.ents = Append(@, e)]

(* The suffix goes, and with it the closures its entries held; the callback *)
(* that would undo membership changes is not called.                        *)
raftLogPop(s, from) ==
  [s EXCEPT !.log.ents = SubSeq(@, 1, from - 1),
            !.client = [c \in Client |->
                          IF @[c].st = "logged" /\ @[c].idx >= from
                          THEN [@[c] EXCEPT !.st = "gone"] ELSE @[c]]]

raftLogPoll(l, first) == [l EXCEPT !.base = Max({@, first - 1})]

NextNodeID(s) == Max({0} \cup s.meta.peers) + 1

DoRemoveNode(s, id) == [s EXCEPT !.meta.peers = @ \ {id}]

DoAddNode(s, id) == [s EXCEPT !.meta.peers = @ \cup {id}]

(* Only ever called for this node itself. *)
AddNode(s, id, vote) ==
  DoAddNode([s EXCEPT !.raft = AddMember([@ EXCEPT !.self = id], id, vote),
                      !.meta.self = id], id)

(* The entry reaches the state machine, and the closure it still holds runs. *)
OnApplyLog(s, e, i) ==
  [s EXCEPT !.fsm = Append(@, e.arg),
            !.client = [c \in Client |-> IF @[c].st = "logged" /\ @[c].idx = i
                                         THEN [@[c] EXCEPT !.st = "ok"] ELSE @[c]]]

(* Mistake: a case of the switch falls through to the next. *)
RaftApplyLog_Fallthrough(s, e, i) ==
  LET members == IF e.type \in {"addnv", "add"} THEN DoAddNode(s, e.arg) ELSE s
      told    == IF s.up THEN members
                 ELSE [members EXCEPT !.raft = HandleAppendCfgChange(@, e, i)]
      applied == IF e.type = "remove" THEN told ELSE OnApplyLog(told, e, i)
  IN IF s.up THEN [applied EXCEPT !.meta.term = e.term] ELSE applied

(* Applying one entry: membership entries keep the address book, and in      *)
(* LOADING tell the library too.  On a node that is up the meta record takes  *)
(* the entry's term, in memory.                                               *)
RaftApplyLog(s, e, i) ==
  LET peers   == CASE e.type = "remove" -> DoRemoveNode(s, e.arg)
                   [] e.type \in {"addnv", "add"} -> DoAddNode(s, e.arg)
                   [] OTHER -> s
      members == IF s.up THEN peers
                 ELSE [peers EXCEPT !.raft = HandleAppendCfgChange(@, e, i)]
      applied == IF e.type = "normal" THEN OnApplyLog(members, e, i) ELSE members
  IN IF s.up THEN [applied EXCEPT !.meta.term = e.term] ELSE applied

(* One entry after the other, as the library applies them. *)
ApplyEntries(s, n) ==
  LET after[k \in 0..n] ==
        IF k = 0 THEN s
        ELSE LET i == s.raft.applied + k
                 e == EntryAt(s.log, i)
             IN [RaftApplyLog(after[k - 1], e, i) EXCEPT !.raft = HandleApplyCfgChange(@, e, i)]
  IN after[n]

(* raft_apply_all: up to the commit index, unless the next entry is missing. *)
(* It changes the members, what has been applied and, on a node that is up,  *)
(* the term in the meta record; it never touches the node's term or vote.    *)
ApplyAll(s) ==
  LET todo == {i \in 1..LastIdx(s.log) : /\ HasEntry(s.log, s.raft.applied + 1)
                                         /\ s.raft.applied < i /\ i <= s.raft.commit}
      upto == Max({s.raft.applied} \cup todo)
      all == ApplyEntries(s, Cardinality(todo))
  IN [s EXCEPT !.raft = [@ EXCEPT !.nodes = all.raft.nodes, !.match = all.raft.match,
                                  !.change = all.raft.change, !.enough = all.raft.enough,
                                  !.votes = all.raft.votes, !.applied = upto],
               !.meta = [@ EXCEPT !.peers = all.meta.peers,
                                  !.term = IF s.up /\ upto \in todo
                                           THEN EntryAt(s.log, upto).term ELSE s.meta.term],
               !.fsm = all.fsm, !.client = all.client]

(* raft_append_entry. *)
AppendEntry(s, e) ==
  LET l == raftLogAppend(s.log, e) IN
  [s EXCEPT !.log = l, !.raft = HandleAppendCfgChange(@, e, LastIdx(l))]

(* raft_recv_entry: only a leader takes entries, one voting change at a     *)
(* time, and a leader that votes alone commits at once.                     *)
TakesEntry(s, type) ==
  s.raft.role = "leader" /\ (type \in {"add", "remove"} => s.raft.change = 0)

RecvRaftEntry(s, type, arg) ==
  IF ~TakesEntry(s, type) THEN s
  ELSE AdvanceCommit(AppendEntry(s, [term |-> s.raft.term, type |-> type, arg |-> arg]))

AppendConfigChange(s, type, id) == RecvRaftEntry(s, type, id)

AddNodeHasSufficientLogs(s, id) == AppendConfigChange(s, "add", id)

(* raft_become_leader, which opens the term with an entry of its own when   *)
(* others vote too.                                                         *)
BecomeLeader(s) ==
  LET led == [s EXCEPT !.raft = [@ EXCEPT !.role = "leader", !.votes = {}, !.enough = {},
                                          !.match = [id \in DOMAIN s.raft.match |-> 0]]]
  IN IF Cardinality(VotingIds(led.raft)) > 1 THEN RecvRaftEntry(led, "noop", "x") ELSE led

CountVotes(s) == IF IsMajority(s.raft, s.raft.votes) THEN BecomeLeader(s) ELSE s

(***************************************************************************)
(* Starting: Raft::Init.                                                    *)
(***************************************************************************)
Fresh(s) == [s EXCEPT !.raft = NewServer, !.meta = NewMeta, !.fsm = <<>>]

(* create_cluster = 1 on the peer with the smallest address: node 1, leader  *)
(* of itself, with its own membership written straight to an empty log.      *)
InitCreate ==
  /\ phase = "down" /\ saved = NoFile /\ starts < MaxStart
  /\ LET s    == Fresh([Sys EXCEPT !.log = [base |-> 0, ents |-> <<>>]])
         self == [AddNode(s, 1, TRUE) EXCEPT !.raft.role = "leader"]
         e    == [term |-> 0, type |-> "add", arg |-> 1]
     IN Becomes(SaveMeta([self EXCEPT !.log = raftLogAppend(@, e)]))
  /\ phase' = "up" /\ starts' = starts + 1
  /\ UNCHANGED <<ThreadVars, granted>>

(* Otherwise the node asks the peers it was given, and waits for an answer. *)
InitJoin ==
  /\ phase = "down" /\ saved = NoFile /\ starts < MaxStart
  /\ Becomes(Fresh([Sys EXCEPT !.log = [base |-> 0, ents |-> <<>>]]))
  /\ phase' = "joining" /\ starts' = starts + 1
  /\ UNCHANGED <<ThreadVars, granted>>

(* The end of TryJoinExistingCluster: accepted under a new id, or refused.  *)
JoinAccepted(id) ==
  /\ phase = "joining"
  /\ Becomes(SaveMeta(AddNode(Sys, id, FALSE)))
  /\ phase' = "up"
  /\ UNCHANGED <<ThreadVars, granted, starts>>

JoinRefused ==
  /\ phase = "joining" /\ phase' = "down"
  /\ UNCHANGED <<raft, meta, saved, log, fsm, client, ThreadVars, granted, starts>>

(* Mistake: the last entry of the log is not replayed. *)
LoadCommitLog_OneShort(s) ==
  LET all  == ApplyAll([s EXCEPT !.raft.commit = LastIdx(s.log) - 1])
      term == SetCurrentTerm(all, s.meta.term)
  IN IF s.meta.voted > 0 THEN VoteForNodeid(term, s.meta.voted) ELSE term

(* The whole log counts as committed and is applied; then term and vote.    *)
LoadCommitLog(s) ==
  LET all  == ApplyAll([s EXCEPT !.raft.commit = LastIdx(s.log)])
      term == SetCurrentTerm(all, s.meta.term)
  IN IF s.meta.voted > 0 THEN VoteForNodeid(term, s.meta.voted) ELSE term

(* A restart from the files (create_cluster = 0).  meta_.snapshot_last_idx  *)
(* is never set, so no snapshot is ever loaded here.  Two starts are left   *)
(* out unless Faults names them: from a meta file whose term is behind the  *)
(* term the node had reached ("stale_term"), and from a log whose beginning *)
(* was compacted away ("compacted").                                        *)
InitLoad ==
  /\ phase = "down" /\ saved # NoFile /\ starts < MaxStart
  /\ "stale_term" \in Faults \/ \A g \in granted : g[1] <= saved.term
  /\ "compacted" \in Faults \/ log.base = 0
  /\ LET s == [Fresh(Sys) EXCEPT !.up = FALSE, !.meta = saved]
     IN Becomes(LoadCommitLog(AddNode(s, saved.self, FALSE)))
  /\ phase' = "up" /\ starts' = starts + 1
  /\ UNCHANGED <<ThreadVars, granted>>

(***************************************************************************)
(* The event loop.                                                          *)
(***************************************************************************)
Running == phase \in {"up", "stopping"}
Room == LastIdx(log) < MaxLog

CheckRaftState == phase = "up"

(* The node is in the table peers find it by, from the end of Init until    *)
(* Shutdown takes it out.                                                   *)
Registered == phase = "up"

GetNodePeerById(id) == id \in meta.peers

(* Every message is answered by this node's own member record. *)
Known == raft.self \in DOMAIN raft.nodes

(* raft_periodic while it has nothing to elect, then raft_apply_all. *)
Routine ==
  /\ Running
  /\ Becomes(ApplyAll(Sys))
  /\ UNCHANGED <<phase, ThreadVars, granted, starts>>

(* raft_periodic or a TimeoutNow request: the node stands for election. *)
StartElection ==
  /\ Running /\ Known /\ raft.nodes[raft.self] /\ raft.role # "leader"
  /\ raft.term < MaxTerm /\ Room
  /\ LET s == VoteForNodeid(SetCurrentTerm(Sys, raft.term + 1), raft.self)
     IN Becomes(CountVotes([s EXCEPT !.raft = [@ EXCEPT !.role = "candidate",
                                                        !.votes = {raft.self}]]))
  /\ granted' = granted \cup {<<raft.term + 1, raft.self>>}
  /\ UNCHANGED <<phase, ThreadVars, starts>>

GrantsVote(s, m) ==
  /\ m.term = s.raft.term /\ s.raft.nodes[s.raft.self]
  /\ s.raft.voted \in {None, m.from}
  /\ UpToDate(s.log, m.lastIdx, m.lastTerm)

NewTerm(s, term) ==
  IF term <= s.raft.term THEN s
  ELSE [SetCurrentTerm(s, term) EXCEPT !.raft = BecomeFollower(@)]

(* DoRecvRequestVote: the term first, then the vote. *)
RecvRequestVote(m) ==
  /\ Registered /\ CheckRaftState /\ Known
  /\ LET s == NewTerm(Sys, m.term) IN
     IF GrantsVote(s, m)
     THEN /\ Becomes(VoteForNodeid(s, m.from))
          /\ granted' = granted \cup {<<m.term, m.from>>}
     ELSE Becomes(s) /\ UNCHANGED granted
  /\ UNCHANGED <<phase, ThreadVars, starts>>

(* A request goes to a member whose address is known. *)
Asked(id) == id \in DOMAIN raft.nodes \ {raft.self} /\ GetNodePeerById(id)

RecvRequestVoteResponse(id, term) ==
  /\ CheckRaftState /\ Asked(id) /\ Room
  /\ raft.role = "candidate" \/ term > raft.term
  /\ Becomes(IF term > raft.term THEN NewTerm(Sys, term)
             ELSE CountVotes([Sys EXCEPT !.raft.votes = @ \cup {id}]))
  /\ UNCHANGED <<phase, ThreadVars, granted, starts>>

(* raft_recv_appendentries: a stale term is refused, a gap is refused, an   *)
(* entry that contradicts a committed one is refused, a conflicting suffix  *)
(* goes, and the commit index follows the leader's.                         *)
AcceptEntries(s, m) ==
  LET i        == m.prevIdx + 1
      present  == i <= LastIdx(s.log)
      conflict == m.ents # <<>> /\ present /\ EntryAt(s.log, i).term # m.ents[1].term
      cut      == IF conflict THEN raftLogPop(s, i) ELSE s
      grown    == IF m.ents # <<>> /\ i > LastIdx(cut.log)
                  THEN AppendEntry(cut, m.ents[1]) ELSE cut
      last     == m.prevIdx + Len(m.ents)
  IN IF \/ m.prevIdx > LastIdx(s.log)
        \/ m.prevIdx > 0 /\ EntryAt(s.log, m.prevIdx).term # m.prevTerm
        \/ conflict /\ i <= s.raft.commit
     THEN s
     ELSE [grown EXCEPT !.raft.commit = Max({@, Min({m.commit, last})})]

RecvAppendEntries(m) ==
  /\ Registered /\ CheckRaftState /\ Known
  /\ raft.role # "leader" \/ m.term > raft.term
  /\ LET s == NewTerm(Sys, m.term) IN
     Becomes(IF m.term < s.raft.term THEN s
             ELSE AcceptEntries([s EXCEPT !.raft = BecomeFollower(@)], m))
  /\ UNCHANGED <<phase, ThreadVars, granted, starts>>

(* A member has acknowledged entries up to idx.  One without a vote that has *)
(* caught up is proposed for a vote; what is committed is applied.           *)
RecvAppendEntriesResponse(id, idx) ==
  /\ CheckRaftState /\ raft.role = "leader" /\ Asked(id) /\ Room
  /\ idx \in (raft.match[id] + 1)..LastIdx(log)
  /\ LET acked == AdvanceCommit([Sys EXCEPT !.raft.match[id] = idx])
         ready == /\ ~raft.nodes[id] /\ idx = LastIdx(log) /\ id \notin raft.enough
                  /\ TakesEntry(acked, "add")
         s     == IF ready
                  THEN [AddNodeHasSufficientLogs(acked, id) EXCEPT !.raft.enough = @ \cup {id}]
                  ELSE acked
     IN Becomes(ApplyAll(s))
  /\ UNCHANGED <<phase, ThreadVars, granted, starts>>

(* A peer asks to join: it gets an id and an address before the entry that  *)
(* adds it is taken, whether or not the library takes it.                   *)
RecvNodeJoin ==
  /\ Registered /\ CheckRaftState /\ raft.role = "leader" /\ Room
  /\ \E id \in Id : /\ id = NextNodeID(Sys)
                    /\ Becomes(AppendConfigChange(DoAddNode(Sys, id), "addnv", id))
  /\ UNCHANGED <<phase, ThreadVars, granted, starts>>

RemoveNode(id) ==
  /\ CheckRaftState /\ TakesEntry(Sys, "remove") /\ Room
  /\ id \in DOMAIN raft.nodes \ {raft.self}
  /\ Becomes(AppendConfigChange(Sys, "remove", id))
  /\ UNCHANGED <<phase, ThreadVars, granted, starts>>

(***************************************************************************)
(* A client's entry.                                                        *)
(***************************************************************************)
Lost(c) == IF client[c].st \in {"checked", "posted", "logged"}
           THEN [client[c] EXCEPT !.st = "gone"] ELSE client[c]

(* RecvEntry looks at the state on the client's thread ... *)
RecvEntry(c) ==
  /\ CheckRaftState /\ client[c].st = "none"
  /\ client' = [client EXCEPT ![c].st = "checked"]
  /\ UNCHANGED <<phase, raft, meta, saved, log, fsm, ThreadVars, granted, starts>>

(* ... and posts the rest to the event loop. *)
PostEntry(c) ==
  /\ client[c].st = "checked"
  /\ client' = [client EXCEPT ![c].st = "posted"]
  /\ posted' = Append(posted, c)
  /\ UNCHANGED <<phase, raft, meta, saved, log, fsm, snapper, lastSnap, granted, starts>>

(* The posted rest: the closure is run with an error now, or is kept by the *)
(* entry until it is applied.                                               *)
HandleEntry ==
  /\ Running /\ posted # <<>> /\ Head(posted) # Stop /\ Room
  /\ LET c == Head(posted)
         s == RecvRaftEntry(Sys, "normal", c)
     IN Becomes([s EXCEPT !.client[c] =
                   IF TakesEntry(Sys, "normal")
                   THEN [st |-> "logged", idx |-> LastIdx(s.log)]
                   ELSE [st |-> "error", idx |-> 0]])
  /\ posted' = Tail(posted)
  /\ UNCHANGED <<phase, snapper, lastSnap, granted, starts>>

(***************************************************************************)
(* Stopping.                                                                *)
(***************************************************************************)
Shutdown ==
  /\ phase = "up" /\ phase' = "stopping" /\ starts < MaxStart
  /\ posted' = Append(posted, Stop)
  /\ UNCHANGED <<raft, meta, saved, log, fsm, client, snapper, lastSnap, granted, starts>>

(* The process is gone, or the loop and the server are: what was in memory  *)
(* is lost, the closures that had not run with it.                          *)
Forget ==
  /\ phase' = "down"
  /\ raft' = NewServer /\ meta' = NewMeta /\ fsm' = <<>>
  /\ client' = [c \in Client |-> Lost(c)]
  /\ posted' = <<>> /\ snapper' = NoSnapper /\ lastSnap' = 0
  /\ UNCHANGED <<saved, log, granted, starts>>

(* The function Shutdown posted ends the loop; a running snapshot is joined. *)
StopLoop ==
  /\ phase = "stopping" /\ posted # <<>> /\ Head(posted) = Stop
  /\ snapper.st # "running"
  /\ Forget

Crash == Running /\ starts < MaxStart /\ Forget

(***************************************************************************)
(* Snapshots: the thread saves what the state machine holds while the event *)
(* loop goes on applying; back on the loop the log is compacted.            *)
(***************************************************************************)
(* Mistake: the snapshot is said to hold the whole log. *)
DoSaveSnapshot_WholeLog ==
  /\ CheckRaftState /\ snapper.st = "none" /\ lastSnap # LastIdx(log)
  /\ raft.applied >= SnapAfter /\ starts \in SnapStarts
  /\ snapper' = [st |-> "running", dir |-> LastIdx(log), upto |-> LastIdx(log), content |-> <<>>]
  /\ UNCHANGED <<phase, raft, meta, saved, log, fsm, client, posted, lastSnap, granted, starts>>

(* TrySaveSnapshot and SaveSnapshot.  The library notes what has been       *)
(* applied, and refuses when nothing has since the last one, which the      *)
(* caller does not look at.                                                 *)
DoSaveSnapshot ==
  /\ CheckRaftState /\ snapper.st = "none" /\ lastSnap # LastIdx(log)
  /\ raft.applied >= SnapAfter /\ starts \in SnapStarts
  /\ snapper' = [st |-> "running", dir |-> LastIdx(log),
                 upto |-> IF raft.applied > log.base THEN raft.applied ELSE 0,
                 content |-> <<>>]
  /\ UNCHANGED <<phase, raft, meta, saved, log, fsm, client, posted, lastSnap, granted, starts>>

SnapshotThread ==
  /\ snapper.st = "running"
  /\ snapper' \in {[snapper EXCEPT !.st = "saved", !.content = fsm],
                   [snapper EXCEPT !.st = "failed"]}
  /\ UNCHANGED <<phase, raft, meta, saved, log, fsm, client, posted, lastSnap, granted, starts>>

SnapshotDone ==
  /\ Running /\ snapper.st \in {"saved", "failed"}
  /\ IF snapper.st = "failed" THEN UNCHANGED <<log, lastSnap>>
     ELSE /\ lastSnap' = snapper.dir
          /\ log' = IF snapper.upto = 0 THEN log ELSE raftLogPoll(log, snapper.upto + 1)
  /\ snapper' = NoSnapper
  /\ UNCHANGED <<phase, raft, meta, saved, fsm, client, posted, granted, starts>>

(***************************************************************************)
(* What the other members send.  A cluster's log begins with the entry that *)
(* adds node 1; a leader sends one entry at a time, of its term or older,   *)
(* from the last committed entry on: those before are there already.        *)
(***************************************************************************)
VoteRequest ==
  UNION {{[from |-> id, term |-> t, lastIdx |-> l.idx, lastTerm |-> l.term] :
             l \in {[idx |-> 0, term |-> 0], [idx |-> MaxLog, term |-> t - 1]}} :
           id \in Id \ {raft.self}, t \in 1..MaxTerm}

FirstEntry == [term |-> 0, type |-> "add", arg |-> 1]

SentEntries(term, i) ==
  {<<>>} \cup
  IF i = 1 THEN {<<FirstEntry>>}
  ELSE {<<e>> : e \in {x \in PeerEntry \cup {y \in ChangeEntry : y.arg > 1} :
                         /\ 0 < x.term /\ x.term <= term
                         /\ x.type \in PeerTypes}}

EntriesAfter(t, i) ==
  {[term |-> t, prevIdx |-> i, ents |-> es, commit |-> c,
    prevTerm |-> IF i \in 1..LastIdx(log) THEN EntryAt(log, i).term ELSE 0] :
       es \in SentEntries(t, i + 1), c \in {raft.commit, i + 1}}

PrevIndexes == Max({0, raft.commit - 1})..Min({LastIdx(log), MaxLog - 1})

EntriesRequest == UNION {EntriesAfter(t, i) : t \in 1..MaxTerm, i \in PrevIndexes}

Init ==
  /\ phase = "down" /\ raft = NewServer /\ meta = NewMeta /\ saved = NoFile
  /\ log = [base |-> 0, ents |-> <<>>] /\ fsm = <<>>
  /\ client = [c \in Client |-> [st |-> "none", idx |-> 0]]
  /\ posted = <<>> /\ snapper = NoSnapper /\ lastSnap = 0
  /\ granted = {} /\ starts = 0

Next ==
  \/ InitCreate \/ InitJoin \/ JoinRefused \/ InitLoad
  \/ \E id \in Id \ {1} : JoinAccepted(id)
  \/ Routine \/ StartElection
  \/ \E m \in VoteRequest : RecvRequestVote(m)
  \/ \E id \in Id, term \in 1..MaxTerm : RecvRequestVoteResponse(id, term)
  \/ \E m \in EntriesRequest : RecvAppendEntries(m)
  \/ \E id \in Id, idx \in 1..MaxLog : RecvAppendEntriesResponse(id, idx)
  \/ RecvNodeJoin \/ \E id \in Id : RemoveNode(id)
  \/ \E c \in Client : RecvEntry(c) \/ PostEntry(c)
  \/ HandleEntry \/ Shutdown \/ StopLoop \/ Crash
  \/ DoSaveSnapshot \/ SnapshotThread \/ SnapshotDone

Spec == Init /\ [][Next]_vars

-----------------------------------------------------------------------------
(* The values the first k entries give the state machine. *)
ValuesUpTo(k) ==
  LET normal(e) == e.type = "normal"
      kept == SelectSeq(SubSeq(log.ents, 1, k), normal)
  IN [i \in 1..Len(kept) |-> kept[i].arg]

(* In one term the node votes for one candidate, itself included, however   *)
(* often it goes down and comes back: what PersistTerm and PersistVote wrote *)
(* is what LoadCommitLog hands the library.                                  *)
VoteOnce == \A g, h \in granted : g[1] = h[1] => g = h

(* A closure that was run with success stands for an entry the state machine *)
(* has, now and after every restart: no closure is run for another client's  *)
(* entry, for one that was cut off, or for one a restart forgets.            *)
AckedApplied ==
  Running => \A c \in Client : client[c].st = "ok" => c \in Range(fsm)

(* The state machine has been given exactly the applied prefix of the log,   *)
(* in order and each entry once, whether the entries came from this leader,  *)
(* from another, or from the log at a restart.                               *)
AppliedIsReplay == Running => fsm = ValuesUpTo(raft.applied)

(* A saved snapshot holds at least the entries the log may forget for it,     *)
(* although the state machine went on while it was written.                   *)
SnapshotCovers ==
  LET forgotten == ValuesUpTo(snapper.upto) IN
  snapper.st = "saved" => /\ Len(forgotten) <= Len(snapper.content)
                          /\ \A i \in DOMAIN forgotten : snapper.content[i] = forgotten[i]

=============================================================================

----------------------------- MODULE RaftServer -----------------------------
(***************************************************************************)
(* What mraft needs of the C raft library it links (not in the repository): *)
(* the functions raft_... of c_raft.h that mraft.cpp calls, as operators on *)
(* a record `s` that holds everything a call can change, the callbacks of   *)
(* mraft.cpp included.  Elections start when they like: the library's timer *)
(* and its pre-vote round only restrict that.                               *)
(*                                                                          *)
(*   s.raft   the server: term, voted, role, commit, applied, nodes (the    *)
(*            members, id -> voting or not), votes, match, change (index of *)
(*            the voting change in progress), enough (members reported as   *)
(*            caught up), self (this node's id)                             *)
(*   s.log    the log store: ents, every entry ever kept, of which the first *)
(*            base have been compacted away and cannot be read              *)
(***************************************************************************)
EXTENDS Integers, Sequences, FiniteSets, FiniteSetsExt, Functions

None == -1                     \* no vote

LastIdx(log) == Len(log.ents)

(* raft_get_entry_from_idx, through the log adaptor's get. *)
HasEntry(log, i) == i > log.base /\ i <= LastIdx(log)
EntryAt(log, i) == log.ents[i]

LastTerm(log) == IF log.ents = <<>> THEN 0 ELSE log.ents[Len(log.ents)].term

VotingIds(raft) == {id \in DOMAIN raft.nodes : raft.nodes[id]}

(* A majority of the voting members. *)
IsMajority(raft, ids) ==
  2 * Cardinality(ids \cap VotingIds(raft)) > Cardinality(VotingIds(raft))

(* raft_new_with_log. *)
NewServer ==
  [self |-> 0, term |-> 0, voted |-> None, role |-> "follower", commit |-> 0, applied |-> 0,
   nodes |-> <<>>, votes |-> {}, match |-> <<>>, change |-> 0, enough |-> {}]

Put(f, k, v) == [x \in DOMAIN f \cup {k} |-> IF x = k THEN v ELSE f[x]]

(* raft_add_node and raft_add_non_voting_node: a known voting member stays. *)
AddMember(raft, id, voting) ==
  [raft EXCEPT !.nodes = Put(@, id, voting \/ (id \in DOMAIN @ /\ @[id])),
               !.match = Put(@, id, IF id \in DOMAIN @ THEN @[id] ELSE 0)]

(* raft_handle_append_cfg_change: a membership entry counts from the moment *)
(* it is appended; a removed member keeps its place, without a vote, until   *)
(* the entry is applied.                                                     *)
HandleAppendCfgChange(raft, e, i) ==
  CASE e.type = "addnv" -> IF e.arg = raft.self \/ e.arg \in DOMAIN raft.nodes THEN raft
                           ELSE AddMember(raft, e.arg, FALSE)
    [] e.type = "add"   -> [AddMember(raft, e.arg, TRUE) EXCEPT !.change = i]
    [] e.type = "remove" /\ e.arg \in DOMAIN raft.nodes
                        -> [raft EXCEPT !.nodes[e.arg] = FALSE, !.change = i]
    [] OTHER            -> raft

(* What applying a membership entry does inside the library. *)
HandleApplyCfgChange(raft, e, i) ==
  LET settled == IF raft.change = i THEN [raft EXCEPT !.change = 0] ELSE raft IN
  IF e.type = "remove" /\ e.arg \in DOMAIN raft.nodes
  THEN [settled EXCEPT !.nodes = [x \in DOMAIN @ \ {e.arg} |-> @[x]],
                       !.match = [x \in DOMAIN @ \ {e.arg} |-> @[x]],
                       !.enough = @ \ {e.arg}, !.votes = @ \ {e.arg}]
  ELSE settled

BecomeFollower(raft) == [raft EXCEPT !.role = "follower", !.votes = {}]

(* Candidate's log is at least as complete as ours. *)
UpToDate(log, lastIdx, lastTerm) ==
  \/ lastTerm > LastTerm(log)
  \/ lastTerm = LastTerm(log) /\ lastIdx >= LastIdx(log)

(* The highest index a majority has acknowledged, if it is of this term. *)
AdvanceCommit(s) ==
  LET acked(i) == {id \in DOMAIN s.raft.match : id = s.raft.self \/ s.raft.match[id] >= i}
      safe == {i \in (s.raft.commit + 1)..LastIdx(s.log) :
                 /\ IsMajority(s.raft, acked(i))
                 /\ EntryAt(s.log, i).term = s.raft.term}
  IN IF safe = {} THEN s ELSE [s EXCEPT !.raft.commit = Max(safe)]
=============================================================================

-------------------------- MODULE MraftVoteProofs ---------------------------
(***************************************************************************)
(* A mraft node votes for one candidate in a term, for every number of      *)
(* members, terms, log entries, clients and restarts, as long as it is      *)
(* never started from a meta file whose term is behind a vote it gave.      *)
(*                                                                          *)
(* VoteOnce is not inductive.  In a running node the votes of the current   *)
(* term are the one the library remembers (Remembers); across a restart the *)
(* meta file has to say the same (Records).  Both are invariants only with  *)
(* what the handlers leave alone, which the first half of the module shows  *)
(* for each of the operators that handlers are made of.                     *)
(***************************************************************************)
EXTENDS MraftNode, SequenceTheorems, TLAPS

\* The longer of these proofs take the provers more than their default time.
USE SMTT(30), Zenon, Z3T(30)

EntryType == {"normal", "noop", "addnv", "add", "remove"}
Arg == Client \cup Id \cup {"x"}
Entry == [term : Nat, type : EntryType, arg : Arg]

RaftOK(r) == DOMAIN r = DOMAIN NewServer /\ r.term \in Nat
MetaOK(m) == DOMAIN m = DOMAIN NewMeta /\ m.term \in Nat
LogOK(l) == DOMAIN l = {"base", "ents"} /\ l.ents \in Seq(Entry)
SavedOK(f) == f = NoFile \/ (MetaOK(f) /\ f.self \in Id)

\* A record of the variables, as the operators take it.
SysOK(s) ==
  /\ DOMAIN s = {"up", "raft", "meta", "saved", "log", "fsm", "client"}
  /\ RaftOK(s.raft) /\ MetaOK(s.meta) /\ LogOK(s.log) /\ SavedOK(s.saved)

\* A call that has nothing to do with votes.
RaftSame(r, q) ==
  /\ RaftOK(q)
  /\ q.term = r.term /\ q.voted = r.voted /\ q.self = r.self

Same(s, t) ==
  /\ SysOK(t) /\ t.up = s.up
  /\ RaftSame(s.raft, t.raft)
  /\ t.meta.self = s.meta.self /\ t.meta.voted = s.meta.voted
  /\ t.saved = s.saved

LEMMA SameTransitive == ASSUME NEW s, NEW t, NEW u, Same(s, t), Same(t, u) PROVE Same(s, u)
  BY DEF Same, RaftSame

-----------------------------------------------------------------------------
\* The library's functions that leave term and vote alone.

LEMMA AddMemberSame ==
  ASSUME NEW r, RaftOK(r), NEW id, NEW voting PROVE RaftSame(r, AddMember(r, id, voting))
  BY DEF RaftSame, RaftOK, AddMember, NewServer

LEMMA AppendChangeSame ==
  ASSUME NEW r, RaftOK(r), NEW e, NEW i PROVE RaftSame(r, HandleAppendCfgChange(r, e, i))
<1> DEFINE a == AddMember(r, e.arg, TRUE)
<1>1. RaftSame(r, a) /\ RaftSame(r, AddMember(r, e.arg, FALSE))
  BY AddMemberSame, Zenon
<1>2. RaftSame(r, r) /\ RaftSame(r, [r EXCEPT !.nodes[e.arg] = FALSE, !.change = i])
  BY DEF RaftSame, RaftOK, NewServer
<1> HIDE DEF a
<1>3. RaftSame(r, [a EXCEPT !.change = i])
  BY <1>1 DEF RaftSame, RaftOK, NewServer
<1> QED
  BY <1>1, <1>2, <1>3, Zenon DEF HandleAppendCfgChange, a

LEMMA BecomeFollowerSame == ASSUME NEW r, RaftOK(r) PROVE RaftSame(r, BecomeFollower(r))
  BY DEF RaftSame, RaftOK, BecomeFollower, NewServer

\* The server may be replaced by one with the same term and vote.
LEMMA WithRaft ==
  ASSUME NEW s, SysOK(s), NEW q, RaftSame(s.raft, q) PROVE Same(s, [s EXCEPT !.raft = q])
  BY DEF Same, RaftSame, SysOK

LEMMA AdvanceCommitSame == ASSUME NEW s, SysOK(s) PROVE Same(s, AdvanceCommit(s))
<1>1. ASSUME NEW n PROVE Same(s, [s EXCEPT !.raft.commit = n])
  BY DEF Same, RaftSame, SysOK, RaftOK, NewServer
<1>2. Same(s, s)
  BY DEF Same, RaftSame, SysOK
<1> QED
  BY <1>1, <1>2 DEF AdvanceCommit

LEMMA AppendEntrySame ==
  ASSUME NEW s, SysOK(s), NEW e \in Entry PROVE Same(s, AppendEntry(s, e))
<1> DEFINE l == raftLogAppend(s.log, e)
           q == HandleAppendCfgChange(s.raft, e, LastIdx(l))
<1>1. LogOK(l)
  BY DEF SysOK, LogOK, raftLogAppend
<1>2. RaftSame(s.raft, q)
  BY AppendChangeSame DEF SysOK
<1>3. AppendEntry(s, e) = [s EXCEPT !.log = l, !.raft = q]
  BY DEF AppendEntry, SysOK
<1> HIDE DEF l, q
<1> QED
  BY <1>1, <1>2, <1>3 DEF Same, RaftSame, SysOK

LEMMA RecvRaftEntrySame ==
  ASSUME NEW s, SysOK(s), NEW type \in EntryType, NEW arg \in Arg
  PROVE  Same(s, RecvRaftEntry(s, type, arg))
<1> DEFINE e == [term |-> s.raft.term, type |-> type, arg |-> arg]
           t == AppendEntry(s, e)
<1>1. e \in Entry
  BY DEF SysOK, RaftOK, Entry
<1>2. Same(s, t)
  BY <1>1, AppendEntrySame
<1>3. Same(t, AdvanceCommit(t))
  BY <1>2, AdvanceCommitSame DEF Same
<1>4. Same(s, s)
  BY DEF Same, RaftSame, SysOK
<1> HIDE DEF t
<1> QED
  BY <1>2, <1>3, <1>4, SameTransitive DEF RecvRaftEntry, t

LEMMA CountVotesSame == ASSUME NEW s, SysOK(s) PROVE Same(s, CountVotes(s))
<1> DEFINE q == [s.raft EXCEPT !.role = "leader", !.votes = {}, !.enough = {},
                               !.match = [id \in DOMAIN s.raft.match |-> 0]]
           led == [s EXCEPT !.raft = q]
<1>1. RaftSame(s.raft, q)
  BY DEF RaftSame, SysOK, RaftOK, NewServer
<1> HIDE DEF q
<1>2. Same(s, led)
  BY <1>1, WithRaft
<1>3. Same(s, s)
  BY DEF Same, RaftSame, SysOK
<1> HIDE DEF led
<1>4. Same(led, RecvRaftEntry(led, "noop", "x"))
  BY <1>2, RecvRaftEntrySame DEF Same, EntryType, Arg
<1>5. Same(s, RecvRaftEntry(led, "noop", "x"))
  BY <1>2, <1>4, SameTransitive
<1>6. BecomeLeader(s) \in {led, RecvRaftEntry(led, "noop", "x")}
  BY DEF BecomeLeader, led, q
<1>7. CountVotes(s) \in {s, BecomeLeader(s)}
  BY DEF CountVotes
<1> QED
  BY <1>2, <1>3, <1>5, <1>6, <1>7

LEMMA DoAddNodeSame == ASSUME NEW s, SysOK(s), NEW id PROVE Same(s, DoAddNode(s, id))
<1>1. MetaOK([s.meta EXCEPT !.peers = @ \cup {id}])
  BY DEF SysOK, MetaOK, NewMeta
<1> QED
  BY <1>1 DEF Same, RaftSame, SysOK, DoAddNode, MetaOK, NewMeta

\* Applying entries changes no term but the one in the meta record, which a
\* node that is loading keeps as well.
LEMMA ApplyAllSame ==
  ASSUME NEW s, SysOK(s)
  PROVE  Same(s, ApplyAll(s)) /\ (~s.up => ApplyAll(s).meta.term = s.meta.term)
<1> DEFINE todo == {i \in 1..LastIdx(s.log) : /\ HasEntry(s.log, s.raft.applied + 1)
                                              /\ s.raft.applied < i /\ i <= s.raft.commit}
           upto == Max({s.raft.applied} \cup todo)
           all == ApplyEntries(s, Cardinality(todo))
           term == IF s.up /\ upto \in todo THEN EntryAt(s.log, upto).term ELSE s.meta.term
           q == [s.raft EXCEPT !.nodes = all.raft.nodes, !.match = all.raft.match,
                               !.change = all.raft.change, !.enough = all.raft.enough,
                               !.votes = all.raft.votes, !.applied = upto]
           m == [s.meta EXCEPT !.peers = all.meta.peers, !.term = term]
<1>1. ASSUME NEW i \in 1..LastIdx(s.log) PROVE EntryAt(s.log, i).term \in Nat
  <2>1. EntryAt(s.log, i) \in Entry
    BY DEF SysOK, LogOK, LastIdx, EntryAt
  <2> QED
    BY <2>1 DEF Entry
<1>2. ApplyAll(s) = [s EXCEPT !.raft = q, !.meta = m, !.fsm = all.fsm, !.client = all.client]
  BY Zenon DEF ApplyAll
<1>3. todo \subseteq 1..LastIdx(s.log)
  OBVIOUS
<1> HIDE DEF todo, upto, all
<1>4. term \in Nat /\ (~s.up => term = s.meta.term)
  BY <1>1, <1>3, Zenon DEF SysOK, MetaOK
<1> HIDE DEF term
<1>5. RaftSame(s.raft, q)
  BY DEF SysOK, RaftOK, RaftSame, NewServer
<1>6. MetaOK(m) /\ m.self = s.meta.self /\ m.voted = s.meta.voted /\ m.term = term
  BY <1>4 DEF SysOK, MetaOK, NewMeta
<1> HIDE DEF q, m
<1>7. Same(s, ApplyAll(s))
  BY <1>2, <1>5, <1>6 DEF Same, RaftSame, SysOK
<1>8. ApplyAll(s).meta = m
  BY <1>2 DEF SysOK
<1> QED
  BY <1>4, <1>6, <1>7, <1>8

\* A conflicting suffix goes, an entry comes, the commit index moves.
LEMMA PrefixInLog == ASSUME NEW l \in Seq(Entry), NEW n \in Int, n <= Len(l)
                     PROVE  SubSeq(l, 1, n) \in Seq(Entry)
<1>1. CASE n >= 0
  BY <1>1, SubSeqProperties
<1>2. CASE n < 0
  BY <1>2
<1> QED
  BY <1>1, <1>2

LEMMA AcceptEntriesSame ==
  ASSUME NEW s, SysOK(s), NEW m, m.prevIdx \in Int,
         m.ents = <<>> \/ (Len(m.ents) = 1 /\ m.ents[1] \in Entry)
  PROVE  Same(s, AcceptEntries(s, m))
<1> DEFINE i == m.prevIdx + 1
           conflict == m.ents # <<>> /\ i <= LastIdx(s.log) /\ EntryAt(s.log, i).term # m.ents[1].term
           cut == IF conflict THEN raftLogPop(s, i) ELSE s
           grown == IF m.ents # <<>> /\ i > LastIdx(cut.log)
                    THEN AppendEntry(cut, m.ents[1]) ELSE cut
           last == m.prevIdx + Len(m.ents)
<1>1. Same(s, s)
  BY DEF Same, RaftSame, SysOK
<1>2. ASSUME conflict PROVE Same(s, raftLogPop(s, i))
  <2>1. LogOK([s.log EXCEPT !.ents = SubSeq(@, 1, i - 1)])
    BY <1>2, PrefixInLog DEF SysOK, LogOK, LastIdx
  <2> QED
    BY <2>1 DEF raftLogPop, Same, RaftSame, SysOK
<1>3. Same(s, cut)
  BY <1>1, <1>2
<1> HIDE DEF cut
<1>4. ASSUME m.ents # <<>> PROVE Same(s, AppendEntry(cut, m.ents[1]))
  <2>1. Same(cut, AppendEntry(cut, m.ents[1]))
    BY <1>3, <1>4, AppendEntrySame DEF Same
  <2> QED
    BY <1>3, <2>1, SameTransitive
<1>5. Same(s, grown)
  BY <1>3, <1>4
<1> HIDE DEF grown
<1>6. ASSUME NEW n PROVE Same(s, [grown EXCEPT !.raft.commit = n])
  <2>1. Same(grown, [grown EXCEPT !.raft.commit = n])
    BY <1>5 DEF Same, RaftSame, SysOK, RaftOK, NewServer
  <2> QED
    BY <1>5, <2>1, SameTransitive
<1>7. AcceptEntries(s, m) \in {s, [grown EXCEPT !.raft.commit = Max({@, Min({m.commit, last})})]}
  BY Zenon DEF AcceptEntries, grown, cut
<1> QED
  BY <1>1, <1>6, <1>7, Zenon

-----------------------------------------------------------------------------
\* Term and vote.

\* The library knows of every vote given in its term; there is at most one.
Remembers(r, votes) == \A g \in votes : g[1] <= r.term /\ (g[1] = r.term => g[2] = r.voted)

\* A meta file whose term is not behind any vote has the vote of its term.
Records(f, votes) ==
  (\A g \in votes : g[1] <= f.term) => \A g \in votes : g[1] = f.term => g[2] = f.voted

Votes == Nat \X Id

\* A node that runs, in memory and on disk.
Good(s, votes) ==
  /\ SysOK(s) /\ s.saved # NoFile
  /\ s.raft.self \in Id /\ s.meta.self = s.raft.self
  /\ Remembers(s.raft, votes) /\ Records(s.saved, votes)

LEMMA GoodSame == ASSUME NEW s, NEW t, NEW votes, Good(s, votes), Same(s, t) PROVE Good(t, votes)
  BY DEF Good, Same, RaftSame, Remembers

\* A new term is saved, without a vote, before any vote is given in it.
LEMMA NewTermGood ==
  ASSUME NEW s, NEW votes \in SUBSET Votes, Good(s, votes), s.up, NEW term \in Nat, term > s.raft.term
  PROVE  LET t == SetCurrentTerm(s, term) IN
         /\ Good(t, votes) /\ t.up = s.up /\ t.raft.term = term /\ t.raft.self = s.raft.self
<1> DEFINE m == [s.meta EXCEPT !.voted = None, !.term = term]
           q == [s.raft EXCEPT !.term = term, !.voted = None]
           t == [s EXCEPT !.meta = m, !.saved = m, !.raft = q]
<1>1. SetCurrentTerm(s, term) = t
  <2>1. PersistTerm(s, term, None) = [s EXCEPT !.meta = m, !.saved = m]
    BY DEF PersistTerm, SaveMeta, Good, SysOK
  <2>2. ~(term <= s.raft.term)
    BY DEF Good, SysOK, RaftOK
  <2> QED
    BY <2>1, <2>2 DEF SetCurrentTerm, Good, SysOK
<1>2. MetaOK(m) /\ m.term = term /\ m.self = s.raft.self
  BY DEF Good, SysOK, MetaOK, NewMeta
<1>3. RaftOK(q) /\ q.term = term /\ q.self = s.raft.self
  BY DEF Good, SysOK, RaftOK, NewServer
<1> HIDE DEF m, q
<1>4. DOMAIN t = DOMAIN s /\ t.meta = m /\ t.saved = m /\ t.raft = q /\ t.up = s.up /\ t.log = s.log
  BY Zenon DEF Good, SysOK
<1>5. ASSUME NEW g \in votes PROVE g[1] < term
  BY DEF Good, SysOK, RaftOK, Remembers, Votes
<1>6. ASSUME NEW g \in votes PROVE g[1] \in Nat
  BY DEF Votes
<1>7. Remembers(q, votes) /\ Records(m, votes)
  BY <1>2, <1>3, <1>5, <1>6 DEF Remembers, Records
<1>8. m # NoFile /\ m.self \in Id
  BY <1>2 DEF NoFile, Id, Good
<1>9. SysOK(t)
  BY <1>2, <1>3, <1>4, <1>8 DEF SysOK, SavedOK, Good
<1> HIDE DEF t
<1> QED
  BY <1>1, <1>2, <1>3, <1>4, <1>7, <1>8, <1>9 DEF Good

\* A vote is remembered and saved, with whatever term the meta record has.
LEMMA VoteGood ==
  ASSUME NEW s, NEW votes \in SUBSET Votes, Good(s, votes), NEW id \in Id,
         \A g \in votes : g[1] = s.raft.term => g[2] = id
  PROVE  Good(VoteForNodeid(s, id), votes \cup {<<s.raft.term, id>>})
<1> DEFINE m == [s.meta EXCEPT !.voted = id]
           q == [s.raft EXCEPT !.voted = id]
           t == [s EXCEPT !.meta = m, !.saved = m, !.raft = q]
           now == votes \cup {<<s.raft.term, id>>}
<1>1. VoteForNodeid(s, id) = t
  BY DEF VoteForNodeid, PersistVote, SaveMeta, Good, SysOK
<1>2. MetaOK(m) /\ m.term = s.meta.term /\ m.self = s.raft.self /\ m.voted = id
  BY DEF Good, SysOK, MetaOK, NewMeta
<1>3. RaftOK(q) /\ q.term = s.raft.term /\ q.self = s.raft.self /\ q.voted = id
  BY DEF Good, SysOK, RaftOK, NewServer
<1>4. m.term \in Nat /\ q.term \in Nat
  BY <1>2, <1>3 DEF MetaOK, RaftOK
<1> HIDE DEF m, q
<1>5. DOMAIN t = DOMAIN s /\ t.meta = m /\ t.saved = m /\ t.raft = q /\ t.log = s.log
  BY DEF Good, SysOK
<1>6. ASSUME NEW g \in now PROVE g[1] \in Nat /\ g[1] <= q.term /\ (g[1] = q.term => g[2] = id)
  BY <1>3, <1>4 DEF Good, Remembers, Votes
<1>7. <<q.term, id>> \in now
  BY <1>3
<1> HIDE DEF now
<1>8. Remembers(q, now)
  BY <1>3, <1>6 DEF Remembers
<1>9. Records(m, now)
  <2> SUFFICES ASSUME \A g \in now : g[1] <= m.term, NEW g \in now, g[1] = m.term
               PROVE  g[2] = m.voted
    BY DEF Records
  <2>1. q.term <= m.term
    BY <1>7
  <2> QED
    BY <1>2, <1>4, <1>6, <2>1
<1>10. m # NoFile /\ m.self \in Id
  BY <1>2 DEF NoFile, Id, Good
<1>11. SysOK(t)
  BY <1>2, <1>3, <1>5, <1>10 DEF SysOK, SavedOK, Good
<1> HIDE DEF t
<1> QED
  BY <1>1, <1>2, <1>3, <1>5, <1>8, <1>9, <1>10, <1>11 DEF Good, now

-----------------------------------------------------------------------------
\* The inductive invariant.  Until there is a meta file no vote was given.
IInv ==
  /\ granted \in SUBSET Votes /\ VoteOnce
  /\ posted \in Seq(Client \cup {Stop})
  /\ SysOK(Sys)
  /\ IF saved = NoFile THEN granted = {} ELSE Records(saved, granted)
  /\ phase = "joining" => saved = NoFile
  /\ Running => Good(Sys, granted)

\* What a handler leaves behind is a node that runs.
LEMMA BecomesGood ==
  ASSUME NEW t, Good(t, granted'), Becomes(t), phase' # "joining",
         granted' \in SUBSET Votes, VoteOnce', posted' \in Seq(Client \cup {Stop})
  PROVE  IInv'
<1>1. /\ Sys'.raft = t.raft /\ Sys'.meta = t.meta /\ Sys'.saved = t.saved /\ Sys'.log = t.log
      /\ DOMAIN Sys' = DOMAIN t /\ saved' = t.saved
  BY DEF Becomes, Sys, Good, SysOK
<1>2. SysOK(Sys)'
  BY <1>1 DEF Good, SysOK
<1>3. Good(Sys, granted)'
  BY <1>1, <1>2 DEF Good
<1>4. saved' # NoFile /\ Records(saved', granted')
  BY <1>1 DEF Good
<1> QED
  BY <1>2, <1>3, <1>4 DEF IInv

\* A handler that has nothing to do with votes.
LEMMA HandlerKeeps ==
  ASSUME IInv, Running, NEW t, Same(Sys, t), Becomes(t), phase' = phase, granted' = granted,
         posted' \in Seq(Client \cup {Stop})
  PROVE  IInv'
<1>1. Good(t, granted')
  BY GoodSame DEF IInv
<1>2. phase' # "joining" /\ granted' \in SUBSET Votes /\ VoteOnce'
  BY DEF Running, IInv, VoteOnce
<1> QED
  BY <1>1, <1>2, BecomesGood

\* A step that leaves the node and its votes alone.
LEMMA OtherKeeps ==
  ASSUME IInv, UNCHANGED <<raft, meta, saved, granted>>, LogOK(log'),
         posted' \in Seq(Client \cup {Stop}),
         phase' = phase \/ phase' = "down" \/ (phase = "up" /\ phase' = "stopping")
  PROVE  IInv'
<1>1. SysOK(Sys)' /\ (Good(Sys, granted) => Good(Sys, granted)')
  BY DEF IInv, Sys, SysOK, Good
<1>2. Running' => Running
  BY DEF Running
<1> QED
  BY <1>1, <1>2, SMTT(30) DEF IInv, VoteOnce

-----------------------------------------------------------------------------
\* Starting.

LEMMA FreshOK ==
  ASSUME IInv, NEW l, LogOK(l) PROVE SysOK(Fresh([Sys EXCEPT !.log = l]))
  BY DEF IInv, SysOK, Sys, Fresh, RaftOK, MetaOK, NewServer, NewMeta

\* AddNode gives the node its id, and touches neither term nor vote.
Adds(s, id, t) == t \in {AddNode(s, id, TRUE), AddNode(s, id, FALSE)}

LEMMA AddNodeGives ==
  ASSUME NEW s, SysOK(s), NEW id, NEW t, Adds(s, id, t)
  PROVE  /\ SysOK(t) /\ t.up = s.up /\ t.saved = s.saved /\ t.log = s.log
         /\ t.raft.self = id /\ t.meta.self = id
         /\ t.raft.term = s.raft.term /\ t.raft.voted = s.raft.voted
         /\ t.meta.term = s.meta.term /\ t.meta.voted = s.meta.voted
<1> DEFINE r == [s.raft EXCEPT !.self = id]
           m == [s.meta EXCEPT !.self = id]
           n == [m EXCEPT !.peers = @ \cup {id}]
<1>1. RaftOK(r) /\ r.self = id /\ r.term = s.raft.term /\ r.voted = s.raft.voted
  BY DEF SysOK, RaftOK, NewServer
<1>2. RaftSame(r, AddMember(r, id, TRUE)) /\ RaftSame(r, AddMember(r, id, FALSE))
  BY <1>1, AddMemberSame, Zenon
<1>3. MetaOK(n) /\ n.self = id /\ n.term = s.meta.term /\ n.voted = s.meta.voted
  BY DEF SysOK, MetaOK, NewMeta
<1>4. \/ t = [s EXCEPT !.raft = AddMember(r, id, TRUE), !.meta = n]
      \/ t = [s EXCEPT !.raft = AddMember(r, id, FALSE), !.meta = n]
  BY ZenonT(30) DEF Adds, AddNode, DoAddNode, SysOK
<1> HIDE DEF n, r
<1>5. PICK q : RaftSame(r, q) /\ t = [s EXCEPT !.raft = q, !.meta = n]
  BY <1>2, <1>4, Zenon
<1> QED
  BY <1>1, <1>3, <1>5 DEF SysOK, RaftSame

\* The first meta file of a node: it has an id, and gave no vote yet.
LEMMA FirstSave ==
  ASSUME NEW s, SysOK(s), s.raft.self \in Id, s.meta.self = s.raft.self
  PROVE  Good(SaveMeta(s), {})
<1>1. SaveMeta(s) = [s EXCEPT !.saved = s.meta]
  BY DEF SaveMeta
<1>2. s.meta # NoFile
  BY DEF NoFile, Id
<1> QED
  BY <1>1, <1>2 DEF Good, SysOK, SavedOK, Remembers, Records

LEMMA InitCreateKeeps == ASSUME IInv, InitCreate PROVE IInv'
<1> DEFINE l == [base |-> 0, ents |-> <<>>]
           s == Fresh([Sys EXCEPT !.log = l])
           a == AddNode(s, 1, TRUE)
           self == [a EXCEPT !.raft.role = "leader"]
           e == [term |-> 0, type |-> "add", arg |-> 1]
           t == [self EXCEPT !.log = raftLogAppend(@, e)]
<1>0. LogOK(l)
  BY DEF LogOK
<1> HIDE DEF l
<1>1. SysOK(s)
  BY <1>0, FreshOK
<1>2. 1 \in Id
  BY MraftAssumption DEF Id
<1> HIDE DEF s
<1>3. SysOK(a) /\ a.raft.self = 1 /\ a.meta.self = 1
  <2>1. Adds(s, 1, a)
    BY Zenon DEF Adds
  <2> HIDE DEF a
  <2> QED
    BY <1>1, <2>1, AddNodeGives
<1> HIDE DEF a
<1>4. SysOK(self) /\ self.raft.self = 1 /\ self.meta.self = 1
  BY <1>3 DEF SysOK, RaftOK, NewServer
<1>5. e \in Entry
  BY <1>2 DEF Entry, EntryType, Arg
<1> HIDE DEF self, e
<1>6. LogOK(raftLogAppend(self.log, e))
  BY <1>4, <1>5 DEF raftLogAppend, LogOK, SysOK
<1>7. SysOK(t) /\ t.raft.self = 1 /\ t.meta.self = 1
  BY <1>4, <1>6 DEF SysOK
<1> HIDE DEF t
<1>8. Good(SaveMeta(t), {})
  BY <1>2, <1>7, FirstSave
<1>9. Becomes(SaveMeta(t)) /\ phase' = "up" /\ granted' = {} /\ posted' = posted
  BY Zenon DEF InitCreate, IInv, ThreadVars, t, self, a, s, e, l
<1> QED
  BY <1>8, <1>9, BecomesGood DEF IInv, VoteOnce

LEMMA InitJoinKeeps == ASSUME IInv, InitJoin PROVE IInv'
<1> DEFINE l == [base |-> 0, ents |-> <<>>]
           s == Fresh([Sys EXCEPT !.log = l])
<1>1. LogOK(l)
  BY DEF LogOK
<1> HIDE DEF l
<1>2. SysOK(s) /\ s.saved = saved
  BY <1>1, FreshOK, Zenon DEF Fresh, Sys
<1> HIDE DEF s
<1>3. Becomes(s) /\ phase' = "joining" /\ granted' = granted /\ posted' = posted /\ saved = NoFile
  BY Zenon DEF InitJoin, ThreadVars, s, l
<1>4. SysOK(Sys)' /\ saved' = saved
  BY <1>2, <1>3 DEF Becomes, Sys, SysOK
<1> QED
  BY <1>3, <1>4, SMTT(30) DEF IInv, Running, VoteOnce

LEMMA JoinAcceptedKeeps == ASSUME IInv, NEW id \in Id, JoinAccepted(id) PROVE IInv'
<1> DEFINE t == AddNode(Sys, id, FALSE)
<1>1. SysOK(Sys) /\ granted = {}
  BY DEF IInv, JoinAccepted
<1>2. Adds(Sys, id, t)
  BY Zenon DEF Adds
<1> HIDE DEF t
<1>3. SysOK(t) /\ t.raft.self = id /\ t.meta.self = id
  BY <1>1, <1>2, AddNodeGives
<1>4. Good(SaveMeta(t), {})
  BY <1>3, FirstSave
<1>5. Becomes(SaveMeta(t)) /\ phase' = "up" /\ granted' = {} /\ posted' = posted
  BY <1>1, Zenon DEF JoinAccepted, ThreadVars, t
<1> QED
  BY <1>4, <1>5, BecomesGood DEF IInv, VoteOnce

LEMMA JoinRefusedKeeps == ASSUME IInv, JoinRefused PROVE IInv'
<1>1. UNCHANGED <<raft, meta, saved, granted, posted>> /\ log' = log /\ phase' = "down"
  BY DEF JoinRefused, ThreadVars
<1>2. LogOK(log)
  BY DEF IInv, SysOK, Sys
<1> QED
  BY <1>1, <1>2, OtherKeeps DEF IInv

\* A restart hands the library the term and the vote of the meta file.
LEMMA LoadGood ==
  ASSUME NEW a, SysOK(a), ~a.up, a.saved # NoFile, a.meta.self = a.saved.self,
         a.raft.self = a.saved.self,
         a.raft.term = 0, a.meta.term = a.saved.term, a.meta.voted = a.saved.voted,
         NEW votes \in SUBSET Votes, Records(a.saved, votes),
         \A g \in votes : g[1] <= a.saved.term
  PROVE  Good(LoadCommitLog(a), votes)
<1> DEFINE c == [a EXCEPT !.raft.commit = LastIdx(a.log)]
           all == ApplyAll(c)
           term == SetCurrentTerm(all, a.meta.term)
           q == [all.raft EXCEPT !.term = a.meta.term, !.voted = None]
<1>1. Same(a, c) /\ c.meta = a.meta
  BY DEF Same, SysOK, RaftSame, RaftOK, NewServer
<1> HIDE DEF c
<1>2. Same(c, all) /\ all.meta.term = a.meta.term
  BY <1>1, ApplyAllSame DEF Same
<1> HIDE DEF all
<1>3. Same(a, all)
  BY <1>1, <1>2, SameTransitive
<1>4. a.saved.self \in Id /\ a.meta.term \in Nat /\ MetaOK(a.saved)
  BY DEF SysOK, SavedOK, MetaOK
<1>5. RaftOK(q) /\ q.term = a.meta.term /\ q.self = a.saved.self
  BY <1>3, <1>4 DEF Same, SysOK, RaftSame, RaftOK, NewServer
<1>6. a.meta.term > 0 => term = [all EXCEPT !.raft = q]
  BY <1>3, <1>4 DEF SetCurrentTerm, PersistTerm, Same, RaftSame
<1>7. a.meta.term = 0 => term = all
  BY <1>3 DEF SetCurrentTerm, Same, RaftSame
<1> HIDE DEF q, term
<1>8. /\ SysOK(term) /\ term.raft.term = a.saved.term /\ term.raft.self = a.saved.self
      /\ term.meta.self = a.saved.self /\ term.meta.term = a.saved.term
      /\ term.saved = a.saved
  BY <1>2, <1>3, <1>4, <1>5, <1>6, <1>7 DEF Same, SysOK, RaftSame
<1>9. ASSUME NEW g \in votes, g[1] = a.saved.term PROVE g[2] = a.saved.voted /\ a.saved.voted > 0
  BY <1>9 DEF Records, Votes, Id
<1>10. CASE a.saved.voted > 0
  <2> DEFINE m == [term.meta EXCEPT !.voted = a.saved.voted]
             r == [term.raft EXCEPT !.voted = a.saved.voted]
             t == [term EXCEPT !.meta = m, !.saved = m, !.raft = r]
  <2>1. LoadCommitLog(a) = t
    BY <1>8, <1>10 DEF LoadCommitLog, VoteForNodeid, PersistVote, SaveMeta, SysOK, term, all, c
  <2>2. MetaOK(m) /\ m.term = a.saved.term /\ m.self = a.saved.self /\ m.voted = a.saved.voted
    BY <1>8 DEF SysOK, MetaOK, NewMeta
  <2>3. RaftOK(r) /\ r.term = a.saved.term /\ r.self = a.saved.self /\ r.voted = a.saved.voted
    BY <1>8 DEF SysOK, RaftOK, NewServer
  <2> HIDE DEF m, r
  <2>4. DOMAIN t = DOMAIN term /\ t.meta = m /\ t.saved = m /\ t.raft = r /\ t.log = term.log
    BY <1>8 DEF SysOK
  <2>5. m # NoFile
    BY <1>4, <2>2 DEF NoFile, Id
  <2>6. Remembers(r, votes) /\ Records(m, votes)
    BY <1>9, <2>2, <2>3 DEF Remembers, Records
  <2> HIDE DEF t
  <2>7. SysOK(t)
    BY <1>4, <1>8, <2>2, <2>3, <2>4 DEF SysOK, SavedOK
  <2> QED
    BY <1>4, <2>1, <2>2, <2>3, <2>4, <2>5, <2>6, <2>7 DEF Good
<1>11. CASE ~(a.saved.voted > 0)
  <2>1. LoadCommitLog(a) = term
    BY <1>11 DEF LoadCommitLog, term, all, c
  <2>2. Remembers(term.raft, votes)
    BY <1>8, <1>9, <1>11 DEF Remembers
  <2> QED
    BY <1>4, <1>8, <2>1, <2>2 DEF Good
<1> QED
  BY <1>10, <1>11

LEMMA InitLoadKeeps == ASSUME "stale_term" \notin Faults, IInv, InitLoad PROVE IInv'
<1> DEFINE s == [Fresh(Sys) EXCEPT !.up = FALSE, !.meta = saved]
           a == AddNode(s, saved.self, FALSE)
<1>1. saved # NoFile /\ MetaOK(saved) /\ Records(saved, granted)
  BY DEF InitLoad, IInv, SysOK, Sys, SavedOK
<1>2. /\ SysOK(s) /\ ~s.up /\ s.saved = saved /\ s.meta = saved /\ s.raft = NewServer
  BY <1>1 DEF IInv, SysOK, Sys, Fresh, RaftOK, NewServer
<1> HIDE DEF s
<1>3. /\ SysOK(a) /\ ~a.up /\ a.saved = saved /\ a.raft.self = saved.self /\ a.meta.self = saved.self
      /\ a.raft.term = 0 /\ a.meta.term = saved.term /\ a.meta.voted = saved.voted
  <2>1. Adds(s, saved.self, a)
    BY Zenon DEF Adds
  <2> HIDE DEF a
  <2>2. /\ SysOK(a) /\ a.up = s.up /\ a.saved = s.saved
        /\ a.raft.self = saved.self /\ a.meta.self = saved.self /\ a.raft.term = s.raft.term
        /\ a.meta.term = s.meta.term /\ a.meta.voted = s.meta.voted
    BY <1>2, <2>1, AddNodeGives
  <2> QED
    BY <1>2, <2>2 DEF NewServer
<1> HIDE DEF a
<1>4. \A g \in granted : g[1] <= saved.term
  BY DEF InitLoad
<1>5. Good(LoadCommitLog(a), granted)
  BY <1>1, <1>3, <1>4, LoadGood DEF IInv
<1>6. Becomes(LoadCommitLog(a)) /\ phase' = "up" /\ granted' = granted /\ posted' = posted
  BY Zenon DEF InitLoad, ThreadVars, a, s
<1> QED
  BY <1>5, <1>6, BecomesGood DEF IInv, VoteOnce

-----------------------------------------------------------------------------
\* The event loop.

LEMMA SameSelf == ASSUME NEW s, SysOK(s) PROVE Same(s, s)
  BY DEF Same, RaftSame, SysOK

LEMMA SysGood == ASSUME IInv, Running PROVE SysOK(Sys) /\ Good(Sys, granted) /\ Same(Sys, Sys) /\ Sys.up
  BY Zenon DEF IInv, Same, RaftSame, SysOK, Sys

LEMMA RoutineKeeps == ASSUME IInv, Routine PROVE IInv'
<1> DEFINE t == ApplyAll(Sys)
<1>1. Running /\ Becomes(t) /\ phase' = phase /\ granted' = granted /\ posted' = posted
  BY DEF Routine, ThreadVars
<1>2. Same(Sys, t)
  BY <1>1, SysGood, ApplyAllSame
<1> HIDE DEF t
<1> QED
  BY <1>1, <1>2, HandlerKeeps DEF IInv

\* A handler that gives a vote.
LEMMA VoterKeeps ==
  ASSUME IInv, Running, NEW s, Good(s, granted), NEW id \in Id,
         \A g \in granted : g[1] = s.raft.term => g[2] = id,
         NEW t, Same(VoteForNodeid(s, id), t), Becomes(t), phase' = phase, posted' = posted,
         granted' = granted \cup {<<s.raft.term, id>>}
  PROVE  IInv'
<1>1. granted \in SUBSET Votes /\ VoteOnce /\ s.raft.term \in Nat
  BY DEF IInv, Good, SysOK, RaftOK
<1>2. Good(VoteForNodeid(s, id), granted')
  BY <1>1, VoteGood
<1>3. Good(t, granted')
  BY <1>2, GoodSame
<1>4. granted' \in SUBSET Votes
  BY <1>1 DEF Votes
<1>5. \A g \in granted : g[1] = s.raft.term => g = <<s.raft.term, id>>
  BY <1>1 DEF Votes
<1>6. VoteOnce'
  BY <1>1, <1>5 DEF VoteOnce
<1>7. phase' # "joining" /\ posted' \in Seq(Client \cup {Stop})
  BY DEF Running, IInv
<1> QED
  BY <1>3, <1>4, <1>6, <1>7, BecomesGood, Zenon

LEMMA StartElectionKeeps == ASSUME IInv, StartElection PROVE IInv'
<1> DEFINE s == SetCurrentTerm(Sys, raft.term + 1)
           v == VoteForNodeid(s, raft.self)
           q == [v.raft EXCEPT !.role = "candidate", !.votes = {raft.self}]
           c == [v EXCEPT !.raft = q]
           t == CountVotes(c)
<1>1. /\ Running /\ phase' = phase /\ posted' = posted
      /\ granted' = granted \cup {<<raft.term + 1, raft.self>>}
  BY DEF StartElection, ThreadVars
<1>2. Good(Sys, granted) /\ Sys.up /\ granted \in SUBSET Votes
  BY <1>1, SysGood DEF IInv
<1>3. raft.term \in Nat /\ raft.self \in Id /\ Sys.raft = raft
  BY <1>2 DEF Good, SysOK, RaftOK, Sys
<1>4. Good(s, granted) /\ s.raft.term = raft.term + 1
  <2>1. raft.term + 1 \in Nat /\ raft.term + 1 > Sys.raft.term
    BY <1>3
  <2> QED
    BY <1>2, <2>1, NewTermGood
<1>5. \A g \in granted : g[1] # raft.term + 1
  BY <1>2, <1>3 DEF Good, Remembers, Votes
<1>6. Becomes(t)
  BY Zenon DEF StartElection
<1> HIDE DEF s
<1>7. SysOK(v)
  <2>1. \A g \in granted : g[1] = s.raft.term => g[2] = raft.self
    BY <1>4, <1>5
  <2>2. Good(v, granted \cup {<<s.raft.term, raft.self>>})
    BY <1>2, <1>3, <1>4, <2>1, VoteGood
  <2> QED
    BY <2>2 DEF Good
<1> HIDE DEF v
<1>8. RaftSame(v.raft, q)
  BY <1>7 DEF RaftSame, SysOK, RaftOK, NewServer
<1> HIDE DEF q
<1>9. Same(v, c)
  BY <1>7, <1>8, WithRaft
<1> HIDE DEF c
<1>10. Same(c, t)
  BY <1>9, CountVotesSame DEF Same
<1> HIDE DEF t
<1>11. Same(v, t)
  BY <1>9, <1>10, SameTransitive
<1> QED
  BY <1>1, <1>3, <1>4, <1>5, <1>6, <1>11, VoterKeeps DEF v

\* What a message of any term does first.
LEMMA NewTermKeeps ==
  ASSUME IInv, Running, NEW term \in Nat
  PROVE  Good(NewTerm(Sys, term), granted)
<1> DEFINE s == SetCurrentTerm(Sys, term)
           q == BecomeFollower(s.raft)
<1>1. Good(Sys, granted) /\ Sys.up /\ granted \in SUBSET Votes
  BY SysGood DEF IInv
<1>2. CASE term <= Sys.raft.term
  BY <1>1, <1>2 DEF NewTerm
<1>3. CASE ~(term <= Sys.raft.term)
  <2>1. term > Sys.raft.term
    BY <1>1, <1>3 DEF Good, SysOK, RaftOK
  <2>2. Good(s, granted)
    BY <1>1, <2>1, NewTermGood
  <2>3. NewTerm(Sys, term) = [s EXCEPT !.raft = q]
    BY <1>3 DEF NewTerm
  <2> HIDE DEF s
  <2>4. RaftSame(s.raft, q)
    BY <2>2, BecomeFollowerSame DEF Good, SysOK
  <2> HIDE DEF q
  <2>5. Same(s, [s EXCEPT !.raft = q])
    BY <2>2, <2>4, WithRaft DEF Good
  <2> QED
    BY <2>2, <2>3, <2>5, GoodSame
<1> QED
  BY <1>2, <1>3

LEMMA RecvRequestVoteKeeps ==
  ASSUME IInv, NEW m \in VoteRequest, RecvRequestVote(m) PROVE IInv'
<1> DEFINE s == NewTerm(Sys, m.term)
<1>1. Running /\ phase' = phase /\ posted' = posted
  BY DEF RecvRequestVote, Registered, Running, ThreadVars
<1>2. m.term \in Nat /\ m.from \in Id
  <2> DEFINE last(t) == {[idx |-> 0, term |-> 0], [idx |-> MaxLog, term |-> t - 1]}
             asks(id, t) == {[from |-> id, term |-> t, lastIdx |-> l.idx, lastTerm |-> l.term] :
                               l \in last(t)}
  <2>1. m \in UNION {asks(id, t) : id \in Id \ {raft.self}, t \in 1..MaxTerm}
    BY DEF VoteRequest
  <2>2. \A id, t : m \in asks(id, t) => m.term = t /\ m.from = id
    <3> HIDE DEF last
    <3> QED OBVIOUS
  <2> HIDE DEF asks
  <2>3. PICK id \in Id \ {raft.self}, t \in 1..MaxTerm : m \in asks(id, t)
    BY <2>1
  <2> QED
    BY <2>2, <2>3, MraftAssumption
<1>3. Good(s, granted) /\ granted \in SUBSET Votes
  BY <1>1, <1>2, NewTermKeeps DEF IInv
<1>4. \/ /\ GrantsVote(s, m) /\ Becomes(VoteForNodeid(s, m.from))
         /\ granted' = granted \cup {<<m.term, m.from>>}
      \/ Becomes(s) /\ granted' = granted
  BY DEF RecvRequestVote
<1> HIDE DEF s
<1>5. CASE Becomes(s) /\ granted' = granted
  BY <1>1, <1>3, <1>5, BecomesGood DEF IInv, Running, VoteOnce
<1>6. CASE /\ GrantsVote(s, m) /\ Becomes(VoteForNodeid(s, m.from))
           /\ granted' = granted \cup {<<m.term, m.from>>}
  <2>1. m.term = s.raft.term /\ (s.raft.voted = -1 \/ s.raft.voted = m.from)
    BY <1>6 DEF GrantsVote, None
  <2>2. ASSUME NEW g \in granted, g[1] = s.raft.term PROVE g[2] = m.from
    <3>1. g[2] = s.raft.voted /\ g[2] \in Id
      BY <1>3, <2>2 DEF Good, Remembers, Votes
    <3> QED
      BY <2>1, <3>1 DEF Id
  <2>3. Same(VoteForNodeid(s, m.from), VoteForNodeid(s, m.from))
    <3>1. Good(VoteForNodeid(s, m.from), granted \cup {<<s.raft.term, m.from>>})
      BY <1>2, <1>3, <2>2, VoteGood
    <3> QED
      BY <3>1, SameSelf DEF Good
  <2> QED
    BY <1>1, <1>2, <1>3, <1>6, <2>1, <2>2, <2>3, VoterKeeps
<1> QED
  BY <1>4, <1>5, <1>6

LEMMA RecvRequestVoteResponseKeeps ==
  ASSUME IInv, NEW id \in Id, NEW term \in 1..MaxTerm, RecvRequestVoteResponse(id, term)
  PROVE  IInv'
<1> DEFINE s == NewTerm(Sys, term)
           q == [Sys.raft EXCEPT !.votes = @ \cup {id}]
           c == [Sys EXCEPT !.raft = q]
           t == CountVotes(c)
<1>1. Running /\ phase' = phase /\ posted' = posted /\ granted' = granted
  BY DEF RecvRequestVoteResponse, CheckRaftState, Running, ThreadVars
<1>2. term \in Nat
  BY MraftAssumption
<1>3. Becomes(s) \/ Becomes(t)
  BY DEF RecvRequestVoteResponse, Sys
<1>4. CASE Becomes(s)
  <2>1. Good(s, granted')
    BY <1>1, <1>2, NewTermKeeps
  <2> HIDE DEF s
  <2> QED
    BY <1>1, <1>4, <2>1, BecomesGood DEF IInv, Running, VoteOnce
<1>5. CASE Becomes(t)
  <2>1. SysOK(Sys)
    BY <1>1, SysGood
  <2>2. RaftSame(Sys.raft, q)
    BY <2>1 DEF RaftSame, SysOK, RaftOK, NewServer
  <2> HIDE DEF q
  <2>3. Same(Sys, c)
    BY <2>1, <2>2, WithRaft
  <2> HIDE DEF c
  <2>4. Same(c, t)
    BY <2>3, CountVotesSame DEF Same
  <2> HIDE DEF t
  <2>5. Same(Sys, t)
    BY <2>3, <2>4, SameTransitive
  <2> QED
    BY <1>1, <1>5, <2>5, HandlerKeeps DEF IInv
<1> QED
  BY <1>3, <1>4, <1>5

\* A leader's message carries at most one entry.
LEMMA EntriesRequestType ==
  ASSUME IInv, NEW m \in EntriesRequest
  PROVE  /\ m.term \in Nat /\ m.prevIdx \in Int
         /\ m.ents = <<>> \/ (Len(m.ents) = 1 /\ m.ents[1] \in Entry)
<1>1. PICK t \in 1..MaxTerm, i \in PrevIndexes : m \in EntriesAfter(t, i)
  BY DEF EntriesRequest
<1>2. m.term = t /\ m.prevIdx = i /\ m.ents \in SentEntries(t, i + 1)
  BY <1>1 DEF EntriesAfter
<1>3. m.term \in Nat /\ m.prevIdx \in Int
  BY <1>2, MraftAssumption DEF PrevIndexes
<1>4. FirstEntry \in Entry
  BY MraftAssumption DEF FirstEntry, Entry, EntryType, Arg, Id
<1>5. ASSUME NEW e \in PeerEntry \cup ChangeEntry PROVE e \in Entry
  BY MraftAssumption DEF PeerEntry, ChangeEntry, Entry, EntryType, Arg
<1>6. m.ents = <<>> \/ \E e \in Entry : m.ents = <<e>>
  BY <1>2, <1>4, <1>5 DEF SentEntries
<1>7. ASSUME NEW e \in Entry, m.ents = <<e>> PROVE Len(m.ents) = 1 /\ m.ents[1] \in Entry
  BY <1>7
<1> QED
  BY <1>3, <1>6, <1>7, Zenon

LEMMA RecvAppendEntriesKeeps ==
  ASSUME IInv, NEW m \in EntriesRequest, RecvAppendEntries(m) PROVE IInv'
<1> DEFINE s == NewTerm(Sys, m.term)
           q == BecomeFollower(s.raft)
           c == [s EXCEPT !.raft = q]
           t == AcceptEntries(c, m)
<1>1. Running /\ phase' = phase /\ posted' = posted /\ granted' = granted
  BY DEF RecvAppendEntries, CheckRaftState, Running, ThreadVars
<1>2. Good(s, granted')
  BY <1>1, EntriesRequestType, NewTermKeeps
<1>3. Becomes(s) \/ Becomes(t)
  BY DEF RecvAppendEntries
<1> HIDE DEF s
<1>4. RaftSame(s.raft, q)
  BY <1>2, BecomeFollowerSame DEF Good, SysOK
<1> HIDE DEF q
<1>5. Same(s, c)
  BY <1>2, <1>4, WithRaft DEF Good
<1> HIDE DEF c
<1>6. Same(c, t)
  BY <1>5, EntriesRequestType, AcceptEntriesSame DEF Same
<1> HIDE DEF t
<1>7. Good(t, granted')
  BY <1>2, <1>5, <1>6, GoodSame
<1> QED
  BY <1>1, <1>2, <1>3, <1>7, BecomesGood DEF IInv, Running, VoteOnce

LEMMA RecvAppendEntriesResponseKeeps ==
  ASSUME IInv, NEW id \in Id, NEW idx, RecvAppendEntriesResponse(id, idx) PROVE IInv'
<1> DEFINE q == [Sys.raft EXCEPT !.match[id] = idx]
           c == [Sys EXCEPT !.raft = q]
           acked == AdvanceCommit(c)
           more == RecvRaftEntry(acked, "add", id)
           p == [more.raft EXCEPT !.enough = @ \cup {id}]
           told == [more EXCEPT !.raft = p]
           t == ApplyAll(told)
           u == ApplyAll(acked)
<1>1. Running /\ phase' = phase /\ posted' = posted /\ granted' = granted
  BY DEF RecvAppendEntriesResponse, CheckRaftState, Running, ThreadVars
<1>2. Becomes(t) \/ Becomes(u)
  BY DEF RecvAppendEntriesResponse, AddNodeHasSufficientLogs, AppendConfigChange
<1>3. SysOK(Sys)
  BY <1>1, SysGood
<1>4. RaftSame(Sys.raft, q)
  BY <1>3 DEF RaftSame, SysOK, RaftOK, NewServer
<1> HIDE DEF q
<1>5. Same(Sys, c)
  BY <1>3, <1>4, WithRaft
<1> HIDE DEF c
<1>6. Same(c, acked)
  BY <1>5, AdvanceCommitSame DEF Same
<1> HIDE DEF acked
<1>7. Same(acked, more)
  BY <1>6, RecvRaftEntrySame DEF Same, EntryType, Arg
<1> HIDE DEF more
<1>8. Same(more, told)
  <2>1. RaftSame(more.raft, p) /\ SysOK(more)
    BY <1>7 DEF RaftSame, Same, SysOK, RaftOK, NewServer
  <2> HIDE DEF p
  <2> QED
    BY <2>1, WithRaft
<1> HIDE DEF told
<1>9. Same(told, t) /\ Same(acked, u)
  BY <1>6, <1>8, ApplyAllSame DEF Same
<1> HIDE DEF t, u
<1>10. Same(Sys, acked)
  BY <1>5, <1>6, SameTransitive
<1>11. Same(Sys, t)
  <2>1. Same(Sys, more)
    BY <1>7, <1>10, SameTransitive
  <2>2. Same(Sys, told)
    BY <1>8, <2>1, SameTransitive
  <2> QED
    BY <1>9, <2>2, SameTransitive
<1>12. Same(Sys, u)
  BY <1>9, <1>10, SameTransitive
<1> QED
  BY <1>1, <1>2, <1>11, <1>12, HandlerKeeps DEF IInv

LEMMA RecvNodeJoinKeeps == ASSUME IInv, RecvNodeJoin PROVE IInv'
<1>1. PICK id \in Id : Becomes(RecvRaftEntry(DoAddNode(Sys, id), "addnv", id))
  BY DEF RecvNodeJoin, AppendConfigChange
<1> DEFINE a == DoAddNode(Sys, id)
           t == RecvRaftEntry(a, "addnv", id)
<1>2. Running /\ phase' = phase /\ posted' = posted /\ granted' = granted /\ Becomes(t)
  BY <1>1 DEF RecvNodeJoin, CheckRaftState, Running, ThreadVars
<1>3. Same(Sys, a)
  BY <1>2, SysGood, DoAddNodeSame
<1> HIDE DEF a
<1>4. Same(a, t)
  BY <1>3, RecvRaftEntrySame DEF Same, EntryType, Arg
<1> HIDE DEF t
<1> QED
  BY <1>2, <1>3, <1>4, SameTransitive, HandlerKeeps DEF IInv

LEMMA RemoveNodeKeeps == ASSUME IInv, NEW id \in Id, RemoveNode(id) PROVE IInv'
<1> DEFINE t == RecvRaftEntry(Sys, "remove", id)
<1>1. Running /\ phase' = phase /\ posted' = posted /\ granted' = granted /\ Becomes(t)
  BY DEF RemoveNode, CheckRaftState, Running, ThreadVars, AppendConfigChange
<1>2. Same(Sys, t)
  BY <1>1, SysGood, RecvRaftEntrySame DEF EntryType, Arg
<1> HIDE DEF t
<1> QED
  BY <1>1, <1>2, HandlerKeeps DEF IInv

LEMMA ClientKeeps ==
  ASSUME IInv, NEW c \in Client, RecvEntry(c) \/ PostEntry(c) PROVE IInv'
<1>1. UNCHANGED <<phase, raft, meta, saved, granted>> /\ log' = log
  BY DEF RecvEntry, PostEntry
<1>2. posted' \in Seq(Client \cup {Stop})
  BY SMTT(30) DEF RecvEntry, PostEntry, IInv, ThreadVars
<1>3. LogOK(log)
  BY DEF IInv, SysOK, Sys
<1> QED
  BY <1>1, <1>2, <1>3, OtherKeeps

LEMMA HandleEntryKeeps == ASSUME IInv, HandleEntry PROVE IInv'
<1> DEFINE c == Head(posted)
           s == RecvRaftEntry(Sys, "normal", c)
           done == IF TakesEntry(Sys, "normal") THEN [st |-> "logged", idx |-> LastIdx(s.log)]
                   ELSE [st |-> "error", idx |-> 0]
           t == [s EXCEPT !.client[c] = done]
<1>1. Running /\ phase' = phase /\ granted' = granted /\ Becomes(t)
  BY DEF HandleEntry
<1>2. posted \in Seq(Client \cup {Stop}) /\ posted # <<>> /\ posted' = Tail(posted)
  BY DEF HandleEntry, IInv
<1>3. c \in Client /\ posted' \in Seq(Client \cup {Stop})
  <2>1. c \in Client \cup {Stop} /\ posted' \in Seq(Client \cup {Stop})
    BY <1>2
  <2>2. c # Stop
    BY DEF HandleEntry
  <2> QED
    BY <2>1, <2>2
<1> HIDE DEF c
<1>4. Same(Sys, s)
  BY <1>1, <1>3, SysGood, RecvRaftEntrySame DEF EntryType, Arg
<1> HIDE DEF s, done
<1>5. Same(Sys, t)
  BY <1>4 DEF Same, SysOK
<1> HIDE DEF t
<1> QED
  BY <1>1, <1>3, <1>5, HandlerKeeps

LEMMA ShutdownKeeps == ASSUME IInv, Shutdown PROVE IInv'
<1>1. /\ UNCHANGED <<raft, meta, saved, granted>> /\ log' = log /\ phase = "up"
      /\ phase' = "stopping" /\ posted' = Append(posted, Stop)
  BY SMTT(30) DEF Shutdown
<1>2. LogOK(log)
  BY Zenon DEF IInv, SysOK, Sys
<1>3. posted \in Seq(Client \cup {Stop})
  BY Zenon DEF IInv
<1>4. Append(posted, Stop) \in Seq(Client \cup {Stop})
  BY <1>3
<1> QED
  BY <1>1, <1>2, <1>4, OtherKeeps

\* Only the files survive.
LEMMA ForgetKeeps == ASSUME IInv, Forget PROVE IInv'
<1>1. /\ saved' = saved /\ log' = log /\ granted' = granted /\ phase' = "down"
      /\ raft' = NewServer /\ meta' = NewMeta /\ posted' = <<>>
  BY DEF Forget
<1>2. SysOK(Sys)'
  BY <1>1, Zenon DEF IInv, SysOK, Sys, RaftOK, MetaOK, NewServer, NewMeta
<1>3. posted' \in Seq(Client \cup {Stop})
  BY <1>1
<1> QED
  BY <1>1, <1>2, <1>3 DEF IInv, Running, VoteOnce

LEMMA SnapshotKeeps ==
  ASSUME IInv, DoSaveSnapshot \/ SnapshotThread \/ SnapshotDone PROVE IInv'
<1>1. UNCHANGED <<phase, raft, meta, saved, granted, posted>>
  BY DEF DoSaveSnapshot, SnapshotThread, SnapshotDone
<1>2. \/ log' = log
      \/ log' = raftLogPoll(log, snapper.upto + 1)
  BY SMTT(30) DEF DoSaveSnapshot, SnapshotThread, SnapshotDone
<1>3. LogOK(log)
  BY DEF IInv, SysOK, Sys
<1>4. LogOK(log')
  BY <1>2, <1>3 DEF LogOK, raftLogPoll
<1> QED
  BY <1>1, <1>4, OtherKeeps DEF IInv

-----------------------------------------------------------------------------
LEMMA InitIInv == Init => IInv
<1> SUFFICES ASSUME Init PROVE IInv
  BY SMTT(30)
<1>1. RaftOK(raft) /\ MetaOK(meta) /\ SavedOK(saved)
  BY ZenonT(30) DEF Init, RaftOK, MetaOK, SavedOK, NewServer, NewMeta
<1>2. LogOK(log)
  <2>1. log = [base |-> 0, ents |-> <<>>]
    BY DEF Init
  <2> QED
    BY <2>1, SMTT(30) DEF LogOK
<1>3. SysOK(Sys)
  BY <1>1, <1>2 DEF Sys, SysOK
<1> QED
  BY <1>3 DEF Init, IInv, VoteOnce, Running

LEMMA NextIInv ==
  ASSUME "stale_term" \notin Faults, IInv, [Next]_vars PROVE IInv'
<1>1. CASE UNCHANGED vars
  BY <1>1 DEF vars, IInv, Sys, VoteOnce, Running
<1>2. CASE InitCreate \/ InitJoin \/ JoinRefused \/ InitLoad \/ \E id \in Id \ {1} : JoinAccepted(id)
  BY <1>2, InitCreateKeeps, InitJoinKeeps, JoinRefusedKeeps, InitLoadKeeps, JoinAcceptedKeeps
<1>3. CASE Routine \/ StartElection \/ \E m \in VoteRequest : RecvRequestVote(m)
  BY <1>3, RoutineKeeps, StartElectionKeeps, RecvRequestVoteKeeps
<1>4. CASE \E id \in Id, term \in 1..MaxTerm : RecvRequestVoteResponse(id, term)
  BY <1>4, RecvRequestVoteResponseKeeps
<1>5. CASE \E m \in EntriesRequest : RecvAppendEntries(m)
  BY <1>5, RecvAppendEntriesKeeps
<1>6. CASE \E id \in Id, idx \in 1..MaxLog : RecvAppendEntriesResponse(id, idx)
  BY <1>6, RecvAppendEntriesResponseKeeps
<1>7. CASE RecvNodeJoin \/ \E id \in Id : RemoveNode(id)
  BY <1>7, RecvNodeJoinKeeps, RemoveNodeKeeps
<1>8. CASE HandleEntry \/ \E c \in Client : RecvEntry(c) \/ PostEntry(c)
  BY <1>8, ClientKeeps, HandleEntryKeeps
<1>9. CASE Shutdown \/ StopLoop \/ Crash
  BY <1>9, ShutdownKeeps, ForgetKeeps DEF StopLoop, Crash
<1>10. CASE DoSaveSnapshot \/ SnapshotThread \/ SnapshotDone
  BY <1>10, SnapshotKeeps
<1> QED
  BY <1>1, <1>2, <1>3, <1>4, <1>5, <1>6, <1>7, <1>8, <1>9, <1>10, SMTT(30) DEF Next

\* In one term a node votes for one candidate, itself included, over any
\* number of crashes and restarts, provided it is not started from a meta file
\* whose term is behind a vote it gave (PersistTerm and PersistVote save the
\* vote with the term of the last applied entry, which may be such a term).
THEOREM VotesOnce == ASSUME "stale_term" \notin Faults PROVE Spec => []VoteOnce
<1>1. IInv => VoteOnce
  BY DEF IInv
<1>2. IInv /\ [Next]_vars => IInv'
  BY NextIInv
<1> QED
  BY <1>1, <1>2, InitIInv, PTL DEF Spec
=============================================================================

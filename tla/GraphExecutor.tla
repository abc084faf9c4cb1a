--------------------------- MODULE GraphExecutor ---------------------------
(***************************************************************************)
(* The didagle executor: VertexContext and GraphContext of                 *)
(* didagle/graph_executor.{h,cpp}, for one call of GraphManager::Execute.  *)
(*                                                                         *)
(* Every vertex is a strand of control of its own.  That is exact: a       *)
(* thread that finishes a vertex does the bookkeeping of OnVertexDone,     *)
(* hands the vertices that became ready to the concurrent executor, keeps  *)
(* one for itself and runs it as its very last act, so the strands of two  *)
(* vertices share nothing but the atomics and the dependency slots.  The   *)
(* strand of a graph is the call of GraphContext::Execute.                 *)
(*                                                                         *)
(* The processors themselves are external: a processor returns zero or     *)
(* not, at any later time, on any thread (sync, future and coroutine       *)
(* modes), and a future or a coroutine may end in an exception, in which   *)
(* case the continuation that finishes the vertex is never called.         *)
(***************************************************************************)
EXTENDS Integers, FiniteSets

CONSTANTS
  Vertex, Graph, Root, GraphOf, Deps, Expected,
  SubGraph,      \* SubGraph[v]: the graph v runs, NoGraph if it does not exist
  NoGraph,
  Processor,     \* vertices with a processor; the others run a subgraph
  NonIO,         \* vertices that ExecuteReadyVertexs may keep for itself
  IgnoreError,   \* ignore_processor_execute_error and not a condition
  MaySkip,       \* vertices with an expect_config
  Rejectable,    \* vertices whose future or coroutine may throw
  HasDeadline    \* the caller gave a timeout

Result == {"ok", "err"}
VertexOf(g) == {v \in Vertex : GraphOf[v] = g}
Succ(v) == {w \in Vertex : v \in Deps[w]}
StartVertex(g) == {v \in VertexOf(g) : Deps[v] = {}}
Strand == Vertex \cup Graph

ASSUME GraphAssumption ==
  /\ IsFiniteSet(Vertex)
  /\ Root \in Graph /\ NoGraph \notin Graph
  /\ Vertex \cap Graph = {}
  /\ GraphOf \in [Vertex -> Graph]
  /\ Deps \in [Vertex -> SUBSET Vertex]
  /\ \A v \in Vertex : \A d \in Deps[v] : GraphOf[d] = GraphOf[v]
  /\ Expected \in [Vertex -> [Vertex -> SUBSET Result]]
  /\ SubGraph \in [Vertex -> Graph \cup {NoGraph}]

\* A context taken from the pool serves one vertex of one run: a graph has at
\* most one parent, a vertex with a processor runs no subgraph, and the root
\* graph runs on behalf of nobody.
ASSUME ContextAssumption ==
  /\ \A v, w \in Vertex : SubGraph[v] = SubGraph[w] /\ SubGraph[v] # NoGraph => v = w
  /\ \A v \in Processor : SubGraph[v] = NoGraph
  /\ \A v \in Vertex : SubGraph[v] # Root
  /\ Processor \subseteq Vertex /\ HasDeadline \in BOOLEAN

VARIABLES
  pc,               \* where each strand is
  deps_results,     \* deps_results[v][d]: VertexContext::_deps_results
  waiting_num,      \* VertexContext::_waiting_num
  result,           \* VertexContext::_result
  join_vertex_num,  \* GraphContext::_join_vertex_num
  todo,             \* successors that OnVertexDone has still to visit
  cur,              \* the successor it is visiting
  ready,            \* ready_successors, or _start_ctxs for a graph's strand
  done,             \* how often the done closure of a graph was called
  expired           \* ustime() has reached _end_ustime

vars == <<pc, deps_results, waiting_num, result, join_vertex_num, todo, cur,
          ready, done, expired>>

\* VertexContext::Reset and GraphContext::Reset: the state in which a context
\* leaves the pool.
Init ==
  /\ pc = [s \in Strand |-> "idle"]
  /\ deps_results = [v \in Vertex |-> [d \in Vertex |-> "invalid"]]
  /\ waiting_num = [v \in Vertex |-> Cardinality(Deps[v])]
  /\ result = [v \in Vertex |-> "invalid"]
  /\ join_vertex_num = [g \in Graph |-> Cardinality(VertexOf(g))]
  /\ todo = [v \in Vertex |-> {}]
  /\ cur = [v \in Vertex |-> v]
  /\ ready = [s \in Strand |-> {}]
  /\ done = [g \in Graph |-> 0]
  /\ expired = FALSE

\* GraphContext::Execute on the root graph.
ExecuteRoot ==
  /\ pc[Root] = "idle"
  /\ pc' = [pc EXCEPT ![Root] = "dispatch"]
  /\ ready' = [ready EXCEPT ![Root] = StartVertex(Root)]
  /\ UNCHANGED <<deps_results, waiting_num, result, join_vertex_num, todo, cur, done, expired>>

-----------------------------------------------------------------------------
\* Mistake: a posted vertex stays in the ready list.
PostVertex_Keeps(s, w) ==
  /\ pc[s] = "dispatch"
  /\ w \in ready[s] /\ ready[s] # {w}
  /\ ready[s] \cap NonIO # {w}
  /\ pc' = [pc EXCEPT ![w] = "ready"]
  /\ UNCHANGED <<deps_results, waiting_num, result, join_vertex_num, todo, cur, ready, done, expired>>

\* GraphContext::ExecuteReadyVertexs.  All but one of the ready vertices are
\* posted; the one kept is not an IO vertex if there is a choice.
PostVertex(s, w) ==
  /\ pc[s] = "dispatch"
  /\ w \in ready[s] /\ ready[s] # {w}
  /\ ready[s] \cap NonIO # {w}
  /\ pc' = [pc EXCEPT ![w] = "ready"]
  /\ ready' = [ready EXCEPT ![s] = @ \ {w}]
  /\ UNCHANGED <<deps_results, waiting_num, result, join_vertex_num, todo, cur, done, expired>>

RunLocal(s, w) ==
  /\ pc[s] = "dispatch" /\ ready[s] = {w}
  /\ pc' = [pc EXCEPT ![s] = "over", ![w] = "ready"]
  /\ ready' = [ready EXCEPT ![s] = {}]
  /\ UNCHANGED <<deps_results, waiting_num, result, join_vertex_num, todo, cur, done, expired>>

NothingReady(s) ==
  /\ pc[s] = "dispatch" /\ ready[s] = {}
  /\ pc' = [pc EXCEPT ![s] = "over"]
  /\ UNCHANGED <<deps_results, waiting_num, result, join_vertex_num, todo, cur, ready, done, expired>>

-----------------------------------------------------------------------------
\* VertexContext::Execute.

\* Mistake: the results that the edges expect are not compared.
MatchDeps_AnyResult(v) == \A d \in Deps[v] : deps_results[v][d] \in Result

\* Every dependency has a result, and one that the edge expects.
MatchDeps(v) == \A d \in Deps[v] : deps_results[v][d] \in Expected[v][d]

\* FinishVertexProcess up to its call of OnVertexDone.
FinishWith(v, r) ==
  /\ result' = [result EXCEPT ![v] = r]
  /\ UNCHANGED <<deps_results, waiting_num, join_vertex_num, todo, cur, done, expired>>

\* The vertex is passed over: a dependency ended otherwise than expected, the
\* config it expects is off, the deadline has passed, or the graph it should
\* run is not there (which is an error, -1).
SkipVertex(v) ==
  /\ pc[v] = "ready"
  /\ \/ ~MatchDeps(v)
     \/ v \in MaySkip
     \/ expired
     \/ v \notin Processor /\ SubGraph[v] = NoGraph
  /\ pc' = [pc EXCEPT ![v] = "finish"]
  /\ UNCHANGED ready
  /\ FinishWith(v, "err")

ExecuteProcessor(v) ==
  /\ pc[v] = "ready"
  /\ v \in Processor /\ MatchDeps(v) /\ ~expired
  /\ pc' = [pc EXCEPT ![v] = "running"]
  /\ UNCHANGED <<deps_results, waiting_num, result, join_vertex_num, todo, cur, ready, done, expired>>

\* ExecuteSubGraph: the nested GraphContext::Execute begins on this thread.
ExecuteSubGraph(v) ==
  /\ pc[v] = "ready"
  /\ v \notin Processor /\ SubGraph[v] # NoGraph /\ MatchDeps(v) /\ ~expired
  /\ pc' = [pc EXCEPT ![v] = "running", ![SubGraph[v]] = "dispatch"]
  /\ ready' = [ready EXCEPT ![SubGraph[v]] = StartVertex(SubGraph[v])]
  /\ UNCHANGED <<deps_results, waiting_num, result, join_vertex_num, todo, cur, done, expired>>

\* The processor returned, threw (sync) or its continuation ran (async).
ProcessorReturns(v) ==
  /\ pc[v] = "running" /\ v \in Processor
  /\ pc' = [pc EXCEPT ![v] = "finish"]
  /\ UNCHANGED ready
  /\ \E rc \in Result : FinishWith(v, IF v \in IgnoreError THEN "ok" ELSE rc)

\* The future or the coroutine ended in an exception: thenValue's continuation
\* is not run and nobody finishes the vertex.
ProcessorRejects(v) ==
  /\ pc[v] = "running" /\ v \in Rejectable \cap Processor
  /\ pc' = [pc EXCEPT ![v] = "lost"]
  /\ UNCHANGED <<deps_results, waiting_num, result, join_vertex_num, todo, cur, ready, done, expired>>

-----------------------------------------------------------------------------
\* GraphContext::OnVertexDone.

\* Mistake: the nested graph is run without a done closure.
ParentOf_NoClosure(g) == {p \in Vertex : FALSE}

\* The vertices that end with the done closure of g: the one that runs g.
ParentOf(g) == {p \in Vertex : SubGraph[p] = g}

\* Mistake: the count is compared after the decrement.
JoinLast_Early(v) ==
  LET g == GraphOf[v] IN
  /\ pc[v] = "finish" /\ join_vertex_num[g] = 2
  /\ join_vertex_num' = [join_vertex_num EXCEPT ![g] = 1]
  /\ done' = [done EXCEPT ![g] = @ + 1]
  /\ pc' = [s \in Strand |-> IF s = v THEN "over"
                             ELSE IF s \in ParentOf(g) THEN "finish" ELSE pc[s]]
  /\ result' = [w \in Vertex |-> IF w \in ParentOf(g) THEN "ok" ELSE result[w]]
  /\ UNCHANGED <<deps_results, waiting_num, todo, cur, ready, expired>>

\* fetch_sub returned 1: this thread calls _done(0), which for a subgraph is
\* FinishVertexProcess(0) of the vertex that runs it.
JoinLast(v) ==
  LET g == GraphOf[v] IN
  /\ pc[v] = "finish" /\ join_vertex_num[g] = 1
  /\ join_vertex_num' = [join_vertex_num EXCEPT ![g] = 0]
  /\ done' = [done EXCEPT ![g] = @ + 1]
  /\ pc' = [s \in Strand |-> IF s = v THEN "over"
                             ELSE IF s \in ParentOf(g) THEN "finish" ELSE pc[s]]
  /\ result' = [w \in Vertex |-> IF w \in ParentOf(g) THEN "ok" ELSE result[w]]
  /\ UNCHANGED <<deps_results, waiting_num, todo, cur, ready, expired>>

JoinNotLast(v) ==
  LET g == GraphOf[v] IN
  /\ pc[v] = "finish" /\ join_vertex_num[g] # 1
  /\ join_vertex_num' = [join_vertex_num EXCEPT ![g] = @ - 1]
  /\ pc' = [pc EXCEPT ![v] = IF Succ(v) = {} THEN "dispatch" ELSE "notify"]
  /\ todo' = [todo EXCEPT ![v] = Succ(v)]
  /\ UNCHANGED <<deps_results, waiting_num, result, cur, ready, done, expired>>

\* Mistakes: the slot of the wrong edge is written; the test of the slot is
\* inverted.
WriteDependency_WrongSlot(v, w) ==
  /\ pc[v] = "notify" /\ w \in todo[v]
  /\ deps_results' = [deps_results EXCEPT ![w][w] = result[v]]
  /\ pc' = [pc EXCEPT ![v] = IF deps_results[w][v] = "invalid" THEN "sub" ELSE "load"]
  /\ cur' = [cur EXCEPT ![v] = w]
  /\ todo' = [todo EXCEPT ![v] = @ \ {w}]
  /\ UNCHANGED <<waiting_num, result, join_vertex_num, ready, done, expired>>

\* SetDependencyResult, first half: read the slot, then write it.  Slots are
\* plain memory; the order of the successors is that of an unordered_set.
WriteDependency(v, w) ==
  /\ pc[v] = "notify" /\ w \in todo[v]
  /\ deps_results' = [deps_results EXCEPT ![w][v] = result[v]]
  /\ pc' = [pc EXCEPT ![v] = IF deps_results[w][v] = "invalid" THEN "sub" ELSE "load"]
  /\ cur' = [cur EXCEPT ![v] = w]
  /\ todo' = [todo EXCEPT ![v] = @ \ {w}]
  /\ UNCHANGED <<waiting_num, result, join_vertex_num, ready, done, expired>>

\* Second half: fetch_sub, or load if the slot was already set.  A successor
\* whose count was 1 is ready.
CountDependency(v) ==
  LET w == cur[v] IN
  /\ pc[v] \in {"sub", "load"}
  /\ waiting_num' = IF pc[v] = "sub" THEN [waiting_num EXCEPT ![w] = @ - 1] ELSE waiting_num
  /\ ready' = IF waiting_num[w] = 1 THEN [ready EXCEPT ![v] = @ \cup {w}] ELSE ready
  /\ pc' = [pc EXCEPT ![v] = IF todo[v] = {} THEN "dispatch" ELSE "notify"]
  /\ UNCHANGED <<deps_results, result, join_vertex_num, todo, cur, done, expired>>

Expire ==
  /\ HasDeadline /\ ~expired
  /\ expired' = TRUE
  /\ UNCHANGED <<pc, deps_results, waiting_num, result, join_vertex_num, todo, cur, ready, done>>

-----------------------------------------------------------------------------
Dispatch(s) == NothingReady(s) \/ \E w \in Vertex : PostVertex(s, w) \/ RunLocal(s, w)

Step(v) ==
  \/ SkipVertex(v) \/ ExecuteProcessor(v) \/ ExecuteSubGraph(v)
  \/ ProcessorReturns(v)
  \/ JoinLast(v) \/ JoinNotLast(v)
  \/ \E w \in Vertex : WriteDependency(v, w)
  \/ CountDependency(v)

Next ==
  \/ ExecuteRoot
  \/ \E s \in Strand : Dispatch(s)
  \/ \E v \in Vertex : Step(v) \/ ProcessorRejects(v)
  \/ Expire

Spec == Init /\ [][Next]_vars

\* Threads run on, the concurrent executor runs what it is given, and a
\* processor that does not throw returns.
FairSpec ==
  /\ Spec
  /\ WF_vars(ExecuteRoot)
  /\ \A s \in Strand : WF_vars(Dispatch(s))
  /\ \A v \in Vertex : WF_vars(Step(v))

-----------------------------------------------------------------------------
\* Strands of vertices that have taken their share off the join count.
Joined == {"notify", "sub", "load", "dispatch", "over"}

\* d has counted itself off v.
Delivered(d, v) ==
  /\ pc[d] \in Joined
  /\ v \notin todo[d]
  /\ ~(pc[d] \in {"sub", "load"} /\ cur[d] = v)

Unjoined(g) == {v \in VertexOf(g) : pc[v] \notin Joined}
Undelivered(v) == {d \in Deps[v] : ~Delivered(d, v)}

TypeOK ==
  /\ pc \in [Strand -> {"idle", "ready", "running", "lost", "finish"} \cup Joined]
  /\ deps_results \in [Vertex -> [Vertex -> Result \cup {"invalid"}]]
  /\ waiting_num \in [Vertex -> Nat]
  /\ result \in [Vertex -> Result \cup {"invalid"}]
  /\ join_vertex_num \in [Graph -> Nat]
  /\ todo \in [Vertex -> SUBSET Vertex]
  /\ cur \in [Vertex -> Vertex]
  /\ ready \in [Strand -> SUBSET Vertex]
  /\ done \in [Graph -> Nat]
  /\ expired \in BOOLEAN

\* The two counters count what they should at every instant, whatever the
\* interleaving of OnVertexDone on several threads: _join_vertex_num the
\* vertices that are not through, _waiting_num of a vertex the dependencies
\* that have not counted themselves off.  In particular neither underflows.
CountersExact ==
  /\ \A g \in Graph : join_vertex_num[g] = Cardinality(Unjoined(g))
  /\ \A v \in Vertex : waiting_num[v] = Cardinality(Undelivered(v))

\* VertexContext::Execute is entered only when every dependency has finished,
\* and the slots it reads (plain memory, written by other threads) hold the
\* results those dependencies ended with.
DependenciesVisible ==
  \A v \in Vertex : pc[v] # "idle" =>
    \A d \in Deps[v] :
      /\ pc[d] \in Joined
      /\ result[d] \in Result
      /\ deps_results[v][d] = result[d]

\* A vertex waits in the ready list of at most one thread, and only before it
\* was ever handed out, so that no vertex is executed twice.
HeldOnce ==
  \A s, t \in Strand : \A v \in ready[s] :
    /\ pc[v] = "idle"
    /\ v \in ready[t] => s = t

\* The done closure of a graph is called at most once, and when it is called
\* every vertex is through and no thread is left with a successor to visit or
\* a vertex to hand out: what remains of the run is threads returning, so the
\* context may be reset.
DoneIsLast ==
  \A g \in Graph :
    /\ done[g] \in {0, 1}
    /\ done[g] = 1 =>
         /\ pc[g] \in {"dispatch", "over"} /\ ready[g] = {}
         /\ \A v \in VertexOf(g) : pc[v] \in {"dispatch", "over"} /\ ready[v] = {}

\* Execute() of a vertex context is called at most once per run: once a vertex
\* was handed out it is never handed out again.
ExecuteOnce ==
  [][\A v \in Vertex : pc[v] # "idle" => pc'[v] # "idle" /\ (pc'[v] = "ready" => pc[v] = "ready")]_vars

\* Every run completes: the done closure of the root graph is called, unless
\* an asynchronous processor was rejected.
Completion == <>(done[Root] = 1 \/ \E v \in Vertex : pc[v] = "lost")

\* The executor implements the promise of GraphRun: a vertex runs only when
\* its dependencies ended as its edges ask, within its graph's lifetime, and
\* a graph closes when all its vertices have ended.
statusBar ==
  [v \in Vertex |-> IF result[v] \in Result THEN result[v]
                    ELSE IF pc[v] \in {"running", "lost"} THEN "active" ELSE "pending"]
closedBar == [g \in Graph |-> done[g] > 0]
Abstract == INSTANCE GraphRun WITH status <- statusBar, closed <- closedBar
RefinesGraphRun == Abstract!Spec
=============================================================================

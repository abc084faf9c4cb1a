------------------------------ MODULE GraphRun ------------------------------
(***************************************************************************)
(* What one execution of a didagle graph promises, without the machinery   *)
(* that schedules it.  A graph is a set of vertices joined by dependency   *)
(* edges; an edge from d to v names the results of d under which v may     *)
(* run.  A vertex is either run or skipped, and ends "ok" or "err"; a      *)
(* skipped vertex ends "err".  A graph is closed, and its caller told so,  *)
(* once every one of its vertices has ended.  A vertex may stand for a     *)
(* whole nested graph: it is active while that graph runs and ends "ok"    *)
(* when that graph closes.                                                 *)
(***************************************************************************)
CONSTANTS
  Vertex,      \* vertices of all the graphs of one run
  Graph,       \* the graphs of one run: the root and the nested ones
  Root,        \* the graph that GraphManager::Execute was asked for
  GraphOf,     \* GraphOf[v]: the graph that holds v
  Deps,        \* Deps[v]: the vertices that v waits for
  Expected,    \* Expected[v][d]: the results of d under which v may run
  SubGraph     \* SubGraph[v]: the graph v stands for, or any other value

Result == {"ok", "err"}

VARIABLES status, closed

vars == <<status, closed>>

Ended(v) == status[v] \in Result

\* A nested graph runs on behalf of an active vertex.
Running(g) == g = Root \/ \E p \in Vertex : SubGraph[p] = g /\ status[p] = "active"

Init ==
  /\ status = [v \in Vertex |-> "pending"]
  /\ closed = [g \in Graph |-> FALSE]

\* A vertex starts once all it waits for has ended as its edges ask.
Begin(v) ==
  /\ status[v] = "pending"
  /\ Running(GraphOf[v])
  /\ \A d \in Deps[v] : status[d] \in Expected[v][d]
  /\ status' = [status EXCEPT ![v] = "active"]
  /\ UNCHANGED closed

\* A vertex may be passed over, but not before all it waits for has ended.
Skip(v) ==
  /\ status[v] = "pending"
  /\ Running(GraphOf[v])
  /\ \A d \in Deps[v] : Ended(d)
  /\ status' = [status EXCEPT ![v] = "err"]
  /\ UNCHANGED closed

End(v) ==
  /\ status[v] = "active"
  /\ SubGraph[v] \notin Graph
  /\ \E r \in Result : status' = [status EXCEPT ![v] = r]
  /\ UNCHANGED closed

\* The last vertex of g has ended; the vertex that g was run for ends "ok".
Close(g) ==
  /\ ~closed[g]
  /\ Running(g)
  /\ \A v \in Vertex : GraphOf[v] = g => Ended(v)
  /\ closed' = [closed EXCEPT ![g] = TRUE]
  /\ status' = [v \in Vertex |-> IF SubGraph[v] = g THEN "ok" ELSE status[v]]

Next ==
  \/ \E v \in Vertex : Begin(v) \/ Skip(v) \/ End(v)
  \/ \E g \in Graph : Close(g)

Spec == Init /\ [][Next]_vars
=============================================================================

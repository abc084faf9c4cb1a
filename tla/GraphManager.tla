---------------------------- MODULE GraphManager ----------------------------
(***************************************************************************)
(* didagle's GraphManager: clusters are loaded and replaced, executions    *)
(* take a context from the pool of the cluster, run its vertices over      *)
(* injected data and give the context back through the reset worker        *)
(* (graph.cpp, graph_executor.cpp, graph_processor.cpp,                    *)
(* graph_processor_api.h, graph_processor_di.cpp).                         *)
(*                                                                         *)
(* A vertex runs in two steps, Execute up to the call of its processor and *)
(* what follows the processor's return; the counting between them is the   *)
(* subject of GraphExecutor.  Memory is explicit: mem.cl are the           *)
(* GraphCluster objects ever built, mem.cx the GraphClusterContext objects *)
(* ever made, and an object is freed where the code frees it.              *)
(*                                                                         *)
(* A value is the pointer kept in a DataValue: <<run, graph, vertex>>      *)
(* names the object a vertex wrote in a run, <<run, "", 0>> one of the     *)
(* caller's, Null none.                                                    *)
(***************************************************************************)
EXTENDS GraphBuild

CONSTANTS
  Files,       \* cluster name -> the texts its file may hold
  MaxLoads,    \* bound: loads, over all clusters
  Run,         \* the executions: 1 .. n
  Calls,       \* execution -> the (cluster, graph) pairs it may ask for
  Given,       \* the keys of the caller's data context
  Params,      \* the caller's params: variable -> name
  Timed,       \* the executions that have a timeout
  MayFail      \* processors whose execution may return an error

VARIABLES
  table,       \* GraphManager::_graphs: cluster name -> cluster, 0 if none
  mem,         \* [cl, cx, ext]: clusters, contexts, and run -> the caller's data context
  runs,        \* run -> [state, ctx]
  resets       \* what AsyncResetWorker was given: contexts on their way back

vars == <<table, mem, runs, resets>>

Null == <<0, "", 0>>
NoRef == <<0, "">>     \* a data context: <<c, graph>> of a context, <<-r, "">> of the caller of run r

-----------------------------------------------------------------------------
\* The state of a GraphContext between executions: GraphContext::Reset,
\* VertexContext::Reset and GraphDataContext::Reset.  An entry that Set
\* created is in the table and not in the array, and stays.

\* Mistake: the data of the last execution stay.
ResetData_Keeps(gc) == [gc EXCEPT !.parent = NoRef, !.child = [v \in DOMAIN @ |-> NoRef], !.frozen = FALSE]

ResetData(gc) ==
  [gc EXCEPT !.data = [k \in DOMAIN @ |-> Null], !.parent = NoRef, !.child = [v \in DOMAIN @ |-> NoRef],
             !.frozen = FALSE]

\* Mistake: the vertex keeps the context it took.
ResetVertex_KeepsSub(gc, v) ==
  [gc EXCEPT !.st[v] = "wait", !.result[v] = "none", !.in[v] = <<>>, !.params[v] = <<>>]

ResetVertex(gc, v) ==
  [gc EXCEPT !.st[v] = "wait", !.result[v] = "none", !.sub[v] = 0, !.in[v] = <<>>, !.params[v] = <<>>]

NewGraphContext(set) ==
  LET vs == DOMAIN set.vertex IN
  [st |-> [v \in vs |-> "wait"], result |-> [v \in vs |-> "none"], sub |-> [v \in vs |-> 0], in |-> [v \in vs |-> <<>>],
   params |-> [v \in vs |-> <<>>], data |-> [k \in set.keys |-> Null], extra |-> <<>>, parent |-> NoRef,
   child |-> [v \in 1 .. Max(vs) |-> NoRef], frozen |-> FALSE]

\* GraphCluster::GetContext makes one when the pool has none; its Setup's
\* result is not looked at.
NewContext(cl, i) ==
  LET set == cl[i].built.setup.graphs IN
  [owner |-> i, running |-> 0, run |-> 0, params |-> <<>>, extern |-> NoRef, timed |-> FALSE, graph |-> "",
   gs |-> [n \in DOMAIN set |-> NewGraphContext(set[n])]]

Freed == [owner |-> 0, running |-> 0, run |-> 0, params |-> <<>>, extern |-> NoRef, timed |-> FALSE, graph |-> "",
          gs |-> <<>>]

\* ~GraphCluster, for every cluster whose last reference is gone: the contexts
\* in its pool are deleted with it.
Sweep(t, m) ==
  LET gone == {i \in DOMAIN m.cl : /\ m.cl[i].alive /\ \A n \in DOMAIN t : t[n] # i
                                   /\ \A c \in DOMAIN m.cx : m.cx[c].running # i}
      dead == UNION {Range(m.cl[i].pool) : i \in gone}
  IN [m EXCEPT !.cl = [i \in DOMAIN @ |-> IF i \in gone THEN [@[i] EXCEPT !.alive = FALSE, !.pool = <<>>] ELSE @[i]],
               !.cx = [c \in DOMAIN @ |-> IF c \in dead THEN Freed ELSE @[c]]]

SetRunningCluster(cx, i, r) == [cx EXCEPT !.running = i, !.run = r]

\* GraphManager::GetGraphClusterContext: [m, c], c = 0 if there is no such
\* cluster.  run is of the model only.
GetGraphClusterContext(t, m, name, r) ==
  LET i == IF name \in DOMAIN t THEN t[name] ELSE 0 IN
  IF i = 0 THEN [m |-> m, c |-> 0]
  ELSE IF m.cl[i].pool # <<>>
    THEN LET c == Head(m.cl[i].pool) IN
         [m |-> [m EXCEPT !.cl[i].pool = Tail(@), !.cx[c] = SetRunningCluster(@, i, r)], c |-> c]
    ELSE [m |-> [m EXCEPT !.cx = Append(@, SetRunningCluster(NewContext(m.cl, i), i, r))], c |-> Len(m.cx) + 1]

-----------------------------------------------------------------------------
Init ==
  /\ table = [n \in DOMAIN Files |-> 0]
  /\ mem = [cl |-> <<>>, cx |-> <<>>, ext |-> [r \in Run |-> [k \in Given |-> <<r, "", 0>>]]]
  /\ runs = [r \in Run |-> [state |-> "none", ctx |-> 0]]
  /\ resets = {}

\* What the texts of each file are built into.
Library == UNION {UNION {{<<n, b>> : b \in {x \in BuildCluster(f) : x.rc = 0}} : f \in Files[n]} : n \in DOMAIN Files}

\* GraphManager::Load with GraphCluster::Build: the pool is filled and the
\* table's reference replaced; a file that does not build changes nothing.
\* The search for circles may overflow the stack, which ends the process:
\* such a step is not taken.
Load(n) ==
  /\ Len(mem.cl) < MaxLoads
  /\ \E x \in Library :
       /\ x[1] = n
       /\ LET i == Len(mem.cl) + 1
              size == x[2].def.pool
              cl == Append(mem.cl, [name |-> n, built |-> x[2], pool |-> [j \in 1 .. size |-> Len(mem.cx) + j], alive |-> TRUE])
              t == [table EXCEPT ![n] = i]
          IN /\ table' = t
             /\ mem' = Sweep(t, [mem EXCEPT !.cl = cl, !.cx = @ \o [j \in 1 .. size |-> NewContext(cl, i)]])
  /\ UNCHANGED <<runs, resets>>

-----------------------------------------------------------------------------
\* GraphDataContext.

\* The entry of a key: registered beforehand, or created by Set.
Own(m, ref, key) ==
  IF ref[1] < 0 THEN (IF key \in DOMAIN m.ext[-ref[1]] THEN m.ext[-ref[1]][key] ELSE Null)
  ELSE LET gc == m.cx[ref[1]].gs[ref[2]] IN
       IF key \in DOMAIN gc.data THEN gc.data[key] ELSE IF key \in DOMAIN gc.extra THEN gc.extra[key] ELSE Null

\* Where Get and Move go on: the parent first, then the children in the order
\* of their places.
Around(m, ref) ==
  IF ref[1] < 0 THEN <<>>
  ELSE LET gc == m.cx[ref[1]].gs[ref[2]] IN SelectSeq(<<gc.parent>> \o gc.child, LAMBDA x : x # NoRef)

RECURSIVE Find(_, _, _, _)
\* The data context that has a value for the key, NoRef if there is none; a
\* context is asked once.
Find(m, todo, asked, key) ==
  IF todo = <<>> THEN NoRef
  ELSE LET ref == Head(todo) IN
       IF ref \in asked THEN Find(m, Tail(todo), asked, key)
       ELSE IF Own(m, ref, key) # Null THEN ref
       ELSE Find(m, Around(m, ref) \o Tail(todo), asked \cup {ref}, key)

\* DataValue's exchange, and Set on an entry there is.
Store(m, ref, key, val) ==
  IF ref[1] < 0 THEN [m EXCEPT !.ext[-ref[1]][key] = val]
  ELSE IF key \in DOMAIN m.cx[ref[1]].gs[ref[2]].data THEN [m EXCEPT !.cx[ref[1]].gs[ref[2]].data[key] = val]
  ELSE [m EXCEPT !.cx[ref[1]].gs[ref[2]].extra[key] = val]

\* GraphDataContext::Set: an entry there is not is created, unless the graph
\* is running.
Set(m, ref, key, val) ==
  LET gc == m.cx[ref[1]].gs[ref[2]] IN
  IF key \in DOMAIN gc.data \cup DOMAIN gc.extra THEN Store(m, ref, key, val)
  ELSE IF gc.frozen THEN m
  ELSE [m EXCEPT !.cx[ref[1]].gs[ref[2]].extra = Put1(@, key, val)]

\* Params::GetVar, for a name without a dot.
GetVar(ps, name) == IF name \in DOMAIN ps THEN ps[name] ELSE ""

\* The name of the data of a field: a variable is looked up in the params.
NameOf(e, ps) == IF e.id \in VarName THEN GetVar(ps, e.id) ELSE e.id

\* GraphDataContext::Get and Move<T>: the field's own place, by its index,
\* and then the other data contexts, by the name.
InjectFrom(m, ref, e, name) ==
  LET key == <<name, e.type>>
      here == IF e.extern THEN key ELSE Key(e)
  IN IF Own(m, ref, here) # Null THEN <<ref, here>>
     ELSE <<Find(m, Around(m, ref), {ref}, key), key>>

\* Mistake: an in-out field leaves the data where they are.
Inject_Shares(m, ref, e, name) ==
  LET at == InjectFrom(m, ref, e, name) IN
  IF at[1] = NoRef THEN [m |-> m, val |-> Null] ELSE [m |-> m, val |-> Own(m, at[1], at[2])]

\* What the field of a processor does to be injected: [m, val].  An in-out
\* field takes the data, any other looks at them.
Inject(m, ref, e, name) ==
  LET at == InjectFrom(m, ref, e, name) IN
  IF at[1] = NoRef THEN [m |-> m, val |-> Null]
  ELSE [m |-> IF e.inout THEN Store(m, at[1], at[2], Null) ELSE m, val |-> Own(m, at[1], at[2])]

\* ProcessorDI::InjectInputs.  No field has its configuration (SetupIds), so
\* only an in-out field moves, no field is aggregated and none is required.
InjectInputs(m, ref, ps, fields) ==
  FoldLeft(LAMBDA acc, e :
             LET got == IF e.id \in VarName /\ NameOf(e, ps) = "" THEN [m |-> acc.m, val |-> Null]
                        ELSE Inject(acc.m, ref, e, NameOf(e, ps))
             IN [m |-> got.m, in |-> Append(acc.in, got.val)],
           [m |-> m, in |-> <<>>], fields)

\* What the field of a processor publishes.  An object of the processor's own
\* always has an address; a shared one may have been left empty, and an in-out
\* field hands on what it was given.
Emit(vc, in, e, val, empty) ==
  LET from == CHOOSE k \in DOMAIN vc.input : vc.input[k].name = e.name IN
  IF e.kind = "inout" THEN in[from] ELSE IF e.kind = "shared" /\ empty THEN Null ELSE val

\* ProcessorDI::CollectOutputs.
CollectOutputs(m, ref, ps, vc, in, val, empty) ==
  FoldLeft(LAMBDA acc, e : IF NameOf(e, ps) = "" THEN acc
                           ELSE Set(acc, ref, <<NameOf(e, ps), e.type>>, Emit(vc, in, e, val, empty)),
           m, vc.output)

-----------------------------------------------------------------------------
\* The graph that runs gets the caller's data context as its parent.
GetRunGraph(m, c, graph, extern) == [m EXCEPT !.cx[c].graph = graph, !.cx[c].gs[graph].parent = extern]

\* GraphClusterContext::Execute on a context that was taken: the graph's data
\* context gets its parent and the settings, and creating entries ends.  The
\* i-th setting that could be set up goes by the name of the i-th setting.
\* Unknown graph: rc # 0, nothing is run.
ExecuteContext(m, c, graph, extern, truth) ==
  LET cl == m.cl[m.cx[c].owner].built
      ref == <<c, graph>>
      m2 == FoldLeft(LAMBDA acc, i : Set(acc, ref, <<cl.def.setting[i].name, "bool">>,
                                         <<m.cx[c].run, "cfg", IF truth[i] THEN 1 ELSE 0>>),
                     GetRunGraph(m, c, graph, extern), [i \in DOMAIN cl.setup.settings |-> i])
  IN IF graph \notin DOMAIN m.cx[c].gs THEN [rc |-> -1, m |-> m]
     ELSE [rc |-> 0, m |-> [m2 EXCEPT !.cx[c].gs[graph].frozen = TRUE]]

\* The values the settings of a context may be found to have.
Truths(m, c) == [DOMAIN m.cl[m.cx[c].owner].built.setup.settings -> BOOLEAN]

\* GraphManager::Execute.
Execute(r) ==
  /\ runs[r].state = "none" /\ (r > 1 => runs[r - 1].state # "none")
  /\ \E call \in Calls[r] :
       LET got == GetGraphClusterContext(table, mem, call[1], r)
           m == [got.m EXCEPT !.cx[got.c].params = Params, !.cx[got.c].timed = r \in Timed, !.cx[got.c].extern = <<-r, "">>]
       IN IF got.c = 0
          THEN runs' = [runs EXCEPT ![r].state = "done"] /\ UNCHANGED <<mem, resets>>
          ELSE \E truth \in Truths(m, got.c) :
                 LET ex == ExecuteContext(m, got.c, call[2], <<-r, "">>, truth) IN
                 /\ mem' = ex.m
                 /\ runs' = [runs EXCEPT ![r] = IF ex.rc = 0 THEN [state |-> "running", ctx |-> got.c]
                                                 ELSE [state |-> "done", ctx |-> 0]]
                 /\ resets' = IF ex.rc = 0 THEN resets ELSE resets \cup {got.c}
  /\ UNCHANGED table

-----------------------------------------------------------------------------
\* VertexContext::Execute.

Graph(m, c) == m.cl[m.cx[c].owner].built.graphs[m.cx[c].graph]
GC(m, c) == m.cx[c].gs[m.cx[c].graph]
VC(m, c, v) == m.cl[m.cx[c].owner].built.setup.graphs[m.cx[c].graph].vertex[v]

Ready(m, c, v) == GC(m, c).st[v] = "wait" /\ \A u \in DepsOf(Graph(m, c), v) : GC(m, c).st[u] = "done"

MatchDeps(m, c, v) ==
  \A u \in DepsOf(Graph(m, c), v) : Graph(m, c).deps[v][u] \in {GC(m, c).result[u], "all"}

GetBool(m, ref, name) ==
  LET at == Find(m, <<ref>>, {}, <<name, "bool">>) IN
  IF at = NoRef THEN "null" ELSE IF Own(m, at, <<name, "bool">>)[3] = 1 THEN "true" ELSE "false"

MatchConfig(m, c, n) ==
  n.expect_config = "" \/ ((GetBool(m, <<c, m.cx[c].graph>>, n.expect_config) = "true") # n.expect_not)

\* VertexContext::GetExecParams: the first of select_args that matches, or
\* the vertex's own args; what they do not name is the cluster's.
ExecParams(m, c, n) ==
  LET known == Known(m.cl[m.cx[c].owner].built.def.expr)
      holds(k) == GetBool(m, <<c, m.cx[c].graph>>, n.sel[k].match) = "true"
      may(k) == (n.sel[k].expr /\ known) \/ holds(k)
      must(k) == ~(n.sel[k].expr /\ known) /\ holds(k)
      chosen == {k \in DOMAIN n.sel : may(k) /\ \A j \in 1 .. k - 1 : ~must(j)}
      args == {n.sel[k].args : k \in chosen} \cup (IF \E k \in DOMAIN n.sel : must(k) THEN {} ELSE {n.args})
  IN {[x \in DOMAIN a \cup DOMAIN m.cx[c].params |-> IF x \in DOMAIN a THEN a[x] ELSE m.cx[c].params[x]] : a \in args}

\* VertexContext::FinishVertexProcess: the outputs are published, the data of
\* the graph it ran become the child's, and its successors are told.
Finish(m, c, v, result, empty) ==
  LET g == m.cx[c].graph
      gc == GC(m, c)
      sub == gc.sub[v]
      ran == gc.st[v] = "sub" /\ m.cx[sub].graph # ""
      m1 == IF result = "ok" /\ VC(m, c, v).processor # ""
              THEN CollectOutputs(m, <<c, g>>, gc.params[v], VC(m, c, v), gc.in[v], <<m.cx[c].run, g, v>>, empty)
              ELSE m
  IN [m1 EXCEPT !.cx[c].gs[g].st[v] = "done", !.cx[c].gs[g].result[v] = result,
                !.cx[c].gs[g].child[v] = IF ran THEN <<sub, m.cx[sub].graph>> ELSE @]

Busy == {c \in DOMAIN mem.cx : mem.cx[c].running # 0 /\ c \notin resets /\ mem.cx[c].graph # ""}

\* One vertex is executed up to the call of its processor or of its graph.  A
\* context of the other cluster is taken whether or not the vertex then runs.
StartVertex(c, v) ==
  /\ Ready(mem, c, v)
  /\ LET n == All(Graph(mem, c))[v]
         g == mem.cx[c].graph
         got == IF n.cluster = "" THEN [m |-> mem, c |-> 0]
                ELSE GetGraphClusterContext(table, mem, n.cluster, mem.cx[c].run)
         m == [got.m EXCEPT !.cx[c].gs[g].sub[v] = got.c]
         vc == VC(mem, c, v)
         runs_ == (vc.processor # "" \/ got.c # 0) /\ MatchDeps(mem, c, v) /\ MatchConfig(mem, c, n)
     IN \/ /\ ~runs_ \/ mem.cx[c].timed
           /\ mem' = Finish(m, c, v, "err", FALSE)
        \/ /\ runs_ /\ vc.processor # ""
           /\ \E ps \in ExecParams(m, c, n) :
                LET inj == InjectInputs(m, <<c, g>>, ps, vc.input) IN
                mem' = [inj.m EXCEPT !.cx[c].gs[g].st[v] = "run", !.cx[c].gs[g].in[v] = inj.in,
                                     !.cx[c].gs[g].params[v] = ps]
        \/ /\ runs_ /\ vc.processor = ""
           /\ \E ps \in ExecParams(m, c, n), truth \in Truths(m, got.c) :
                LET m1 == [m EXCEPT !.cx[got.c].params = ps, !.cx[got.c].timed = m.cx[c].timed,
                                    !.cx[got.c].extern = <<c, g>>, !.cx[c].gs[g].st[v] = "sub"]
                    ex == ExecuteContext(m1, got.c, n.graph, <<c, g>>, truth)
                IN mem' = IF ex.rc = 0 THEN ex.m ELSE Finish(ex.m, c, v, "err", FALSE)
  /\ UNCHANGED <<table, runs, resets>>

\* The processor returns; an error is not one when the vertex ignores errors.
FinishVertex(c, v) ==
  /\ GC(mem, c).st[v] = "run"
  /\ LET n == All(Graph(mem, c))[v] IN
     \E failed \in IF n.processor \in MayFail THEN BOOLEAN ELSE {FALSE}, empty \in BOOLEAN :
       /\ empty => \E k \in DOMAIN VC(mem, c, v).output : VC(mem, c, v).output[k].kind = "shared"
       /\ mem' = Finish(mem, c, v, IF failed /\ ~(n.ignore /\ n.cond = "") THEN "err" ELSE "ok", empty)
  /\ UNCHANGED <<table, runs, resets>>

AllDone(c) == \A v \in DOMAIN GC(mem, c).st : GC(mem, c).st[v] = "done"

\* The last vertex of a graph that a vertex runs calls the vertex's closure.
FinishSub(c, v) ==
  /\ GC(mem, c).st[v] = "sub"
  /\ AllDone(GC(mem, c).sub[v])
  /\ mem' = Finish(mem, c, v, "ok", FALSE)
  /\ UNCHANGED <<table, runs, resets>>

\* The last vertex of the execution calls graph_done: the caller's closure
\* first, which ends the life of the caller's data, and then the context is
\* posted to the reset worker.
GraphDone(r) ==
  /\ runs[r].state = "running" /\ AllDone(runs[r].ctx)
  /\ runs' = [runs EXCEPT ![r] = [state |-> "done", ctx |-> 0]]
  /\ resets' = resets \cup {runs[r].ctx}
  /\ mem' = [mem EXCEPT !.ext[r] = [k \in DOMAIN @ |-> Null]]
  /\ UNCHANGED table

-----------------------------------------------------------------------------
\* The reset worker.

\* GraphClusterContext::Reset, on a context whose vertices have been reset.
ResetContext(cx) ==
  [cx EXCEPT !.params = <<>>, !.timed = FALSE, !.extern = NoRef, !.running = 0, !.run = 0, !.graph = "",
             !.gs = [n \in DOMAIN @ |-> IF n = cx.graph THEN ResetData(@[n]) ELSE @[n]]]

Enqueue(m, c) == [m EXCEPT !.cl[m.cx[c].owner].pool = Append(@, c)]

RECURSIVE ResetVertices(_, _, _, _)
\* VertexContext::Reset for the vertices in vs, one after the other: a context
\* that a vertex took goes back before the next vertex is reset.
ResetVertices(t, m, c, vs) ==
  IF vs = {} THEN m
  ELSE LET v == CHOOSE x \in vs : \A y \in vs : x <= y
           g == m.cx[c].graph
           sub == GC(m, c).sub[v]
           m1 == [m EXCEPT !.cx[c].gs[g] = ResetVertex(@, v)]
           m2 == IF sub = 0 THEN m1
                 ELSE LET below == IF m1.cx[sub].graph = "" THEN m1
                                   ELSE ResetVertices(t, m1, sub, DOMAIN GC(m1, sub).st)
                      IN Sweep(t, Enqueue([below EXCEPT !.cx[sub] = ResetContext(@)], sub))
       IN ResetVertices(t, m2, c, vs \ {v})

\* A vertex of a posted context gives back the context it took.
AsyncResetVertex(c, v) ==
  /\ GC(mem, c).sub[v] # 0
  /\ mem' = ResetVertices(table, mem, c, {v})
  /\ UNCHANGED <<table, runs, resets>>

\* The rest of GraphCluster::ReleaseContext: the other vertices, of which no
\* other thread knows, and the context.  The local reference to the cluster
\* goes last.
AsyncReset(c) ==
  LET vs == IF mem.cx[c].graph = "" THEN {} ELSE DOMAIN GC(mem, c).st
      m == ResetVertices(table, mem, c, vs)
  IN /\ \A v \in vs : GC(mem, c).sub[v] = 0
     /\ mem' = Sweep(table, Enqueue([m EXCEPT !.cx[c] = ResetContext(@)], c))
     /\ resets' = resets \ {c}
     /\ UNCHANGED <<table, runs>>

Next ==
  \/ \E n \in DOMAIN Files : Load(n)
  \/ \E r \in Run : Execute(r) \/ GraphDone(r)
  \/ \E c \in Busy : \E v \in DOMAIN GC(mem, c).st : StartVertex(c, v) \/ FinishVertex(c, v) \/ FinishSub(c, v)
  \/ \E c \in resets : AsyncReset(c)
  \/ \E c \in resets : mem.cx[c].graph # "" /\ \E v \in DOMAIN GC(mem, c).st : AsyncResetVertex(c, v)

Spec == Init /\ [][Next]_vars

-----------------------------------------------------------------------------
Live == {c \in DOMAIN mem.cx : mem.cx[c].owner # 0}

\* The places that have a context, and which: the pools, the executions, the
\* vertices that run a graph in it, the reset worker.
Holders ==
  UNION {{<<"pool", i, k, mem.cl[i].pool[k]>> : k \in DOMAIN mem.cl[i].pool} : i \in DOMAIN mem.cl}
  \cup {<<"run", r, 0, runs[r].ctx>> : r \in {x \in Run : runs[x].state = "running"}}
  \cup {<<"reset", 0, 0, c>> : c \in resets}
  \cup UNION {UNION {{<<"vertex", c, v, mem.cx[c].gs[n].sub[v]>> : v \in DOMAIN mem.cx[c].gs[n].sub}
                     : n \in DOMAIN mem.cx[c].gs} : c \in Live}

\* A context of the pool serves one execution at a time and none is lost:
\* wherever a context is, it is in exactly one place - a pool, an execution, a
\* vertex that runs a subgraph, the reset worker - however executions, resets
\* and reloads interleave (GetContext, ReleaseContext, VertexContext::Reset).
\* Until it is in its pool again the cluster it was made for lives, also when a
\* reload has replaced that one (SetRunningCluster, graph_done's local reference).
OneHolder ==
  LET held == Holders IN
  /\ \A c \in DOMAIN mem.cx : Cardinality({h \in held : h[4] = c}) = IF c \in Live THEN 1 ELSE 0
  /\ \A c \in Live : mem.cl[mem.cx[c].owner].alive

\* A context in the pool is as good as new: no data, no input, no result, no
\* parent, no child and no subgraph of an earlier execution is left in it.
\* Only the entries that Set created stay (GraphDataContext::Reset).
PooledIsReset ==
  \A i \in DOMAIN mem.cl : \A k \in DOMAIN mem.cl[i].pool :
    LET cx == mem.cx[mem.cl[i].pool[k]] IN
    [cx EXCEPT !.gs = [n \in DOMAIN @ |-> [@[n] EXCEPT !.extra = <<>>]]] = NewContext(mem.cl, i)

Running(c) == {v \in DOMAIN GC(mem, c).st : GC(mem, c).st[v] = "run"}

\* What a processor is given was made in the same execution: no pointer of an
\* earlier user of the context, or of an execution that runs at the same time,
\* is injected, through parents, children and in-out fields.  And data-driven
\* edges deliver: it is the object that the vertex which writes the data has
\* made, if that vertex ended well and no in-out field takes the data away.
InputsDelivered ==
  \A c \in Busy : \A v \in Running(c) :
    LET g == Graph(mem, c)
        gc == GC(mem, c)
        moved(id) == \E w \in DOMAIN gc.st : \E d \in Range(All(g)[w].input) : d.inout /\ d.id = id
    IN /\ \A k \in DOMAIN gc.in[v] : gc.in[v][k] # Null => gc.in[v][k][1] = mem.cx[c].run
       /\ \A a \in Range(All(g)[v].input), k \in DOMAIN VC(mem, c, v).input :
            \A u \in {x \in DOMAIN gc.st : gc.result[x] = "ok"} :
              \A b \in Range(All(g)[u].output), j \in DOMAIN VC(mem, c, u).output :
                LET e == VC(mem, c, v).input[k]
                    o == VC(mem, c, u).output[j]
                IN (/\ a.field = e.name /\ b.field = o.name /\ a.id = b.id /\ a.id \notin VarName
                    /\ e.type = o.type /\ o.kind = "object" /\ ~moved(a.id))
                   => gc.in[v][k] = <<mem.cx[c].run, g.name, u>>

InOut(c, v) == {k \in DOMAIN VC(mem, c, v).input : VC(mem, c, v).input[k].inout /\ GC(mem, c).in[v][k] # Null}

\* An in-out field owns what it was given: no two processors that run at the
\* same time have been handed the same object to change (GraphDataContext::
\* Move exchanges the pointer for null).
MovedOnce ==
  \A c, d \in Busy : \A v \in Running(c), w \in Running(d) : \A k \in InOut(c, v), j \in InOut(d, w) :
    <<c, v, k>> # <<d, w, j>> => GC(mem, c).in[v][k] # GC(mem, d).in[w][j]

-----------------------------------------------------------------------------
\* The graphs that were built.
Built == UNION {Range(mem.cl[i].built.graphs) : i \in DOMAIN mem.cl}

\* The vertices that can be reached from v in at most n edges.
RECURSIVE Below(_, _, _)
Below(g, vs, n) == IF n = 0 THEN vs ELSE Below(g, vs \cup UNION {Successors(g, v) : v \in vs}, n - 1)

\* A graph that loads has no circle, so that every vertex of it can come to
\* its turn (Graph::TestCircle).
BuiltAcyclic == \A g \in Built : \A v \in DOMAIN All(g) : v \notin Below(g, Successors(g, v), Len(All(g)))

\* What the file asks v to expect of u, from any of the ways to say so.
Declared(g, u, v) ==
  LET a == All(g)[u]
      b == All(g)[v]
      reads == {k \in DOMAIN b.input :
                  \E j \in DOMAIN a.output : /\ a.output[j].id \in IF b.input[k].aggregate = <<>> THEN {b.input[k].id}
                                                                   ELSE Range(b.input[k].aggregate)
                                            /\ ~(u = v /\ b.input[k].inout /\ b.input[k].aggregate = <<>>)}
  IN (IF a.id \in b.deps \/ b.id \in a.successor THEN {"all"} ELSE {})
     \cup (IF a.id \in b.deps_on_ok \/ b.id \in a.successor_on_ok \cup a.consequent THEN {"ok"} ELSE {})
     \cup (IF a.id \in b.deps_on_err \/ b.id \in a.successor_on_err \cup a.alternative THEN {"err"} ELSE {})
     \cup {IF b.input[k].required THEN "ok" ELSE "all" : k \in reads}
     \cup (IF b.expect # "" /\ a.cond = b.expect /\ u > Len(g.vertex) THEN {"ok"} ELSE {})

\* The edges of a graph that loads are those its file declares, by deps, by
\* successors, by if and else, by expect and by data, and the result expected
\* over an edge is one of those declared for it.  No two vertices write the
\* same data.
EdgesDeclared ==
  \A g \in Built : \A u, v \in DOMAIN All(g) :
    /\ IF u \in DepsOf(g, v) THEN g.deps[v][u] \in Declared(g, u, v) ELSE Declared(g, u, v) = {}
    /\ \A j \in DOMAIN All(g)[u].output, k \in DOMAIN All(g)[v].output :
         All(g)[u].output[j].id = All(g)[v].output[k].id => <<u, j>> = <<v, k>>
=============================================================================

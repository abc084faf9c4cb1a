----------------------------- MODULE GraphBuild -----------------------------
(***************************************************************************)
(* How didagle turns the text of a cluster into a graph: Graph::Build,     *)
(* Vertex::Build, GraphCluster::Build (graph.cpp, graph_vertex.cpp) and    *)
(* what the Setup of a context adds (graph_executor.cpp,                   *)
(* graph_processor_di.cpp).                                                *)
(*                                                                         *)
(* A definition is a record; a vertex is known by its place, the ones of   *)
(* the file first and the generated conditions after them.  Edges are kept *)
(* once, on the vertex that waits: deps[v][u] is the result v expects of   *)
(* u, and the successors of u are the vertices that wait for it.  Names    *)
(* are strings, "" where the definition leaves one out; a type is part of  *)
(* a field of a processor.                                                 *)
(***************************************************************************)
EXTENDS Integers, Sequences, FiniteSets, SequencesExt, TLC

CONSTANTS
  Procs,       \* processor name -> [in, out]: the fields it registers
  SetupFails,  \* processors whose OnSetup returns an error
  VarName      \* the names of data that begin with a dollar sign

-----------------------------------------------------------------------------
\* What a file may say.  expect_not stands for the "!" that may lead the name
\* in expect_config.  sel holds the matches of select_args: a plain name
\* must be a config_setting, an expression is evaluated when the vertex runs.
NoVertex ==
  [id |-> "", processor |-> "", cond |-> "", expect |-> "", expect_deps |-> {}, expect_config |-> "",
   expect_not |-> FALSE, start |-> FALSE, cluster |-> "", graph |-> "", sel |-> <<>>, successor |-> {}, successor_on_ok |-> {},
   successor_on_err |-> {}, consequent |-> {}, alternative |-> {}, deps |-> {}, deps_on_ok |-> {},
   deps_on_err |-> {}, input |-> <<>>, output |-> <<>>, args |-> <<>>, ignore |-> TRUE]

NoData ==
  [id |-> "", field |-> "", aggregate |-> <<>>, required |-> FALSE, extern |-> FALSE, move |-> FALSE, inout |-> FALSE]

\* A Graph while Build runs.
NewGraph(d) ==
  [name |-> d.name, rank |-> d.rank, vertex |-> d.vertex, gen |-> <<>>, nodes |-> <<>>, data |-> <<>>, idx |-> 0, conds |-> <<>>,
   deps |-> [k \in {} |-> <<>>], rc |-> 0]

All(g) == g.vertex \o g.gen
Put1(f, k, v) == [x \in DOMAIN f \cup {k} |-> IF x = k THEN v ELSE f[x]]
Known(p) == p \in DOMAIN Procs

ContainsConfigSetting(c, name) == \E k \in DOMAIN c.setting : c.setting[k].name = name

-----------------------------------------------------------------------------
\* Graph::Build, first loop: one vertex of the file is given its name and its
\* place, its condition is generated and its data are named.

generateNodeId(g) == g.name \o "_" \o ToString(g.idx)

\* The vertex that evaluates n's expect, shared by the vertices that expect
\* the same thing.  Its id replaces whatever has that id already.
geneatedCondVertex(c, g, n) ==
  LET id == generateNodeId(g)
      v == [NoVertex EXCEPT
              !.id = id, !.processor = c.expr, !.cond = n.expect,
              !.deps = IF n.expect_deps # {} THEN n.expect_deps ELSE n.deps,
              !.deps_on_ok = IF n.expect_deps # {} THEN {} ELSE n.deps_on_ok,
              !.deps_on_err = IF n.expect_deps # {} THEN {} ELSE n.deps_on_err]
      key == Len(g.vertex) + Len(g.gen) + 1
  IN [g EXCEPT !.gen = Append(@, v), !.nodes = Put1(@, id, key), !.conds = Put1(@, n.expect, id), !.idx = @ + 1]

\* Vertex::FillInputOutput: a field the file does not mention is added under
\* its own name; an in-out field that it does mention is moved.
FillInputs(input, p) ==
  FoldLeft(LAMBDA acc, f :
             LET same == {k \in DOMAIN acc : acc[k].field = f.name}
                 at == CHOOSE k \in same : \A j \in same : k <= j
             IN IF same = {}
                  THEN Append(acc, [NoData EXCEPT !.id = f.name, !.field = f.name, !.extern = f.extern,
                                                  !.inout = f.inout, !.move = f.inout])
                  ELSE IF f.inout
                    THEN [acc EXCEPT ![at].move = TRUE, ![at].inout = TRUE, ![at].extern = @ \/ f.extern]
                    ELSE acc,
           input, Procs[p].in)

FillOutputs(output, p) ==
  FoldLeft(LAMBDA acc, f : IF \E k \in DOMAIN acc : acc[k].field = f.name
                             THEN acc ELSE Append(acc, [NoData EXCEPT !.id = f.name, !.field = f.name]),
           output, Procs[p].out)

\* Data without an id are known by their field.
NameData(ds) == [k \in DOMAIN ds |-> [ds[k] EXCEPT !.id = IF @ = "" THEN ds[k].field ELSE @]]

MapOutputs(g, i, outs) ==
  FoldLeft(LAMBDA acc, d : IF acc.rc # 0 \/ d.field = "" \/ d.id \in DOMAIN acc.data THEN [acc EXCEPT !.rc = -1]
                           ELSE [acc EXCEPT !.data = Put1(@, d.id, i)], g, outs)

\* The names Build gives a vertex that leaves them out.
Named(c, g, n) ==
  LET p == IF n.processor = "" /\ n.cond # "" THEN c.expr ELSE n.processor
  IN [n EXCEPT !.processor = p,
               !.id = IF @ # "" THEN @ ELSE IF p = "" THEN generateNodeId(g) ELSE p,
               !.cluster = IF n.graph # "" /\ @ \in {"", "."} THEN c.name ELSE @]

\* MergeSuccessor: the branches of a condition are successors like others.
MergeSuccessor(n) ==
  [n EXCEPT !.successor_on_ok = @ \cup n.consequent, !.successor_on_err = @ \cup n.alternative]

\* What expect asks for, generated unless another vertex has asked for it.
Condition(c, g, n) ==
  IF n.expect # "" /\ n.expect \notin DOMAIN g.conds THEN geneatedCondVertex(c, g, n) ELSE g

\* The fields of its processor are the vertex's data.
Filled(n) ==
  LET fill == Known(n.processor) IN
  [n EXCEPT !.input = NameData(IF fill THEN FillInputs(@, n.processor) ELSE @),
            !.output = NameData(IF fill THEN FillOutputs(@, n.processor) ELSE @)]

AddVertex(g, i, n) ==
  IF \E k \in DOMAIN n.input : n.input[k].field = "" THEN [g EXCEPT !.rc = -1]
  ELSE MapOutputs([g EXCEPT !.vertex[i] = n, !.nodes = Put1(@, n.id, i)], i, n.output)

\* The vertex waits for its condition, which is there by now.
ExpectVertex(c, g, i, n) ==
  IF n.id \in DOMAIN g.nodes \/ (c.strict /\ n.processor # "" /\ ~Known(n.processor)) THEN [g EXCEPT !.rc = -1]
  ELSE AddVertex(g, i, Filled(MergeSuccessor(
         IF n.expect = "" THEN n ELSE [n EXCEPT !.deps_on_ok = @ \cup {g.conds[n.expect]}])))

NamedVertex(c, g, i, n) ==
  IF n.expect_config # "" /\ (n.expect # "" \/ ~ContainsConfigSetting(c, n.expect_config)) THEN [g EXCEPT !.rc = -1]
  ELSE ExpectVertex(c, Condition(c, [g EXCEPT !.idx = IF g.vertex[i].id = "" /\ n.processor = "" THEN @ + 1 ELSE @], n),
                    i, n)

RegisterVertex(c, g, i) == IF g.rc # 0 THEN g ELSE NamedVertex(c, g, i, Named(c, g, g.vertex[i]))

-----------------------------------------------------------------------------
\* Graph::Build, second loop: Vertex::Build makes the edges.

\* v waits for u.  The result expected first is the one that counts.
Depend(g, v, u, expected) ==
  LET ds == IF v \in DOMAIN g.deps THEN g.deps[v] ELSE <<>> IN
  IF u \in DOMAIN ds THEN g ELSE [g EXCEPT !.deps = Put1(@, v, Put1(ds, u, expected))]

BuildDeps(g, v, ids, expected) ==
  IF g.rc # 0 \/ ~(ids \subseteq DOMAIN g.nodes) THEN [g EXCEPT !.rc = -1]
  ELSE FoldLeft(LAMBDA acc, id : Depend(acc, v, acc.nodes[id], expected), g, SetToSeq(ids))

BuildSuccessors(g, v, ids, expected) ==
  IF g.rc # 0 \/ ~(ids \subseteq DOMAIN g.nodes) THEN [g EXCEPT !.rc = -1]
  ELSE FoldLeft(LAMBDA acc, id : Depend(acc, acc.nodes[id], v, expected), g, SetToSeq(ids))

\* Mistake: data that are not required make no edge.
BuildInput_OnlyRequired(g, v, d) ==
  IF d.required /\ d.id \in DOMAIN g.data THEN Depend(g, v, g.data[d.id], "ok") ELSE g

\* An input makes its vertex wait for the vertex that writes the data; an
\* in-out field may name data that no other vertex writes.
BuildInput(g, v, d) ==
  LET ids == IF d.aggregate = <<>> THEN <<d.id>> ELSE d.aggregate
      own(id) == d.aggregate = <<>> /\ d.inout /\ g.data[id] = v
  IN IF g.rc # 0 \/ (~d.extern /\ \E k \in DOMAIN ids : ids[k] \notin DOMAIN g.data) THEN [g EXCEPT !.rc = -1]
     ELSE FoldLeft(LAMBDA acc, id : IF id \notin DOMAIN g.data \/ (id \in DOMAIN g.data /\ own(id)) THEN acc
                                    ELSE Depend(acc, v, acc.data[id], IF d.required THEN "ok" ELSE "all"),
                   g, ids)

BuildVertex(c, g, v) ==
  LET n == All(g)[v]
      g1 == BuildDeps(g, v, n.deps, "all")
      g2 == BuildDeps(g1, v, n.deps_on_ok, "ok")
      g3 == BuildDeps(g2, v, n.deps_on_err, "err")
      g4 == BuildSuccessors(g3, v, n.successor, "all")
      g5 == BuildSuccessors(g4, v, n.successor_on_ok, "ok")
      g6 == BuildSuccessors(g5, v, n.successor_on_err, "err")
  IN IF g.rc # 0 THEN g
     ELSE IF \E k \in DOMAIN n.sel : ~n.sel[k].expr /\ ~ContainsConfigSetting(c, n.sel[k].match)
       THEN [g EXCEPT !.rc = -1]
     ELSE FoldLeft(LAMBDA acc, d : BuildInput(acc, v, d), g6, n.input)

DepsOf(g, v) == IF v \in DOMAIN g.deps THEN DOMAIN g.deps[v] ELSE {}
Successors(g, u) == {v \in DOMAIN g.deps : u \in DOMAIN g.deps[v]}

\* Vertex::Verify.
Verify(g, v) ==
  LET n == All(g)[v] IN
  IF n.start THEN n.deps = {} /\ n.deps_on_ok = {} /\ n.deps_on_err = {}
  ELSE Successors(g, v) # {} \/ DepsOf(g, v) # {}

-----------------------------------------------------------------------------
\* Graph::TestCircle.

\* Mistake: only the direct successors are looked at.
FindVertexInSuccessors_Shallow(g, v) == {IF v \in Successors(g, v) THEN "found" ELSE "no"}

\* Vertex::FindVertexInSuccessors(v) called on v: what the search can come to.
\* It remembers no vertex it has been at, so on a way into a circle that v is
\* not found on it never returns and the stack overflows; a way longer than
\* the number of vertices is such a way.  The order in which the set of
\* successors is walked decides which of the answers is met first.
FindVertexInSuccessors(g, v) ==
  LET key == DOMAIN All(g)
      find[u \in key, left \in 0 .. Len(All(g))] ==
        IF Successors(g, u) = {} THEN {"no"}
        ELSE IF v \in Successors(g, u) THEN {"found"}
        ELSE IF left = 0 THEN {"overflow"}
        ELSE LET ways == {find[w, left - 1] : w \in Successors(g, u)} IN
             (UNION ways \ {"no"}) \cup (IF \A s \in ways : "no" \in s THEN {"no"} ELSE {})
  IN find[v, Len(All(g))]

\* The vertices are tried in the order of a hash table.
TestCircle(g) ==
  LET answers == {FindVertexInSuccessors(g, g.nodes[id]) : id \in DOMAIN g.nodes} IN
  (UNION answers \ {"no"}) \cup (IF \A s \in answers : "no" \in s THEN {"no"} ELSE {})

\* The two loops of Graph::Build, and what the search makes of the graph.
BuildVertices(c, g) == FoldLeft(LAMBDA acc, v : BuildVertex(c, acc, v), g, [v \in DOMAIN All(g) |-> v])

Edges(c, d) ==
  BuildVertices(c, FoldLeft(LAMBDA acc, i : RegisterVertex(c, acc, i), NewGraph(d), [i \in DOMAIN d.vertex |-> i]))

Search(g) ==
  IF g.rc # 0 THEN {g}
  ELSE IF \E v \in DOMAIN All(g) : ~Verify(g, v) THEN {[g EXCEPT !.rc = -1]}
  ELSE {IF a = "no" /\ DOMAIN g.nodes # {} THEN g
        ELSE [g EXCEPT !.rc = IF a = "overflow" THEN -2 ELSE -1] : a \in TestCircle(g)}

BuildGraph(c, d) == Search(Edges(c, d))

-----------------------------------------------------------------------------
\* GraphCluster::Build.

\* Of two graphs of one name the later counts only with a higher priority; a
\* graph for another version is passed over.
BuildGraphs(c) ==
  FoldLeft(LAMBDA accs, d :
             UNION {IF \/ a.rc # 0 \/ ~d.version
                       \/ d.name \in DOMAIN a.graphs /\ d.priority <= a.priority[d.name] THEN {a}
                    ELSE {[rc |-> g.rc, graphs |-> Put1(a.graphs, d.name, g),
                           priority |-> Put1(a.priority, d.name, d.priority)] : g \in BuildGraph(c, d)} : a \in accs},
           {[rc |-> 0, graphs |-> <<>>, priority |-> <<>>]}, c.graph)

\* The processor of a config_setting that names none.
SettingProc(c, k) == IF c.setting[k].processor = "" THEN c.expr ELSE c.setting[k].processor

-----------------------------------------------------------------------------
\* The Setup of a context: VertexContext, ProcessorDI, GraphContext and
\* GraphClusterContext.

\* Mistake: the data keep the names of the fields.
SetupIds_OwnNames(fields, config) == [k \in DOMAIN fields |-> Put1(fields[k], "id", fields[k].name)]

\* ProcessorDI::SetupInputOutputIds: the fields of the processor, under the
\* names of the data.  The configuration itself is not kept with the field.
SetupIds(fields, config) ==
  [k \in DOMAIN fields |->
     LET of == {j \in DOMAIN config : config[j].field = fields[k].name}
         last == CHOOSE j \in of : \A i \in of : i <= j
     IN Put1(fields[k], "id", IF of = {} THEN fields[k].name ELSE config[last].id)]

Unknown(fields, config) == \E j \in DOMAIN config : \A k \in DOMAIN fields : fields[k].name # config[j].field

\* The processor a vertex runs, "" if it has none.
ProcessorOf(n) == IF n.graph # "" \/ ~Known(n.processor) THEN "" ELSE n.processor

SetupVertex(c, n) ==
  LET p == ProcessorOf(n)
      expr(k) == n.sel[k].expr
      failed == \/ c.strict /\ p = "" /\ n.processor # ""
                \/ \E k \in DOMAIN n.sel : expr(k) /\ (IF Known(c.expr) THEN c.expr \in SetupFails ELSE c.strict)
                \/ p # "" /\ c.strict /\ (Unknown(Procs[p].in, n.input) \/ Unknown(Procs[p].out, n.output))
                \/ p # "" /\ p \in SetupFails
  IN [rc |-> IF failed THEN -1 ELSE 0, processor |-> p,
      input |-> IF p = "" THEN <<>> ELSE SetupIds(Procs[p].in, n.input),
      output |-> IF p = "" THEN <<>> ELSE SetupIds(Procs[p].out, n.output)]

Key(e) == <<e.id, e.type>>

\* The entries a data context is given beforehand.
RegisterData(vcs) ==
  UNION {{Key(e) : e \in {x \in Range(vc.input) : ~x.extern}}
         \cup {Key(e) : e \in {x \in Range(vc.output) : x.id \notin VarName}} : vc \in vcs}

\* GraphContext::Setup.  Two vertices may not write the same data.
SetupGraph(c, g) ==
  LET vs == {g.nodes[id] : id \in DOMAIN g.nodes}
      vc == [v \in vs |-> SetupVertex(c, All(g)[v])]
      twice == \E v, w \in vs : \E j \in DOMAIN vc[v].output, k \in DOMAIN vc[w].output :
                 <<v, j>> # <<w, k>> /\ Key(vc[v].output[j]) = Key(vc[w].output[k])
  IN [rc |-> IF twice \/ \E v \in vs : vc[v].rc # 0 THEN -1 ELSE 0, vertex |-> vc,
      keys |-> RegisterData(Range(vc))]

\* GraphClusterContext::Setup: the settings that can be evaluated, and the
\* graphs in the order of their names up to the first that cannot be set up.
SetupCluster(c, graphs) ==
  LET bad == \E k \in DOMAIN c.setting :
               IF Known(SettingProc(c, k)) THEN SettingProc(c, k) \in SetupFails ELSE c.strict
      set == [n \in DOMAIN graphs |-> SetupGraph(c, graphs[n])]
      kept == {n \in DOMAIN graphs : \A m \in DOMAIN graphs : graphs[m].rank <= graphs[n].rank => set[m].rc = 0}
  IN [rc |-> IF bad \/ kept # DOMAIN graphs THEN -1 ELSE 0,
      settings |-> IF bad THEN <<>> ELSE SelectSeq([k \in DOMAIN c.setting |-> k], LAMBDA k : Known(SettingProc(c, k))),
      graphs |-> [n \in IF bad THEN {} ELSE kept |-> set[n]]]

\* What GraphManager::Load can make of a file: the built cluster, or none (rc).
Finished(c, b, setup) ==
  LET failed == b.rc # 0 \/ (\E k \in DOMAIN c.setting : SettingProc(c, k) = "") \/ (c.strict /\ setup.rc # 0) IN
  [rc |-> IF b.rc = -2 THEN -2 ELSE IF failed THEN -1 ELSE 0, def |-> c, graphs |-> b.graphs, setup |-> setup]

BuildCluster(c) == {Finished(c, b, SetupCluster(c, b.graphs)) : b \in BuildGraphs(c)}
=============================================================================

------------------------ MODULE GraphExecutorProofs -------------------------
(***************************************************************************)
(* The safety properties of GraphExecutor and that it implements GraphRun, *)
(* for every finite set of vertices, every dependency relation (cyclic     *)
(* ones included) and every nesting of graphs.                             *)
(*                                                                         *)
(* The properties are not inductive by themselves.  CountersExact needs to *)
(* know which dependencies have counted themselves off, DoneIsLast that a  *)
(* vertex cannot be through before all that it waits for is, and a nested  *)
(* graph that the vertex it runs for is still running.  IInv collects      *)
(* this.  First the invariant and the steps of a vertex by itself, then    *)
(* the last join of a graph and the delivery to a successor, then the      *)
(* theorems, last the refinement.                                          *)
(***************************************************************************)
EXTENDS GraphExecutor, FiniteSetTheorems, TLAPS

\* The longer of these proofs take the provers more than their default time.
USE SMTT(30), Zenon, Z3T(30)

\* What each place of a strand says about its private state.
StrandInv ==
  /\ \A v \in Vertex :
       /\ result[v] \in Result <=> pc[v] \in {"finish"} \cup Joined
       /\ pc[v] \notin {"notify", "sub", "load"} => todo[v] = {}
       /\ pc[v] = "notify" => todo[v] # {}
       /\ pc[v] \notin Joined \/ pc[v] = "over" => ready[v] = {}
       /\ pc[v] # "load"
       /\ pc[v] = "lost" => v \in Processor
  /\ \A g \in Graph :
       /\ pc[g] \in {"idle", "dispatch", "over"}
       /\ pc[g] # "dispatch" => ready[g] = {}
       /\ pc[g] = "idle" => \A v \in VertexOf(g) : pc[v] = "idle"

\* A dependency slot is unset until its writer visits it, and then holds the
\* writer's result.
SlotInv ==
  \A d \in Vertex :
    /\ todo[d] \subseteq Succ(d)
    /\ pc[d] = "sub" => cur[d] \in Succ(d) /\ cur[d] \notin todo[d]
    /\ \A v \in Succ(d) :
         IF pc[d] \in Joined /\ v \notin todo[d]
         THEN deps_results[v][d] = result[d]
         ELSE deps_results[v][d] = "invalid"

\* A vertex that is handed out, or about to be, waits for nothing any more.
WaitInv ==
  \A v \in Vertex :
    pc[v] # "idle" \/ (\E s \in Strand : v \in ready[s]) =>
      \A d \in Deps[v] : Delivered(d, v)

\* Whose ready lists hold what.
ReadyInv ==
  /\ HeldOnce
  /\ \A s \in Vertex : ready[s] \subseteq Succ(s)
  /\ \A g \in Graph : ready[g] \subseteq StartVertex(g)

\* A nested graph that was started and is not done has a running parent, and
\* one whose parent has not come to run it is untouched.
NestInv ==
  /\ \A p \in Vertex : SubGraph[p] # NoGraph =>
       /\ pc[p] \in {"idle", "ready"} => pc[SubGraph[p]] = "idle"
       /\ pc[p] = "running" => done[SubGraph[p]] = 0
       /\ pc[SubGraph[p]] # "idle" /\ done[SubGraph[p]] = 0 => pc[p] = "running"
  /\ \A g \in Graph :
       pc[g] # "idle" /\ g # Root => \E p \in Vertex : SubGraph[p] = g

IInv ==
  /\ TypeOK /\ CountersExact /\ DoneIsLast
  /\ StrandInv /\ SlotInv /\ WaitInv /\ ReadyInv /\ NestInv

-----------------------------------------------------------------------------
\* A set with one element is the singleton of any of its elements.
LEMMA CardOne ==
  ASSUME NEW S, IsFiniteSet(S), Cardinality(S) = 1, NEW x \in S
  PROVE  S = {x}
<1>1. IsFiniteSet(S \ {x}) /\ Cardinality(S \ {x}) = 0
  BY FS_RemoveElement
<1>2. S \ {x} = {}
  BY <1>1, FS_EmptySet, Zenon
<1> QED
  BY <1>2, Zenon

\* The sets that the counters count are finite.
LEMMA FiniteCounted ==
  /\ \A g \in Graph : IsFiniteSet(VertexOf(g)) /\ IsFiniteSet(Unjoined(g))
  /\ \A v \in Vertex : IsFiniteSet(Deps[v]) /\ IsFiniteSet(Undelivered(v))
BY GraphAssumption, FS_Subset, Zenon DEF GraphAssumption, VertexOf, Unjoined, Undelivered

\* A context fresh from the pool satisfies the invariant.
LEMMA InitIInv == Init => IInv
<1> SUFFICES ASSUME Init PROVE IInv
  BY Zenon
<1> USE GraphAssumption DEF GraphAssumption, Init, Strand
<1>1. TypeOK
  <2>1. /\ \A v \in Vertex : Cardinality(Deps[v]) \in Nat
        /\ \A g \in Graph : Cardinality(VertexOf(g)) \in Nat
    BY FiniteCounted, FS_CardinalityType, Zenon
  <2> QED
    BY <2>1, Zenon DEF TypeOK, Result, Joined
<1>2. CountersExact
  <2>1. \A g \in Graph : Unjoined(g) = VertexOf(g)
    BY Zenon DEF Unjoined, VertexOf, Joined
  <2>2. \A v \in Vertex : Undelivered(v) = Deps[v]
    BY Zenon DEF Undelivered, Delivered, Joined
  <2> QED
    BY <2>1, <2>2, Zenon DEF CountersExact
<1>3. DoneIsLast
  BY DEF DoneIsLast
<1>4. StrandInv
  BY Zenon DEF StrandInv, Joined, Result, VertexOf
<1>5. SlotInv
  BY Zenon DEF SlotInv, Joined, Succ
<1>6. WaitInv /\ ReadyInv
  BY Zenon DEF WaitInv, ReadyInv, HeldOnce
<1>7. NestInv
  BY Zenon DEF NestInv
<1> QED
  BY <1>1, <1>2, <1>3, <1>4, <1>5, <1>6, <1>7, Zenon DEF IInv

\* A step that moves an executing vertex without passing the join: the vertex
\* is run, skipped, ends or is lost.
LEMMA LocalStep ==
  ASSUME IInv, NEW v \in Vertex, NEW x \in {"running", "lost", "finish"},
         pc[v] \in {"ready", "running"},
         pc' = [pc EXCEPT ![v] = x],
         IF x = "finish" THEN \E r \in Result : result' = [result EXCEPT ![v] = r]
                         ELSE result' = result,
         x = "lost" => v \in Processor,
         SubGraph[v] = NoGraph \/ (pc[v] = "ready" /\ x = "finish"),
         UNCHANGED <<deps_results, waiting_num, join_vertex_num, todo, cur, ready, done>>,
         expired' \in BOOLEAN
  PROVE  IInv'
<1> USE GraphAssumption DEF GraphAssumption, Strand, IInv
<1>1. TypeOK'
  <2>1. result' \in [Vertex -> Result \cup {"invalid"}]
    <3>1. CASE x = "finish"
      <4>1. PICK r \in Result : result' = [result EXCEPT ![v] = r]
        BY <3>1, Zenon
      <4> QED
        BY <4>1, Zenon DEF TypeOK
    <3>2. CASE x # "finish"
      BY <3>2, Zenon DEF TypeOK
    <3> QED
      BY <3>1, <3>2, Zenon
  <2>2. pc' \in [Strand -> {"idle", "ready", "running", "lost", "finish"} \cup Joined]
    BY Zenon DEF TypeOK
  <2> QED
    BY <2>1, <2>2, Zenon DEF TypeOK
<1>2. \A s \in Strand : (pc'[s] \in Joined <=> pc[s] \in Joined) /\ (pc[s] \in Joined => pc'[s] = pc[s])
  BY Zenon DEF TypeOK, Joined
<1>3. \A d, w \in Vertex : Delivered(d, w)' <=> Delivered(d, w)
  BY <1>2, Zenon DEF Delivered, Joined
<1>4. CountersExact'
  <2>1. \A g \in Graph : Unjoined(g)' = Unjoined(g)
    BY <1>2, Zenon DEF Unjoined, VertexOf
  <2>2. \A w \in Vertex : Undelivered(w)' = Undelivered(w)
    BY <1>3, Zenon DEF Undelivered
  <2> QED
    BY <2>1, <2>2, Zenon DEF CountersExact
<1>5. DoneIsLast'
  BY DEF DoneIsLast, TypeOK, VertexOf
<1>6. StrandInv'
  BY DEF StrandInv, TypeOK, VertexOf, Joined, Result
<1>7. SlotInv'
  BY DEF SlotInv, TypeOK, Joined, Succ, StrandInv
<1>8. WaitInv'
  BY <1>3, Zenon DEF WaitInv, TypeOK
<1>9. ReadyInv'
  BY DEF ReadyInv, HeldOnce, TypeOK
<1>10. NestInv'
  BY DEF NestInv, TypeOK
<1> QED
  BY <1>1, <1>4, <1>5, <1>6, <1>7, <1>8, <1>9, <1>10, Zenon

\* The strand of g starts to dispatch, called by the root's caller or by the
\* vertex p that runs g.
StartGraphPc(g) ==
  \/ g = Root /\ pc' = [pc EXCEPT ![g] = "dispatch"]
  \/ \E p \in Vertex : /\ SubGraph[p] = g /\ pc[p] = "ready"
                       /\ pc' = [pc EXCEPT ![p] = "running", ![g] = "dispatch"]

\* Starting a graph: GraphContext::Execute.
LEMMA StartGraph ==
  ASSUME IInv, NEW g \in Graph, pc[g] = "idle", StartGraphPc(g),
         ready' = [ready EXCEPT ![g] = StartVertex(g)],
         UNCHANGED <<deps_results, waiting_num, result, join_vertex_num, todo, cur, done, expired>>
  PROVE  IInv'
<1> USE GraphAssumption, ContextAssumption DEF GraphAssumption, ContextAssumption, Strand, IInv
<1>1. /\ pc' \in [Strand -> {"idle", "ready", "running", "lost", "finish"} \cup Joined]
      /\ pc'[g] = "dispatch"
      /\ \A h \in Graph \ {g} : pc'[h] = pc[h]
      /\ \A v \in Vertex : pc'[v] = pc[v] \/ (pc[v] = "ready" /\ pc'[v] = "running" /\ SubGraph[v] = g)
      /\ \A v \in Vertex : SubGraph[v] = g => pc'[v] = "running"
  <2>1. CASE g = Root /\ pc' = [pc EXCEPT ![g] = "dispatch"]
    BY <2>1 DEF TypeOK, Joined
  <2>2. CASE \E p \in Vertex : /\ SubGraph[p] = g /\ pc[p] = "ready"
                               /\ pc' = [pc EXCEPT ![p] = "running", ![g] = "dispatch"]
    <3>1. PICK p \in Vertex : /\ SubGraph[p] = g /\ pc[p] = "ready"
                              /\ pc' = [pc EXCEPT ![p] = "running", ![g] = "dispatch"]
      BY <2>2, Zenon
    <3>2. \A v \in Vertex : SubGraph[v] = g => v = p
      BY <3>1
    <3>3. \A t \in Strand : pc'[t] = IF t = g THEN "dispatch" ELSE IF t = p THEN "running" ELSE pc[t]
      BY <3>1, Zenon DEF TypeOK
    <3>4. pc' \in [Strand -> {"idle", "ready", "running", "lost", "finish"} \cup Joined]
      BY <3>1, Zenon DEF TypeOK, Joined
    <3>5. p \notin Graph /\ g \notin Vertex
      BY Zenon
    <3>6. pc'[g] = "dispatch" /\ pc'[p] = "running"
      BY <3>3, <3>5, Zenon
    <3>7. \A h \in Graph \ {g} : pc'[h] = pc[h]
      BY <3>3, <3>5, Zenon
    <3>8. \A v \in Vertex : v # p => pc'[v] = pc[v]
      BY <3>3, <3>5, Zenon
    <3> QED
      BY <3>1, <3>2, <3>4, <3>6, <3>7, <3>8, Zenon
  <2> QED
    BY <2>1, <2>2, Zenon DEF StartGraphPc
<1>2. TypeOK'
  <2>1. StartVertex(g) \subseteq Vertex
    BY Zenon DEF StartVertex, VertexOf
  <2> QED
    BY <1>1, <2>1, Zenon DEF TypeOK
<1>3. \A v \in Vertex : (pc'[v] \in Joined <=> pc[v] \in Joined) /\ (pc[v] \in Joined => pc'[v] = pc[v])
  BY <1>1, Zenon DEF Joined
<1>4. \A d, w \in Vertex : Delivered(d, w)' <=> Delivered(d, w)
  BY <1>3, Zenon DEF Delivered, Joined
<1>5. CountersExact'
  <2>1. \A h \in Graph : Unjoined(h)' = Unjoined(h)
    BY <1>3, Zenon DEF Unjoined, VertexOf
  <2>2. \A w \in Vertex : Undelivered(w)' = Undelivered(w)
    BY <1>4, Zenon DEF Undelivered
  <2> QED
    BY <2>1, <2>2, Zenon DEF CountersExact
<1>6. done[g] = 0 /\ \A v \in VertexOf(g) : pc[v] = "idle"
  BY Zenon DEF DoneIsLast, StrandInv
<1>7. DoneIsLast'
  <2>1. \A h \in Graph : done[h] = 1 => h # g /\ pc'[h] = pc[h] /\ ready'[h] = ready[h]
    BY <1>1, <1>6 DEF TypeOK
  <2>2. \A v \in Vertex : pc[v] \in {"dispatch", "over"} => pc'[v] = pc[v]
    BY <1>1, Zenon
  <2>3. \A v \in Vertex : ready'[v] = ready[v]
    BY DEF TypeOK
  <2> QED
    BY <2>1, <2>2, <2>3 DEF DoneIsLast, VertexOf
<1>8. StrandInv'
  BY <1>1, <1>6 DEF StrandInv, TypeOK, VertexOf, Joined, Result
<1>9. SlotInv'
  BY <1>1, <1>3 DEF SlotInv, TypeOK, Joined, Succ, StrandInv
<1>10. WaitInv'
  BY <1>1, <1>4, Zenon DEF WaitInv, TypeOK, StartVertex, VertexOf
<1>11. ReadyInv'
  <2>1. \A s \in Strand : ready'[s] = IF s = g THEN StartVertex(g) ELSE ready[s]
    BY Zenon DEF TypeOK
  <2>2. \A v \in StartVertex(g) : pc'[v] = "idle"
    BY <1>1, <1>6, Zenon DEF StartVertex, VertexOf
  <2>3. \A v \in StartVertex(g), s \in Strand \ {g} : v \notin ready[s]
    BY Zenon DEF ReadyInv, StartVertex, VertexOf, Succ
  <2>4. \A s \in Strand : \A v \in ready[s] : pc'[v] = "idle"
    BY <1>1 DEF ReadyInv, HeldOnce, TypeOK
  <2> QED
    BY <2>1, <2>2, <2>3, <2>4 DEF ReadyInv, HeldOnce
<1>12. NestInv'
  <2>1. \A h \in Graph : pc'[h] = "idle" => h # g /\ pc[h] = "idle"
    BY <1>1, Zenon
  <2>2. \A h \in Graph : pc[h] = "idle" /\ h # g => pc'[h] = "idle"
    BY <1>1, Zenon
  <2>3. \A p \in Vertex :
          /\ pc'[p] \in {"idle", "ready"} => pc[p] \in {"idle", "ready"} /\ SubGraph[p] # g
          /\ pc'[p] = "running" => pc[p] = "running" \/ SubGraph[p] = g
          /\ pc[p] = "running" => pc'[p] = "running"
          /\ SubGraph[p] = g => pc'[p] = "running"
    BY <1>1, Zenon
  <2>4. g = Root \/ \E p \in Vertex : SubGraph[p] = g
    BY Zenon DEF StartGraphPc
  <2> QED
    BY <1>6, <2>1, <2>2, <2>3, <2>4 DEF NestInv
<1> QED
  BY <1>2, <1>5, <1>7, <1>8, <1>9, <1>10, <1>11, <1>12, Zenon

\* The strand s posts w, or s ends by running it.
HandOutPc(s, w) ==
  \/ pc' = [pc EXCEPT ![w] = "ready"]
  \/ ready[s] = {w} /\ pc' = [pc EXCEPT ![s] = "over", ![w] = "ready"]

-----------------------------------------------------------------------------
\* Handing out a vertex w of the ready list of s, with the rest of the list
\* kept or the list used up.
LEMMA HandOut ==
  ASSUME IInv, NEW s \in Strand, NEW w \in ready[s], pc[s] = "dispatch", HandOutPc(s, w),
         ready' = [ready EXCEPT ![s] = @ \ {w}],
         UNCHANGED <<deps_results, waiting_num, result, join_vertex_num, todo, cur, done, expired>>
  PROVE  IInv'
<1> USE GraphAssumption, ContextAssumption DEF GraphAssumption, ContextAssumption, Strand, IInv
<1>1. w \in Vertex /\ pc[w] = "idle" /\ w # s
  BY Zenon DEF TypeOK, ReadyInv, HeldOnce
<1>2. /\ pc' \in [Strand -> {"idle", "ready", "running", "lost", "finish"} \cup Joined]
      /\ pc'[w] = "ready"
      /\ \A t \in Strand \ {w} : pc'[t] = pc[t] \/ (t = s /\ ready[s] = {w} /\ pc'[t] = "over")
  <2>1. CASE pc' = [pc EXCEPT ![w] = "ready"]
    BY <1>1, <2>1, Zenon DEF TypeOK, Joined
  <2>2. CASE ready[s] = {w} /\ pc' = [pc EXCEPT ![s] = "over", ![w] = "ready"]
    BY <1>1, <2>2, Zenon DEF TypeOK, Joined
  <2> QED
    BY <2>1, <2>2, Zenon DEF HandOutPc
<1>3. TypeOK'
  BY <1>2, Zenon DEF TypeOK
<1>4. \A v \in Vertex : pc'[v] \in Joined <=> pc[v] \in Joined
  BY <1>1, <1>2, Zenon DEF Joined
<1>5. \A d, v \in Vertex : Delivered(d, v)' <=> Delivered(d, v)
  BY <1>1, <1>2, <1>4, Zenon DEF Delivered, Joined
<1>6. CountersExact'
  <2>1. \A h \in Graph : Unjoined(h)' = Unjoined(h)
    BY <1>4, Zenon DEF Unjoined, VertexOf
  <2>2. \A v \in Vertex : Undelivered(v)' = Undelivered(v)
    BY <1>5, Zenon DEF Undelivered
  <2> QED
    BY <2>1, <2>2, Zenon DEF CountersExact
<1>7. \A t \in Strand : ready'[t] = IF t = s THEN ready[s] \ {w} ELSE ready[t]
  BY Zenon DEF TypeOK
<1>8. DoneIsLast'
  <2> SUFFICES ASSUME NEW g \in Graph, done[g] = 1
               PROVE  /\ pc'[g] \in {"dispatch", "over"} /\ ready'[g] = {}
                      /\ \A v \in VertexOf(g) : pc'[v] \in {"dispatch", "over"} /\ ready'[v] = {}
    BY Zenon DEF DoneIsLast, VertexOf
  <2>1. w \notin VertexOf(g) /\ w # g
    BY <1>1, ZenonT(60) DEF DoneIsLast
  <2>2. \A t \in VertexOf(g) \cup {g} : t \in Strand /\ pc[t] \in {"dispatch", "over"} /\ ready[t] = {}
    BY DEF DoneIsLast, VertexOf
  <2> QED
    BY <1>2, <1>7, <2>1, <2>2
<1>9. StrandInv'
  <2>1. \A g \in Graph : w \in VertexOf(g) => pc[g] # "idle"
    <3> SUFFICES ASSUME NEW g \in Graph, w \in VertexOf(g), pc[g] = "idle" PROVE FALSE
      BY Zenon
    <3>1. CASE s \in Graph
      BY <3>1, Zenon DEF ReadyInv, StartVertex, VertexOf
    <3>2. CASE s \in Vertex
      BY <3>2, <1>1, Zenon DEF ReadyInv, Succ, VertexOf, StrandInv
    <3> QED
      BY <3>1, <3>2, Zenon
  <2>2. \A v \in Vertex :
          /\ (result[v] \in Result <=> pc'[v] \in {"finish"} \cup Joined)
          /\ pc'[v] \notin {"notify", "sub", "load"} => todo[v] = {}
          /\ pc'[v] = "notify" => todo[v] # {}
          /\ pc'[v] # "load"
          /\ pc'[v] = "lost" => v \in Processor
    BY <1>1, <1>2 DEF StrandInv, Joined
  <2>3. \A v \in Vertex : pc'[v] \notin Joined \/ pc'[v] = "over" => ready'[v] = {}
    BY <1>1, <1>2, <1>4, <1>7 DEF StrandInv, Joined
  <2>4. \A g \in Graph : /\ pc'[g] \in {"idle", "dispatch", "over"}
                         /\ pc'[g] # "dispatch" => ready'[g] = {}
    BY <1>1, <1>2, <1>7 DEF StrandInv
  <2>5. \A g \in Graph : pc'[g] = "idle" => \A v \in VertexOf(g) : pc'[v] = "idle"
    BY <1>1, <1>2, <2>1 DEF StrandInv, VertexOf
  <2> QED
    BY <2>2, <2>3, <2>4, <2>5, Zenon DEF StrandInv, VertexOf
<1>10. SlotInv'
  BY <1>1, <1>2, <1>4 DEF SlotInv, TypeOK, Joined, Succ
<1>11. WaitInv'
  <2>1. \A d \in Deps[w] : Delivered(d, w)
    BY <1>1, Zenon DEF WaitInv
  <2>2. \A v \in Vertex : pc[v] = "idle" \/ pc'[v] # "idle"
    BY <1>1, <1>2, Zenon
  <2>3. \A v \in Vertex \ {w} : pc'[v] # "idle" => pc[v] # "idle"
    BY <1>2, Zenon
  <2> QED
    BY <1>5, <1>7, <2>1, <2>2, <2>3 DEF WaitInv, TypeOK
<1>12. ReadyInv'
  <2>1. \A t \in Strand : \A v \in ready'[t] : v # w /\ v \in ready[t] /\ pc'[v] = "idle"
    BY <1>1, <1>2, <1>7 DEF ReadyInv, HeldOnce, TypeOK
  <2> QED
    BY <2>1, <1>7, Zenon DEF ReadyInv, HeldOnce
<1>13. NestInv'
  <2>1. \A g \in Graph : (pc'[g] = "idle" => pc[g] = "idle") /\ (pc[g] = "idle" => pc'[g] = "idle")
    BY <1>1, <1>2
  <2>2. \A p \in Vertex :
          /\ pc'[p] = "running" => pc[p] = "running"
          /\ pc[p] = "running" => pc'[p] = "running"
          /\ pc'[p] \in {"idle", "ready"} => pc[p] \in {"idle", "ready"}
    BY <1>1, <1>2, Zenon
  <2> QED
    BY <2>1, <2>2, Zenon DEF NestInv
<1> QED
  BY <1>3, <1>6, <1>8, <1>9, <1>10, <1>11, <1>12, <1>13, Zenon

\* Steps that neither start nor end a run of a nested graph keep NestInv.
LEMMA NestStable ==
  ASSUME NestInv, done' = done,
         \A t \in Strand : /\ pc'[t] \in {"idle", "ready"} => pc[t] \in {"idle", "ready"}
                           /\ pc'[t] = "idle" => pc[t] = "idle"
                           /\ pc[t] = "idle" => pc'[t] = "idle"
                           /\ pc'[t] = "running" => pc[t] = "running"
                           /\ pc[t] = "running" => pc'[t] = "running"
  PROVE  NestInv'
<1>1. \A p \in Vertex : p \in Strand /\ (SubGraph[p] # NoGraph => SubGraph[p] \in Graph /\ SubGraph[p] \in Strand)
  BY GraphAssumption, Zenon DEF GraphAssumption, Strand
<1>2. ASSUME NEW p \in Vertex, SubGraph[p] # NoGraph
      PROVE  /\ pc'[p] \in {"idle", "ready"} => pc'[SubGraph[p]] = "idle"
             /\ pc'[p] = "running" => done'[SubGraph[p]] = 0
             /\ pc'[SubGraph[p]] # "idle" /\ done'[SubGraph[p]] = 0 => pc'[p] = "running"
  BY <1>1, <1>2, Zenon DEF NestInv
<1>3. ASSUME NEW g \in Graph, pc'[g] # "idle", g # Root
      PROVE  \E p \in Vertex : SubGraph[p] = g
  BY <1>3, Zenon DEF NestInv, Strand
<1> QED
  BY <1>2, <1>3, Zenon DEF NestInv

\* The bookkeeping of a thread with nothing to hand out.
LEMMA NothingReadyInv ==
  ASSUME IInv, NEW s \in Strand, NothingReady(s)
  PROVE  IInv'
<1> USE GraphAssumption DEF GraphAssumption, Strand, IInv, NothingReady
<1>1. \A t \in Strand : pc'[t] = IF t = s THEN "over" ELSE pc[t]
  BY Zenon DEF TypeOK
<1>2. TypeOK'
  BY Zenon DEF TypeOK, Joined
<1>3. \A v \in Vertex : (pc'[v] \in Joined => pc[v] \in Joined) /\ (pc[v] \in Joined => pc'[v] \in Joined)
  BY <1>1, Zenon DEF Joined
<1>4. \A d, v \in Vertex : (Delivered(d, v)' => Delivered(d, v)) /\ (Delivered(d, v) => Delivered(d, v)')
  BY <1>1 DEF Delivered, Joined
<1>5. CountersExact'
  <2>1. \A h \in Graph : Unjoined(h)' = Unjoined(h)
    BY <1>3, Zenon DEF Unjoined, VertexOf
  <2>2. \A v \in Vertex : Undelivered(v)' = Undelivered(v)
    BY <1>4, Zenon DEF Undelivered
  <2> QED
    BY <2>1, <2>2, Zenon DEF CountersExact
<1>6. DoneIsLast' /\ StrandInv'
  BY <1>1 DEF DoneIsLast, StrandInv, VertexOf, Joined
<1>7. SlotInv'
  BY <1>1, <1>3 DEF SlotInv, Succ
<1>8. WaitInv'
  <2>1. \A v \in Vertex : pc'[v] # "idle" => pc[v] # "idle"
    BY <1>1, Zenon
  <2> QED
    BY <1>4, <2>1, Zenon DEF WaitInv
<1>9. ReadyInv'
  BY <1>1 DEF ReadyInv, HeldOnce, TypeOK
<1>10. NestInv'
  <2>1. \A t \in Strand : /\ pc'[t] \in {"idle", "ready"} => pc[t] \in {"idle", "ready"}
                          /\ pc'[t] = "idle" => pc[t] = "idle"
                          /\ pc[t] = "idle" => pc'[t] = "idle"
                          /\ pc'[t] = "running" => pc[t] = "running"
                          /\ pc[t] = "running" => pc'[t] = "running"
    BY <1>1
  <2>2. done' = done
    BY <1>1, Zenon
  <2> QED
    BY <2>1, <2>2, NestStable, Zenon
<1> QED
  BY <1>2, <1>5, <1>6, <1>7, <1>8, <1>9, <1>10, Zenon

\* A vertex that was handed out has heard from all it waits for.
LEMMA Heard ==
  ASSUME IInv, NEW d \in Vertex, NEW v \in Succ(d), pc[v] # "idle"
  PROVE  v \in Vertex /\ d \in Deps[v] /\ Delivered(d, v)
BY Zenon DEF IInv, WaitInv, Succ

\* OnVertexDone of a vertex that is not the last one.
LEMMA JoinNotLastInv ==
  ASSUME IInv, NEW v \in Vertex, JoinNotLast(v)
  PROVE  IInv'
<1> USE GraphAssumption DEF GraphAssumption, Strand, IInv
<1> DEFINE g == GraphOf[v]
<1>1. /\ pc[v] = "finish" /\ g \in Graph /\ v \notin Graph
      /\ \A t \in Strand : t # v => pc'[t] = pc[t]
      /\ pc'[v] = IF Succ(v) = {} THEN "dispatch" ELSE "notify"
      /\ \A w \in Vertex : todo'[w] = IF w = v THEN Succ(v) ELSE todo[w]
      /\ \A h \in Graph : join_vertex_num'[h] = IF h = g THEN join_vertex_num[g] - 1 ELSE join_vertex_num[h]
      /\ UNCHANGED <<deps_results, waiting_num, result, cur, ready, done, expired>>
  BY Zenon DEF JoinNotLast, TypeOK
<1>2. v \in Unjoined(g) /\ IsFiniteSet(Unjoined(g)) /\ Cardinality(Unjoined(g)) \in Nat
  BY <1>1, FiniteCounted, FS_CardinalityType, ZenonT(60) DEF Unjoined, VertexOf, Joined
<1>3. Cardinality(Unjoined(g) \ {v}) = Cardinality(Unjoined(g)) - 1 /\ Cardinality(Unjoined(g) \ {v}) \in Nat
  BY <1>2, FS_RemoveElement, FS_CardinalityType
<1>4. TypeOK'
  <2>1. join_vertex_num' \in [Graph -> Nat]
    BY <1>1, <1>3 DEF CountersExact, JoinNotLast, TypeOK
  <2>2. Succ(v) \in SUBSET Vertex
    BY Zenon DEF Succ
  <2> QED
    BY <2>1, <2>2, Zenon DEF JoinNotLast, TypeOK, Joined
<1>5. \A w \in Vertex : \A d \in Deps[w] :
        (Delivered(d, w)' => Delivered(d, w)) /\ (Delivered(d, w) => Delivered(d, w)')
  <2> SUFFICES ASSUME NEW w \in Vertex, NEW d \in Deps[w]
               PROVE  (Delivered(d, w)' => Delivered(d, w)) /\ (Delivered(d, w) => Delivered(d, w)')
    BY Zenon
  <2>1. CASE d = v
    <3>1. w \in Succ(v)
      BY <2>1, Zenon DEF Succ
    <3>2. ~Delivered(d, w) /\ ~Delivered(d, w)'
      BY <1>1, <2>1, <3>1, Zenon DEF Delivered, Joined
    <3> QED
      BY <3>2, Zenon
  <2>2. CASE d # v
    BY <1>1, <2>2, Zenon DEF Delivered
  <2> QED
    BY <2>1, <2>2, Zenon
<1>6. CountersExact'
  <2>1. Unjoined(g)' = Unjoined(g) \ {v}
    BY <1>1, ZenonT(60) DEF Unjoined, VertexOf, Joined
  <2>2. \A h \in Graph : h # g => Unjoined(h)' = Unjoined(h)
    BY <1>1 DEF Unjoined, VertexOf
  <2>3. \A w \in Vertex : Undelivered(w)' = Undelivered(w)
    BY <1>5, Zenon DEF Undelivered
  <2>4. join_vertex_num'[g] = Cardinality(Unjoined(g)')
    BY <1>1, <1>3, <2>1 DEF CountersExact
  <2>5. \A h \in Graph : join_vertex_num'[h] = Cardinality(Unjoined(h)')
    BY <1>1, <2>2, <2>4 DEF CountersExact
  <2> QED
    BY <1>1, <2>3, <2>5 DEF CountersExact
<1>7. DoneIsLast'
  <2>1. done[g] # 1
    BY <1>1, Zenon DEF DoneIsLast, VertexOf
  <2> QED
    BY <1>1, <2>1 DEF DoneIsLast, VertexOf
<1>8. StrandInv'
  <2>1. ready[v] = {} /\ result[v] \in Result
    BY <1>1, ZenonT(60) DEF StrandInv, Joined
  <2>2. pc'[v] \in {"dispatch", "notify"} /\ (pc'[v] = "notify" <=> todo'[v] # {})
    BY <1>1, Zenon
  <2>3. \A w \in Vertex : w # v => pc'[w] = pc[w] /\ todo'[w] = todo[w]
    BY <1>1, Zenon
  <2>4. \A h \in Graph : pc'[h] = pc[h]
    BY <1>1, Zenon
  <2>5. \A w \in Vertex : pc'[w] = "idle" <=> pc[w] = "idle"
    BY <1>1, <2>2, <2>3, Zenon
  <2>6. \A w \in Vertex :
          /\ result[w] \in Result <=> pc'[w] \in {"finish"} \cup Joined
          /\ pc'[w] \notin {"notify", "sub", "load"} => todo'[w] = {}
          /\ pc'[w] = "notify" => todo'[w] # {}
          /\ pc'[w] \notin Joined \/ pc'[w] = "over" => ready[w] = {}
          /\ pc'[w] # "load"
          /\ pc'[w] = "lost" => w \in Processor
    BY <2>1, <2>2, <2>3 DEF StrandInv, Joined
  <2>7. \A h \in Graph :
          /\ pc'[h] \in {"idle", "dispatch", "over"}
          /\ pc'[h] # "dispatch" => ready[h] = {}
          /\ pc'[h] = "idle" => \A w \in VertexOf(h) : pc'[w] = "idle"
    BY <2>4, <2>5, Zenon DEF StrandInv, VertexOf
  <2> QED
    BY <1>1, <2>6, <2>7, Zenon DEF StrandInv, VertexOf
<1>9. SlotInv'
  <2>1. \A w \in Succ(v) : deps_results[w][v] = "invalid"
    BY <1>1, Zenon DEF SlotInv, Joined
  <2>2. pc'[v] # "sub"
    BY <1>1, Zenon
  <2> QED
    BY <1>1, <2>1, <2>2 DEF SlotInv
<1>10. WaitInv'
  <2>1. \A w \in Vertex : pc'[w] # "idle" => pc[w] # "idle"
    BY <1>1, Zenon
  <2> QED
    BY <1>1, <1>5, <2>1, Zenon DEF WaitInv
<1>11. ReadyInv'
  <2>1. \A w \in Vertex : pc[w] = "idle" => pc'[w] = "idle"
    BY <1>1, Zenon
  <2>2. \A s \in Strand : ready[s] \subseteq Vertex
    BY Zenon DEF TypeOK
  <2> QED
    BY <1>1, <2>1, <2>2 DEF ReadyInv, HeldOnce
<1>12. NestInv'
  <2>1. \A t \in Strand : /\ pc'[t] \in {"idle", "ready"} => pc[t] \in {"idle", "ready"}
                          /\ pc'[t] = "idle" => pc[t] = "idle"
                          /\ pc[t] = "idle" => pc'[t] = "idle"
                          /\ pc'[t] = "running" => pc[t] = "running"
                          /\ pc[t] = "running" => pc'[t] = "running"
    BY <1>1, Zenon
  <2>2. done' = done
    BY <1>1, Zenon
  <2> QED
    BY <2>1, <2>2, NestStable, Zenon
<1> QED
  BY <1>4, <1>6, <1>7, <1>8, <1>9, <1>10, <1>11, <1>12, Zenon

-----------------------------------------------------------------------------

\* OnVertexDone of the last vertex: every other vertex of the graph is
\* through, so nobody waits for this one and no thread has work left.
LEMMA JoinLastInv ==
  ASSUME IInv, NEW v \in Vertex, JoinLast(v)
  PROVE  IInv'
<1> USE GraphAssumption DEF GraphAssumption, Strand, IInv
<1> DEFINE g == GraphOf[v]
<1>1. pc[v] = "finish" /\ g \in Graph /\ v \in VertexOf(g) /\ v \notin Graph /\ join_vertex_num[g] = 1
  BY Zenon DEF JoinLast, VertexOf
<1>2. Unjoined(g) = {v}
  <2>1. v \in Unjoined(g) /\ IsFiniteSet(Unjoined(g)) /\ Cardinality(Unjoined(g)) = 1
    BY <1>1, FiniteCounted, Zenon DEF Unjoined, Joined, CountersExact
  <2> QED
    BY <2>1, CardOne, Zenon
<1>3. \A w \in VertexOf(g) : w # v => pc[w] \in Joined
  BY <1>2, Zenon DEF Unjoined
<1>4. \A w \in VertexOf(g) : pc[w] # "idle"
  BY <1>1, <1>3, Zenon DEF Joined
<1>5. \A d \in VertexOf(g) : Succ(d) \subseteq VertexOf(g)
  BY Zenon DEF Succ, VertexOf
<1>6. Succ(v) = {}
  <2> SUFFICES ASSUME NEW w \in Succ(v) PROVE FALSE
    BY Zenon
  <2>1. Delivered(v, w)
    BY <1>1, <1>4, <1>5, Heard, Zenon
  <2> QED
    BY <1>1, <2>1, Zenon DEF Delivered, Joined
<1>7. \A w \in VertexOf(g) : w # v => pc[w] \in {"dispatch", "over"}
  <2> SUFFICES ASSUME NEW w \in VertexOf(g), w # v, pc[w] \notin {"dispatch", "over"} PROVE FALSE
    BY Zenon
  <2>1. w \in Vertex /\ pc[w] \in {"notify", "sub"}
    BY <1>3, Zenon DEF Joined, StrandInv, VertexOf
  <2>2. PICK x \in Succ(w) : ~Delivered(w, x)
    BY <2>1 DEF SlotInv, StrandInv, Delivered
  <2> QED
    BY <1>4, <1>5, <2>1, <2>2, Heard, Zenon
<1>8. ready[g] = {} /\ \A w \in VertexOf(g) : ready[w] = {}
  <2>1. \A w \in VertexOf(g) : ready[w] \subseteq VertexOf(g)
    BY <1>5, Zenon DEF ReadyInv, VertexOf
  <2>2. ready[g] \subseteq VertexOf(g)
    BY Zenon DEF ReadyInv, StartVertex
  <2>3. \A s \in Strand : \A w \in ready[s] : pc[w] = "idle"
    BY Zenon DEF ReadyInv, HeldOnce
  <2>4. \A w \in VertexOf(g) : w \in Strand
    BY Zenon DEF VertexOf
  <2> QED
    BY <1>1, <1>4, <2>1, <2>2, <2>3, <2>4
<1>9. pc[g] \in {"dispatch", "over"} /\ done[g] = 0
  BY <1>1, Zenon DEF StrandInv, DoneIsLast
<1>10. \A p \in ParentOf(g) : p \in Vertex /\ SubGraph[p] = g /\ pc[p] = "running" /\ p # v /\ p # g
  BY <1>1, <1>9 DEF ParentOf, NestInv
<1>11. /\ pc'[v] = "over"
       /\ \A p \in ParentOf(g) : pc'[p] = "finish"
       /\ \A t \in Strand : t # v /\ t \notin ParentOf(g) => pc'[t] = pc[t]
       /\ \A w \in Vertex : result'[w] = IF w \in ParentOf(g) THEN "ok" ELSE result[w]
       /\ \A h \in Graph : join_vertex_num'[h] = IF h = g THEN 0 ELSE join_vertex_num[h]
       /\ \A h \in Graph : done'[h] = IF h = g THEN 1 ELSE done[h]
       /\ UNCHANGED <<deps_results, waiting_num, todo, cur, ready, expired>>
  BY <1>9, <1>10 DEF JoinLast, TypeOK
<1>12. TypeOK'
  BY DEF JoinLast, TypeOK, Joined, Result
<1>13. \A w \in Vertex : w # v =>
         (pc'[w] \in Joined => pc[w] \in Joined) /\ (pc[w] \in Joined => pc'[w] = pc[w])
  BY <1>10, <1>11, Zenon DEF Joined
<1>14. \A w \in Vertex : \A d \in Deps[w] :
         (Delivered(d, w)' => Delivered(d, w)) /\ (Delivered(d, w) => Delivered(d, w)')
  <2>1. \A w \in Vertex : v \notin Deps[w]
    BY <1>6, Zenon DEF Succ
  <2> QED
    BY <1>11, <1>13, <2>1 DEF Delivered
<1>15. CountersExact'
  <2>1. Unjoined(g)' = {}
    BY <1>2, <1>10, <1>11, <1>13 DEF Unjoined, VertexOf, Joined
  <2>2. \A h \in Graph : h # g => Unjoined(h)' = Unjoined(h)
    BY <1>1, <1>13 DEF Unjoined, VertexOf
  <2>3. \A w \in Vertex : Undelivered(w)' = Undelivered(w)
    BY <1>14, Zenon DEF Undelivered
  <2>4. join_vertex_num'[g] = Cardinality(Unjoined(g)')
    BY <1>1, <1>11, <2>1, FS_EmptySet
  <2>5. \A h \in Graph : h # g => join_vertex_num'[h] = Cardinality(Unjoined(h)')
    BY <1>11, <2>2 DEF CountersExact
  <2> QED
    BY <1>11, <2>3, <2>4, <2>5 DEF CountersExact
<1>16. DoneIsLast'
  <2>1. \A h \in Graph : h # g /\ done[h] = 1 =>
          /\ pc'[h] \in {"dispatch", "over"}
          /\ \A w \in VertexOf(h) : pc'[w] \in {"dispatch", "over"}
    <3>1. \A t \in Strand : pc[t] \in {"dispatch", "over"} => pc'[t] \in {"dispatch", "over"}
      BY <1>1, <1>10, <1>11, Zenon
    <3> QED
      BY <3>1, Zenon DEF DoneIsLast, VertexOf
  <2>2. pc'[g] \in {"dispatch", "over"} /\ \A w \in VertexOf(g) : pc'[w] \in {"dispatch", "over"}
    <3>1. \A w \in VertexOf(g) \cup {g} : w \in Strand
      BY DEF VertexOf
    <3>2. \A w \in VertexOf(g) \cup {g} : w # v => w \notin ParentOf(g)
      BY <1>7, <1>9, <1>10, Zenon
    <3> QED
      BY <1>1, <1>7, <1>9, <1>11, <3>1, <3>2, Zenon
  <2> QED
    BY <1>8, <1>11, <2>1, <2>2 DEF DoneIsLast, VertexOf
<1>17. StrandInv'
  <2>1. \A w \in Vertex : w # v /\ w \notin ParentOf(g) => pc'[w] = pc[w] /\ result'[w] = result[w]
    BY <1>11, Zenon
  <2>2. v \notin ParentOf(g) /\ result'[v] = result[v] /\ result[v] \in Result /\ todo[v] = {} /\ ready[v] = {}
    BY <1>1, <1>10, <1>11, ZenonT(60) DEF StrandInv, Joined
  <2>3. \A p \in ParentOf(g) : result'[p] \in Result /\ pc'[p] = "finish" /\ todo[p] = {} /\ ready[p] = {}
    BY <1>10, <1>11, Zenon DEF StrandInv, Joined, Result
  <2>4. \A h \in Graph : pc'[h] = pc[h]
    BY <1>1, <1>10, <1>11
  <2>5. \A w \in Vertex : pc[w] = "idle" => pc'[w] = "idle"
    BY <1>1, <1>10, <1>11, Zenon
  <2>6. \A w \in Vertex :
          /\ (result'[w] \in Result => pc'[w] \in {"finish"} \cup Joined)
          /\ (pc'[w] \in {"finish"} \cup Joined => result'[w] \in Result)
          /\ pc'[w] \notin {"notify", "sub", "load"} => todo[w] = {}
          /\ pc'[w] = "notify" => todo[w] # {}
          /\ pc'[w] \notin Joined \/ pc'[w] = "over" => ready[w] = {}
          /\ pc'[w] # "load"
          /\ pc'[w] = "lost" => w \in Processor
    BY <1>11, <2>1, <2>2, <2>3 DEF StrandInv, Joined
  <2> QED
    BY <1>11, <2>4, <2>5, <2>6 DEF StrandInv, VertexOf
<1>18. SlotInv'
  <2>1. \A d \in Vertex : d # v /\ pc'[d] \in Joined => pc[d] = pc'[d] /\ result'[d] = result[d]
    BY <1>10, <1>11, <1>13, Zenon DEF Joined
  <2>2. \A d \in Vertex : d # v /\ pc'[d] \notin Joined => pc[d] \notin Joined
    BY <1>13, Zenon
  <2>3. todo[v] = {}
    BY <1>1, Zenon DEF StrandInv
  <2>4. pc'[v] # "sub" /\ \A d \in Vertex : d # v /\ pc'[d] = "sub" => pc[d] = "sub"
    BY <1>10, <1>11, Zenon
  <2>5. UNCHANGED <<deps_results, todo, cur>>
    BY <1>11, Zenon
  <2> SUFFICES ASSUME NEW d \in Vertex
               PROVE  /\ todo'[d] \subseteq Succ(d)
                      /\ pc'[d] = "sub" => cur'[d] \in Succ(d) /\ cur'[d] \notin todo'[d]
                      /\ \A w \in Succ(d) :
                           IF pc'[d] \in Joined /\ w \notin todo'[d]
                           THEN deps_results'[w][d] = result'[d]
                           ELSE deps_results'[w][d] = "invalid"
    BY Zenon DEF SlotInv
  <2>6. CASE d = v
    BY <1>6, <2>3, <2>4, <2>5, <2>6, Zenon
  <2>7. CASE d # v
    BY <2>1, <2>2, <2>4, <2>5, <2>7, Zenon DEF SlotInv
  <2> QED
    BY <2>6, <2>7, Zenon
<1>19. WaitInv'
  <2>1. \A w \in Vertex : pc'[w] # "idle" => pc[w] # "idle"
    BY <1>1, <1>10, <1>11, Zenon
  <2> QED
    BY <1>11, <1>14, <2>1, Zenon DEF WaitInv
<1>20. ReadyInv'
  <2>1. \A w \in Vertex : pc[w] = "idle" => pc'[w] = "idle"
    BY <1>1, <1>10, <1>11, Zenon
  <2>2. \A s \in Strand : ready[s] \subseteq Vertex
    BY Zenon DEF TypeOK
  <2> QED
    BY <1>11, <2>1, <2>2 DEF ReadyInv, HeldOnce
<1>21. NestInv'
  <2>1. \A h \in Graph : pc'[h] = pc[h]
    BY <1>1, <1>10, <1>11, ZenonT(60)
  <2>2. \A p \in Vertex : SubGraph[p] = g => pc'[p] = "finish"
    BY <1>11, Zenon DEF ParentOf
  <2>3. \A p \in Vertex : SubGraph[p] # g =>
          /\ pc'[p] \in {"idle", "ready"} => pc[p] = pc'[p]
          /\ pc'[p] = "running" => pc[p] = "running"
          /\ pc[p] = "running" => pc'[p] = "running"
    BY <1>1, <1>11, Zenon DEF ParentOf
  <2>4. \A p \in Vertex : SubGraph[p] # NoGraph => SubGraph[p] \in Graph
    BY Zenon
  <2>5. ASSUME NEW p \in Vertex, SubGraph[p] # NoGraph
        PROVE  /\ pc'[p] \in {"idle", "ready"} => pc'[SubGraph[p]] = "idle"
               /\ pc'[p] = "running" => done'[SubGraph[p]] = 0
               /\ pc'[SubGraph[p]] # "idle" /\ done'[SubGraph[p]] = 0 => pc'[p] = "running"
    <3>1. CASE SubGraph[p] = g
      <4>1. pc'[p] = "finish"
        BY <2>2, <3>1, Zenon
      <4>2. done'[g] = 1
        BY <1>1, <1>11, Zenon
      <4>3. done'[SubGraph[p]] # 0
        BY <3>1, <4>2
      <4> QED
        BY <4>1, <4>3, Zenon
    <3>2. CASE SubGraph[p] # g
      BY <1>11, <2>1, <2>3, <2>4, <2>5, <3>2 DEF NestInv
    <3> QED
      BY <3>1, <3>2, Zenon
  <2> QED
    BY <2>1, <2>5, Zenon DEF NestInv
<1> QED
  BY <1>12, <1>15, <1>16, <1>17, <1>18, <1>19, <1>20, <1>21, Zenon

\* A thread writes its vertex's result into the slot of a successor.
LEMMA WriteDependencyInv ==
  ASSUME IInv, NEW v \in Vertex, NEW w \in Vertex, WriteDependency(v, w)
  PROVE  IInv'
<1> USE GraphAssumption DEF GraphAssumption, Strand, IInv
<1>1. pc[v] = "notify" /\ w \in todo[v] /\ w \in Succ(v) /\ deps_results[w][v] = "invalid" /\ v \notin Graph
  BY Zenon DEF WriteDependency, SlotInv
<1>2. /\ pc'[v] = "sub" /\ \A t \in Strand : t # v => pc'[t] = pc[t]
      /\ cur'[v] = w /\ \A d \in Vertex : d # v => cur'[d] = cur[d]
      /\ todo'[v] = todo[v] \ {w} /\ \A d \in Vertex : d # v => todo'[d] = todo[d]
      /\ \A x, d \in Vertex : deps_results'[x][d] = IF x = w /\ d = v THEN result[v] ELSE deps_results[x][d]
      /\ UNCHANGED <<waiting_num, result, join_vertex_num, ready, done, expired>>
  BY <1>1 DEF WriteDependency, TypeOK
<1>3. TypeOK'
  BY Zenon DEF WriteDependency, TypeOK, Joined
<1>4. \A t \in Strand : (pc'[t] \in Joined => pc[t] \in Joined) /\ (pc[t] \in Joined => pc'[t] \in Joined)
  BY <1>1, <1>2, Zenon DEF Joined
<1>5. \A x \in Vertex : \A d \in Deps[x] :
        (Delivered(d, x)' => Delivered(d, x)) /\ (Delivered(d, x) => Delivered(d, x)')
  <2> SUFFICES ASSUME NEW x \in Vertex, NEW d \in Deps[x]
               PROVE  (Delivered(d, x)' => Delivered(d, x)) /\ (Delivered(d, x) => Delivered(d, x)')
    OBVIOUS
  <2>1. d \in Vertex
    BY Zenon
  <2>2. CASE d # v
    BY <1>2, <1>4, <2>1, <2>2, Zenon DEF Delivered
  <2>3. CASE d = v
    BY <1>1, <1>2, <2>3, Zenon DEF Delivered, Joined
  <2> QED
    BY <2>2, <2>3, Zenon
<1>6. CountersExact'
  <2>1. \A h \in Graph : Unjoined(h)' = Unjoined(h)
    BY <1>4, Zenon DEF Unjoined, VertexOf
  <2>2. \A x \in Vertex : Undelivered(x)' = Undelivered(x)
    BY <1>5, Zenon DEF Undelivered
  <2> QED
    BY <1>2, <2>1, <2>2 DEF CountersExact
<1>7. DoneIsLast'
  <2>1. \A h \in Graph : v \in VertexOf(h) => done[h] # 1
    BY <1>1, Zenon DEF DoneIsLast
  <2> QED
    BY <1>1, <1>2, <2>1 DEF DoneIsLast, VertexOf
<1>8. StrandInv'
  <2>1. /\ pc'[v] = "sub" /\ UNCHANGED <<result, ready>>
        /\ \A d \in Vertex : d # v => pc'[d] = pc[d] /\ todo'[d] = todo[d]
    BY <1>2, Zenon
  <2>2. \A h \in Graph : pc'[h] = pc[h]
    BY <1>1, <1>2, Zenon
  <2>3. result[v] \in Result
    BY <1>1, Zenon DEF StrandInv, Joined
  <2>4. \A d \in Vertex : pc'[d] = "idle" <=> pc[d] = "idle"
    BY <1>1, <2>1, Zenon
  <2>5. \A x \in Vertex :
          /\ result[x] \in Result <=> pc'[x] \in {"finish"} \cup Joined
          /\ pc'[x] \notin {"notify", "sub", "load"} => todo'[x] = {}
          /\ pc'[x] = "notify" => todo'[x] # {}
          /\ pc'[x] \notin Joined \/ pc'[x] = "over" => ready[x] = {}
          /\ pc'[x] # "load"
          /\ pc'[x] = "lost" => x \in Processor
    BY <2>1, <2>3 DEF StrandInv, Joined
  <2>6. \A h \in Graph :
          /\ pc'[h] \in {"idle", "dispatch", "over"}
          /\ pc'[h] # "dispatch" => ready[h] = {}
          /\ pc'[h] = "idle" => \A x \in VertexOf(h) : pc'[x] = "idle"
    BY <2>2, <2>4, Zenon DEF StrandInv, VertexOf
  <2> QED
    BY <2>1, <2>5, <2>6, Zenon DEF StrandInv, VertexOf
<1>9. SlotInv'
  <2>1. todo'[v] \subseteq Succ(v) /\ cur'[v] \in Succ(v) /\ cur'[v] \notin todo'[v]
    BY <1>1, <1>2, Zenon DEF SlotInv
  <2>2. \A x \in Succ(v) : IF x \notin todo'[v] THEN deps_results'[x][v] = result[v]
                                                ELSE deps_results'[x][v] = "invalid"
    BY <1>1, <1>2 DEF SlotInv, Joined, Succ
  <2>3. \A d \in Vertex : d # v => \A x \in Succ(d) : deps_results'[x][d] = deps_results[x][d]
    BY <1>2 DEF Succ
  <2>4. result' = result /\ pc'[v] \in Joined
    BY <1>2, Zenon DEF Joined
  <2>7. \A d \in Vertex : d # v => pc'[d] = pc[d] /\ todo'[d] = todo[d] /\ cur'[d] = cur[d]
    BY <1>2, Zenon
  <2>5. \A d \in Vertex : d # v =>
          /\ todo'[d] \subseteq Succ(d)
          /\ pc'[d] = "sub" => cur'[d] \in Succ(d) /\ cur'[d] \notin todo'[d]
          /\ \A x \in Succ(d) : IF pc'[d] \in Joined /\ x \notin todo'[d]
                                THEN deps_results'[x][d] = result[d]
                                ELSE deps_results'[x][d] = "invalid"
    BY <2>3, <2>7 DEF SlotInv
  <2>6. /\ todo'[v] \subseteq Succ(v)
        /\ pc'[v] = "sub" => cur'[v] \in Succ(v) /\ cur'[v] \notin todo'[v]
        /\ \A x \in Succ(v) : IF pc'[v] \in Joined /\ x \notin todo'[v]
                              THEN deps_results'[x][v] = result[v]
                              ELSE deps_results'[x][v] = "invalid"
    BY <2>1, <2>2, <2>4, Zenon
  <2>8. \A d \in Vertex :
          /\ todo'[d] \subseteq Succ(d)
          /\ pc'[d] = "sub" => cur'[d] \in Succ(d) /\ cur'[d] \notin todo'[d]
          /\ \A x \in Succ(d) : IF pc'[d] \in Joined /\ x \notin todo'[d]
                                THEN deps_results'[x][d] = result'[d]
                                ELSE deps_results'[x][d] = "invalid"
    BY <2>4, <2>5, <2>6, Zenon
  <2> QED
    BY <2>8, Zenon DEF SlotInv, Succ, Joined
<1>10. WaitInv'
  <2>1. \A x \in Vertex : pc'[x] # "idle" => pc[x] # "idle"
    BY <1>1, <1>2, Zenon
  <2> QED
    BY <1>2, <1>5, <2>1, Zenon DEF WaitInv
<1>11. ReadyInv'
  <2>1. \A x \in Vertex : pc[x] = "idle" => pc'[x] = "idle"
    BY <1>1, <1>2, Zenon
  <2>2. \A s \in Strand : ready[s] \subseteq Vertex
    BY Zenon DEF TypeOK
  <2> QED
    BY <1>2, <2>1, <2>2 DEF ReadyInv, HeldOnce
<1>12. NestInv'
  <2>1. \A t \in Strand : /\ pc'[t] \in {"idle", "ready"} => pc[t] \in {"idle", "ready"}
                          /\ pc'[t] = "idle" => pc[t] = "idle"
                          /\ pc[t] = "idle" => pc'[t] = "idle"
                          /\ pc'[t] = "running" => pc[t] = "running"
                          /\ pc[t] = "running" => pc'[t] = "running"
    BY <1>1, <1>2, Zenon
  <2>2. done' = done
    BY <1>1, <1>2, Zenon
  <2> QED
    BY <2>1, <2>2, NestStable, Zenon
<1> QED
  BY <1>3, <1>6, <1>7, <1>8, <1>9, <1>10, <1>11, <1>12, Zenon

-----------------------------------------------------------------------------

\* A thread counts its vertex off a successor, which becomes ready if nothing
\* else is missing; it was in nobody's ready list before.
LEMMA CountDependencyInv ==
  ASSUME IInv, NEW v \in Vertex, CountDependency(v)
  PROVE  IInv'
<1> USE GraphAssumption DEF GraphAssumption, Strand, IInv
<1>0. PICK w \in Vertex : w = cur[v]
  BY Zenon DEF TypeOK
<1>1. cur[v] = w /\ pc[v] = "sub" /\ v \notin Graph /\ w \in Vertex /\ w \in Succ(v) /\ w \notin todo[v] /\ v \in Deps[w]
  BY <1>0, Zenon DEF CountDependency, StrandInv, SlotInv, Succ
<1>2. ~Delivered(v, w) /\ v \in Undelivered(w)
  BY <1>1, Zenon DEF Delivered, Undelivered
<1>3. pc[w] = "idle" /\ \A s \in Strand : w \notin ready[s]
  BY <1>1, <1>2, Zenon DEF WaitInv
<1>4. /\ pc' = [pc EXCEPT ![v] = IF todo[v] = {} THEN "dispatch" ELSE "notify"]
      /\ waiting_num' = [waiting_num EXCEPT ![w] = @ - 1]
      /\ ready' = IF waiting_num[w] = 1 THEN [ready EXCEPT ![v] = @ \cup {w}] ELSE ready
      /\ UNCHANGED <<deps_results, result, join_vertex_num, todo, cur, done, expired>>
  BY <1>1, Zenon DEF CountDependency
<1>pc. /\ pc'[v] \in {"dispatch", "notify"}
       /\ pc'[v] = "dispatch" => todo[v] = {}
       /\ pc'[v] = "notify" => todo[v] # {}
       /\ \A t \in Strand : t # v => pc'[t] = pc[t]
  BY <1>4, Zenon DEF TypeOK
<1>num. \A x \in Vertex : waiting_num'[x] = IF x = w THEN waiting_num[w] - 1 ELSE waiting_num[x]
  BY <1>4, Zenon DEF TypeOK
<1>ready. /\ \A t \in Strand : t # v => ready'[t] = ready[t]
          /\ ready'[v] = ready[v] \/ (waiting_num[w] = 1 /\ ready'[v] = ready[v] \cup {w})
  BY <1>4, Zenon DEF TypeOK
<1>5. /\ IsFiniteSet(Undelivered(w)) /\ Cardinality(Undelivered(w)) = waiting_num[w]
      /\ Cardinality(Undelivered(w) \ {v}) = waiting_num[w] - 1 /\ waiting_num[w] - 1 \in Nat
  <2>1. IsFiniteSet(Undelivered(w)) /\ Cardinality(Undelivered(w)) = waiting_num[w]
    BY <1>1, FiniteCounted, Zenon DEF CountersExact
  <2>2. IsFiniteSet(Undelivered(w) \ {v}) /\ Cardinality(Undelivered(w) \ {v}) = waiting_num[w] - 1
    BY <1>2, <2>1, FS_RemoveElement, ZenonT(60)
  <2>3. Cardinality(Undelivered(w) \ {v}) \in Nat
    BY <2>2, FS_CardinalityType, Zenon
  <2> QED
    BY <2>1, <2>2, <2>3, Zenon
<1>6. TypeOK'
  <2>1. waiting_num' \in [Vertex -> Nat]
    BY <1>4, <1>5, Zenon DEF TypeOK
  <2>2. ready' \in [Strand -> SUBSET Vertex]
    BY <1>4 DEF TypeOK
  <2> QED
    BY <1>4, <2>1, <2>2, Zenon DEF TypeOK, Joined
<1>7. \A t \in Strand : (pc'[t] \in Joined => pc[t] \in Joined) /\ (pc[t] \in Joined => pc'[t] \in Joined)
  BY <1>1, <1>pc, Zenon DEF Joined
<1>8. Delivered(v, w)'
  BY <1>1, <1>4, <1>pc, Zenon DEF Delivered, Joined
<1>9. \A x \in Vertex : \A d \in Deps[x] : Delivered(d, x) => Delivered(d, x)'
  BY <1>1, <1>pc, <1>4, <1>7, Zenon DEF Delivered, Joined
<1>10. \A x \in Vertex : \A d \in Deps[x] : x # w \/ d # v => (Delivered(d, x)' => Delivered(d, x))
  BY <1>1, <1>pc, <1>4, <1>7, Zenon DEF Delivered, Joined
<1>11. CountersExact'
  <2>1. \A h \in Graph : Unjoined(h)' = Unjoined(h)
    BY <1>7, Zenon DEF Unjoined, VertexOf
  <2>2. \A x \in Vertex : x # w => Undelivered(x)' = Undelivered(x)
    BY <1>9, <1>10, Zenon DEF Undelivered
  <2>3. Undelivered(w)' = Undelivered(w) \ {v}
    BY <1>1, <1>8, <1>9, <1>10, Zenon DEF Undelivered
  <2>4. waiting_num'[w] = Cardinality(Undelivered(w)')
    BY <1>1, <1>num, <1>5, <2>3, Zenon
  <2>5. \A x \in Vertex : x # w => waiting_num'[x] = Cardinality(Undelivered(x)')
    BY <1>num, <2>2, Zenon DEF CountersExact
  <2>6. \A x \in Vertex : waiting_num'[x] = Cardinality(Undelivered(x)')
    BY <2>4, <2>5, Zenon
  <2>7. \A h \in Graph : join_vertex_num'[h] = Cardinality(Unjoined(h)')
    BY <1>4, <2>1, Zenon DEF CountersExact
  <2> QED
    BY <2>6, <2>7, Zenon DEF CountersExact
<1>12. DoneIsLast'
  <2>1. \A h \in Graph : v \in VertexOf(h) => done[h] # 1
    BY <1>1, Zenon DEF DoneIsLast
  <2>2. \A t \in Strand : t # v => pc'[t] = pc[t] /\ ready'[t] = ready[t]
    BY <1>pc, <1>ready, Zenon
  <2>3. done' = done
    BY <1>4, Zenon
  <2> QED
    BY <1>1, <2>1, <2>2, <2>3, ZenonT(60) DEF DoneIsLast, VertexOf
<1>13. StrandInv'
  <2>1. UNCHANGED <<result, todo>>
    BY <1>4, Zenon
  <2>2. result[v] \in Result
    BY <1>1, Zenon DEF StrandInv, Joined
  <2>3. \A x \in Vertex : x # v => pc'[x] = pc[x] /\ ready'[x] = ready[x]
    BY <1>pc, <1>ready, Zenon
  <2>4. \A h \in Graph : pc'[h] = pc[h] /\ ready'[h] = ready[h]
    BY <1>1, <1>pc, <1>ready, Zenon
  <2>5. \A x \in Vertex : pc[x] = "idle" => pc'[x] = "idle"
    BY <1>1, <2>3, Zenon
  <2>6. \A x \in Vertex :
          /\ result[x] \in Result <=> pc'[x] \in {"finish"} \cup Joined
          /\ pc'[x] \notin {"notify", "sub", "load"} => todo[x] = {}
          /\ pc'[x] = "notify" => todo[x] # {}
          /\ pc'[x] \notin Joined \/ pc'[x] = "over" => ready'[x] = {}
          /\ pc'[x] # "load"
          /\ pc'[x] = "lost" => x \in Processor
    BY <1>pc, <2>2, <2>3 DEF StrandInv, Joined
  <2>7. \A h \in Graph :
          /\ pc'[h] \in {"idle", "dispatch", "over"}
          /\ pc'[h] # "dispatch" => ready'[h] = {}
          /\ pc'[h] = "idle" => \A x \in VertexOf(h) : pc'[x] = "idle"
    BY <2>4, <2>5 DEF StrandInv, VertexOf
  <2> QED
    BY <2>1, <2>6, <2>7 DEF StrandInv, VertexOf, Joined
<1>14. SlotInv'
  <2>1. UNCHANGED <<deps_results, result, todo, cur>>
    BY <1>4, Zenon
  <2>2. \A d \in Vertex : pc'[d] = "sub" => pc[d] = "sub"
    BY <1>pc, Zenon
  <2>3. \A d \in Vertex : pc'[d] \in Joined <=> pc[d] \in Joined
    BY <1>7, Zenon
  <2> QED
    BY <2>1, <2>2, <2>3, Zenon DEF SlotInv
<1>15. WaitInv'
  <2>1. waiting_num[w] = 1 => \A d \in Deps[w] : Delivered(d, w)'
    <3> SUFFICES ASSUME waiting_num[w] = 1, NEW d \in Deps[w] PROVE Delivered(d, w)'
      BY Zenon
    <3>1. Undelivered(w) = {v}
      BY <1>2, <1>5, CardOne, Zenon
    <3> QED
      BY <1>1, <1>8, <1>9, <3>1, Zenon DEF Undelivered
  <2>2. \A x \in Vertex : pc'[x] # "idle" => pc[x] # "idle"
    BY <1>1, <1>pc, Zenon
  <2>3. \A x \in Vertex, t \in Strand : x \in ready'[t] => x \in ready[t] \/ (x = w /\ waiting_num[w] = 1)
    BY <1>ready, Zenon
  <2> QED
    BY <1>9, <2>1, <2>2, <2>3 DEF WaitInv
<1>16. ReadyInv'
  <2>1. \A x \in Vertex : pc[x] = "idle" => pc'[x] = "idle"
    BY <1>1, <1>pc, Zenon
  <2>2. \A s \in Strand : ready[s] \subseteq Vertex
    BY Zenon DEF TypeOK
  <2>3. \A s \in Strand : \A x \in ready'[s] : x \in ready[s] \/ (x = w /\ s = v)
    BY <1>ready, Zenon
  <2>4. \A h \in Graph : ready'[h] = ready[h]
    BY <1>1, <1>ready, Zenon
  <2>5. HeldOnce'
    <3> SUFFICES ASSUME NEW s \in Strand, NEW t \in Strand, NEW x \in ready'[s]
                 PROVE  pc'[x] = "idle" /\ (x \in ready'[t] => s = t)
      BY Zenon DEF HeldOnce
    <3>1. CASE x = w
      BY <1>3, <2>1, <2>3, <3>1, Zenon
    <3>2. CASE x # w
      BY <2>1, <2>2, <2>3, <3>2, Zenon DEF ReadyInv, HeldOnce
    <3> QED
      BY <3>1, <3>2, Zenon
  <2>6. \A s \in Vertex : ready'[s] \subseteq Succ(s)
    BY <1>1, <2>3, Zenon DEF ReadyInv
  <2> QED
    BY <2>4, <2>5, <2>6, Zenon DEF ReadyInv
<1>17. NestInv'
  <2>1. \A t \in Strand : /\ pc'[t] \in {"idle", "ready"} => pc[t] \in {"idle", "ready"}
                          /\ pc'[t] = "idle" => pc[t] = "idle"
                          /\ pc[t] = "idle" => pc'[t] = "idle"
                          /\ pc'[t] = "running" => pc[t] = "running"
                          /\ pc[t] = "running" => pc'[t] = "running"
    BY <1>1, <1>pc, Zenon
  <2>2. done' = done
    BY <1>4, Zenon
  <2> QED
    BY <2>1, <2>2, NestStable, Zenon
<1> QED
  BY <1>6, <1>11, <1>12, <1>13, <1>14, <1>15, <1>16, <1>17, Zenon

-----------------------------------------------------------------------------
\* The step lemma: every step of every thread keeps the invariant.
LEMMA NextIInv == IInv /\ [Next]_vars => IInv'
<1> SUFFICES ASSUME IInv, [Next]_vars PROVE IInv'
  BY Zenon
<1> USE GraphAssumption, ContextAssumption DEF GraphAssumption, ContextAssumption
<1>1. CASE ExecuteRoot
  BY <1>1, StartGraph, Zenon DEF ExecuteRoot, StartGraphPc
<1>2. ASSUME NEW s \in Strand, NEW w \in Vertex, PostVertex(s, w) PROVE IInv'
  BY <1>2, HandOut, Zenon DEF PostVertex, HandOutPc
<1>3. ASSUME NEW s \in Strand, NEW w \in Vertex, RunLocal(s, w) PROVE IInv'
  <2>1. w \in ready[s] /\ ready[s] \ {w} = {}
    BY <1>3, Zenon DEF RunLocal
  <2>2. ready' = [ready EXCEPT ![s] = @ \ {w}]
    BY <1>3, <2>1, Zenon DEF RunLocal
  <2> QED
    BY <1>3, <2>1, <2>2, HandOut, Zenon DEF RunLocal, HandOutPc
<1>4. ASSUME NEW s \in Strand, NothingReady(s) PROVE IInv'
  BY <1>4, NothingReadyInv, Zenon
<1>5. ASSUME NEW v \in Vertex, SkipVertex(v) PROVE IInv'
  <2>1. \E r \in Result : result' = [result EXCEPT ![v] = r]
    BY <1>5, Zenon DEF SkipVertex, FinishWith, Result
  <2> QED
    BY <1>5, <2>1, LocalStep, Zenon DEF SkipVertex, FinishWith, IInv, TypeOK
<1>6. ASSUME NEW v \in Vertex, ExecuteProcessor(v) PROVE IInv'
  BY <1>6, LocalStep, Zenon DEF ExecuteProcessor, IInv, TypeOK
<1>7. ASSUME NEW v \in Vertex, ExecuteSubGraph(v) PROVE IInv'
  <2>1. SubGraph[v] \in Graph /\ pc[SubGraph[v]] = "idle"
    BY <1>7, Zenon DEF ExecuteSubGraph, IInv, NestInv
  <2>2. StartGraphPc(SubGraph[v])
    BY <1>7, Zenon DEF ExecuteSubGraph, StartGraphPc
  <2> QED
    BY <1>7, <2>1, <2>2, StartGraph, Zenon DEF ExecuteSubGraph
<1>8. ASSUME NEW v \in Vertex, ProcessorReturns(v) PROVE IInv'
  <2>1. \E r \in Result : result' = [result EXCEPT ![v] = r]
    BY <1>8, Zenon DEF ProcessorReturns, FinishWith, Result
  <2>2. /\ pc' = [pc EXCEPT ![v] = "finish"] /\ pc[v] = "running" /\ v \in Processor
        /\ UNCHANGED <<deps_results, waiting_num, join_vertex_num, todo, cur, ready, done, expired>>
    BY <1>8, Zenon DEF ProcessorReturns, FinishWith
  <2> QED
    BY <2>1, <2>2, LocalStep, Zenon DEF IInv, TypeOK
<1>9. ASSUME NEW v \in Vertex, ProcessorRejects(v) PROVE IInv'
  BY <1>9, LocalStep, Zenon DEF ProcessorRejects, IInv, TypeOK
<1>10. ASSUME NEW v \in Vertex, JoinLast(v) \/ JoinNotLast(v) \/ CountDependency(v) PROVE IInv'
  BY <1>10, JoinLastInv, JoinNotLastInv, CountDependencyInv, Zenon
<1>11. ASSUME NEW v \in Vertex, NEW w \in Vertex, WriteDependency(v, w) PROVE IInv'
  BY <1>11, WriteDependencyInv, Zenon
<1>12. CASE Expire \/ UNCHANGED vars
  <2>1. /\ UNCHANGED <<pc, deps_results, waiting_num, result, join_vertex_num, todo, cur, ready, done>>
        /\ expired' \in BOOLEAN
    BY <1>12, ZenonT(60) DEF Expire, vars, IInv, TypeOK
  <2>2. TypeOK'
    BY <2>1, Zenon DEF IInv, TypeOK
  <2>3. CountersExact'
    <3>1. \A g : Unjoined(g)' = Unjoined(g)
      BY <2>1, Zenon DEF Unjoined
    <3>2. \A v : Undelivered(v)' = Undelivered(v)
      BY <2>1, ZenonT(60) DEF Undelivered, Delivered
    <3> QED
      BY <2>1, <3>1, <3>2, Zenon DEF IInv, CountersExact
  <2>4. DoneIsLast'
    BY <2>1, Zenon DEF IInv, DoneIsLast
  <2>5. StrandInv'
    BY <2>1, Zenon DEF IInv, StrandInv
  <2>6. SlotInv'
    BY <2>1, Zenon DEF IInv, SlotInv
  <2>7. WaitInv'
    BY <2>1, Zenon DEF IInv, WaitInv, Delivered
  <2>8. ReadyInv' /\ NestInv'
    BY <2>1, Zenon DEF IInv, ReadyInv, HeldOnce, NestInv
  <2> QED
    BY <2>2, <2>3, <2>4, <2>5, <2>6, <2>7, <2>8, Zenon DEF IInv
<1> QED
  BY <1>1, <1>2, <1>3, <1>4, <1>5, <1>6, <1>7, <1>8, <1>9, <1>10, <1>11, <1>12, Zenon DEF Next, Dispatch, Step

\* IInv is an invariant of the executor.
THEOREM Invariance == Spec => []IInv
<1> QED
  BY InitIInv, NextIInv, PTL DEF Spec

\* The variables keep their types; in particular neither atomic counter ever
\* wraps around.
THEOREM TypeCorrect == Spec => []TypeOK
<1>1. IInv => TypeOK
  BY Zenon DEF IInv
<1> QED
  BY <1>1, Invariance, PTL

\* _join_vertex_num and _waiting_num are exact in every interleaving.
THEOREM Counters == Spec => []CountersExact
<1>1. IInv => CountersExact
  BY Zenon DEF IInv
<1> QED
  BY <1>1, Invariance, PTL

\* The done closure is called at most once, after everything else.
THEOREM DoneLast == Spec => []DoneIsLast
<1>1. IInv => DoneIsLast
  BY Zenon DEF IInv
<1> QED
  BY <1>1, Invariance, PTL

\* No vertex is in two ready lists, or in one after it was handed out.
THEOREM Held == Spec => []HeldOnce
<1>1. IInv => HeldOnce
  BY Zenon DEF IInv, ReadyInv
<1> QED
  BY <1>1, Invariance, PTL

\* A vertex that is executed sees the final results of its dependencies.
LEMMA VisibleByIInv == IInv => DependenciesVisible
<1> SUFFICES ASSUME IInv, NEW v \in Vertex, pc[v] # "idle", NEW d \in Deps[v]
             PROVE  pc[d] \in Joined /\ result[d] \in Result /\ deps_results[v][d] = result[d]
  BY Zenon DEF DependenciesVisible
<1>1. d \in Vertex /\ v \in Succ(d) /\ Delivered(d, v)
  BY GraphAssumption, Zenon DEF GraphAssumption, IInv, WaitInv, Succ
<1> QED
  BY <1>1, Zenon DEF IInv, StrandInv, SlotInv, Delivered

\* VertexContext::Execute reads only finished dependencies.
THEOREM Visible == Spec => []DependenciesVisible
<1> QED
  BY VisibleByIInv, Invariance, PTL

\* No vertex is executed twice in a run.
THEOREM Once == Spec => ExecuteOnce
<1> DEFINE A == \A v \in Vertex : pc[v] # "idle" => pc'[v] # "idle" /\ (pc'[v] = "ready" => pc[v] = "ready")
<1>1. IInv /\ [Next]_vars => [A]_vars
  <2> SUFFICES ASSUME IInv, Next PROVE A
    BY Zenon
  <2> USE GraphAssumption, ContextAssumption DEF GraphAssumption, ContextAssumption, IInv, TypeOK, Strand, Joined
  <2>1. CASE ExecuteRoot
    BY <2>1, Zenon DEF ExecuteRoot
  <2>2. ASSUME NEW s \in Strand, NEW w \in Vertex, PostVertex(s, w) PROVE A
    BY <2>2 DEF PostVertex, ReadyInv, HeldOnce
  <2>3. ASSUME NEW s \in Strand, NEW w \in Vertex, RunLocal(s, w) PROVE A
    BY <2>3 DEF RunLocal, ReadyInv, HeldOnce
  <2>4. ASSUME NEW s \in Strand, NothingReady(s) PROVE A
    BY <2>4, Zenon DEF NothingReady
  <2>5. ASSUME NEW v \in Vertex, SkipVertex(v) \/ ExecuteProcessor(v) \/ ProcessorReturns(v) \/ ProcessorRejects(v)
        PROVE  A
    BY <2>5, Zenon DEF SkipVertex, ExecuteProcessor, ProcessorReturns, ProcessorRejects
  <2>6. ASSUME NEW v \in Vertex, ExecuteSubGraph(v) PROVE A
    BY <2>6, Zenon DEF ExecuteSubGraph
  <2>7. ASSUME NEW v \in Vertex, JoinLast(v) PROVE A
    BY <2>7, Zenon DEF JoinLast
  <2>8. ASSUME NEW v \in Vertex, JoinNotLast(v) \/ CountDependency(v) PROVE A
    BY <2>8 DEF JoinNotLast, CountDependency
  <2>9. ASSUME NEW v \in Vertex, NEW w \in Vertex, WriteDependency(v, w) PROVE A
    BY <2>9, Zenon DEF WriteDependency
  <2>10. CASE Expire
    BY <2>10, Zenon DEF Expire
  <2> QED
    BY <2>1, <2>2, <2>3, <2>4, <2>5, <2>6, <2>7, <2>8, <2>9, <2>10, Zenon DEF Next, Dispatch, Step
<1> QED
  BY <1>1, Invariance, PTL DEF Spec, ExecuteOnce

-----------------------------------------------------------------------------
\* The refinement.  Three facts read off the invariant: the abstract status of
\* a vertex, when a graph is running, and what a thread that joins last knows.
LEMMA StatusOf ==
  ASSUME IInv, NEW v \in Vertex
  PROVE  /\ pc[v] \in {"idle", "ready"} => statusBar[v] = "pending"
         /\ pc[v] \in {"running", "lost"} => statusBar[v] = "active"
         /\ pc[v] \in {"finish"} \cup Joined => statusBar[v] = result[v] /\ result[v] \in Result
<1>1. result[v] \in Result <=> pc[v] \in {"finish"} \cup Joined
  BY Zenon DEF IInv, StrandInv
<1> QED
  BY <1>1, Zenon DEF statusBar, Joined

LEMMA RunningOf ==
  ASSUME IInv, NEW g \in Graph, pc[g] # "idle", done[g] = 0
  PROVE  Abstract!Running(g)
<1>1. CASE g = Root
  BY <1>1, Zenon DEF Abstract!Running
<1>2. CASE g # Root
  <2>1. PICK p \in Vertex : SubGraph[p] = g
    BY <1>2, Zenon DEF IInv, NestInv
  <2>2. pc[p] = "running"
    BY <2>1, GraphAssumption, Zenon DEF IInv, NestInv, GraphAssumption
  <2>3. statusBar[p] = "active"
    BY <2>2, StatusOf, Zenon
  <2> QED
    BY <2>1, <2>3, Zenon DEF Abstract!Running
<1> QED
  BY <1>1, <1>2, Zenon

\* The graph of a vertex that is on its way has been started and is not done.
LEMMA GraphUnderWay ==
  ASSUME IInv, NEW v \in Vertex, pc[v] \in {"ready", "running", "lost", "finish"}
  PROVE  GraphOf[v] \in Graph /\ pc[GraphOf[v]] # "idle" /\ done[GraphOf[v]] = 0
<1>1. GraphOf[v] \in Graph /\ v \in VertexOf(GraphOf[v])
  BY GraphAssumption, Zenon DEF GraphAssumption, VertexOf
<1>2. pc[GraphOf[v]] # "idle"
  BY <1>1, Zenon DEF IInv, StrandInv
<1>3. done[GraphOf[v]] = 0
  BY <1>1, Zenon DEF IInv, DoneIsLast
<1> QED
  BY <1>1, <1>2, <1>3, Zenon

\* A step that moves one vertex changes the status of no other.
LEMMA StatusMoves ==
  ASSUME NEW v \in Vertex,
         \A w \in Vertex : w # v =>
           /\ result'[w] = result[w]
           /\ pc'[w] \in {"running", "lost"} <=> pc[w] \in {"running", "lost"}
  PROVE  statusBar' = [statusBar EXCEPT ![v] = statusBar'[v]]
<1>1. \A w \in Vertex : w # v => statusBar'[w] = statusBar[w]
  BY Zenon DEF statusBar
<1>2. statusBar = [w \in Vertex |-> statusBar[w]] /\ statusBar' = [w \in Vertex |-> statusBar'[w]]
  BY Zenon DEF statusBar
<1> QED
  BY <1>1, <1>2, Zenon

\* A step that ends, begins and closes nothing is a stuttering step.
LEMMA StatusStays ==
  ASSUME UNCHANGED <<result, done>>,
         \A w \in Vertex : pc'[w] \in {"running", "lost"} <=> pc[w] \in {"running", "lost"}
  PROVE  UNCHANGED Abstract!vars
<1>1. statusBar' = statusBar
  BY Zenon DEF statusBar
<1>2. closedBar' = closedBar
  BY Zenon DEF closedBar
<1> QED
  BY <1>1, <1>2, Zenon DEF Abstract!vars

\* A vertex that is skipped has all its dependencies ended.
LEMMA SkipRefines ==
  ASSUME IInv, NEW v \in Vertex, SkipVertex(v)
  PROVE  Abstract!Skip(v)
<1> USE GraphAssumption DEF GraphAssumption
<1>1. pc[v] = "ready" /\ statusBar[v] = "pending" /\ Abstract!Running(GraphOf[v])
  BY StatusOf, GraphUnderWay, RunningOf, Zenon DEF SkipVertex
<1>2. \A d \in Deps[v] : Abstract!Ended(d)
  BY <1>1, VisibleByIInv, StatusOf, Zenon DEF DependenciesVisible, Abstract!Ended, Abstract!Result, Result
<1>3. statusBar'[v] = "err"
  BY Zenon DEF SkipVertex, FinishWith, statusBar, Result, IInv, TypeOK
<1>4. statusBar' = [statusBar EXCEPT ![v] = "err"]
  <2>1. \A w \in Vertex : w # v => result'[w] = result[w] /\ pc'[w] = pc[w]
    BY Zenon DEF SkipVertex, FinishWith, IInv, TypeOK, Strand
  <2> QED
    BY <1>3, <2>1, StatusMoves, Zenon
<1>5. closedBar' = closedBar
  BY Zenon DEF SkipVertex, FinishWith, closedBar
<1> QED
  BY <1>1, <1>2, <1>4, <1>5, Zenon DEF Abstract!Skip

\* A vertex that is executed has its dependencies ended as its edges ask.
LEMMA BeginRefines ==
  ASSUME IInv, NEW v \in Vertex, ExecuteProcessor(v) \/ ExecuteSubGraph(v)
  PROVE  Abstract!Begin(v)
<1> USE GraphAssumption, ContextAssumption DEF GraphAssumption, ContextAssumption
<1>1. pc[v] = "ready" /\ statusBar[v] = "pending" /\ Abstract!Running(GraphOf[v])
  BY StatusOf, GraphUnderWay, RunningOf, Zenon DEF ExecuteProcessor, ExecuteSubGraph
<1>2. \A d \in Deps[v] : statusBar[d] \in Expected[v][d]
  <2>1. MatchDeps(v)
    BY Zenon DEF ExecuteProcessor, ExecuteSubGraph
  <2>2. \A d \in Deps[v] : d \in Vertex /\ pc[d] \in Joined /\ deps_results[v][d] = result[d]
    BY <1>1, VisibleByIInv, Zenon DEF DependenciesVisible
  <2> QED
    BY <2>1, <2>2, StatusOf, Zenon DEF MatchDeps
<1>3. result' = result /\ closedBar' = closedBar
  BY Zenon DEF ExecuteProcessor, ExecuteSubGraph, closedBar
<1>4. pc'[v] = "running" /\ \A w \in Vertex : w # v => pc'[w] = pc[w]
  BY DEF ExecuteProcessor, ExecuteSubGraph, IInv, TypeOK, Strand
<1>5. statusBar'[v] = "active"
  BY <1>1, <1>3, <1>4, Zenon DEF statusBar, IInv, StrandInv, Joined
<1>6. statusBar' = [statusBar EXCEPT ![v] = "active"]
  BY <1>3, <1>4, <1>5, StatusMoves, Zenon
<1> QED
  BY <1>1, <1>2, <1>3, <1>6, Zenon DEF Abstract!Begin

LEMMA EndRefines ==
  ASSUME IInv, NEW v \in Vertex, ProcessorReturns(v)
  PROVE  Abstract!End(v)
<1> USE GraphAssumption, ContextAssumption DEF GraphAssumption, ContextAssumption
<1>1. statusBar[v] = "active" /\ SubGraph[v] \notin Graph
  BY StatusOf, Zenon DEF ProcessorReturns
<1>2. PICK r \in Result : result' = [result EXCEPT ![v] = r]
  BY Zenon DEF ProcessorReturns, FinishWith, Result
<1>3. pc' = [pc EXCEPT ![v] = "finish"] /\ closedBar' = closedBar
  BY Zenon DEF ProcessorReturns, FinishWith, closedBar
<1>4. statusBar'[v] = r
  BY <1>2, Zenon DEF statusBar, IInv, TypeOK
<1>5. statusBar' = [statusBar EXCEPT ![v] = r]
  <2>1. \A w \in Vertex : w # v => result'[w] = result[w] /\ pc'[w] = pc[w]
    BY <1>2, <1>3, Zenon DEF IInv, TypeOK, Strand
  <2> QED
    BY <1>4, <2>1, StatusMoves, ZenonT(60)
<1> QED
  BY <1>1, <1>3, <1>5, Zenon DEF Abstract!End, Abstract!Result, Result

\* The thread that takes the join count to zero knows that every vertex of
\* the graph has ended, and that the graph's parent waits for it.
LEMMA CloseRefines ==
  ASSUME IInv, NEW v \in Vertex, JoinLast(v)
  PROVE  Abstract!Close(GraphOf[v])
<1> USE GraphAssumption, ContextAssumption DEF GraphAssumption, ContextAssumption
<1> DEFINE g == GraphOf[v]
<1>1. g \in Graph /\ pc[g] # "idle" /\ done[g] = 0 /\ v \in VertexOf(g)
  BY GraphUnderWay, Zenon DEF JoinLast, VertexOf
<1>2. ~closedBar[g] /\ Abstract!Running(g)
  <2>1. ~(done[g] > 0)
    BY <1>1
  <2>2. closedBar[g] = (done[g] > 0)
    BY <1>1, Zenon DEF closedBar
  <2> QED
    BY <1>1, <2>1, <2>2, RunningOf, Zenon
<1>3. Unjoined(g) = {v}
  <2>1. v \in Unjoined(g) /\ Cardinality(Unjoined(g)) = 1
    BY <1>1, Zenon DEF JoinLast, Unjoined, IInv, CountersExact, Joined
  <2> QED
    BY <1>1, <2>1, CardOne, FiniteCounted
<1>4. \A w \in Vertex : GraphOf[w] = g => Abstract!Ended(w)
  <2>1. \A w \in Vertex : GraphOf[w] = g => pc[w] \in {"finish"} \cup Joined
    BY <1>3 DEF JoinLast, Unjoined, VertexOf
  <2> QED
    BY <2>1, StatusOf, Zenon DEF Abstract!Ended, Abstract!Result, Result
<1>5. closedBar' = [closedBar EXCEPT ![g] = TRUE]
  <2>1. \A x \in Graph : x # g => (done'[x] > 0) = (done[x] > 0)
    BY <1>1 DEF JoinLast, IInv, TypeOK
  <2>2. (done'[g] > 0) = TRUE
    BY <1>1 DEF JoinLast, IInv, TypeOK
  <2>3. closedBar' = [x \in Graph |-> IF x = g THEN TRUE ELSE closedBar[x]]
    <3>1. \A x \in Graph : (done'[x] > 0) = IF x = g THEN TRUE ELSE closedBar[x]
      BY <2>1, <2>2, Zenon DEF closedBar
    <3> QED
      BY <3>1, Zenon DEF closedBar
  <2> QED
    BY <2>3, Zenon DEF closedBar
<1>6. statusBar' = [w \in Vertex |-> IF SubGraph[w] = g THEN "ok" ELSE statusBar[w]]
  <2>1. ASSUME NEW w \in Vertex, SubGraph[w] = g PROVE statusBar'[w] = "ok"
    BY <2>1, Zenon DEF JoinLast, ParentOf, statusBar, Result
  <2>2. ASSUME NEW w \in Vertex, SubGraph[w] # g PROVE statusBar'[w] = statusBar[w]
    <3>1. result'[w] = result[w] /\ (w # v => pc'[w] = pc[w])
      BY <2>2, Zenon DEF JoinLast, ParentOf, Strand
    <3>2. result[v] \in Result
      BY Zenon DEF JoinLast, IInv, StrandInv
    <3> QED
      BY <3>1, <3>2, Zenon DEF statusBar
  <2> QED
    BY <2>1, <2>2 DEF statusBar
<1> QED
  BY <1>2, <1>4, <1>5, <1>6, Zenon DEF Abstract!Close

\* Every step of the executor is a step of GraphRun or leaves it unchanged.
LEMMA StepRefines == IInv /\ [Next]_vars => [Abstract!Next]_(Abstract!vars)
<1> SUFFICES ASSUME IInv, [Next]_vars PROVE Abstract!Next \/ UNCHANGED Abstract!vars
  BY Zenon
<1> USE GraphAssumption, ContextAssumption DEF GraphAssumption, ContextAssumption, IInv, TypeOK, Strand
<1>1. CASE ExecuteRoot
  BY <1>1, StatusStays, Zenon DEF ExecuteRoot
<1>2. ASSUME NEW s \in Strand, NEW w \in Vertex, PostVertex(s, w) \/ RunLocal(s, w)
      PROVE  UNCHANGED Abstract!vars
  <2>1. pc[w] = "idle" /\ pc[s] = "dispatch"
    BY <1>2, Zenon DEF PostVertex, RunLocal, ReadyInv, HeldOnce
  <2>2. \A x \in Vertex : pc'[x] \in {"running", "lost"} <=> pc[x] \in {"running", "lost"}
    BY <1>2, <2>1, ZenonT(60) DEF PostVertex, RunLocal
  <2> QED
    BY <1>2, <2>2, StatusStays, Zenon DEF PostVertex, RunLocal
<1>3. ASSUME NEW s \in Strand, NothingReady(s) PROVE UNCHANGED Abstract!vars
  BY <1>3, StatusStays, Zenon DEF NothingReady
<1>4. ASSUME NEW v \in Vertex, SkipVertex(v) PROVE Abstract!Next
  BY <1>4, SkipRefines, Zenon DEF Abstract!Next
<1>5. ASSUME NEW v \in Vertex, ExecuteProcessor(v) \/ ExecuteSubGraph(v) PROVE Abstract!Next
  BY <1>5, BeginRefines, Zenon DEF Abstract!Next
<1>6. ASSUME NEW v \in Vertex, ProcessorReturns(v) PROVE Abstract!Next
  BY <1>6, EndRefines, Zenon DEF Abstract!Next
<1>7. ASSUME NEW v \in Vertex, ProcessorRejects(v) PROVE UNCHANGED Abstract!vars
  BY <1>7, StatusStays, Zenon DEF ProcessorRejects
<1>8. ASSUME NEW v \in Vertex, JoinLast(v) PROVE Abstract!Next
  BY <1>8, CloseRefines, Zenon DEF Abstract!Next
<1>9. ASSUME NEW v \in Vertex, JoinNotLast(v) PROVE UNCHANGED Abstract!vars
  BY <1>9, StatusStays, Zenon DEF JoinNotLast
<1>10. ASSUME NEW v \in Vertex, CountDependency(v) PROVE UNCHANGED Abstract!vars
  BY <1>10, StatusStays, Zenon DEF CountDependency
<1>11. ASSUME NEW v \in Vertex, NEW w \in Vertex, WriteDependency(v, w) PROVE UNCHANGED Abstract!vars
  BY <1>11, StatusStays, Zenon DEF WriteDependency
<1>12. CASE Expire \/ UNCHANGED vars
  BY <1>12, StatusStays, Zenon DEF Expire, vars
<1> QED
  BY <1>1, <1>2, <1>3, <1>4, <1>5, <1>6, <1>7, <1>8, <1>9, <1>10, <1>11, <1>12, Zenon DEF Next, Dispatch, Step

\* The executor implements GraphRun for every graph cluster: no vertex runs
\* before its dependencies ended as its edges ask, and no graph is reported
\* done before all its vertices have ended.
THEOREM Refinement == Spec => RefinesGraphRun
<1>1. Init => Abstract!Init
  <2> SUFFICES ASSUME Init PROVE Abstract!Init
    BY Zenon
  <2>1. statusBar = [v \in Vertex |-> "pending"]
    BY Zenon DEF Init, statusBar, Strand, Result
  <2>2. \A g \in Graph : (done[g] > 0) = FALSE
    BY DEF Init
  <2>3. closedBar = [g \in Graph |-> FALSE]
    BY <2>2, Zenon DEF closedBar
  <2> QED
    BY <2>1, <2>3, Zenon DEF Abstract!Init
<1> QED
  BY <1>1, StepRefines, Invariance, PTL DEF Spec, RefinesGraphRun, Abstract!Spec
=============================================================================

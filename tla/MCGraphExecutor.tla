-------------------------- MODULE MCGraphExecutor --------------------------
(***************************************************************************)
(* Two graphs.  The root has a condition a, a vertex b that runs if a      *)
(* holds, a vertex c that runs the nested graph in any case, and d that    *)
(* joins b and c and expects c to succeed.  The nested graph has e and f,  *)
(* which start together, and h, which runs if e failed and whose own graph *)
(* is missing.                                                             *)
(***************************************************************************)
EXTENDS GraphExecutor

CONSTANTS a, b, c, d, e, f, h, R, S

MCVertex == {a, b, c, d, e, f, h}
MCGraph == {R, S}
MCGraphOf == [v \in MCVertex |-> IF v \in {e, f, h} THEN S ELSE R]
MCDeps == [v \in MCVertex |-> CASE v \in {b, c} -> {a}
                               [] v = d -> {b, c}
                               [] v = h -> {e}
                               [] OTHER -> {}]
MCExpected == [v \in MCVertex |-> [x \in MCVertex |->
                 CASE v = b -> {"ok"}
                   [] v = d /\ x = c -> {"ok"}
                   [] v = h -> {"err"}
                   [] OTHER -> Result]]
MCSubGraph == [v \in MCVertex |-> IF v = c THEN S ELSE NoGraph]
MCProcessor == MCVertex \ {c, h}
MCNonIO == {c, e, h}
=============================================================================

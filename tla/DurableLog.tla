----------------------------- MODULE DurableLog -----------------------------
(***************************************************************************)
(* What mraft asks of its log storage (log_storage.h): a log of terms by   *)
(* index that survives the process.  One request is served at a time; its  *)
(* effect appears between the call and the return, a suffix possibly in    *)
(* several bites, always from the back.  A crash forgets the request and   *)
(* nothing else, and a restart finds the log as it was.                    *)
(***************************************************************************)
EXTENDS Integers

CONSTANTS Term, NoRequest

VARIABLES
  log,    \* a function from the indices present to the terms
  first,  \* the first index that may be present
  up,     \* a process serves the log
  req     \* the request it is serving

vars == <<log, first, up, req>>

Only(S) == [i \in S |-> log[i]]
From(k) == {i \in DOMAIN log : i >= k}
UpTo(k) == {i \in DOMAIN log : i <= k}

\* The only index at which the log may grow.
IsNext(i) == i >= first /\ (i # first => i - 1 \in DOMAIN log) /\ From(i) = {}

Init ==
  /\ log = [i \in {} |-> 0]
  /\ first = 1
  /\ up = FALSE
  /\ req = NoRequest

Call ==
  /\ up /\ req = NoRequest
  /\ req' \in [op : {"append"}, index : Nat, term : Term] \cup [op : {"prefix", "suffix"}, index : Nat]
  /\ req'.op = "append" => IsNext(req'.index)
  /\ UNCHANGED <<log, first, up>>

Append ==
  /\ req # NoRequest /\ req.op = "append" /\ IsNext(req.index)
  /\ log' = [i \in DOMAIN log \cup {req.index} |-> IF i = req.index THEN req.term ELSE log[i]]
  /\ UNCHANGED <<first, up, req>>

DropPrefix ==
  /\ req # NoRequest /\ req.op = "prefix" /\ req.index > first
  /\ first' = req.index
  /\ log' = Only(From(req.index))
  /\ UNCHANGED <<up, req>>

DropSuffix ==
  /\ req # NoRequest /\ req.op = "suffix"
  /\ \E k \in DOMAIN log \cup {first} :
       /\ k > req.index
       /\ log' = Only(UpTo(k - 1))
  /\ UNCHANGED <<first, up, req>>

\* A request returns when its effect is in the log, not before.
Return ==
  /\ up /\ req # NoRequest
  /\ req.op = "append" => req.index \in DOMAIN log /\ log[req.index] = req.term
  /\ req.op = "prefix" => first >= req.index
  /\ req.op = "suffix" => From(req.index + 1) = {}
  /\ req' = NoRequest
  /\ UNCHANGED <<log, first, up>>

Crash ==
  /\ up
  /\ up' = FALSE /\ req' = NoRequest
  /\ UNCHANGED <<log, first>>

Restart ==
  /\ ~up
  /\ up' = TRUE
  /\ UNCHANGED <<log, first, req>>

Next == Call \/ Append \/ DropPrefix \/ DropSuffix \/ Return \/ Crash \/ Restart

Spec == Init /\ [][Next]_vars
=============================================================================

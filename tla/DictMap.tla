------------------------------ MODULE DictMap ------------------------------
(***************************************************************************)
(* What rdict::ReadonlyDict promises: a map from keys to values that one   *)
(* process fills and commits and later ones read.                          *)
(***************************************************************************)
EXTENDS Naturals, Sequences, FiniteSetsExt

CONSTANTS Key, Others, MaxOps, None

VARIABLES
  live,   \* the map as the process sees it, None when there is no process
  saved,  \* the map as it was committed, None before the first time
  calls,  \* number of calls of Put and Merge; Put's value is that number
  ret     \* which of them was the last, or "fail"

Empty == [k \in Key |-> None]

Init == live = Empty /\ saved = None /\ calls = 0 /\ ret = "put"

\* The value of k in the other dictionary ks: the last one put there.
OtherValue(ks, k) == MaxOps + Max({i \in DOMAIN ks : ks[i] = k})

\* A call gives the keys ks their values, new or replaced, and all other
\* keys keep theirs.
Assign(ks, value(_)) ==
  /\ live # None
  /\ \A k \in Key : live'[k] = IF k \in ks THEN value(k) ELSE live[k]
  /\ calls' = calls + 1
  /\ UNCHANGED saved

Put(k) == ret' = "put" /\ Assign({k}, LAMBDA x : calls')

Merge(ks) ==
  /\ ret' = "merge"
  /\ Assign({ks[i] : i \in DOMAIN ks}, LAMBDA x : OtherValue(ks, x))

\* A call that fails changes nothing, or leaves a dictionary that cannot be
\* used.
Fail ==
  /\ ret' = "fail"
  /\ live # None /\ live' \in {live, None}
  /\ calls' = calls + 1
  /\ UNCHANGED saved

Commit == saved' = live /\ live # None /\ UNCHANGED <<live, calls, ret>>

\* The process ends.
Close == live' = None /\ UNCHANGED <<saved, calls, ret>>

Open ==
  /\ live = None
  /\ live' = IF saved = None THEN Empty ELSE saved
  /\ UNCHANGED <<saved, calls, ret>>

Next ==
  \/ Commit
  \/ Close
  \/ Open
  \/ Fail
  \/ \E k \in Key : Put(k)
  \/ \E ks \in Others : Merge(ks)

Spec == Init /\ [][Next]_<<live, saved, calls, ret>>
=============================================================================

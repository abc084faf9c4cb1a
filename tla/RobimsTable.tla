----------------------------- MODULE RobimsTable -----------------------------
(***************************************************************************)
(* A robims table (src/robims): the fields of a document and their bitmap   *)
(* indexes, what Put and Remove do to them, how they are written to a file  *)
(* and read back, and how a query is computed from them.                    *)
(*                                                                          *)
(* F14 maps are walked in no particular order, so where an operation may    *)
(* stop half way it has a set of outcomes.                                  *)
(***************************************************************************)
EXTENDS Integers, Sequences, FiniteSets, SequencesExt

CONSTANTS LocalId,     \* local ids, numbers from 0
          FloatWidth   \* bits of a float, the sign included

NoMap == [x \in {} |-> 0]
Remapped(m, k, v) == [x \in DOMAIN m \cup {k} |-> IF x = k THEN v ELSE m[x]]

(* The bit-sliced index of a field whose values are lo..hi. *)
Bsi(lo, hi) == INSTANCE BitSlices WITH Id <- LocalId, MinInt <- lo, MaxInt <- hi

(* A float is sign and magnitude; its number sorts as the float does. *)
FloatBits(n) == IF n < 0 THEN 2^(FloatWidth - 1) - n ELSE n

float_to_uint32(n) ==
  IF n >= 0 THEN FloatBits(n) + 2^(FloatWidth - 1) ELSE 2^FloatWidth - 1 - FloatBits(n)

-----------------------------------------------------------------------------
(* FieldMeta.  A field holds a bitmap per string (SET, MUTEX, WEIGHT_SET)   *)
(* with weights, one bitmap (BOOL) or a bit-sliced index (INT, FLOAT).      *)
FieldTypes == {"set", "mutex", "weight_set", "int", "float", "bool"}
Meta(name, type, min, max, topk) ==
  [name |-> name, type |-> type, min |-> min, max |-> max, topk |-> topk]
Lo(m) == IF m.type = "float" THEN float_to_uint32(m.min) ELSE m.min
Hi(m) == IF m.type = "float" THEN float_to_uint32(m.max) ELSE m.max
Stored(m, n) == IF m.type = "float" THEN float_to_uint32(n) ELSE n
IsBsi(m) == m.type \in {"int", "float"}

(* RobimsFieldBuilder::Build and OnInit.  "loaded" is set when the vector of *)
(* the index has more elements than bits, the later ones without a bitmap.  *)
Build(m) == [meta |-> m, bm |-> NoMap, w |-> NoMap, ids |-> {}, loaded |-> FALSE,
             bits |-> IF IsBsi(m) THEN [j \in 0..Bsi(Lo(m), Hi(m))!Depth |-> {}] ELSE NoMap]

(* A table is its schema, the ids it has seen and its fields. *)
InitTable(schema) ==
  [schema |-> schema, ids |-> {},
   f |-> [n \in {schema.fields[i].name : i \in DOMAIN schema.fields} |->
            Build(schema.fields[CHOOSE i \in DOMAIN schema.fields : schema.fields[i].name = n])]]

(* parse_talbe_creation_desc: "name(field type[min,max], ...)".  Nothing    *)
(* asks for an id field.                                                    *)
ParseCreation(desc) ==
  LET ids(i) == Cardinality({j \in 1..i : desc.fields[j].type = "id"})
      bad == {i \in DOMAIN desc.fields :
                \/ desc.fields[i].type \notin FieldTypes \cup {"id"}
                \/ desc.fields[i].type = "id" /\ ids(i) > 1}
  IN [ok |-> bad = {},
      schema |-> [name |-> desc.name, nocreate |-> FALSE,
                  fields |-> SelectSeq(desc.fields, LAMBDA x : x.type # "id")]]

-----------------------------------------------------------------------------
(* Putting a value.  A JSON value is [k, ss, ws, n]: its kind, and strings, *)
(* weights or a number; NotString and NotNumber stand for other elements.   *)
NotString == "<not a string>"
NotNumber == -99
Json(k, ss, ws, n) == [k |-> k, ss |-> ss, ws |-> ws, n |-> n]
Absent == Json("absent", <<>>, <<>>, 0)

SetPut(f, id, s) ==
  [f EXCEPT !.bm = Remapped(@, s, (IF s \in DOMAIN @ THEN @[s] ELSE {}) \cup {id})]
SetRemove(f, id) == [f EXCEPT !.bm = [s \in DOMAIN @ |-> @[s] \ {id}]]

BoolPut(f, id, v) == [f EXCEPT !.ids = (@ \ {id}) \cup (IF v = 1 THEN {id} ELSE {})]
BoolRemove(f, id) == [f EXCEPT !.ids = @ \ {id}]

BsiPut(f, id, n) ==
  LET B == Bsi(Lo(f.meta), Hi(f.meta))!SetBits(f.bits, id,
             Bsi(Lo(f.meta), Hi(f.meta))!ToLocalVal(Stored(f.meta, n)))
  IN [f EXCEPT !.bits = B]

(* Get returns true for an id it finds; the test for 0 then calls Remove    *)
(* only for an id without a value, which has no bit.                        *)
BsiRemove(f, id) == f

(* The weights above the limit go, the lightest first; its bit stays.       *)
WeightSetPut(f, id, s, weight) ==
  LET ws   == Remapped(IF s \in DOMAIN f.w THEN f.w[s] ELSE NoMap, id, weight)
      min  == CHOOSE i \in DOMAIN ws : \A j \in DOMAIN ws :
                ws[i] < ws[j] \/ (ws[i] = ws[j] /\ i <= j)
      over == f.meta.topk > 0 /\ Cardinality(DOMAIN ws) > f.meta.topk
  IN [SetPut(f, id, s) EXCEPT
        !.w = Remapped(@, s, IF over THEN [i \in DOMAIN ws \ {min} |-> ws[i]] ELSE ws)]

(* The walk ends at the first string that has no weight for the id. *)
WeightSetRemove(f, id) ==
  LET have == {s \in DOMAIN f.w : id \in DOMAIN f.w[s]}
      without(ss) == [f EXCEPT
        !.w = [s \in DOMAIN @ |-> IF s \in ss THEN [i \in DOMAIN @[s] \ {id} |-> @[s][i]] ELSE @[s]],
        !.bm = [s \in DOMAIN @ |-> IF s \in ss THEN @[s] \ {id} ELSE @[s]]]
  IN {without(ss) : ss \in IF have = DOMAIN f.w THEN {have} ELSE SUBSET have}

RemoveField(f, id) ==
  CASE f.meta.type \in {"set", "mutex"} -> {SetRemove(f, id)}
    [] f.meta.type = "weight_set" -> WeightSetRemove(f, id)
    [] f.meta.type = "bool" -> {BoolRemove(f, id)}
    [] IsBsi(f.meta) -> {BsiRemove(f, id)}

Done(ok, f) == [ok |-> ok, f |-> f]

(* Mistake: the strings of the last document stay. *)
PutStrings_NoRemove(f, id, ss) ==
  LET one(r, s) == IF ~r.ok THEN r ELSE IF s = NotString THEN Done(FALSE, r.f)
                   ELSE Done(TRUE, SetPut(r.f, id, s))
  IN FoldLeft(one, Done(TRUE, f), ss)

(* One case of Put: the elements before one of the wrong type stay. *)
PutStrings(f, id, ss) ==
  LET one(r, s) == IF ~r.ok THEN r ELSE IF s = NotString THEN Done(FALSE, r.f)
                   ELSE Done(TRUE, SetPut(r.f, id, s))
  IN FoldLeft(one, Done(TRUE, SetRemove(f, id)), ss)

PutWeights(f, id, ws) ==
  LET one(r, x) == IF ~r.ok THEN r ELSE IF x.w = NotNumber THEN Done(FALSE, r.f)
                   ELSE Done(TRUE, WeightSetPut(r.f, id, x.s, x.w))
  IN FoldLeft(one, Done(TRUE, f), ws)

PutField(f, id, v) ==
  CASE v.k = "absent" -> {Done(TRUE, IF f.meta.type = "bool" THEN BoolPut(f, id, 0) ELSE f)}
    [] v.k # "absent" /\ f.meta.type = "set" ->
         {IF v.k = "strs" THEN PutStrings(f, id, v.ss) ELSE Done(FALSE, f)}
    [] v.k # "absent" /\ f.meta.type = "mutex" ->
         {IF v.k = "str" THEN PutStrings(f, id, v.ss) ELSE Done(FALSE, f)}
    [] v.k # "absent" /\ f.meta.type = "bool" ->
         {IF v.k = "bool" THEN Done(TRUE, BoolPut(f, id, v.n)) ELSE Done(FALSE, f)}
    [] v.k # "absent" /\ f.meta.type = "weight_set" ->
         IF v.k # "weights" THEN {Done(FALSE, f)}
         ELSE {PutWeights(e, id, v.ws) : e \in WeightSetRemove(f, id)}
    [] v.k # "absent" /\ IsBsi(f.meta) ->
         {IF v.k = "int" \/ (v.k = "real" /\ f.meta.type = "float")
          THEN Done(TRUE, BsiPut(f, id, v.n)) ELSE Done(FALSE, f)}

(* RobimsTable::Put.  A field that does not fit ends the walk: the fields   *)
(* that came before it have the new value, the others the old one.          *)
PutDoc(t, id, doc) ==
  LET names == DOMAIN t.f
      fits(n) == \A r \in PutField(t.f[n], id, doc[n]) : r.ok
      bad == {n \in names : ~fits(n)}
      with(ts, n) == UNION {{[u EXCEPT !.f[n] = r.f] : r \in PutField(u.f[n], id, doc[n])} : u \in ts}
      all(ns) == FoldSet(LAMBDA n, ts : with(ts, n), {[t EXCEPT !.ids = @ \cup {id}]}, ns)
  IN IF bad = {} THEN {[ok |-> TRUE, t |-> u] : u \in all(names)}
     ELSE {[ok |-> FALSE, t |-> u] :
             u \in UNION {all(before \cup {b}) : before \in SUBSET (names \ bad), b \in bad}}

(* RobimsTable::Remove; the id stays among those the table has seen. *)
RemoveDoc(t, id) ==
  FoldSet(LAMBDA n, ts : UNION {{[u EXCEPT !.f[n] = g] : g \in RemoveField(u.f[n], id)} : u \in ts},
          {t}, DOMAIN t.f)
=============================================================================

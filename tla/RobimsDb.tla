------------------------------ MODULE RobimsDb ------------------------------
(***************************************************************************)
(* The robims database (src/robims/robims_db_impl.cpp): tables that share a *)
(* mapping of document ids to local ids, a cache of parsed queries, and     *)
(* saving to and loading from a file that a crash may leave half written.   *)
(*                                                                          *)
(* A file is the sequence of what was written: a string, a number or a      *)
(* bitmap each.  fwrite of an empty string reports an error.                *)
(*                                                                          *)
(* docs is a history variable: what the documents put say, which is what    *)
(* the queries ought to find.  snap is what the last save was of.           *)
(***************************************************************************)
EXTENDS RobimsQuery

CONSTANTS RealId,      \* ids of documents
          Schemas,     \* the schemas a table is made with
          Start,       \* the ones a table may have been made with at the start
          Descs,       \* the texts a table is made with, parsed
          Docs,        \* table name -> documents, a function of field names
          Queries,     \* the syntax trees the answers are compared for
          Asked,       \* the ones of Select
          CacheSize,   \* capacity of the query cache
          Budget,      \* bound on the operations of each kind
          MaxOps,      \* and of all kinds
          Faults       \* misuse the run allows: "foreign", "replace"

ASSUME CacheAssumption == CacheSize \in Nat \ {0}

VARIABLES db,       \* RobimsDBData: seed, map, tables, cache
          file,     \* the items of the file
          snap,     \* of the last save: complete, whole, db, docs
          docs,     \* table -> real id -> [live, v]
          ops       \* how many of each kind of operation there were

vars == <<db, file, snap, docs, ops>>

EmptyDb == [seed |-> 0, map |-> NoMap, tables |-> NoMap, cache |-> <<>>]
NoSnap == [complete |-> FALSE, whole |-> FALSE, db |-> EmptyDb, docs |-> NoMap]
Tables == DOMAIN db.tables
Count(k) == /\ ops[k] < Budget[k]
            /\ FoldFunction(LAMBDA a, b : a + b, 0, ops) < MaxOps
            /\ ops' = [ops EXCEPT ![k] = @ + 1]

-----------------------------------------------------------------------------
(* Saving: each operator gives the items of one Save. *)
Item(k, s, n, ids, w) == [k |-> k, s |-> s, n |-> n, ids |-> ids, w |-> w]
Str(s) == Item("str", s, 0, {}, NoMap)
Num(n) == Item("num", "", n, {}, NoMap)
Bits(ids) == Item("bits", "", 0, ids, NoMap)
Weights(w) == Item("weights", "", Cardinality(DOMAIN w), {}, w)
NullBitmap == Item("null", "", 0, {}, NoMap)

SaveSet(f) ==
  FoldLeft(LAMBDA out, s : out \o <<Str(s), Bits(f.bm[s])>>,
           <<Num(Cardinality(DOMAIN f.bm))>>, SetToSeq(DOMAIN f.bm))
SaveWeightSet(f) ==
  FoldLeft(LAMBDA out, s : out \o <<Str(s), Weights(f.w[s]), Bits(f.bm[s])>>,
           <<Num(Cardinality(DOMAIN f.bm))>>, SetToSeq(DOMAIN f.bm))
(* The bitmaps of a loaded index are followed by as many without content. *)
SaveBsi(f) ==
  LET n == Cardinality(DOMAIN f.bits)
      rows == [i \in 1..n |-> Bits(f.bits[i - 1])]
  IN IF f.loaded THEN <<Num(2 * n)>> \o rows \o <<NullBitmap>> ELSE <<Num(n)>> \o rows

SaveField(f) ==
  <<Str(f.meta.name)>> \o
  CASE f.meta.type \in {"set", "mutex"} -> SaveSet(f)
    [] f.meta.type = "weight_set" -> SaveWeightSet(f)
    [] f.meta.type = "bool" -> <<Bits(f.ids)>>
    [] IsBsi(f.meta) -> SaveBsi(f)

SaveTableItems(t) ==
  FoldLeft(LAMBDA out, m : out \o SaveField(t.f[m.name]),
           <<Item("str", t.schema.name, IF t.schema.nocreate THEN 1 ELSE 0, {}, NoMap), Bits(t.ids)>>,
           t.schema.fields)

SaveMapping(d) ==
  FoldLeft(LAMBDA out, r : out \o <<Num(d.map[r]), Str(r)>>,
           <<Num(d.seed), Num(Cardinality(DOMAIN d.map))>>, SetToSeq(DOMAIN d.map))

Header(whole, ts) == <<Item(IF whole THEN "whole" ELSE "partial", ts, 0, {}, NoMap)>>
SaveItems(d) ==
  FoldLeft(LAMBDA out, t : out \o SaveTableItems(d.tables[t]),
           Header(TRUE, "") \o <<Num(Cardinality(DOMAIN d.tables))>>, SetToSeq(DOMAIN d.tables))
  \o SaveMapping(d)

(* What reaches the file: all, or what comes before the empty string. *)
Empties(items) == {i \in DOMAIN items : items[i].k = "str" /\ items[i].s = ""}
Nulls(items) == {i \in DOMAIN items : items[i].k = "null"}
Written(items) == IF Empties(items) = {} THEN items ELSE SubSeq(items, 1, Min(Empties(items)) - 1)

-----------------------------------------------------------------------------
(* Loading.  A reader is [ok, at, f]; reading past the end fails. *)
Kind(fl, i, k) == i <= Len(fl) /\ fl[i].k = k
Reader(ok, at, f) == [ok |-> ok, at |-> at, f |-> f]

(* The names of the bitmaps at every step-th item, which end with a bitmap. *)
LoadNamed(fl, at, f, step) ==
  LET n == fl[at].n
      nameAt(i) == fl[at + 1 + (i - 1) * step].s
      rowOf(s) == CHOOSE i \in 1..n : nameAt(i) = s
      names == {nameAt(i) : i \in 1..n}
  IN IF ~Kind(fl, at, "num") \/ at + n * step > Len(fl) THEN Reader(FALSE, at, f)
     ELSE Reader(TRUE, at + 1 + n * step,
            [f EXCEPT !.bm = [s \in names |-> fl[at + rowOf(s) * step].ids],
                      !.w = IF step = 3 THEN [s \in names |-> fl[at + rowOf(s) * step - 1].w]
                            ELSE @])

LoadSet(fl, at, f) == LoadNamed(fl, at, f, 2)
LoadWeightSet(fl, at, f) == LoadNamed(fl, at, f, 3)

LoadBsi(fl, at, f) ==
  LET n == Cardinality(DOMAIN f.bits) IN
  IF ~Kind(fl, at, "num") \/ at + fl[at].n > Len(fl) THEN Reader(FALSE, at, f)
  ELSE Reader(TRUE, at + 1 + n, [f EXCEPT !.bits = [j \in DOMAIN @ |-> fl[at + 1 + j].ids],
                                          !.loaded = TRUE])

LoadField(fl, at, m) ==
  LET f == Build(m) IN
  IF ~Kind(fl, at, "str") THEN Reader(FALSE, at, f)
  ELSE CASE m.type \in {"set", "mutex"} -> LoadSet(fl, at + 1, f)
         [] m.type = "weight_set" -> LoadWeightSet(fl, at + 1, f)
         [] m.type = "bool" -> IF Kind(fl, at + 1, "bits")
                               THEN Reader(TRUE, at + 2, [f EXCEPT !.ids = fl[at + 1].ids])
                               ELSE Reader(FALSE, at, f)
         [] IsBsi(m) -> LoadBsi(fl, at + 1, f)

(* The schema a string of the file stands for. *)
SchemaOf(x) == [(CHOOSE s \in Schemas : s.name = x.s) EXCEPT !.nocreate = x.n = 1]

(* RobimsTable::Load, over the fields of the schema in the file. *)
LoadTable(fl, at) ==
  IF ~Kind(fl, at, "str") \/ ~Kind(fl, at + 1, "bits") THEN Reader(FALSE, at, InitTable(CHOOSE s \in Schemas : TRUE))
  ELSE LET t == [InitTable(SchemaOf(fl[at])) EXCEPT !.ids = fl[at + 1].ids]
           one(r, m) == IF ~r.ok THEN r
                        ELSE LET g == LoadField(fl, r.at, m) IN
                             Reader(g.ok, g.at, [r.f EXCEPT !.f[m.name] = g.f])
       IN FoldLeft(one, Reader(TRUE, at + 2, t), t.schema.fields)

(* Mistake: the next id is not restored. *)
LoadMapping_NoSeed(fl, at, d) ==
  IF ~Kind(fl, at, "num") \/ ~Kind(fl, at + 1, "num") \/ at + 1 + 2 * fl[at + 1].n > Len(fl)
  THEN Reader(FALSE, at, d)
  ELSE LET pairs == 1..fl[at + 1].n
           real(i) == fl[at + 2 * i + 1].s
       IN Reader(TRUE, at, [d EXCEPT
            !.map = [r \in {real(i) : i \in pairs} |-> fl[at + 2 * CHOOSE i \in pairs : real(i) = r].n]])

(* SimpleIDMapping::Load *)
LoadMapping(fl, at, d) ==
  IF ~Kind(fl, at, "num") \/ ~Kind(fl, at + 1, "num") \/ at + 1 + 2 * fl[at + 1].n > Len(fl)
  THEN Reader(FALSE, at, d)
  ELSE LET pairs == 1..fl[at + 1].n
           local(i) == fl[at + 2 * i].n
           real(i) == fl[at + 2 * i + 1].s
       IN Reader(TRUE, at, [d EXCEPT !.seed = fl[at].n,
            !.map = [r \in {real(i) : i \in pairs} |-> local(CHOOSE i \in pairs : real(i) = r)]])

(* The whole database; the number of tables is taken as 0 when it is cut off. *)
LoadTablesInto(fl, d) ==
  FoldLeft(LAMBDA r, i : IF ~r.ok THEN r
             ELSE LET g == LoadTable(fl, r.at) IN
                  IF ~g.ok THEN Reader(FALSE, r.at, r.f)
                  ELSE Reader(TRUE, g.at, [r.f EXCEPT !.tables = Remapped(@, g.f.schema.name, g.f)]),
           Reader(TRUE, 3, d),
           [i \in 1..(IF Kind(fl, 2, "num") THEN fl[2].n ELSE 0) |-> i])

(* Mistake: the parsed queries of the running database are kept. *)
LoadTables_KeepCache(fl) == LoadTablesInto(fl, [EmptyDb EXCEPT !.cache = db.cache])

LoadTables(fl) == LoadTablesInto(fl, EmptyDb)

(* Mistake: the tables are taken over before the mapping is read. *)
LoadWhole_TablesFirst(fl) ==
  LET r == LoadTables(fl) IN
  IF ~r.ok THEN Reader(FALSE, 0, db)
  ELSE LET g == LoadMapping(fl, r.at, r.f) IN Reader(TRUE, 0, IF g.ok THEN g.f ELSE r.f)

LoadWhole(fl) ==
  LET r == LoadTables(fl) IN
  IF ~r.ok THEN Reader(FALSE, 0, db)
  ELSE LET g == LoadMapping(fl, r.at, r.f) IN IF g.ok THEN Reader(TRUE, 0, g.f) ELSE Reader(FALSE, 0, db)

LoadPartial(fl) ==
  LET name == fl[1].s
      g == LoadTable(fl, 2)
  IN IF name \notin Tables \/ ~g.ok THEN Reader(FALSE, 0, db)
     ELSE Reader(TRUE, 0, [db EXCEPT !.tables[name] = g.f])

-----------------------------------------------------------------------------
(* The documents as put, for the properties. *)
Unknown == Json("unknown", <<>>, <<>>, 0)
DocOf(t, r) == IF t \in DOMAIN docs /\ r \in DOMAIN docs[t] THEN docs[t][r].v
               ELSE [n \in DOMAIN db.tables[t].f |-> Absent]
DocPut(t, r, doc, ok) ==
  LET bool(n) == db.tables[t].f[n].meta.type = "bool"
      now(n) == IF doc[n].k # "absent" THEN IF ok THEN doc[n] ELSE Unknown
                ELSE IF ~bool(n) THEN DocOf(t, r)[n] ELSE IF ok THEN Absent ELSE Unknown
  IN Remapped(docs[t], r, [live |-> TRUE, v |-> [n \in DOMAIN doc |-> now(n)]])
DocRemove(t, r) ==
  LET gone(n) == IF db.tables[t].f[n].meta.type \in {"set", "mutex", "bool"} THEN Absent ELSE Unknown
  IN IF r \notin DOMAIN docs[t] THEN docs[t]
     ELSE [docs[t] EXCEPT ![r] = [live |-> FALSE, v |-> [n \in DOMAIN @.v |-> gone(n)]]]

-----------------------------------------------------------------------------
RECURSIVE Names(_)
Names(q) == (IF q.k = "var" THEN {q.ss[1]} ELSE {}) \cup UNION {Names(q.ks[i]) : i \in DOMAIN q.ks}
Cached == Range(db.cache)

(* SimpleIDMapping::GetLocalID *)
GetLocalID(d, r) ==
  IF r \in DOMAIN d.map THEN d ELSE [d EXCEPT !.seed = @ + 1, !.map = Remapped(@, r, d.seed)]

Init == /\ \/ db = EmptyDb /\ docs = NoMap
           \/ \E s \in Start : /\ db = [EmptyDb EXCEPT !.tables = Remapped(@, s.name, InitTable(s))]
                                /\ docs = Remapped(NoMap, s.name, NoMap)
        /\ file = <<>> /\ snap = NoSnap
        /\ ops = [k \in DOMAIN Budget |-> 0]

(* Storing over a table frees the old one, which the cached queries and the *)
(* key of the map point into.                                               *)
CreateTable(schema) ==
  /\ Count("other")
  /\ schema.name \in Tables => "replace" \in Faults
  /\ db' = [db EXCEPT !.tables = Remapped(@, schema.name, InitTable(schema))]
  /\ docs' = Remapped(docs, schema.name, NoMap)
  /\ UNCHANGED <<file, snap>>

CreateTableDesc(desc) ==
  LET p == ParseCreation(desc) IN
  \/ p.ok /\ CreateTable(p.schema)
  \/ ~p.ok /\ Count("other") /\ UNCHANGED <<db, file, snap, docs>>

(* RobimsTable::GetLocalId: a table may not hand out new ids. *)
HasId(t, r) == r \in DOMAIN db.map \/ ~db.tables[t].schema.nocreate

Put(t, r, doc) ==
  /\ Count("put")
  /\ UNCHANGED <<file, snap>>
  /\ IF t \in Tables /\ HasId(t, r)
     THEN LET d == GetLocalID(db, r) IN
          \E out \in PutDoc(d.tables[t], d.map[r], doc) :
            /\ db' = [d EXCEPT !.tables[t] = out.t]
            /\ docs' = [docs EXCEPT ![t] = DocPut(t, r, doc, out.ok)]
     ELSE UNCHANGED <<db, docs>>

DbRemove(t, r) ==
  /\ Count("put")
  /\ UNCHANGED <<file, snap>>
  /\ IF t \in Tables /\ HasId(t, r)
     THEN LET d == GetLocalID(db, r) IN
          \E u \in RemoveDoc(d.tables[t], d.map[r]) :
            /\ db' = [d EXCEPT !.tables[t] = u]
            /\ docs' = [docs EXCEPT ![t] = DocRemove(t, r)]
     ELSE UNCHANGED <<db, docs>>

(* Select looks the query up, or parses it and makes room for it. *)
Select(q) ==
  /\ Count("read")
  /\ UNCHANGED <<file, snap, docs>>
  /\ IF q \in Cached \/ Initializer(db.tables, q)
     THEN LET others == SelectSeq(db.cache, LAMBDA c : c # q) IN
          db' = [db EXCEPT !.cache = <<q>> \o SubSeq(others, 1, Min({Len(others), CacheSize - 1}))]
     ELSE UNCHANGED db

Snapshot(ok, whole, d) == [complete |-> ok, whole |-> whole, db |-> d, docs |-> docs]
PartialItems(t) == Header(FALSE, t) \o SaveTableItems(db.tables[t])

(* RobimsDBImpl::Save and SaveTable, run to their end. *)
SaveTo(items, whole) ==
  /\ Count("save")
  /\ Nulls(items) = {}
  /\ file' = Written(items)
  /\ snap' = Snapshot(Empties(items) = {}, whole, db)
  /\ UNCHANGED <<db, docs>>
Save == SaveTo(SaveItems(db), TRUE)
SaveTable(t) == t \in Tables /\ SaveTo(PartialItems(t), FALSE)

(* A new process starts with an empty database. *)
Restarted == db' = EmptyDb /\ docs' = NoMap
Restart == Count("other") /\ db # EmptyDb /\ Restarted /\ UNCHANGED <<file, snap>>

(* The process dies in Save, of its own at a bitmap without content. *)
CrashInSave(items) ==
  /\ Count("other")
  /\ \E k \in 0..(Min({Len(items)} \cup Empties(items) \cup Nulls(items)) - 1) :
       file' = SubSeq(items, 1, k)
  /\ snap' = NoSnap
  /\ Restarted

(* What is loaded; a table belongs to the mapping it was saved under.       *)
Usable ==
  (file # <<>> /\ file[1].k = "partial") =>
    /\ (snap.complete /\ "foreign" \notin Faults) =>
         \A r \in DOMAIN snap.db.map : r \in DOMAIN db.map /\ db.map[r] = snap.db.map[r]
    /\ "replace" \notin Faults => \A q \in Cached : file[1].s \notin Names(q)
LoadResult == IF file = <<>> THEN Reader(FALSE, 0, db)
              ELSE IF file[1].k = "whole" THEN LoadWhole(file) ELSE LoadPartial(file)
Load ==
  /\ Count("read")
  /\ Usable
  /\ LET r == LoadResult IN
     /\ db' = r.f
     /\ docs' = IF ~r.ok \/ ~snap.complete THEN docs
                ELSE IF snap.whole THEN snap.docs
                ELSE [docs EXCEPT ![file[1].s] = snap.docs[file[1].s]]
  /\ UNCHANGED <<file, snap>>

Next == \/ \E s \in Schemas : CreateTable(s)
        \/ \E d \in Descs : CreateTableDesc(d)
        \/ \E t \in DOMAIN Docs, r \in RealId : \/ \E doc \in Docs[t] : Put(t, r, doc)
                                                \/ DbRemove(t, r)
        \/ \E q \in Asked : Select(q)
        \/ Save \/ \E t \in Tables : SaveTable(t)
        \/ CrashInSave(SaveItems(db)) \/ \E t \in Tables : CrashInSave(PartialItems(t))
        \/ Restart \/ Load

Spec == Init /\ [][Next]_vars

-----------------------------------------------------------------------------
(* Two documents never share a local id, the next id is free, and every id  *)
(* in a bitmap belongs to a document: after any puts, failed puts, saves,   *)
(* crashes and loads a result of Select names real documents only           *)
(* (SimpleIDMapping, RobimsDBImpl::Load).                                   *)
BitmapIds(f) == f.ids \cup UNION {f.bm[s] : s \in DOMAIN f.bm}
                \cup UNION {DOMAIN f.w[s] : s \in DOMAIN f.w} \cup UNION {f.bits[j] : j \in DOMAIN f.bits}
IdBijection ==
  /\ \A r, o \in DOMAIN db.map : db.map[r] = db.map[o] => r = o
  /\ \A r \in DOMAIN db.map : db.map[r] < db.seed
  /\ \A t \in Tables : \A n \in DOMAIN db.tables[t].f :
       BitmapIds(db.tables[t].f[n]) \subseteq Range(db.map)

(* What a comparison says of a document; b where nothing is known, or for   *)
(* the strings of a weight set, which older documents may have left.        *)
Says(type, v, op, c, b) ==
  LET words == IF type = "weight_set" THEN {v.ws[i].s : i \in DOMAIN v.ws} ELSE Range(v.ss)
  IN CASE v.k = "unknown" -> b
       [] v.k # "unknown" /\ type \in {"set", "mutex"} -> (op = "==") = (c.ss[1] \in words)
       [] v.k # "unknown" /\ type = "weight_set" ->
            IF op = "==" THEN b \/ c.ss[1] \in words ELSE b /\ c.ss[1] \notin words
       [] v.k # "unknown" /\ type = "bool" -> (op = "==") = ((v.n = 1) = (c.n # 0))
       [] v.k # "unknown" /\ type = "int" -> v.k # "absent" /\ Compares(op, v.n, c.n)
       [] v.k # "unknown" /\ type = "float" -> v.k # "absent" /\ Compares(op, v.n, Halves(c))

Mirrored == [op \in {"<", ">", "<=", ">="} |->
  CASE op = "<" -> ">" [] op = ">" -> "<" [] op = "<=" -> ">=" [] op = ">=" -> "<="]

(* Whether a document satisfies a query of comparisons, conditions, && and ||. *)
RECURSIVE Satisfies(_, _, _, _)
Satisfies(t, doc, q, b) ==
  IF q.k = "cond"
  THEN Satisfies(t, doc, q.ks[IF QueryInterpreter(db.tables, q.ks[1]).n = 1 THEN 2 ELSE 3], b)
  ELSE IF q.ks[1].k = "var" \/ q.ks[2].k = "var"
  THEN LET left == q.ks[1].k = "var"
           name == q.ks[IF left THEN 1 ELSE 2].ss[2]
           other == IF left THEN q.ks[2] ELSE q.ks[1]
           c == IF other.k \in {"expr", "neg", "pos"} THEN QueryInterpreter(db.tables, other) ELSE other
       IN Says(db.tables[t].f[name].meta.type, doc[name],
               IF left \/ q.ss[1] \in {"==", "!="} THEN q.ss[1]
               ELSE Mirrored[q.ss[1]], c, b)
  ELSE FoldLeftDomain(LAMBDA v, i : IF q.ss[i] = "&&" THEN v /\ Satisfies(t, doc, q.ks[i + 1], b)
                                    ELSE v \/ Satisfies(t, doc, q.ks[i + 1], b),
                      Satisfies(t, doc, q.ks[1], b), q.ss)

(* The field and string of every comparison with a string. *)
RECURSIVE Strings(_)
Strings(q) ==
  IF q.k = "expr" /\ q.ks[1].k = "var" /\ q.ks[2].k = "str" THEN {<<q.ks[1].ss[2], q.ks[2].ss[1]>>}
  ELSE UNION {Strings(q.ks[i]) : i \in DOMAIN q.ks}

(* For every query the bitmap computed from the fields' indexes holds the   *)
(* local ids of exactly the documents that satisfy it, by what was put last *)
(* for each field, whatever puts failed half way, documents were removed or *)
(* files loaded before.  A query fails only over a string its field never   *)
(* had.  A caller that steps its offset by the limit until the total is     *)
(* reached sees every id of the result once and in order, also the id 0     *)
(* that looks like the end of the array (RobimsDBImpl::Select).             *)
AnswersMatch ==
  \A q \in Queries : Names(q) \subseteq Tables =>
    LET res == QueryInterpreter(db.tables, q)
        t == CHOOSE n \in Names(q) : TRUE
        known == DOMAIN docs[t]
        pages(limit) == [i \in 1..Cardinality(res.ids) |-> SelectPage(res.ids, (i - 1) * limit, limit)]
    IN IF res.k # "bitmap"
       THEN \E x \in Strings(q) : x[2] \notin DOMAIN db.tables[t].f[x[1]].bm
       ELSE /\ res.ids \subseteq {db.map[r] : r \in known}
            /\ \A r \in known :
                 /\ db.map[r] \in res.ids => Satisfies(t, docs[t][r].v, q, TRUE)
                 /\ docs[t][r].live /\ Satisfies(t, docs[t][r].v, q, FALSE) => db.map[r] \in res.ids
            /\ \A limit \in 1..2 : FlattenSeq(pages(limit)) = Sorted(res.ids)

(* Only a file that was written to its end is ever loaded with success, and *)
(* then every table has the ids, strings, weights and bits it was saved     *)
(* with; a load that fails leaves the database as it was, cached queries    *)
(* included.                                                                *)
SameTable(a, b) ==
  a.ids = b.ids /\ \A n \in DOMAIN a.f : [a.f[n] EXCEPT !.loaded = FALSE] = [b.f[n] EXCEPT !.loaded = FALSE]
LoadExact ==
  [][ops'.read # ops.read /\ Load =>
       IF LoadResult.ok
       THEN /\ snap.complete
            /\ snap.whole => DOMAIN db'.tables = DOMAIN snap.db.tables /\ db'.map = snap.db.map
            /\ \A t \in IF snap.whole THEN DOMAIN db'.tables ELSE {file[1].s} :
                 SameTable(db'.tables[t], snap.db.tables[t])
       ELSE db' = db]_vars

(* A cached query is evaluated without being checked again: every table it  *)
(* names exists, also after another database has been loaded in its place.  *)
CacheResolves == \A q \in Cached : Initializer(db.tables, q)
=============================================================================

-------------------------------- MODULE Kcfg --------------------------------
(***************************************************************************)
(* src/config (kcfg) and src/cmod/cmod_kcfg.hpp: structures that are read   *)
(* from JSON, TOML and YAML and written to JSON, and a program that keeps   *)
(* one in memory beside its file.                                           *)
(*                                                                          *)
(* A document is [k, n, kids]: its kind, its number, and the named children *)
(* of an object or the elements of an array.  A real counts halves.         *)
(***************************************************************************)
EXTENDS Integers, Sequences, SequencesExt

CONSTANTS Bits,          \* width of each integer type
          FieldMapping,  \* member name -> name in the document
          KeyOf,         \* document names that boost::lexical_cast turns into a number
          Schemas,       \* the structures
          Docs,          \* documents somebody writes by hand
          MaxElements    \* bound on the elements a shared vector gathers

VARIABLES schema,        \* the structure of this program
          obj,           \* the structure in memory
          file,          \* [ok, d]: a document, or something that is not one
          saved          \* [by, ign, v]: who wrote the file, how and from what

vars == <<schema, obj, file, saved>>

-----------------------------------------------------------------------------
SignedTypes == {"int8", "int16", "int32", "int64"}
UnsignedTypes == {"uint8", "uint16", "uint32", "uint64"}
IntTypes == SignedTypes \cup UnsignedTypes
Lo(t) == IF t \in SignedTypes THEN 0 - 2^(Bits[t] - 1) ELSE 0
Hi(t) == Lo(t) + 2^Bits[t] - 1
InRange(t, n) == Lo(t) <= n /\ n <= Hi(t)

Wrap(t, n) == Lo(t) + ((n - Lo(t)) % 2^Bits[t])     \* (int32_t)n and the like

(* A type is its kind, the type of its elements and its members; a member   *)
(* has the value of its initializer.                                        *)
Type(k, e, fs) == [k |-> k, e |-> e, fs |-> fs]
Scalar(k) == Type(k, <<>>, <<>>)
Field(name, t, init) == [name |-> name, t |-> t, init |-> init]
Arrays == {"vector", "set", "shm_vector"}
Maps == {"map", "shm_map", "shm_string_map"}
NoKeys == [x \in {} |-> 0]

Doc(k, n, kids) == [k |-> k, n |-> n, kids |-> kids]
Kid(name, d) == [name |-> name, d |-> d]
Empty == 0
(* The characters of a scalar are numbered, the strings from 0. *)
Text(k, n) == CASE k = "string" -> n
                [] k = "int" -> 1000 + n
                [] k = "real" -> 2000 + n
                [] k = "bool" -> 3000 + n
R(ok, v) == [ok |-> ok, v |-> v]       \* what a Parse returns and leaves

(* T tmp; -- a scalar is not initialized, and not used unless Parse set it. *)
Tmp(t) ==
  CASE t.k = "struct" -> [m \in {t.fs[i].name : i \in DOMAIN t.fs} |->
                            t.fs[CHOOSE i \in DOMAIN t.fs : t.fs[i].name = m].init]
    [] t.k \in {"vector", "shm_vector"} -> <<>>
    [] t.k = "set" -> {}
    [] t.k \in Maps -> NoKeys
    [] t.k \in {"string", "shm_string"} -> Empty
    [] OTHER -> 0

GetFieldName(name) == IF name \in DOMAIN FieldMapping THEN FieldMapping[name] ELSE name

(* An element that does not parse ends the loop and fails the whole; the    *)
(* elements before it stay.                                                 *)
Elements(one(_, _), d, v) ==
  FoldLeft(LAMBDA r, c : IF r.ok THEN one(r.v, c) ELSE r, R(TRUE, v), d.kids)
Added(t, v, x) == IF t.k = "set" THEN v \cup {x} ELSE Append(v, x)

-----------------------------------------------------------------------------
(* JSON *)
RECURSIVE ParseJson(_, _, _)

getJsonFiledValue(d, name) == SelectSeq(d.kids, LAMBDA c : c.name = name)

JsonWide(t, d, v) == IF d.k = "int" /\ InRange(t, d.n) THEN R(TRUE, d.n) ELSE R(FALSE, v)

(* Mistake: the lower bound is not looked at. *)
JsonNarrow_NoLower(t, d, v) ==
  LET p == JsonWide(IF t \in UnsignedTypes \ {"uint8"} THEN "uint64" ELSE "int64", d, v)
  IN IF ~p.ok \/ p.v > Hi(t) THEN R(FALSE, v) ELSE R(TRUE, Wrap(t, p.v))

(* uint8_t is read as int64_t and only its upper bound is looked at. *)
JsonNarrow(t, d, v) ==
  LET p == JsonWide(IF t \in UnsignedTypes \ {"uint8"} THEN "uint64" ELSE "int64", d, v)
  IN IF ~p.ok \/ p.v > Hi(t) \/ (t \in SignedTypes /\ p.v < Lo(t)) THEN R(FALSE, v)
     ELSE R(TRUE, Wrap(t, p.v))

JsonReal(d, v) == CASE d.k = "real" -> R(TRUE, d.n)
                    [] d.k = "int" -> R(TRUE, 2 * d.n)
                    [] OTHER -> R(FALSE, v)
JsonString(d, v) == IF d.k = "string" THEN R(TRUE, Text("string", d.n)) ELSE R(FALSE, v)
JsonBool(d, v) == IF d.k = "bool" THEN R(TRUE, d.n) ELSE R(FALSE, v)

JsonMap(t, d, v) ==
  LET one(m, c) == LET p == ParseJson(t.e, c.d, Tmp(t.e))
                   IN IF p.ok THEN R(TRUE, (c.name :> p.v) @@ m) ELSE R(FALSE, m)
  IN IF d.k = "object" THEN Elements(one, d, Tmp(t)) ELSE R(FALSE, v)

JsonArray(t, d, v) ==
  LET one(s, c) == LET p == ParseJson(t.e, c.d, Tmp(t.e))
                   IN IF p.ok THEN R(TRUE, Added(t, s, p.v)) ELSE R(FALSE, s)
  IN IF d.k = "array" THEN Elements(one, d, Tmp(t)) ELSE R(FALSE, v)

(* The containers in shared memory keep what they hold: a vector grows, a   *)
(* map is merged, and a value under a known key may fail to parse.          *)
ShmVector(t, d, v) ==
  LET one(s, c) == LET p == ParseJson(t.e, c.d, Tmp(t.e))
                   IN IF p.ok THEN R(TRUE, Append(s, p.v)) ELSE R(FALSE, s)
  IN IF d.k = "array" THEN Elements(one, d, v) ELSE R(FALSE, v)

Merge(t, m, key, d) ==
  IF key \in DOMAIN m THEN R(TRUE, [m EXCEPT ![key] = ParseJson(t.e, d, @).v])
  ELSE LET p == ParseJson(t.e, d, Tmp(t.e))
       IN IF p.ok THEN R(TRUE, (key :> p.v) @@ m) ELSE R(FALSE, m)

ShmMap(t, d, v) ==
  LET one(m, c) == IF c.name \in DOMAIN KeyOf THEN Merge(t, m, KeyOf[c.name], c.d) ELSE R(FALSE, m)
  IN IF d.k = "object" THEN Elements(one, d, v) ELSE R(FALSE, v)

ShmStringMap(t, d, v) ==
  LET one(m, c) == Merge(t, m, c.name, c.d)
  IN IF d.k = "object" THEN Elements(one, d, v) ELSE R(FALSE, v)

ShmString(d, v) == IF d.k = "string" THEN R(TRUE, Text("string", d.n)) ELSE R(FALSE, v)

(* PraseFromJson is true whatever its members return. *)
PraseFromJson(t, d, v) ==
  LET one(w, f) == LET c == getJsonFiledValue(d, GetFieldName(f.name))
                   IN IF c = <<>> THEN w
                      ELSE [w EXCEPT ![f.name] = ParseJson(f.t, c[1].d, @).v]
  IN R(TRUE, FoldLeft(one, v, t.fs))

ParseJson(t, d, v) ==
  CASE t.k \in {"int64", "uint64"} -> JsonWide(t.k, d, v)
    [] t.k \in IntTypes \ {"int64", "uint64"} -> JsonNarrow(t.k, d, v)
    [] t.k \in {"double", "float"} -> JsonReal(d, v)
    [] t.k = "string" -> JsonString(d, v)
    [] t.k = "shm_string" -> ShmString(d, v)
    [] t.k = "bool" -> JsonBool(d, v)
    [] t.k = "map" -> JsonMap(t, d, v)
    [] t.k = "shm_map" -> ShmMap(t, d, v)
    [] t.k = "shm_string_map" -> ShmStringMap(t, d, v)
    [] t.k = "shm_vector" -> ShmVector(t, d, v)
    [] t.k \in {"vector", "set"} -> JsonArray(t, d, v)
    [] t.k = "struct" -> IF d.k = "object" THEN PraseFromJson(t, d, v) ELSE R(FALSE, v)

ParseFromJsonString(f, v) == IF f.ok THEN ParseJson(schema, f.d, v) ELSE R(FALSE, v)

-----------------------------------------------------------------------------
(* Writing JSON: the document of a value, or none when it is left out.      *)
RECURSIVE Serialize(_, _, _)

(* A child of an object has a name, an element of an array has none. *)
addJsonMember(json, name, ds) == [json EXCEPT !.kids = @ \o [i \in DOMAIN ds |-> Kid(name, ds[i])]]

Unless(left_out, d) == IF left_out THEN <<>> ELSE <<d>>
SerializeReal(v, ign) == Unless(ign /\ v = 0, Doc("real", v, <<>>))
SerializeString(v, ign) == Unless(ign /\ v = Empty, Doc("string", v, <<>>))
ShmSerializeString(v, ign) == Unless(ign /\ v = Empty, Doc("string", v, <<>>))
SerializeBool(v, ign) == Unless(ign /\ v = 0, Doc("bool", v, <<>>))
SerializeInteger(v, ign) == Unless(ign /\ v = 0, Doc("int", v, <<>>))

(* Mistake: the elements are left out like members. *)
SerializeArray_Ignore(t, v, ign) ==
  LET es == IF t.k = "set" THEN SetToSortSeq(v, <) ELSE v
      one(json, x) == addJsonMember(json, "", Serialize(t.e, x, ign))
  IN FoldLeft(one, Doc("array", 0, <<>>), es)

(* What is in a container is never left out. *)
SerializeArray(t, v, ign) ==
  LET es == IF t.k = "set" THEN SetToSortSeq(v, <) ELSE v
      one(json, x) == addJsonMember(json, "", Serialize(t.e, x, FALSE))
  IN FoldLeft(one, Doc("array", 0, <<>>), es)
ShmSerializeVector(t, v) ==
  LET one(json, x) == addJsonMember(json, "", Serialize(t.e, x, FALSE))
  IN FoldLeft(one, Doc("array", 0, <<>>), v)
SerializeMap(t, v) ==
  LET one(json, k) == addJsonMember(json, k, Serialize(t.e, v[k], FALSE))
  IN FoldLeft(one, Doc("object", 0, <<>>), SetToSeq(DOMAIN v))
ShmSerializeStringMap(t, v) ==
  LET one(json, k) == addJsonMember(json, k, Serialize(t.e, v[k], FALSE))
  IN FoldLeft(one, Doc("object", 0, <<>>), SetToSeq(DOMAIN v))
ShmSerializeMap(t, v) ==
  LET name(k) == CHOOSE s \in DOMAIN KeyOf : KeyOf[s] = k
      one(json, k) == addJsonMember(json, name(k), Serialize(t.e, v[k], FALSE))
  IN FoldLeft(one, Doc("object", 0, <<>>), SetToSeq(DOMAIN v))
WriteToJson(t, v, ign) ==
  LET one(json, f) == addJsonMember(json, GetFieldName(f.name), Serialize(f.t, v[f.name], ign))
  IN FoldLeft(one, Doc("object", 0, <<>>), t.fs)

Serialize(t, v, ign) ==
  CASE t.k \in IntTypes -> SerializeInteger(v, ign)
    [] t.k \in {"double", "float"} -> SerializeReal(v, ign)
    [] t.k = "string" -> SerializeString(v, ign)
    [] t.k = "shm_string" -> ShmSerializeString(v, ign)
    [] t.k = "bool" -> SerializeBool(v, ign)
    [] t.k \in {"vector", "set"} -> <<SerializeArray(t, v, ign)>>
    [] t.k = "shm_vector" -> <<ShmSerializeVector(t, v)>>
    [] t.k = "map" -> <<SerializeMap(t, v)>>
    [] t.k = "shm_map" -> <<ShmSerializeMap(t, v)>>
    [] t.k = "shm_string_map" -> <<ShmSerializeStringMap(t, v)>>
    [] t.k = "struct" -> <<WriteToJson(t, v, ign)>>

WriteToJsonString(v, ign) == [ok |-> TRUE, d |-> Serialize(schema, v, ign)[1]]

-----------------------------------------------------------------------------
(* TOML.  The 32 and 64 bit integers take whatever integer is there. *)
RECURSIVE ParseToml(_, _, _)

TomlInteger(t, d, v) == IF d.k = "int" THEN R(TRUE, Wrap(t, d.n)) ELSE R(FALSE, v)
TomlCast(t, d, v) == IF d.k = "int" THEN R(TRUE, Wrap(t, d.n)) ELSE R(FALSE, v)
TomlNarrow(t, d, v) ==
  LET p == TomlInteger(IF t = "uint16" THEN "uint64" ELSE "int64", d, v)
  IN IF ~p.ok \/ p.v > Hi(t) \/ (t \in SignedTypes /\ p.v < Lo(t)) THEN R(FALSE, v)
     ELSE R(TRUE, Wrap(t, p.v))
TomlReal(d, v) == IF d.k = "real" THEN R(TRUE, d.n) ELSE R(FALSE, v)
TomlString(d, v) == IF d.k = "string" THEN R(TRUE, Text("string", d.n)) ELSE R(FALSE, v)
TomlBool(d, v) == IF d.k = "bool" THEN R(TRUE, d.n) ELSE R(FALSE, v)
TomlMap(t, d, v) ==
  LET one(m, c) == LET p == ParseToml(t.e, c.d, Tmp(t.e))
                   IN IF p.ok THEN R(TRUE, (c.name :> p.v) @@ m) ELSE R(FALSE, m)
  IN IF d.k = "object" THEN Elements(one, d, Tmp(t)) ELSE R(FALSE, v)
TomlArray(t, d, v) ==
  LET one(s, c) == LET p == ParseToml(t.e, c.d, Tmp(t.e))
                   IN IF p.ok THEN R(TRUE, Added(t, s, p.v)) ELSE R(FALSE, s)
  IN IF d.k = "array" THEN Elements(one, d, Tmp(t)) ELSE R(FALSE, v)

ParseFieldToml(f, d, v) ==
  LET c == SelectSeq(d.kids, LAMBDA x : x.name = GetFieldName(f.name))
  IN IF c = <<>> THEN R(TRUE, v) ELSE ParseToml(f.t, c[1].d, v)
ParseFromToml(t, d, v) ==
  LET one(w, f) == [w EXCEPT ![f.name] = ParseFieldToml(f, d, @).v]
  IN R(TRUE, FoldLeft(one, v, t.fs))

ParseToml(t, d, v) ==
  CASE t.k \in {"int64", "uint64"} -> TomlInteger(t.k, d, v)
    [] t.k \in {"int32", "uint32"} -> TomlCast(t.k, d, v)
    [] t.k \in {"int16", "uint16", "int8", "uint8"} -> TomlNarrow(t.k, d, v)
    [] t.k \in {"double", "float"} -> TomlReal(d, v)
    [] t.k = "string" -> TomlString(d, v)
    [] t.k = "bool" -> TomlBool(d, v)
    [] t.k = "map" -> TomlMap(t, d, v)
    [] t.k \in {"vector", "set"} -> TomlArray(t, d, v)
    [] t.k = "struct" -> IF d.k = "object" THEN ParseFromToml(t, d, v) ELSE R(FALSE, v)

-----------------------------------------------------------------------------
(* YAML.  Node::as reads a scalar's characters as the type, or throws. *)
RECURSIVE ParseYaml(_, _, _)

Scalars == {"int", "real", "string", "bool"}
as(t, d, v) ==
  CASE t \in IntTypes -> IF d.k = "int" /\ InRange(t, d.n) THEN R(TRUE, d.n) ELSE R(FALSE, v)
    [] t \in {"double", "float"} -> JsonReal(d, v)
    [] t = "string" -> R(TRUE, Text(d.k, d.n))
    [] t = "bool" -> IF d.k = "bool" THEN R(TRUE, d.n) ELSE R(FALSE, v)
YamlMap(t, d, v) ==
  LET one(m, c) == LET p == ParseYaml(t.e, c.d, Tmp(t.e))
                   IN IF p.ok THEN R(TRUE, m @@ (c.name :> p.v)) ELSE R(FALSE, m)
  IN IF d.k = "object" THEN Elements(one, d, Tmp(t)) ELSE R(FALSE, v)
YamlArray(t, d, v) ==
  LET one(s, c) == LET p == ParseYaml(t.e, c.d, Tmp(t.e))
                   IN IF p.ok THEN R(TRUE, Added(t, s, p.v)) ELSE R(FALSE, s)
  IN IF d.k = "array" THEN Elements(one, d, Tmp(t)) ELSE R(FALSE, v)

(* Mistake: a null stands for the empty value. *)
ParseFieldYaml_Null(f, d, v) ==
  LET c == SelectSeq(d.kids, LAMBDA x : x.name = GetFieldName(f.name))
  IN IF c = <<>> THEN R(FALSE, v)
     ELSE IF c[1].d.k = "null" THEN R(TRUE, Tmp(f.t)) ELSE ParseYaml(f.t, c[1].d, v)

ParseFieldYaml(f, d, v) ==
  LET c == SelectSeq(d.kids, LAMBDA x : x.name = GetFieldName(f.name))
  IN IF c = <<>> THEN R(FALSE, v)
     ELSE IF c[1].d.k = "null" THEN R(FALSE, v) ELSE ParseYaml(f.t, c[1].d, v)
ParseFromYaml(t, d, v) ==
  LET one(w, f) == [w EXCEPT ![f.name] = ParseFieldYaml(f, d, @).v]
  IN R(TRUE, FoldLeft(one, v, t.fs))

ParseYaml(t, d, v) ==
  CASE t.k = "map" -> YamlMap(t, d, v)
    [] t.k \in {"vector", "set"} -> YamlArray(t, d, v)
    [] t.k = "struct" -> IF d.k = "object" THEN ParseFromYaml(t, d, v) ELSE R(FALSE, v)
    [] OTHER -> IF d.k \in Scalars THEN as(t.k, d, v) ELSE R(FALSE, v)

-----------------------------------------------------------------------------
(***************************************************************************)
(* A program and its configuration file.                                    *)
(***************************************************************************)
Types(t) == {t.fs[i].t.k : i \in DOMAIN t.fs}
InShm(t) == \E k \in Types(t) : k \in {"shm_vector", "shm_map", "shm_string_map", "shm_string"}
NoFile == [ok |-> FALSE, d |-> Doc("null", 0, <<>>)]

(* TOML has no null, and its integers have 64 bits and a sign. *)
RECURSIVE IsToml(_)
IsToml(d) == /\ d.k # "null" /\ (d.k = "int" => InRange("int64", d.n))
             /\ \A i \in DOMAIN d.kids : IsToml(d.kids[i].d)

Init == /\ schema \in Schemas
        /\ obj = Tmp(schema)
        /\ file = NoFile
        /\ saved = [by |-> "nobody", ign |-> FALSE, v |-> Tmp(schema)]

(* Room for what a document may add to a shared vector. *)
Room == \A i \in DOMAIN schema.fs : schema.fs[i].t.k = "shm_vector"
          => Len(obj[schema.fs[i].name]) < MaxElements

ParseFromJsonFile == /\ Room
                     /\ obj' = ParseFromJsonString(file, obj).v
                     /\ UNCHANGED <<schema, file, saved>>
ParseFromTomlFile == /\ ~InShm(schema) /\ file.ok /\ IsToml(file.d)
                     /\ obj' = ParseToml(schema, file.d, obj).v
                     /\ UNCHANGED <<schema, file, saved>>
ParseFromYamlFile == /\ ~InShm(schema) /\ file.ok
                     /\ obj' = ParseYaml(schema, file.d, obj).v
                     /\ UNCHANGED <<schema, file, saved>>

WriteToJsonFile(ign) == /\ file' = WriteToJsonString(obj, ign)
                        /\ saved' = [by |-> "program", ign |-> ign, v |-> obj]
                        /\ UNCHANGED <<schema, obj>>

(* The process ends after fopen emptied the file. *)
CrashInWrite == /\ file' = NoFile
                /\ saved' = [by |-> "nobody", ign |-> FALSE, v |-> Tmp(schema)]
                /\ obj' = Tmp(schema)
                /\ UNCHANGED schema

Restart == obj' = Tmp(schema) /\ UNCHANGED <<schema, file, saved>>

EditFile(d) == /\ file' = [ok |-> TRUE, d |-> d]
               /\ saved' = [by |-> "hand", ign |-> FALSE, v |-> Tmp(schema)]
               /\ UNCHANGED <<schema, obj>>

Next == \/ ParseFromJsonFile \/ ParseFromTomlFile \/ ParseFromYamlFile
        \/ \E ign \in BOOLEAN : WriteToJsonFile(ign)
        \/ CrashInWrite \/ Restart
        \/ \E d \in Docs : EditFile(d)

Spec == Init /\ [][Next]_vars

-----------------------------------------------------------------------------
RECURSIVE Fits(_, _)
Fits(t, v) ==
  CASE t.k \in IntTypes -> InRange(t.k, v)
    [] t.k = "struct" -> \A i \in DOMAIN t.fs : Fits(t.fs[i].t, v[t.fs[i].name])
    [] t.k = "set" -> \A x \in v : Fits(t.e, x)
    [] t.k \in Arrays \cup Maps -> \A i \in DOMAIN v : Fits(t.e, v[i])
    [] OTHER -> TRUE

IsZero(t, v) == CASE t.k \in IntTypes \cup {"double", "float", "bool"} -> v = 0
                  [] t.k \in {"string", "shm_string"} -> v = Empty
                  [] OTHER -> FALSE

RECURSIVE Restored(_, _, _)
Restored(f, new, old) ==
  IF f.t.k = "struct"
  THEN \A i \in DOMAIN f.t.fs : LET g == f.t.fs[i] IN Restored(g, new[g.name], old[g.name])
  ELSE new = old \/ (saved.ign /\ IsZero(f.t, old) /\ new = f.init)

(* A structure read back by a program that has just started is the one that *)
(* was written; a member left out as a default is the one of its            *)
(* initializer, which need not be the zero that was left out.  A file       *)
(* written with its defaults restores the structure whatever is in memory:  *)
(* nothing of the old content of a container survives.  (The containers in  *)
(* shared memory are merged instead.)                                       *)
ReadBack ==
  saved.by = "program" =>
    /\ LET r == ParseFromJsonString(file, Tmp(schema))
       IN r.ok /\ Restored(Field("", schema, Tmp(schema)), r.v, saved.v)
    /\ ~saved.ign /\ ~InShm(schema) => ParseFromJsonString(file, obj) = R(TRUE, saved.v)

(* Reading a file leaves a checked integer as it was or makes it the very   *)
(* number of the file, in every format: none is wrapped.  uint8_t in JSON   *)
(* and TOML and the wider types in TOML are not checked.                    *)
Checked(parse) == CASE parse = "json" -> IntTypes \ {"uint8"}
                    [] parse = "toml" -> {"int8", "int16", "int64"}
                    [] parse = "yaml" -> IntTypes
Exact(parse, v) ==
  \A i \in DOMAIN schema.fs :
    LET f == schema.fs[i] IN
    f.t.k \in Checked(parse) /\ v[f.name] # obj[f.name]
      => \E j \in DOMAIN file.d.kids :
            file.d.kids[j].name = GetFieldName(f.name) /\ file.d.kids[j].d.n = v[f.name]
NoWrap ==
  file.ok => /\ Exact("json", ParseJson(schema, file.d, obj).v)
             /\ ~InShm(schema) /\ IsToml(file.d) => Exact("toml", ParseToml(schema, file.d, obj).v)
             /\ ~InShm(schema) => Exact("yaml", ParseYaml(schema, file.d, obj).v)

(* A document means the same in JSON and in YAML, including how much of an  *)
(* array or map is kept when an element does not parse.  Excepted: YAML     *)
(* takes any scalar for a string, JSON a negative number for a uint8_t.     *)
FormatsAgree ==
  file.ok /\ ~InShm(schema) =>
    \A i \in DOMAIN schema.fs :
      LET f == schema.fs[i] IN
      f.t.k \notin {"string", "uint8"}
        => ParseJson(schema, file.d, obj).v[f.name] = ParseYaml(schema, file.d, obj).v[f.name]

=============================================================================

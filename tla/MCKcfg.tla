------------------------------- MODULE MCKcfg -------------------------------
(***************************************************************************)
(* One structure for each type, beside an int8_t: every kind of document    *)
(* under the name of the member, numbers inside and just outside of every   *)
(* width.  The widths are 2, 3, 4 and 5 bits for 8, 16, 32 and 64.          *)
(***************************************************************************)
EXTENDS Kcfg

MCBits == [int8 |-> 2, uint8 |-> 2, int16 |-> 3, uint16 |-> 3,
           int32 |-> 4, uint32 |-> 4, int64 |-> 5, uint64 |-> 5]
MCFieldMapping == [m |-> "mm"]
MCKeyOf == [one |-> 1, two |-> 2]

Int8 == Scalar("int8")
Inner == Type("struct", <<>>, <<Field("p", Int8, 1), Field("q", Scalar("string"), Empty)>>)
Init0(t) == CASE t.k = "int32" -> 3 [] t.k = "bool" -> 1 [] OTHER -> Tmp(t)
MemberTypes ==
  {Scalar(k) : k \in IntTypes \cup {"double", "string", "bool", "shm_string"}}
  \cup {Type(k, e, <<>>) : k \in {"vector", "map", "shm_string_map"}, e \in {Int8, Inner}}
  \cup {Type(k, Int8, <<>>) : k \in {"set", "shm_vector", "shm_map"}} \cup {Inner}
MCSchemas == {Type("struct", <<>>, <<Field("m", t, Init0(t)), Field("n", Int8, 0)>>) : t \in MemberTypes}

N(n) == Doc("int", n, <<>>)
Atoms == {N(n) : n \in {-16, -9, -5, -4, -3, -2, 0, 1, 2, 3, 7, 15, 31}}
         \cup {Doc("real", 3, <<>>), Doc("string", 2, <<>>), Doc("bool", 1, <<>>), Doc("bool", 0, <<>>),
               Doc("null", 0, <<>>)}
PQ(p) == Doc("object", 0, <<Kid("p", p)>>)
Few == {N(1), N(0), N(5), Doc("string", 2, <<>>)}
Arrays2 == {Doc("array", 0, <<Kid("", a), Kid("", b)>>) : a \in Few, b \in Few \cup {PQ(N(0))}}
Objects2 == {Doc("object", 0, <<Kid("one", a), Kid(s, b)>>) : a \in Few \cup {PQ(N(0))},
               b \in Few, s \in {"two", "x"}}
Under(d) == Doc("object", 0, <<Kid("mm", d), Kid("n", N(1))>>)
MCDocs == {Under(d) : d \in Atoms \cup Arrays2 \cup Objects2 \cup {PQ(N(-2)), Doc("array", 0, <<>>)}}
          \cup {Doc("object", 0, <<Kid("n", N(0))>>), Doc("array", 0, <<>>)}
=============================================================================

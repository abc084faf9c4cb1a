------------------------- MODULE EcacheExpiryProofs -------------------------
(***************************************************************************)
(* A value that was set with an expiry is in no entry of ecache that lives *)
(* for ever, in the same generality as EcacheProofs.                       *)
(*                                                                         *)
(* MortalStays is not inductive: a Set that creates a map puts it in the   *)
(* index before it gives it an expiry.  Mortal lets such an item be there  *)
(* while its Set is under way, and the numbering of the calls (CallInv)    *)
(* tells its value from the acknowledged ones; FileInv has the same of the *)
(* backup, for a Load.                                                     *)
(***************************************************************************)
EXTENDS EcacheProofs

\* The longer of these proofs take the provers more than their default time.
USE SMTT(30), Zenon, Z3T(30)

\* A call that is no Set returns, and has taken values or given a new expiry.
LEMMA ReturnMortal ==
  ASSUME EInv, NEW t \in Threads, Return(t), index' = index, NEW its, items' = Freeing(its),
         Itemized(its), DOMAIN its = DOMAIN items, Mortal(index, its, thr'),
         \A i \in DOMAIN items : items[i].exp # 0 => its[i].exp # 0,
         UNCHANGED <<now, save, file, calls>>,
         acked' \subseteq acked \/ (thr[t].op = "set" /\ acked' \subseteq acked \cup {thr[t].val}),
         IInv'
  PROVE  EInv'
<1>1. thr'[t].op = "none" /\ \A u \in Threads \ {t} : thr'[u] = thr[u]
  BY DEF Return, NoCall, EInv, IInv, Shape
<1>2. Range(index) \subseteq DOMAIN its
  BY DEF EInv, IInv, PinInv
<1>3. Renewed(index, its, thr')
  BY <1>1, <1>2 DEF EInv, ItemInv, Renewed
<1>4. ItemInv'
  BY <1>2, <1>3, FreeingMortal
<1>5. CallInv'
  BY CallReturns DEF EInv, IInv
<1> QED
  BY <1>4, <1>5 DEF EInv, FileInv

\* The expiry of an item is set, to a time that is not 0.
LEMMA LaterItems ==
  ASSUME IInv, Itemized(items), NEW h, NEW exp, exp # 0
  PROVE  LET its == WithExpiry(h, exp) IN
         /\ Itemized(its) /\ DOMAIN its = DOMAIN items
         /\ \A i \in DOMAIN items : /\ its[i].data = items[i].data
                                    /\ items[i].exp # 0 => its[i].exp # 0
         /\ h \in Range(index) => its[h].exp # 0
<1>1. CASE h \in Range(index)
  <2> DEFINE its == [items EXCEPT ![h].exp = exp]
  <2>1. h \in DOMAIN items
    BY <1>1 DEF IInv, PinInv
  <2>2. /\ DOMAIN its = DOMAIN items /\ its[h] = [items[h] EXCEPT !.exp = exp]
        /\ \A i \in DOMAIN items \ {h} : its[i] = items[i]
    BY <2>1
  <2>3. its[h].data = items[h].data /\ its[h].exp = exp /\ DOMAIN its[h] = DOMAIN items[h]
    BY <2>1, <2>2 DEF Itemized
  <2>4. its = [i \in DOMAIN its |-> its[i]]
    OBVIOUS
  <2>5. WithExpiry(h, exp) = its
    BY <1>1 DEF WithExpiry
  <2> HIDE DEF its
  <2>6. Itemized(its)
    BY <2>2, <2>3, <2>4 DEF Itemized
  <2> QED
    BY <2>1, <2>2, <2>3, <2>5, <2>6, Zenon
<1>2. CASE h \notin Range(index)
  BY <1>2 DEF WithExpiry
<1> QED
  BY <1>1, <1>2

LEMMA ExpireMortal == ASSUME EInv, NEW t \in Threads, Expire(t) PROVE EInv'
<1> DEFINE c == thr[t]
<1>1. PICK exp \in {now + c.ttl, c.ttl} :
        items' = Freeing(IF c.h = None THEN items ELSE WithExpiry(c.h, exp))
  BY DEF Expire
<1>2. exp # 0
  <2>1. now \in Nat /\ c.ttl \in Nat \ {0}
    BY DEF Expire, EInv, CallInv
  <2> QED
    BY <1>1, <2>1
<1> DEFINE its == IF c.h = None THEN items ELSE WithExpiry(c.h, exp)
<1>3. /\ Itemized(its) /\ DOMAIN its = DOMAIN items
      /\ \A i \in DOMAIN items : its[i].data = items[i].data /\ (items[i].exp # 0 => its[i].exp # 0)
  BY <1>2, LaterItems DEF EInv, ItemInv
<1>4. items' = Freeing(its)
  BY <1>1
<1> HIDE DEF its
<1>5. /\ Return(t) /\ index' = index /\ UNCHANGED <<now, save, file, calls, acked>>
      /\ c.op = "expire"
  BY DEF Expire, history
<1>6. thr'[t].op = "none" /\ \A u \in Threads \ {t} : thr'[u] = thr[u]
  BY <1>5 DEF Return, NoCall, EInv, IInv, Shape
<1>7. Mortal(index, its, thr')
  BY <1>3, <1>5, <1>6 DEF EInv, ItemInv, Mortal, Creates, IInv, PinInv
<1>8. IInv'
  BY ExpireKeeps DEF EInv
<1> QED
  BY <1>3, <1>4, <1>5, <1>7, <1>8, ReturnMortal

\* RangeMapDel, HashMapDel and RangeMapPop take fields away.
LEMMA EraseMortal == ASSUME EInv, NEW t \in Threads, Erase(t) PROVE EInv'
<1> DEFINE c == thr[t]
           data == IF c.h = None THEN <<>> ELSE items[c.h].data
           gone == IF c.op = "erase" THEN {c.field} \cap DOMAIN data
                   ELSE {f \in DOMAIN data : f = LeastField(data)}
           fewer == [f \in DOMAIN data \ gone |-> data[f]]
           its == IF gone = {} THEN items ELSE [items EXCEPT ![c.h].data = fewer]
<1>1. CASE Down /\ calls' = calls
  BY <1>1, DownMortal
<1>2. CASE /\ Return(t) /\ index' = index /\ items' = Freeing(its)
           /\ UNCHANGED <<now, save, file, calls>> /\ \E killed : Acks({}, killed)
  <2>1. gone # {} => c.h # None /\ c.h \in DOMAIN items /\ data = items[c.h].data
    BY DEF EInv, IInv, PinInv
  <2>2. DOMAIN fewer \subseteq DOMAIN data /\ \A f \in DOMAIN fewer : fewer[f] = data[f]
    BY ZenonT(30)
  <2>3. c.op # "set"
    BY ZenonT(30) DEF Erase
  <2> HIDE DEF gone, fewer, data
  <2>4. /\ Itemized(its) /\ DOMAIN its = DOMAIN items
        /\ \A i \in DOMAIN items : /\ its[i].exp = items[i].exp
                                   /\ DOMAIN its[i].data \subseteq DOMAIN items[i].data
                                   /\ \A f \in DOMAIN its[i].data : its[i].data[f] = items[i].data[f]
    <3>1. CASE gone = {}
      BY <3>1 DEF EInv, ItemInv
    <3>2. CASE gone # {}
      <4>1. /\ its = [items EXCEPT ![c.h] = [items[c.h] EXCEPT !.data = fewer]]
            /\ c.h \in DOMAIN items /\ {"data", "exp"} \subseteq DOMAIN items[c.h]
        BY <2>1, <3>2 DEF EInv, ItemInv, Itemized
      <4>2. /\ DOMAIN its = DOMAIN items /\ its = [i \in DOMAIN its |-> its[i]]
            /\ \A i \in DOMAIN items \ {c.h} : its[i] = items[i]
            /\ its[c.h].exp = items[c.h].exp /\ its[c.h].data = fewer
            /\ DOMAIN its[c.h] = DOMAIN items[c.h]
        BY <4>1
      <4> HIDE DEF its
      <4>3. Itemized(its)
        BY <4>2 DEF EInv, ItemInv, Itemized
      <4> QED
        BY <2>1, <2>2, <3>2, <4>2, <4>3
    <3> QED
      BY <3>1, <3>2
  <2> HIDE DEF its
  <2>5. thr'[t].op = "none" /\ \A u \in Threads \ {t} : thr'[u] = thr[u]
    BY <1>2 DEF Return, NoCall, EInv, IInv, Shape
  <2>6. Mortal(index, its, thr')
    BY <2>3, <2>4, <2>5 DEF EInv, ItemInv, Mortal, Creates, IInv, PinInv
  <2>7. IInv'
    BY EraseKeeps DEF EInv
  <2> QED
    BY <1>2, <2>4, <2>6, <2>7, AcksAtMost, ReturnMortal
<1> QED
  BY <1>1, <1>2, Zenon DEF Erase

\* Reading changes no item.
LEMMA ReadMortal == ASSUME EInv, NEW t \in Threads, Read(t) PROVE EInv'
<1>1. /\ Return(t) /\ index' = index /\ items' = Freeing(items) /\ thr[t].op # "set"
      /\ UNCHANGED <<now, save, file, calls, acked>>
  BY DEF Read, history
<1>2. thr'[t].op = "none" /\ \A u \in Threads \ {t} : thr'[u] = thr[u]
  BY <1>1 DEF Return, NoCall, EInv, IInv, Shape
<1>3. Mortal(index, items, thr')
  BY <1>1, <1>2 DEF EInv, ItemInv, Mortal, Creates
<1>4. IInv'
  BY ReadKeeps DEF EInv
<1> QED
  BY <1>1, <1>3, <1>4, ReturnMortal DEF EInv, ItemInv

LEMMA DropMortal == ASSUME EInv, NEW t \in Threads, Drop(t) PROVE EInv'
<1>1. /\ thr' = thr /\ index' = index /\ items' = Freeing(items)
      /\ UNCHANGED <<now, save, file, calls, acked>>
  BY DEF Drop, history
<1>2. ItemInv'
  BY <1>1, FreeingMortal DEF EInv, ItemInv, IInv, PinInv
<1>3. IInv'
  BY StepsKeep DEF EInv, Steps
<1>4. CallInv' /\ FileInv'
  BY <1>1, CallsSame DEF EInv, FileInv
<1> QED
  BY <1>2, <1>3, <1>4 DEF EInv

-----------------------------------------------------------------------------

\* A map is created without an expiry; if the Set has one it goes on.
LEMMA CreateMapMortal == ASSUME EInv, NEW t \in Threads, CreateMap(t) PROVE EInv'
<1> DEFINE c == thr[t]
           data == At(c.val.owner[3], c.val)
           more == [c EXCEPT !.h = NewItem, !.pc = "created"]
<1>1. /\ c.op = "set" /\ c.pc = "found" /\ UNCHANGED <<now, save, file, calls>>
  BY DEF CreateMap
<1>2. IInv' /\ FileInv'
  BY <1>1, StepsKeep DEF EInv, FileInv, Steps, MapSet
<1>3. CASE Return(t) /\ UNCHANGED <<index, items, acked>>
  <2>1. thr'[t].op = "none" /\ \A u \in Threads \ {t} : thr'[u] = thr[u]
    BY <1>3 DEF Return, NoCall, EInv, IInv, Shape
  <2>2. ItemInv'
    BY <1>1, <1>3, <2>1 DEF EInv, ItemInv, Mortal, Creates, Renewed
  <2>3. CallInv'
    BY <1>1, <1>3, CallReturns DEF EInv, IInv
  <2> QED
    BY <1>2, <2>2, <2>3 DEF EInv
<1>4. ASSUME NEW key, NEW id, NEW e, Insert(key, id, data, 0, e),
             \/ /\ c.ttl > 0 /\ thr' = [thr EXCEPT ![t] = more] /\ acked' = acked
             \/ /\ ~(c.ttl > 0) /\ Return(t) /\ acked' \subseteq acked \cup {c.val}
      PROVE  EInv'
  <2>1. NewItem \notin DOMAIN items /\ NewItem # None
    BY NewItemFresh DEF EInv, ItemInv
  <2>2. PICK its : /\ items' = Freeing(its) /\ Itemized(its)
                   /\ Range(index') \subseteq DOMAIN its
                   /\ Range(index') \subseteq Range(index) \cup {NewItem}
                   /\ \A i \in DOMAIN items : its[i] = items[i]
                   /\ its[NewItem].data = data /\ its[NewItem].exp = 0
    BY <1>4, InsertAdds DEF EInv
  <2>3. SetInv(c) /\ {"op", "h", "pc", "val", "ttl"} \subseteq DOMAIN c /\ c.val.ttl = c.ttl
    BY <1>1 DEF EInv, CallInv, SetInv
  <2>4. /\ more.op = "set" /\ more.pc = "created" /\ more.h = NewItem /\ more.val = c.val
        /\ more.ttl = c.ttl /\ DOMAIN more = DOMAIN c
    BY <1>1, <2>3
  <2>5. \A f \in DOMAIN data : data[f] = c.val
    BY DEF At
  <2> HIDE DEF data, more
  <2>6. CASE c.ttl > 0 /\ thr' = [thr EXCEPT ![t] = more] /\ acked' = acked
    <3>1. thr'[t] = more /\ \A u \in Threads \ {t} : thr'[u] = thr[u]
      BY <2>6 DEF EInv, IInv, Shape
    <3>2. Mortal(index', its, thr')
      <4> SUFFICES ASSUME NEW i \in Range(index'), NEW f \in DOMAIN its[i].data,
                          its[i].data[f].ttl > 0, its[i].exp = 0
                   PROVE  \E u \in Threads : Creates(thr'[u], i, its[i].data[f])
        BY DEF Mortal
      <4>1. CASE i = NewItem
        BY <2>2, <2>4, <2>5, <3>1, <4>1 DEF Creates
      <4>2. CASE i # NewItem
        <5>1. i \in Range(index) /\ its[i] = items[i]
          BY <2>2, <4>2 DEF EInv, IInv, PinInv
        <5>2. PICK u \in Threads : Creates(thr[u], i, its[i].data[f])
          BY <5>1 DEF EInv, ItemInv, Mortal
        <5> QED
          BY <1>1, <3>1, <5>2 DEF Creates
      <4> QED
        BY <4>1, <4>2
    <3>3. Renewed(index', its, thr')
      <4> SUFFICES ASSUME NEW u \in Threads, u # t, thr[u].op = "set", thr[u].pc = "put",
                          thr[u].h \in Range(index')
                   PROVE  its[thr[u].h].exp # 0
        BY <2>4, <3>1 DEF Renewed
      <4>1. thr[u].h \in Range(index) /\ thr[u].h \in DOMAIN items
        BY <2>1, <2>2 DEF EInv, IInv, PinInv
      <4> QED
        BY <2>2, <4>1 DEF EInv, ItemInv, Renewed
    <3>4. ItemInv'
      BY <2>2, <3>2, <3>3, FreeingMortal
    <3>5. CallInv'
      <4>1. \A u \in Threads : SetInv(thr[u])'
        BY <1>1, <2>3, <2>4, <2>6, <3>1 DEF EInv, CallInv, SetInv
      <4> QED
        BY <1>1, <2>4, <2>6, <3>1, <4>1 DEF EInv, CallInv
    <3> QED
      BY <1>2, <3>4, <3>5 DEF EInv
  <2>7. CASE ~(c.ttl > 0) /\ Return(t) /\ acked' \subseteq acked \cup {c.val}
    <3>1. thr'[t].op = "none" /\ \A u \in Threads \ {t} : thr'[u] = thr[u]
      BY <2>7 DEF Return, NoCall, EInv, IInv, Shape
    <3>2. Mortal(index', its, thr')
      <4> SUFFICES ASSUME NEW i \in Range(index'), NEW f \in DOMAIN its[i].data,
                          its[i].data[f].ttl > 0, its[i].exp = 0
                   PROVE  \E u \in Threads : Creates(thr'[u], i, its[i].data[f])
        BY DEF Mortal
      <4>1. i # NewItem
        BY <2>2, <2>3, <2>5, <2>7
      <4>2. i \in Range(index) /\ its[i] = items[i]
        BY <2>2, <4>1 DEF EInv, IInv, PinInv
      <4>3. PICK u \in Threads : Creates(thr[u], i, its[i].data[f])
        BY <4>2 DEF EInv, ItemInv, Mortal
      <4> QED
        BY <1>1, <3>1, <4>3 DEF Creates
    <3>3. Renewed(index', its, thr')
      <4> SUFFICES ASSUME NEW u \in Threads, u # t, thr[u].op = "set", thr[u].pc = "put",
                          thr[u].h \in Range(index')
                   PROVE  its[thr[u].h].exp # 0
        BY <3>1 DEF Renewed
      <4>1. thr[u].h \in Range(index) /\ thr[u].h \in DOMAIN items
        BY <2>1, <2>2 DEF EInv, IInv, PinInv
      <4> QED
        BY <2>2, <4>1 DEF EInv, ItemInv, Renewed
    <3>4. ItemInv'
      BY <2>2, <3>2, <3>3, FreeingMortal
    <3>5. CallInv'
      BY <1>1, <2>7, CallReturns DEF EInv, IInv
    <3> QED
      BY <1>2, <3>4, <3>5 DEF EInv
  <2> QED
    BY <1>4, <2>6, <2>7
<1> QED
  BY <1>3, <1>4, AcksAtMost DEF CreateMap, history

\* The Set that created a map sets its expiry and returns.
LEMMA ExpireCreatedMortal == ASSUME EInv, NEW t \in Threads, ExpireCreated(t) PROVE EInv'
<1> DEFINE c == thr[t]
           its == WithExpiry(c.h, now + c.ttl)
<1>1. /\ c.op = "set" /\ c.pc = "created" /\ Return(t) /\ index' = index /\ items' = Freeing(its)
      /\ UNCHANGED <<now, save, file, calls>> /\ Acks({c.val}, c.seen)
  BY DEF ExpireCreated
<1>2. now + c.ttl # 0
  <2>1. now \in Nat /\ c.ttl \in Nat /\ c.ttl > 0
    BY <1>1, Zenon DEF EInv, CallInv, SetInv
  <2> HIDE DEF c
  <2> QED
    BY <2>1
<1>3. /\ Itemized(its) /\ DOMAIN its = DOMAIN items
      /\ \A i \in DOMAIN items : its[i].data = items[i].data /\ (items[i].exp # 0 => its[i].exp # 0)
      /\ c.h \in Range(index) => its[c.h].exp # 0
  BY <1>2, LaterItems DEF EInv, ItemInv
<1> HIDE DEF its
<1>4. thr'[t].op = "none" /\ \A u \in Threads \ {t} : thr'[u] = thr[u]
  BY <1>1 DEF Return, NoCall, EInv, IInv, Shape
<1>5. Mortal(index, its, thr')
  <2> SUFFICES ASSUME NEW i \in Range(index), NEW f \in DOMAIN its[i].data,
                      its[i].data[f].ttl > 0, its[i].exp = 0
               PROVE  \E u \in Threads : Creates(thr'[u], i, its[i].data[f])
    BY DEF Mortal
  <2>1. i # c.h /\ its[i].data = items[i].data /\ items[i].exp = 0
    BY <1>3 DEF EInv, IInv, PinInv
  <2>2. PICK u \in Threads : Creates(thr[u], i, its[i].data[f])
    BY <2>1 DEF EInv, ItemInv, Mortal
  <2> QED
    BY <1>4, <2>1, <2>2 DEF Creates
<1>6. IInv'
  BY StepsKeep DEF EInv, Steps, MapSet
<1> QED
  BY <1>1, <1>3, <1>5, <1>6, AcksAtMost, ReturnMortal

\* The Set that found a map sets its expiry before it puts the field.
LEMMA ExpireFoundMortal == ASSUME EInv, NEW t \in Threads, ExpireFound(t) PROVE EInv'
<1> DEFINE c == thr[t]
           its == WithExpiry(c.h, now + c.ttl)
           more == [c EXCEPT !.pc = "put"]
<1>1. /\ c.op = "set" /\ c.pc = "found" /\ c.ttl > 0 /\ thr' = [thr EXCEPT ![t] = more]
      /\ index' = index /\ items' = its /\ UNCHANGED <<now, save, file, calls, acked>>
  BY DEF ExpireFound, history
<1>2. SetInv(c) /\ {"op", "h", "pc", "val", "ttl"} \subseteq DOMAIN c /\ now + c.ttl # 0
  BY <1>1 DEF EInv, CallInv, SetInv
<1>3. /\ Itemized(its) /\ DOMAIN its = DOMAIN items
      /\ \A i \in DOMAIN items : its[i].data = items[i].data /\ (items[i].exp # 0 => its[i].exp # 0)
      /\ c.h \in Range(index) => its[c.h].exp # 0
  BY <1>2, LaterItems DEF EInv, ItemInv
<1>4. /\ more.op = "set" /\ more.pc = "put" /\ more.h = c.h /\ more.val = c.val
      /\ more.ttl = c.ttl /\ DOMAIN more = DOMAIN c
  BY <1>1, <1>2
<1> HIDE DEF its, more
<1>5. thr'[t] = more /\ \A u \in Threads \ {t} : thr'[u] = thr[u]
  BY <1>1 DEF EInv, IInv, Shape
<1>6. Mortal(index, its, thr')
  <2> SUFFICES ASSUME NEW i \in Range(index), NEW f \in DOMAIN its[i].data,
                      its[i].data[f].ttl > 0, its[i].exp = 0
               PROVE  \E u \in Threads : Creates(thr'[u], i, its[i].data[f])
    BY DEF Mortal
  <2>1. its[i].data = items[i].data /\ items[i].exp = 0
    BY <1>3 DEF EInv, IInv, PinInv
  <2>2. PICK u \in Threads : Creates(thr[u], i, its[i].data[f])
    BY <2>1 DEF EInv, ItemInv, Mortal
  <2> QED
    BY <1>1, <1>5, <2>2 DEF Creates
<1>7. Renewed(index, its, thr')
  BY <1>3, <1>4, <1>5 DEF EInv, ItemInv, Renewed, IInv, PinInv
<1>8. CallInv'
  <2>1. \A u \in Threads : SetInv(thr[u])'
    BY <1>1, <1>2, <1>4, <1>5 DEF EInv, CallInv, SetInv
  <2> QED
    BY <1>1, <1>4, <1>5, <2>1 DEF EInv, CallInv
<1>9. IInv'
  BY StepsKeep DEF EInv, Steps, MapSet
<1> QED
  BY <1>1, <1>3, <1>6, <1>7, <1>8, <1>9 DEF EInv, ItemInv, FileInv

LEMMA PutFieldMortal == ASSUME EInv, NEW t \in Threads, PutField(t) PROVE EInv'
<1> DEFINE c == thr[t]
           g == c.val.owner[3]
           data == Over(At(g, c.val), items[c.h].data)
           its == [items EXCEPT ![c.h] = [items[c.h] EXCEPT !.data = data]]
<1>1. /\ c.op = "set" /\ c.h # None /\ (c.pc = "put" \/ (c.pc = "found" /\ c.ttl = 0))
      /\ Return(t) /\ index' = index /\ UNCHANGED <<now, save, file, calls>>
      /\ items' = Freeing([items EXCEPT ![c.h].data = Over(At(g, c.val), @)])
      /\ Acks({c.val}, c.seen)
  BY DEF PutField
<1>2. c.h \in DOMAIN items /\ {"data", "exp"} \subseteq DOMAIN items[c.h]
  BY <1>1 DEF EInv, IInv, PinInv, ItemInv, Itemized
<1>3. items' = Freeing(its)
  BY <1>1, <1>2
<1>4. \A f \in DOMAIN data : data[f] = c.val \/ (f \in DOMAIN items[c.h].data /\ data[f] = items[c.h].data[f])
  BY Zenon DEF Over, At
<1> HIDE DEF data
<1>5. /\ DOMAIN its = DOMAIN items /\ its = [i \in DOMAIN its |-> its[i]]
      /\ \A i \in DOMAIN items \ {c.h} : its[i] = items[i]
      /\ its[c.h].data = data /\ \A i \in DOMAIN items : its[i].exp = items[i].exp
      /\ \A i \in DOMAIN items : DOMAIN its[i] = DOMAIN items[i]
  BY <1>2
<1> HIDE DEF its
<1>6. Itemized(its)
  BY <1>5 DEF EInv, ItemInv, Itemized
<1>7. thr'[t].op = "none" /\ \A u \in Threads \ {t} : thr'[u] = thr[u]
  BY <1>1 DEF Return, NoCall, EInv, IInv, Shape
<1>8. Mortal(index, its, thr')
  <2> SUFFICES ASSUME NEW i \in Range(index), NEW f \in DOMAIN its[i].data,
                      its[i].data[f].ttl > 0, its[i].exp = 0
               PROVE  \E u \in Threads : Creates(thr'[u], i, its[i].data[f])
    BY DEF Mortal
  <2>1. items[i].exp = 0 /\ i \in DOMAIN items
    BY <1>5 DEF EInv, IInv, PinInv
  <2>2. f \in DOMAIN items[i].data /\ its[i].data[f] = items[i].data[f]
    <3>1. CASE i # c.h
      BY <1>5, <2>1, <3>1
    <3>2. CASE i = c.h
      <4>1. c.val.ttl = c.ttl /\ c.ttl \in Nat /\ (c.pc = "put" => items[i].exp # 0)
        BY <1>1, <3>2 DEF EInv, CallInv, SetInv, ItemInv, Renewed
      <4>2. its[i].data[f] # c.val
        BY <1>1, <2>1, <4>1
      <4> QED
        BY <1>4, <1>5, <3>2, <4>2
    <3> QED
      BY <3>1, <3>2
  <2>3. PICK u \in Threads : Creates(thr[u], i, its[i].data[f])
    BY <2>1, <2>2 DEF EInv, ItemInv, Mortal
  <2> QED
    BY <1>1, <1>7, <2>3 DEF Creates
<1>9. IInv'
  BY StepsKeep DEF EInv, Steps, MapSet
<1> QED
  BY <1>1, <1>3, <1>5, <1>6, <1>8, <1>9, AcksAtMost, ReturnMortal, ZenonT(30)

-----------------------------------------------------------------------------
\* Save meets no item whose expiry is still to come, so the backup is bounded.
LEMMA SaveItemMortal ==
  ASSUME EInv, "save_races" \notin Faults, SaveItem PROVE FileInv'
<1> DEFINE es == file.entries
<1>1. PICK at \in SaveNext :
        LET this == index[HashOrder[at]] IN
        /\ \A t \in Threads : thr[t].h = this => thr[t].op # "set" \/ thr[t].pc # "created"
        /\ \/ save' = None /\ file' = [file EXCEPT !.state = "failed"]
           \/ file' = [file EXCEPT !.entries = Append(es, Written(items[this]))]
  BY DEF SaveItem
<1> DEFINE this == index[HashOrder[at]]
           e == Written(items[this])
<1>2. this \in Range(index)
  BY <1>1 DEF SaveNext, Range
<1>3. /\ "entries" \in DOMAIN file /\ es \in Seq(Range(es))
      /\ \A i \in 1 .. Len(es) : Bounded(es[i])
  BY DEF SaveItem, EInv, FileInv
<1>4. Bounded(e)
  <2>1. e.data = items[this].data /\ e.exp = items[this].exp
    BY DEF Written
  <2> HIDE DEF e, this
  <2>2. ASSUME NEW f \in DOMAIN e.data, e.data[f].ttl > 0, e.exp = 0 PROVE FALSE
    <3>1. PICK t \in Threads : Creates(thr[t], this, items[this].data[f])
      BY <1>2, <2>1, <2>2, Zenon DEF EInv, ItemInv, Mortal
    <3> QED
      BY <1>1, <3>1 DEF Creates, this
  <2> QED
    BY <2>2 DEF Bounded
<1> HIDE DEF e
<1>5. CASE file' = [file EXCEPT !.state = "failed"] /\ save' = None
  <2>1. file'.entries = es /\ "entries" \in DOMAIN file'
    BY <1>3, <1>5
  <2> QED
    BY <1>3, <1>5, <2>1 DEF FileInv
<1>6. CASE file' = [file EXCEPT !.entries = Append(es, e)]
  <2>1. file'.entries = Append(es, e) /\ "entries" \in DOMAIN file'
    BY <1>3, <1>6
  <2> HIDE DEF es
  <2>2. es \in Seq(Range(es) \cup {e})
    BY <1>3, SeqMonotonic
  <2>3. /\ Append(es, e) \in Seq(Range(es) \cup {e}) /\ Len(Append(es, e)) = Len(es) + 1
        /\ Append(es, e)[Len(es) + 1] = e /\ \A i \in 1 .. Len(es) : Append(es, e)[i] = es[i]
    BY <2>2
  <2>4. Append(es, e) \in Seq(Range(Append(es, e)))
    BY <2>3, SeqOfRange, ZenonT(30)
  <2>5. Len(es) \in Nat
    BY <1>3
  <2>6. \A i \in 1 .. Len(es) + 1 : Bounded(Append(es, e)[i])
    BY <1>3, <1>4, <2>3, <2>5
  <2> QED
    BY <2>1, <2>3, <2>4, <2>6 DEF FileInv
<1> QED
  BY <1>1, <1>5, <1>6 DEF e

\* Load makes items of the entries of a backup.
LEMMA LoadMortal == ASSUME EInv, Load PROVE EInv'
<1> DEFINE entries == file.entries
<1>1. PICK es \in Kept(entries) :
        /\ items' = [i \in es |-> Loaded(entries[i])]
        /\ index' = [k \in {entries[i].key : i \in es} |-> CHOOSE i \in es : entries[i].key = k]
  BY DEF Load
<1>2. /\ file # None /\ entries \in Seq(Range(entries))
      /\ \A i \in 1 .. Len(entries) : Bounded(entries[i])
  BY DEF Load, EInv, FileInv
<1>3. UNCHANGED <<thr, now, save, file, calls, acked>> /\ \A t \in Threads : thr[t] = NoCall
  BY DEF Load
<1> HIDE DEF entries
<1>4. es \subseteq 1 .. Len(entries) /\ Len(entries) \in Nat
  BY <1>2 DEF Kept
<1>5. Range(index') \subseteq es
  BY <1>1 DEF Range
<1>6. \A i \in es : /\ items'[i].data = entries[i].data /\ items'[i].exp = entries[i].exp
                    /\ {"data", "exp"} \subseteq DOMAIN items'[i]
  BY <1>1 DEF Loaded
<1>7. IsFiniteSet(es)
  <2>1. IsFiniteSet(1 .. Len(entries))
    BY <1>4, FS_Interval
  <2> QED
    BY <1>4, <2>1, FS_Subset, ZenonT(30)
<1>8. Itemized(items')
  BY <1>1, <1>6, <1>7 DEF Itemized
<1>9. Mortal(index', items', thr')
  BY <1>2, <1>4, <1>5, <1>6, Zenon DEF Mortal, Bounded
<1>10. Renewed(index', items', thr')
  BY <1>3 DEF Renewed, NoCall
<1>11. IInv'
  BY LoadKeeps DEF EInv
<1>12. CallInv' /\ FileInv'
  BY <1>3, CallsSame DEF EInv, FileInv
<1> QED
  BY <1>8, <1>9, <1>10, <1>11, <1>12 DEF EInv, ItemInv

LEMMA ManagerMortal == ASSUME EInv, "save_races" \notin Faults, Manager PROVE EInv'
<1>1. ASSUME UNCHANGED <<cache, now>>, acked' = acked, calls' \in {calls, calls + 1}, FileInv'
      PROVE  EInv'
  <2>1. thr' = thr /\ ItemInv' /\ IInv'
    BY <1>1 DEF cache, EInv, ItemInv, IInv, Shape, PinInv
  <2>2. CallInv'
    BY <1>1, <2>1, CallsSame DEF EInv
  <2> QED
    BY <1>1, <2>1, <2>2 DEF EInv
<1>2. CASE InitManager \/ \E p \in Pools : NewCache(p)
  BY <1>1, <1>2 DEF InitManager, NewCache, history, EInv, FileInv
<1>3. CASE SaveBegin
  <2>1. /\ UNCHANGED <<cache, now>> /\ acked' = acked /\ calls' = calls + 1
        /\ file' = [pools |-> mgr.pools, entries |-> <<>>, state |-> "open",
                    stable |-> {}, dead |-> dead]
    BY <1>3 DEF SaveBegin, Counted, history
  <2>2. file'.entries = <<>> /\ "entries" \in DOMAIN file'
    BY <2>1
  <2>3. FileInv'
    BY <2>2 DEF FileInv
  <2> QED
    BY <1>1, <2>1, <2>3
<1>4. CASE SaveItem
  <2>1. FileInv'
    BY <1>4, SaveItemMortal
  <2> QED
    BY <1>1, <1>4, <2>1 DEF SaveItem, history
<1>5. CASE SaveEnd
  <2>1. UNCHANGED <<cache, now>> /\ acked' = acked /\ calls' = calls /\ save' = None
    BY <1>5 DEF SaveEnd, history
  <2>2. file' = [file EXCEPT !.state = "whole", !.stable = stable] /\ save # None
    BY <1>5 DEF SaveEnd
  <2>3. file'.entries = file.entries /\ "entries" \in DOMAIN file'
    BY <2>2 DEF EInv, FileInv
  <2>4. FileInv'
    BY <2>1, <2>2, <2>3 DEF EInv, FileInv
  <2> QED
    BY <1>1, <2>1, <2>4
<1> QED
  BY <1>2, <1>3, <1>4, <1>5, LoadMortal, DownMortal DEF Manager, Stop

LEMMA InitMortal == Init => EInv
<1> SUFFICES ASSUME Init PROVE EInv
  OBVIOUS
<1>1. Range(index) = {} /\ DOMAIN items = {} /\ items = [i \in {} |-> items[i]]
  BY DEF Init, Range
<1>2. ItemInv
  BY <1>1, FS_EmptySet DEF Init, ItemInv, Itemized, Mortal, Renewed, NoCall
<1>3. CallInv /\ FileInv
  BY DEF Init, CallInv, SetInv, FileInv, NoCall
<1> QED
  BY <1>2, <1>3, InitPins DEF EInv

LEMMA StepMortal == ASSUME "save_races" \notin Faults PROVE EInv /\ [Next]_vars => EInv'
<1> SUFFICES ASSUME EInv, [Next]_vars PROVE EInv'
  OBVIOUS
<1>1. ASSUME NEW t \in Threads, NEW p, NEW n, Calls(t, p, n) PROVE EInv'
  BY <1>1, CallsMortal
<1>2. ASSUME NEW t \in Threads, Steps(t) PROVE EInv'
  BY <1>2, CreateMapMortal, ExpireCreatedMortal, ExpireFoundMortal, PutFieldMortal, ReadMortal,
     EraseMortal, ExpireMortal, DropMortal DEF Steps, MapSet
<1>3. CASE Manager
  BY <1>3, ManagerMortal
<1>4. CASE Tick \/ vars' = vars
  <2>1. UNCHANGED <<cache, save, file, calls, acked>> /\ now' \in {now, now + 1}
    BY <1>4 DEF Tick, history, vars
  <2>2. thr' = thr /\ ItemInv' /\ IInv' /\ FileInv'
    BY <2>1 DEF cache, EInv, ItemInv, IInv, Shape, PinInv, FileInv
  <2>3. CallInv'
    BY <2>1, <2>2, CallsSame DEF EInv
  <2> QED
    BY <2>2, <2>3 DEF EInv
<1> QED
  BY <1>1, <1>2, <1>3, <1>4 DEF Next

\* As long as Save does not meet a map between its creation and the setting of
\* its expiry (ecache_impl.hpp does both without a lock), a value that was set
\* with expire_secs is never left in an entry that lives for ever: not by Sets
\* of several threads on one map, nor by Expire, evictions, Save and Load.
THEOREM MortalEntries == ASSUME "save_races" \notin Faults PROVE Spec => []MortalStays
<1>1. EInv => MortalStays
  <2> SUFFICES ASSUME EInv, NEW i \in Range(index), NEW f \in DOMAIN items[i].data,
                      items[i].data[f] \in acked, items[i].data[f].ttl > 0, items[i].exp = 0
               PROVE  FALSE
    BY DEF MortalStays
  <2>1. PICK t \in Threads : Creates(thr[t], i, items[i].data[f])
    BY DEF EInv, ItemInv, Mortal
  <2> QED
    BY <2>1 DEF Creates, EInv, CallInv, SetInv
<1> QED
  BY <1>1, InitMortal, StepMortal, PTL DEF Spec
=============================================================================

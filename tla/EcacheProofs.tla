---------------------------- MODULE EcacheProofs ----------------------------
(***************************************************************************)
(* The views that ecache hands out stay valid, for every number of         *)
(* threads, pools, names and items, every size of the pools and every      *)
(* sequence of calls, evictions, saves, loads and restarts.                *)
(*                                                                         *)
(* ViewsAlive is not inductive: that a step frees no viewed item follows   *)
(* from the item being pinned, and that a pinned item is there, when a     *)
(* read turns its handle into the pin of its result, from the handles of   *)
(* the calls under way.  PinInv has both; RefInv has that a result views   *)
(* nothing that it does not pin.                                           *)
(*                                                                         *)
(* Then the invariant of MortalStays (EInv) and the beginning of the proof *)
(* that the steps keep it, which EcacheExpiryProofs goes on with.          *)
(***************************************************************************)
EXTENDS Ecache, FiniteSetTheorems, TLAPS

\* The longer of these proofs take the provers more than their default time.
USE SMTT(30), Zenon, Z3T(30)

\* Three facts about sequences.
LEMMA SeqMonotonic == ASSUME NEW S, NEW T, NEW seq \in Seq(S), S \subseteq T PROVE seq \in Seq(T)
  OBVIOUS

LEMMA SeqOfRange == ASSUME NEW S, NEW seq \in Seq(S) PROVE seq \in Seq(Range(seq))
<1>1. \A i \in 1 .. Len(seq) : seq[i] \in Range(seq)
  BY DEF Range
<1>2. seq = [i \in 1 .. Len(seq) |-> seq[i]] /\ Len(seq) \in Nat
  OBVIOUS
<1> QED
  BY <1>1, <1>2

LEMMA SubSeqProperties ==
  ASSUME NEW S, NEW s, NEW m \in Int, NEW n \in Int, \A i \in m .. n : s[i] \in S
  PROVE  /\ SubSeq(s, m, n) \in Seq(S)
         /\ Len(SubSeq(s, m, n)) = IF m <= n THEN n - m + 1 ELSE 0
         /\ \A i \in 1 .. n - m + 1 : SubSeq(s, m, n)[i] = s[m + i - 1]
  OBVIOUS

-----------------------------------------------------------------------------

\* Whatever the index, a handle of a call or a handle in a result names is
\* not freed.
PinInv ==
  /\ Range(index) \subseteq DOMAIN items
  /\ \A t \in Threads : thr[t].h = None \/ thr[t].h \in DOMAIN items
  /\ \A t \in Threads : views[t].pins \subseteq DOMAIN items

\* A result views only what its handle pins.
RefInv == \A t \in Threads : views[t].refs \subseteq views[t].pins

\* The calls and the results of the threads are records of their fields.
Shape ==
  /\ thr = [t \in Threads |-> thr[t]] /\ views = [t \in Threads |-> views[t]]
  /\ \A t \in Threads : "h" \in DOMAIN thr[t]

IInv == Shape /\ PinInv

\* An item that index', a call or a result names survives Freeing.
LEMMA FreeingKeeps ==
  ASSUME NEW its, items' = Freeing(its),
         Range(index') \subseteq DOMAIN its,
         \A t \in Threads : thr'[t].h = None \/ thr'[t].h \in DOMAIN its,
         \A t \in Threads : views'[t].pins \subseteq DOMAIN its
  PROVE  PinInv'
<1>1. DOMAIN items' = DOMAIN its \cap (Range(index') \cup Pinned(thr', views'))
  BY DEF Freeing
<1>2. \A t \in Threads : {thr'[t].h} \cup views'[t].pins \subseteq Pinned(thr', views')
  BY Zenon DEF Pinned
<1> QED
  BY <1>1, <1>2 DEF PinInv

\* What a find() returns is in the cache.
LEMMA FindFinds == ASSUME PinInv, NEW key PROVE Find(key) = None \/ Find(key) \in DOMAIN items
  BY DEF Find, PinInv, Range

LEMMA WithoutShrinks == ASSUME NEW e PROVE Range(Without(e)) \subseteq Range(index)
  BY Zenon DEF Without, Range

\* insertOrReplace adds one item to the index and takes one away.
LEMMA InsertGrows ==
  ASSUME PinInv, NEW key, NEW id, NEW data, NEW exp, NEW e, Insert(key, id, data, exp, e)
  PROVE  \E its : /\ items' = Freeing(its)
                  /\ DOMAIN its = DOMAIN items \cup {NewItem}
                  /\ Range(index') \subseteq DOMAIN its
<1> DEFINE its == Over(items, At(NewItem, [key |-> key, pool |-> id, data |-> data, exp |-> exp]))
<1>1. DOMAIN its = DOMAIN items \cup {NewItem}
  BY DEF Over, At
<1>2. index' = Over(At(key, NewItem), Without(e))
  BY DEF Insert
<1>3. Range(index') \subseteq {NewItem} \cup Range(Without(e))
  BY <1>2 DEF Over, At, Range
<1>4. Range(index') \subseteq DOMAIN its
  BY <1>1, <1>3, WithoutShrinks DEF PinInv
<1>5. items' = Freeing(its)
  BY DEF Insert
<1> HIDE DEF its
<1> QED
  BY <1>1, <1>4, <1>5

-----------------------------------------------------------------------------
\* The process ends with nothing pinned and nothing viewed.
LEMMA DownKeeps == Down => IInv'
<1> SUFFICES ASSUME Down PROVE IInv'
  OBVIOUS
<1>1. /\ index' = <<>> /\ items' = <<>>
      /\ thr' = [t \in Threads |-> NoCall] /\ views' = [t \in Threads |-> NoViews]
  BY Zenon DEF Down
<1>2. Range(index') = {}
  BY <1>1 DEF Range
<1> QED
  BY <1>1, <1>2 DEF IInv, Shape, PinInv, NoCall, NoViews

\* A string's Set pins what it replaces, before Insert frees anything.
LEMMA SetKeeps ==
  ASSUME IInv, NEW t \in Threads, NEW p, NEW n, NEW ttl, Set(t, p, n, ttl)
  PROVE  IInv'
<1> DEFINE key == KeyOf(p, n)
           old(i) == IF key \in DOMAIN Without(i) THEN {index[key]} ELSE {}
<1>1. CASE Down
  BY <1>1, DownKeeps
<1>2. ASSUME NEW i, NEW data, NEW exp,
             views' = [views EXCEPT ![t] = [refs |-> old(i), pins |-> old(i)]],
             thr' = thr, Insert(key, mgr.ids[p], data, exp, i)
      PROVE  IInv'
  <2>1. old(i) \subseteq DOMAIN items
    BY DEF Without, IInv, PinInv, Range
  <2> HIDE DEF old, key
  <2>2. PICK its : /\ items' = Freeing(its)
                   /\ DOMAIN its = DOMAIN items \cup {NewItem}
                   /\ Range(index') \subseteq DOMAIN its
    BY <1>2, InsertGrows DEF IInv
  <2>3. \A u \in Threads : views'[u].pins \subseteq DOMAIN its
    BY <1>2, <2>1, <2>2 DEF IInv, Shape, PinInv
  <2>4. \A u \in Threads : thr'[u].h = None \/ thr'[u].h \in DOMAIN its
    BY <1>2, <2>2 DEF IInv, PinInv
  <2>5. PinInv'
    BY <2>2, <2>3, <2>4, FreeingKeeps
  <2>6. Shape'
    BY <1>2, Zenon DEF IInv, Shape
  <2> QED
    BY <2>5, <2>6 DEF IInv
<1> QED
  BY <1>1, <1>2 DEF Set

\* A call begins with a find(), whose handle pins what it found.
LEMMA BeginKeeps ==
  ASSUME IInv, NEW t \in Threads, NEW p, NEW call, NEW seen,
         "h" \notin DOMAIN call, Begin(t, p, call, seen)
  PROVE  IInv'
<1> DEFINE f == Find(KeyOf(p, call.name))
           new == Over(call, [h |-> f, pool |-> p, pc |-> "found", seen |-> seen])
<1>1. /\ thr' = [thr EXCEPT ![t] = new]
      /\ index' = index /\ items' = items /\ views' = views
  BY DEF Begin
<1>2. f = None \/ f \in DOMAIN items
  BY FindFinds DEF IInv
<1>3. "h" \in DOMAIN new /\ new.h = f
  BY DEF Over
<1> HIDE DEF f, new
<1> QED
  BY <1>1, <1>2, <1>3 DEF IInv, Shape, PinInv

\* Every call of a thread, up to its find().
LEMMA CallsKeep ==
  ASSUME IInv, NEW t \in Threads, NEW p, NEW n, Calls(t, p, n)
  PROVE  IInv'
<1>1. ASSUME NEW ttl, Set(t, p, n, ttl) PROVE IInv'
  BY <1>1, SetKeeps
<1>2. ASSUME NEW f, NEW ttl, BeginSet(t, p, n, f, ttl) PROVE IInv'
  BY <1>2, BeginKeeps DEF BeginSet
<1>3. ASSUME NEW want, BeginGet(t, p, n, want) PROVE IInv'
  BY <1>3, BeginKeeps DEF BeginGet
<1>4. CASE BeginMin(t, p, n)
  BY <1>4, BeginKeeps DEF BeginMin
<1>5. ASSUME NEW f, BeginErase(t, p, n, f) PROVE IInv'
  BY <1>5, BeginKeeps DEF BeginErase
<1>6. CASE BeginPop(t, p, n)
  BY <1>6, BeginKeeps DEF BeginPop
<1>7. ASSUME NEW ttl, BeginExpire(t, p, n, ttl) PROVE IInv'
  BY <1>7, BeginKeeps DEF BeginExpire
<1>8. CASE Del(t, p, n)
  <2>1. /\ index' = Without(index[KeyOf(p, n)]) /\ thr' = thr /\ views' = views
        /\ items' = Freeing(items)
    BY <1>8 DEF Del
  <2>2. PinInv'
    BY <2>1, WithoutShrinks, FreeingKeeps DEF IInv, PinInv
  <2> QED
    BY <2>1, <2>2 DEF IInv, Shape
<1> QED
  BY <1>1, <1>2, <1>3, <1>4, <1>5, <1>6, <1>7, <1>8 DEF Calls

\* A field or the expiry of what was found is changed; the call returns.
LEMMA ReturnKeeps ==
  ASSUME IInv, NEW t \in Threads, Return(t), index' = index, views' = views,
         NEW its, items' = Freeing(its), DOMAIN its = DOMAIN items
  PROVE  IInv'
<1>1. PinInv'
  BY FreeingKeeps DEF Return, NoCall, IInv, Shape, PinInv
<1> QED
  BY <1>1, Zenon DEF Return, NoCall, IInv, Shape

\* DoRangeMapSet and DoHashMapSet after the find().
LEMMA MapSetKeeps == ASSUME IInv, NEW t \in Threads, MapSet(t) PROVE IInv'
<1>1. CASE CreateMap(t)
  <2> DEFINE c == thr[t]
             id == mgr.ids[c.pool]
  <2>1. CASE Return(t) /\ index' = index /\ items' = items /\ views' = views
    BY <2>1, Zenon DEF Return, NoCall, IInv, Shape, PinInv
  <2>2. ASSUME NEW e, NEW data, NEW exp, views' = views,
               Insert(KeyOf(c.pool, c.name), id, data, exp, e),
               \/ thr' = [thr EXCEPT ![t].h = NewItem, ![t].pc = "created"]
               \/ Return(t)
        PROVE  IInv'
    <3>1. PICK its : /\ items' = Freeing(its)
                     /\ DOMAIN its = DOMAIN items \cup {NewItem}
                     /\ Range(index') \subseteq DOMAIN its
      BY <2>2, InsertGrows DEF IInv
    <3>2. \A u \in Threads : thr'[u].h \in {thr[u].h, None, NewItem} /\ "h" \in DOMAIN thr'[u]
      BY <2>2 DEF Return, NoCall, IInv, Shape
    <3>3. PinInv'
      BY <2>2, <3>1, <3>2, FreeingKeeps DEF IInv, PinInv
    <3>4. Shape'
      BY <2>2, <3>2 DEF Return, IInv, Shape
    <3> QED
      BY <3>3, <3>4 DEF IInv
  <2> QED
    BY <1>1, <2>1, <2>2, Zenon DEF CreateMap
<1>2. CASE ExpireCreated(t) \/ PutField(t)
  <2> DEFINE c == thr[t]
             later == WithExpiry(c.h, now + c.ttl)
             put == [items EXCEPT ![c.h].data = Over(At(c.val.owner[3], c.val), @)]
  <2>2. DOMAIN later = DOMAIN items /\ DOMAIN put = DOMAIN items
    BY DEF WithExpiry
  <2>3. items' = Freeing(later) \/ items' = Freeing(put)
    BY <1>2 DEF ExpireCreated, PutField
  <2> HIDE DEF later, put
  <2>1. Return(t) /\ index' = index /\ views' = views
    BY <1>2 DEF ExpireCreated, PutField
  <2> QED
    BY <2>1, <2>2, <2>3, ReturnKeeps
<1>3. CASE ExpireFound(t)
  <2>1. /\ thr' = [thr EXCEPT ![t].pc = "put"] /\ index' = index /\ views' = views
        /\ DOMAIN items' = DOMAIN items
    BY <1>3 DEF ExpireFound, WithExpiry
  <2> QED
    BY <2>1 DEF IInv, Shape, PinInv
<1> QED
  BY <1>1, <1>2, <1>3 DEF MapSet

\* Read hands the call's handle on to the result.
LEMMA ReadKeeps == ASSUME IInv, NEW t \in Threads, Read(t) PROVE IInv'
<1> DEFINE c == thr[t]
           kept == IF "reuse" \in Faults THEN views[t] ELSE NoViews
           new == IF Result(c) = {} THEN kept
                  ELSE [refs |-> kept.refs \cup {c.h}, pins |-> {c.h}]
<1>1. /\ views' = [views EXCEPT ![t] = new] /\ index' = index /\ items' = Freeing(items)
      /\ thr' = [thr EXCEPT ![t] = NoCall]
  BY DEF Read, Return
<1>2. Result(c) # {} => c.h # None
  BY DEF Result
<1>3. new.pins \subseteq DOMAIN items
  BY <1>2 DEF NoViews, IInv, PinInv
<1> HIDE DEF new
<1>4. PinInv'
  BY <1>1, <1>3, FreeingKeeps, Zenon DEF NoCall, IInv, Shape, PinInv
<1> QED
  BY <1>1, <1>4, Zenon DEF NoCall, IInv, Shape

LEMMA EraseKeeps == ASSUME IInv, NEW t \in Threads, Erase(t) PROVE IInv'
<1> DEFINE c == thr[t]
           data == IF c.h = None THEN <<>> ELSE items[c.h].data
           gone == IF c.op = "erase" THEN {c.field} \cap DOMAIN data
                   ELSE {f \in DOMAIN data : f = LeastField(data)}
           its == IF gone = {} THEN items
                  ELSE [items EXCEPT ![c.h].data = [f \in DOMAIN data \ gone |-> data[f]]]
<1>1. CASE Down
  BY <1>1, DownKeeps
<1>2. CASE Return(t) /\ index' = index /\ views' = views /\ items' = Freeing(its)
  <2>1. DOMAIN its = DOMAIN items
    OBVIOUS
  <2> HIDE DEF its
  <2> QED
    BY <1>2, <2>1, ReturnKeeps
<1> QED
  BY <1>1, <1>2, Zenon DEF Erase

LEMMA ExpireKeeps == ASSUME IInv, NEW t \in Threads, Expire(t) PROVE IInv'
<1> DEFINE its(exp) == IF thr[t].h = None THEN items ELSE WithExpiry(thr[t].h, exp)
<1>1. PICK exp : items' = Freeing(its(exp))
  BY DEF Expire
<1>2. DOMAIN its(exp) = DOMAIN items
  BY DEF WithExpiry
<1> HIDE DEF its
<1> QED
  BY <1>1, <1>2, ReturnKeeps DEF Expire

LEMMA StepsKeep == ASSUME IInv, NEW t \in Threads, Steps(t) PROVE IInv'
<1>1. CASE Drop(t)
  <2>1. /\ views' = [views EXCEPT ![t] = NoViews] /\ thr' = thr /\ index' = index
        /\ items' = Freeing(items)
    BY <1>1 DEF Drop
  <2>2. PinInv'
    BY <2>1, FreeingKeeps DEF NoViews, IInv, Shape, PinInv
  <2> QED
    BY <2>1, <2>2, Zenon DEF IInv, Shape
<1> QED
  BY <1>1, MapSetKeeps, ReadKeeps, EraseKeeps, ExpireKeeps DEF Steps

\* Load fills an empty cache; nobody keeps anything of the one before.
LEMMA LoadKeeps == ASSUME IInv, Load PROVE IInv'
<1>1. PICK es : /\ items' = [i \in es |-> Loaded(file.entries[i])]
                /\ index' = [k \in {file.entries[i].key : i \in es} |->
                               CHOOSE i \in es : file.entries[i].key = k]
  BY DEF Load
<1>2. Range(index') \subseteq es
  BY <1>1 DEF Range
<1>3. /\ thr' = thr /\ views' = views
      /\ \A t \in Threads : thr[t] = NoCall /\ views[t] = NoViews
  BY DEF Load
<1>4. PinInv'
  <2>1. DOMAIN items' = es
    BY <1>1
  <2>2. \A t \in Threads : /\ thr'[t].h = None
                           /\ views'[t].pins = {}
    BY <1>3 DEF NoCall, NoViews
  <2> QED
    BY <1>2, <2>1, <2>2 DEF PinInv
<1> QED
  BY <1>3, <1>4 DEF IInv, Shape

LEMMA ManagerKeeps == ASSUME IInv, Manager PROVE IInv'
<1>1. CASE UNCHANGED cache
  BY <1>1 DEF cache, IInv, Shape, PinInv
<1>2. CASE Load
  BY <1>2, LoadKeeps
<1>3. CASE Stop
  BY <1>3, DownKeeps DEF Stop
<1> QED
  BY <1>1, <1>2, <1>3 DEF Manager, InitManager, NewCache, SaveBegin, SaveItem, SaveEnd

LEMMA InitPins == Init => IInv
<1>1. Range(<<>>) = {}
  BY DEF Range
<1> QED
  BY <1>1 DEF Init, NoCall, NoViews, IInv, Shape, PinInv

\* The inductive step: every step keeps what is pinned.
LEMMA StepPins == IInv /\ [Next]_vars => IInv'
<1> SUFFICES ASSUME IInv, [Next]_vars PROVE IInv'
  OBVIOUS
<1>1. CASE UNCHANGED cache
  BY <1>1 DEF cache, IInv, Shape, PinInv
<1>2. CASE vars' = vars
  BY <1>1, <1>2 DEF vars
<1>3. CASE Next
  <2>1. ASSUME NEW t \in Threads, NEW p, NEW n, Calls(t, p, n) PROVE IInv'
    BY <2>1, CallsKeep
  <2>2. ASSUME NEW t \in Threads, Steps(t) PROVE IInv'
    BY <2>2, StepsKeep
  <2>3. CASE Manager
    BY <2>3, ManagerKeeps
  <2>4. CASE Tick
    BY <1>1, <2>4 DEF Tick
  <2> QED
    BY <1>3, <2>1, <2>2, <2>3, <2>4 DEF Next
<1> QED
  BY <1>2, <1>3

\* Only a Set, a read and a Drop change what a thread keeps.
LEMMA StepRefs ==
  ASSUME "reuse" \notin Faults PROVE IInv /\ RefInv /\ [Next]_vars => RefInv'
<1> SUFFICES ASSUME IInv, RefInv, [Next]_vars PROVE RefInv'
  OBVIOUS
<1>1. CASE views' = views
  BY <1>1 DEF RefInv
<1>2. ASSUME NEW t \in Threads, NEW new, views' = [views EXCEPT ![t] = new], new.refs \subseteq new.pins
      PROVE  RefInv'
  BY <1>2 DEF RefInv, IInv, Shape
<1>3. CASE Down
  BY <1>3, ZenonT(30) DEF Down, RefInv, NoViews
<1>4. ASSUME NEW t \in Threads, NEW p, NEW n, Calls(t, p, n) PROVE RefInv'
  <2>1. ASSUME NEW ttl, Set(t, p, n, ttl) PROVE RefInv'
    <3>1. ASSUME NEW old, views' = [views EXCEPT ![t] = [refs |-> old, pins |-> old]] PROVE RefInv'
      BY <1>2, <3>1, Zenon
    <3> QED
      BY <1>3, <2>1, <3>1, Zenon DEF Set
  <2> QED
    BY <1>1, <1>4, <2>1, ZenonT(30) DEF Calls, BeginSet, BeginGet, BeginMin, BeginErase, BeginPop,
                            BeginExpire, Begin, Del
<1>5. ASSUME NEW t \in Threads, Read(t) \/ Drop(t) PROVE RefInv'
  <2>1. CASE Read(t)
    <3> DEFINE new == IF Result(thr[t]) = {} THEN NoViews
                      ELSE [refs |-> NoViews.refs \cup {thr[t].h}, pins |-> {thr[t].h}]
    <3>1. views' = [views EXCEPT ![t] = new] /\ new.refs \subseteq new.pins
      BY <2>1 DEF Read, NoViews
    <3> QED
      BY <1>2, <3>1, Zenon
  <2>2. CASE Drop(t)
    BY <1>2, <2>2, ZenonT(30) DEF Drop, NoViews
  <2> QED
    BY <1>5, <2>1, <2>2
<1>6. ASSUME NEW t \in Threads, MapSet(t) \/ Erase(t) \/ Expire(t) PROVE RefInv'
  BY <1>1, <1>3, <1>6, Zenon DEF MapSet, CreateMap, ExpireCreated, ExpireFound, PutField, Erase, Expire
<1>7. CASE Manager
  BY <1>1, <1>3, <1>7 DEF Manager, InitManager, NewCache, SaveBegin, SaveItem, SaveEnd, Load, Stop, cache
<1>8. CASE Tick \/ vars' = vars
  BY <1>1, <1>8 DEF Tick, cache, vars
<1> QED
  BY <1>4, <1>5, <1>6, <1>7, <1>8 DEF Next, Steps

\* As long as no result vector is used for a second call, what a caller's
\* CacheValues point into is not freed before the caller drops them, however
\* many threads replace, delete, evict and expire the items meanwhile: the one
\* handle that ecache_impl.hpp keeps in the first CacheValue is enough.
THEOREM ViewsStayAlive == ASSUME "reuse" \notin Faults PROVE Spec => []ViewsAlive
<1>1. IInv /\ RefInv => ViewsAlive
  BY DEF IInv, PinInv, RefInv, ViewsAlive
<1>2. Init => RefInv
  BY DEF Init, RefInv, NoViews
<1> QED
  BY <1>1, <1>2, InitPins, StepPins, StepRefs, PTL DEF Spec

-----------------------------------------------------------------------------

\* Call c has made item i for its value v, whose expiry it has yet to set.
Creates(c, i, v) == c.op = "set" /\ c.pc = "created" /\ c.h = i /\ c.val = v

\* An item in the index that never expires holds no value with an expiry, but
\* for the one of a Set that is about to give the item its own.
Mortal(idx, its, th) ==
  \A i \in Range(idx) : \A f \in DOMAIN its[i].data :
    its[i].data[f].ttl > 0 /\ its[i].exp = 0
      => \E t \in Threads : Creates(th[t], i, its[i].data[f])

\* A Set that found a map has given it an expiry before it puts the field.
Renewed(idx, its, th) ==
  \A t \in Threads :
    th[t].op = "set" /\ th[t].pc = "put" /\ th[t].h \in Range(idx) => its[th[t].h].exp # 0

Itemized(its) ==
  /\ IsFiniteSet(DOMAIN its) /\ its = [i \in DOMAIN its |-> its[i]]
  /\ \A i \in DOMAIN its : {"data", "exp"} \subseteq DOMAIN its[i]

ItemInv == Itemized(items) /\ Mortal(index, items, thr) /\ Renewed(index, items, thr)

\* The value of a Set under way is no other call's, and has not been
\* acknowledged: calls are numbered.
SetInv(c) ==
  c.op = "set" => /\ {"op", "h", "pc", "val", "ttl"} \subseteq DOMAIN c
                  /\ c.val.nr \in 0 .. calls /\ c.val.ttl = c.ttl /\ c.ttl \in Nat
                  /\ c.pc = "created" => c.ttl > 0
                  /\ \A v \in acked : v.nr # c.val.nr

CallInv ==
  /\ now \in Nat /\ calls \in Nat
  /\ \A v \in acked : v.nr \in 0 .. calls
  /\ \A t \in Threads : SetInv(thr[t])
  /\ \A t, u \in Threads :
       t # u /\ thr[t].op = "set" /\ thr[u].op = "set" => thr[t].val.nr # thr[u].val.nr
  /\ \A t \in Threads : thr[t].op = "expire" => thr[t].ttl \in Nat \ {0}

\* Nothing in the backup lives longer than it did in the cache.
Bounded(e) == \A f \in DOMAIN e.data : e.data[f].ttl > 0 => e.exp # 0

FileInv ==
  save # None \/ file # None
    => /\ "entries" \in DOMAIN file /\ file.entries \in Seq(Range(file.entries))
       /\ \A i \in 1 .. Len(file.entries) : Bounded(file.entries[i])

EInv == IInv /\ ItemInv /\ CallInv /\ FileInv

-----------------------------------------------------------------------------
\* allocate returns memory that no item has.
LEMMA NewItemFresh ==
  ASSUME Itemized(items) PROVE NewItem \notin DOMAIN items /\ NewItem # None
<1> DEFINE n == Cardinality(DOMAIN items)
<1>1. n \in Nat
  BY FS_CardinalityType DEF Itemized
<1>2. \E i \in 1 .. n + 1 : i \notin DOMAIN items
  <2> SUFFICES ASSUME 1 .. n + 1 \subseteq DOMAIN items PROVE FALSE
    OBVIOUS
  <2>1. Cardinality(1 .. n + 1) = n + 1
    BY <1>1, FS_Interval
  <2>2. Cardinality(1 .. n + 1) <= n
    BY FS_Subset, Zenon DEF Itemized
  <2> QED
    BY <1>1, <2>1, <2>2
<1>3. NewItem \in 1 .. n + 1 /\ NewItem \notin DOMAIN items
  BY <1>2 DEF NewItem
<1> QED
  BY <1>1, <1>3, EcacheAssumption

\* What holds before items are freed holds after.
LEMMA FreeingMortal ==
  ASSUME NEW its, items' = Freeing(its), Range(index') \subseteq DOMAIN its, Itemized(its),
         Mortal(index', its, thr'), Renewed(index', its, thr')
  PROVE  ItemInv'
<1>1. DOMAIN items' \subseteq DOMAIN its /\ Range(index') \subseteq DOMAIN items'
  BY DEF Freeing
<1>2. items' = [i \in DOMAIN items' |-> its[i]]
  BY DEF Freeing
<1>3. \A i \in DOMAIN items' : items'[i] = its[i]
  BY <1>2
<1>4. Itemized(items')
  BY <1>1, <1>2, <1>3, FS_Subset DEF Itemized
<1>5. Mortal(index', items', thr')
  BY <1>1, <1>3 DEF Mortal
<1>6. Renewed(index', items', thr')
  BY <1>1, <1>3 DEF Renewed
<1> QED
  BY <1>4, <1>5, <1>6 DEF ItemInv

\* insertOrReplace.
LEMMA InsertAdds ==
  ASSUME IInv, ItemInv, NEW key, NEW id, NEW data, NEW exp, NEW e, Insert(key, id, data, exp, e)
  PROVE  \E its : /\ items' = Freeing(its) /\ Itemized(its)
                  /\ Range(index') \subseteq DOMAIN its
                  /\ Range(index') \subseteq Range(index) \cup {NewItem}
                  /\ \A i \in DOMAIN items : its[i] = items[i]
                  /\ its[NewItem].data = data /\ its[NewItem].exp = exp
<1> DEFINE item == [key |-> key, pool |-> id, data |-> data, exp |-> exp]
           its == Over(items, At(NewItem, item))
<1>1. NewItem \notin DOMAIN items
  BY NewItemFresh DEF ItemInv
<1>2. item.data = data /\ item.exp = exp /\ {"data", "exp"} \subseteq DOMAIN item
  OBVIOUS
<1>3. index' = Over(At(key, NewItem), Without(e)) /\ items' = Freeing(its)
  BY DEF Insert
<1>4. Range(index') \subseteq {NewItem} \cup Range(Without(e))
  BY <1>3 DEF Over, At, Range
<1>5. Range(index') \subseteq {NewItem} \cup Range(index)
  BY <1>4, WithoutShrinks
<1> HIDE DEF item
<1>6. DOMAIN its = DOMAIN items \cup {NewItem}
  BY DEF Over, At
<1>7. its = [i \in DOMAIN its |-> IF i \in DOMAIN items THEN items[i] ELSE item]
  BY <1>6 DEF Over, At
<1>8. (\A i \in DOMAIN items : its[i] = items[i]) /\ its[NewItem] = item
  BY <1>1, <1>6, <1>7
<1> HIDE DEF its
<1>9. IsFiniteSet(DOMAIN its)
  BY <1>6, FS_AddElement DEF ItemInv, Itemized
<1>10. Itemized(its)
  BY <1>2, <1>6, <1>7, <1>8, <1>9 DEF ItemInv, Itemized
<1> QED
  BY <1>2, <1>3, <1>5, <1>6, <1>8, <1>10 DEF IInv, PinInv

-----------------------------------------------------------------------------
\* The values of the calls under way.

LEMMA AcksAtMost == ASSUME NEW vals, NEW killed, Acks(vals, killed) PROVE acked' \subseteq acked \cup vals
  BY DEF Acks

\* A call that is no Set goes on, or one returns.
LEMMA CallsSame ==
  ASSUME CallInv, acked' \subseteq acked, calls' \in {calls, calls + 1}, now' \in {now, now + 1},
         thr' = thr \/ thr' = [u \in Threads |-> NoCall]
  PROVE  CallInv'
<1>1. now' \in Nat /\ calls' \in Nat /\ 0 .. calls \subseteq 0 .. calls'
  BY DEF CallInv
<1>2. CASE thr' = thr
  BY <1>1, <1>2 DEF CallInv, SetInv
<1>3. CASE thr' = [u \in Threads |-> NoCall]
  BY <1>1, <1>3 DEF CallInv, SetInv, NoCall
<1> QED
  BY <1>2, <1>3

LEMMA CallReturns ==
  ASSUME CallInv, Shape, NEW t \in Threads, Return(t), calls' = calls, now' = now,
         acked' \subseteq acked \/ (thr[t].op = "set" /\ acked' \subseteq acked \cup {thr[t].val})
  PROVE  CallInv'
<1>1. thr'[t] = NoCall /\ \A u \in Threads \ {t} : thr'[u] = thr[u]
  BY DEF Return, Shape
<1>2. \A v \in acked' : v.nr \in 0 .. calls
  BY DEF CallInv, SetInv
<1>3. \A u \in Threads \ {t}, v \in acked' : thr[u].op = "set" => v.nr # thr[u].val.nr
  BY DEF CallInv, SetInv
<1>4. NoCall.op = "none"
  BY DEF NoCall
<1>5. \A u \in Threads : SetInv(thr[u])'
  BY <1>1, <1>3, <1>4 DEF CallInv, SetInv
<1> QED
  BY <1>1, <1>2, <1>4, <1>5 DEF CallInv

-----------------------------------------------------------------------------
\* The process ends; the backup may be cut.
LEMMA DownMortal == ASSUME EInv, Down, calls' \in {calls, calls + 1} PROVE EInv'
<1>1. /\ index' = <<>> /\ items' = <<>> /\ thr' = [t \in Threads |-> NoCall]
      /\ save' = None /\ now' = now /\ Acks({}, {})
  BY Zenon DEF Down
<1>2. CallInv'
  BY <1>1, AcksAtMost, CallsSame DEF EInv
<1>3. ItemInv'
  <2>1. Range(index') = {} /\ DOMAIN items' = {} /\ items' = [i \in {} |-> items[i]]
    BY <1>1 DEF Range
  <2> QED
    BY <1>1, <2>1, FS_EmptySet DEF ItemInv, Itemized, Mortal, Renewed, NoCall
<1>4. FileInv'
  <2>1. CASE save = None
    BY <1>1, <2>1 DEF Down, EInv, FileInv
  <2>2. CASE save # None
    <3> DEFINE es == file.entries
    <3>1. PICK i \in 0 .. Len(es) : file' = [file EXCEPT !.entries = SubSeq(@, 1, i), !.state = "cut"]
      BY <2>2, Zenon DEF Down
    <3>2. /\ "entries" \in DOMAIN file /\ es \in Seq(Range(es))
          /\ \A k \in 1 .. Len(es) : Bounded(es[k])
      BY <2>2 DEF EInv, FileInv
    <3>3. file'.entries = SubSeq(es, 1, i) /\ "entries" \in DOMAIN file'
      BY <3>1, <3>2
    <3> HIDE DEF es
    <3>4. i \in Int /\ \A k \in 1 .. i : k \in 1 .. Len(es) /\ es[k] \in Range(es)
      BY <3>2
    <3>5. /\ SubSeq(es, 1, i) \in Seq(Range(es)) /\ Len(SubSeq(es, 1, i)) = i
          /\ \A k \in 1 .. i : SubSeq(es, 1, i)[k] = es[k]
      BY <3>4, SubSeqProperties
    <3>6. SubSeq(es, 1, i) \in Seq(Range(SubSeq(es, 1, i)))
      BY <3>5, SeqOfRange, Zenon
    <3> QED
      BY <1>1, <3>2, <3>3, <3>4, <3>5, <3>6 DEF FileInv
  <2> QED
    BY <2>1, <2>2
<1>5. IInv'
  BY DownKeeps
<1> QED
  BY <1>2, <1>3, <1>4, <1>5 DEF EInv

\* Set of a string: the item has its expiry from the start.
LEMMA SetMortal ==
  ASSUME EInv, NEW t \in Threads, NEW p, NEW n, NEW ttl \in Ttls, Set(t, p, n, ttl)
  PROVE  EInv'
<1> DEFINE key == KeyOf(p, n)
           v == Value(p, n, 0, ttl)
<1>1. CASE Down
  BY <1>1, DownMortal DEF Set, Counted
<1>2. ASSUME NEW e, Insert(key, mgr.ids[p], At(0, v), ExpiryOf(ttl), e),
             UNCHANGED <<thr, now, save, file>>, acked' \subseteq acked \cup {v}
      PROVE  EInv'
  <2>1. ttl \in Nat /\ now \in Nat /\ calls \in Nat /\ calls' = calls + 1
    BY EcacheAssumption DEF EInv, CallInv, Set, Counted
  <2>2. v.nr = calls + 1 /\ v.ttl = ttl
    BY DEF Value
  <2>3. \A f \in DOMAIN At(0, v) : At(0, v)[f].ttl > 0 => ExpiryOf(ttl) # 0
    <3>1. ttl > 0 => ExpiryOf(ttl) # 0
      BY <2>1 DEF ExpiryOf
    <3> QED
      BY <2>2, <3>1 DEF At
  <2> HIDE DEF v, key
  <2>4. CallInv'
    BY <1>2, <2>1, <2>2 DEF EInv, CallInv, SetInv
  <2>5. PICK its : /\ items' = Freeing(its) /\ Itemized(its)
                   /\ Range(index') \subseteq DOMAIN its
                   /\ Range(index') \subseteq Range(index) \cup {NewItem}
                   /\ \A i \in DOMAIN items : its[i] = items[i]
                   /\ its[NewItem].data = At(0, v) /\ its[NewItem].exp = ExpiryOf(ttl)
    BY <1>2, InsertAdds DEF EInv
  <2>6. Mortal(index', its, thr')
    BY <1>2, <2>3, <2>5, ZenonT(30) DEF EInv, ItemInv, Mortal, IInv, PinInv
  <2>7. Renewed(index', its, thr')
    <3> SUFFICES ASSUME NEW u \in Threads, thr[u].op = "set", thr[u].pc = "put",
                        thr[u].h \in Range(index')
                 PROVE  its[thr[u].h].exp # 0
      BY <1>2 DEF Renewed
    <3>1. NewItem \notin DOMAIN items /\ NewItem # None
      BY NewItemFresh DEF EInv, ItemInv
    <3>2. thr[u].h \in Range(index) /\ thr[u].h \in DOMAIN items
      BY <2>5, <3>1 DEF EInv, IInv, PinInv
    <3> QED
      BY <2>5, <3>2 DEF EInv, ItemInv, Renewed
  <2>8. ItemInv'
    BY <2>5, <2>6, <2>7, FreeingMortal
  <2>9. FileInv' /\ IInv'
    BY <1>2, SetKeeps DEF EInv, FileInv
  <2> QED
    BY <2>4, <2>8, <2>9 DEF EInv
<1> QED
  BY <1>1, <1>2, AcksAtMost DEF Set

\* A call begins, under a number of its own.
LEMMA BeginMortal ==
  ASSUME EInv, NEW t \in Threads, NEW p, NEW call, NEW seen, Begin(t, p, call, seen),
         "op" \in DOMAIN call, "h" \notin DOMAIN call, "pc" \notin DOMAIN call,
         call.op = "set" => /\ {"val", "ttl"} \subseteq DOMAIN call /\ call.val.nr = calls + 1
                            /\ call.val.ttl = call.ttl /\ call.ttl \in Nat,
         call.op = "expire" => "ttl" \in DOMAIN call /\ call.ttl \in Nat \ {0}
  PROVE  EInv'
<1> DEFINE new == Over(call, [h |-> Find(KeyOf(p, call.name)), pool |-> p, pc |-> "found",
                              seen |-> seen])
<1>1. /\ thr[t] = NoCall /\ thr' = [thr EXCEPT ![t] = new] /\ calls' = calls + 1
      /\ UNCHANGED <<index, items, now, save, file, acked>>
  BY DEF Begin, Counted, history
<1>2. /\ new.op = call.op /\ new.pc = "found"
      /\ new.op = "set" => /\ {"op", "h", "pc", "val", "ttl"} \subseteq DOMAIN new
                           /\ new.val = call.val /\ new.ttl = call.ttl
      /\ new.op = "expire" => new.ttl = call.ttl
  BY DEF Over
<1> HIDE DEF new
<1>3. thr'[t] = new /\ \A u \in Threads \ {t} : thr'[u] = thr[u]
  BY <1>1 DEF EInv, IInv, Shape
<1>4. thr[t].op = "none"
  <2>1. NoCall.op = "none"
    BY DEF NoCall
  <2> QED
    BY <1>1, <2>1, Zenon
<1>5. ItemInv'
  <2>1. Mortal(index, items, thr')
    BY <1>3, <1>4 DEF EInv, ItemInv, Mortal, Creates
  <2>2. Renewed(index, items, thr')
    BY <1>2, <1>3 DEF EInv, ItemInv, Renewed
  <2> QED
    BY <1>1, <2>1, <2>2 DEF EInv, ItemInv
<1>6. CallInv'
  <2>1. calls \in Nat /\ 0 .. calls \subseteq 0 .. calls' /\ calls + 1 \notin 0 .. calls
    BY <1>1 DEF EInv, CallInv
  <2>2. \A u \in Threads \ {t} : SetInv(thr[u])'
    BY <1>1, <1>3, <2>1 DEF EInv, CallInv, SetInv
  <2>3. SetInv(thr[t])'
    BY <1>1, <1>2, <1>3, <2>1 DEF EInv, CallInv, SetInv
  <2>4. \A u \in Threads \ {t} : thr[u].op = "set" /\ new.op = "set" => thr[u].val.nr # new.val.nr
    BY <1>2, <2>1 DEF EInv, CallInv, SetInv
  <2> QED
    BY <1>1, <1>2, <1>3, <2>1, <2>2, <2>3, <2>4 DEF EInv, CallInv
<1>7. FileInv' /\ IInv'
  BY <1>1, BeginKeeps DEF EInv, FileInv
<1> QED
  BY <1>5, <1>6, <1>7 DEF EInv

LEMMA CallsMortal ==
  ASSUME EInv, NEW t \in Threads, NEW p, NEW n, Calls(t, p, n) PROVE EInv'
<1>1. ASSUME NEW ttl \in Ttls, Set(t, p, n, ttl) PROVE EInv'
  BY <1>1, SetMortal
<1>2. ASSUME NEW f, NEW ttl \in Ttls, BeginSet(t, p, n, f, ttl) PROVE EInv'
  <2> DEFINE v == Value(p, n, f, ttl)
             call == [op |-> "set", name |-> n, ttl |-> ttl, val |-> v]
  <2>1. v.nr = calls + 1 /\ v.ttl = ttl
    BY DEF Value
  <2> HIDE DEF v
  <2>2. Begin(t, p, call, AckedOf(p, n, {f}))
    BY <1>2 DEF BeginSet, v
  <2> QED
    BY <2>1, <2>2, EcacheAssumption, BeginMortal
<1>3. ASSUME NEW want, BeginGet(t, p, n, want) PROVE EInv'
  BY <1>3, BeginMortal DEF BeginGet
<1>4. CASE BeginMin(t, p, n)
  BY <1>4, BeginMortal DEF BeginMin
<1>5. ASSUME NEW f, BeginErase(t, p, n, f) PROVE EInv'
  BY <1>5, BeginMortal DEF BeginErase
<1>6. CASE BeginPop(t, p, n)
  BY <1>6, BeginMortal DEF BeginPop
<1>7. ASSUME NEW ttl \in Ttls \ {0}, BeginExpire(t, p, n, ttl) PROVE EInv'
  <2> DEFINE call == [op |-> "expire", name |-> n, ttl |-> ttl]
  <2>1. ttl \in Nat \ {0}
    BY EcacheAssumption
  <2>2. Begin(t, p, call, {})
    BY <1>7 DEF BeginExpire
  <2>3. call.op = "expire" /\ call.ttl = ttl /\ DOMAIN call = {"op", "name", "ttl"}
    OBVIOUS
  <2> HIDE DEF call
  <2> QED
    BY <2>1, <2>2, <2>3, BeginMortal
<1>8. CASE Del(t, p, n)
  <2> DEFINE e == index[KeyOf(p, n)]
  <2>1. /\ index' = Without(e) /\ items' = Freeing(items) /\ calls' = calls + 1
        /\ UNCHANGED <<thr, now, save, file>> /\ \E killed : Acks({}, killed)
    BY <1>8 DEF Del, Counted
  <2> HIDE DEF e
  <2>2. Range(index') \subseteq Range(index)
    BY <2>1, WithoutShrinks
  <2>3. ItemInv'
    <3>1. Mortal(index', items, thr') /\ Renewed(index', items, thr')
      BY <2>1, <2>2, Zenon DEF EInv, ItemInv, Mortal, Renewed
    <3> QED
      BY <2>1, <2>2, <3>1, FreeingMortal DEF EInv, ItemInv, IInv, PinInv
  <2>4. CallInv'
    BY <2>1, AcksAtMost, CallsSame DEF EInv
  <2>5. IInv'
    BY CallsKeep DEF EInv
  <2> QED
    BY <2>1, <2>3, <2>4, <2>5 DEF EInv, FileInv
<1> QED
  BY <1>1, <1>2, <1>3, <1>4, <1>5, <1>6, <1>7, <1>8 DEF Calls
=============================================================================

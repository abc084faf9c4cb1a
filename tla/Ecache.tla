------------------------------- MODULE Ecache -------------------------------
(***************************************************************************)
(* ecache: pools of strings, ordered maps and hash maps in one CacheLib    *)
(* cache (ecache/ecache_impl.hpp), with ECacheManager's Save and Load      *)
(* (ecache/ecache_manager.cpp).                                            *)
(*                                                                         *)
(* ECache takes no lock.  Every operation on a map is a find(), which      *)
(* pins the item by a handle, and then one or more operations on what was  *)
(* found; the steps of several threads interleave between these, and so do *)
(* evictions, the clock and the loop of Save.  CacheLib itself (find,      *)
(* insertOrReplace, remove, eviction, its maps) is external: each of its   *)
(* calls is one step, and only an item that nothing pins is evicted.       *)
(***************************************************************************)
EXTENDS Naturals, Sequences, FiniteSets, Functions

CONSTANTS
  Threads,
  Pools,      \* names of pools
  Names,      \* what users name: [kind, size (of a field), key]
  Fields,     \* fields of maps, numbers in the order of their encoding
  Ttls,       \* expire_secs; 0 stands for none
  Cap,        \* items that fit into the first, second, ... pool
  Empty,      \* the numbers of the calls that set an empty value
  HashOrder,  \* the actual keys in the order in which Save's iterator meets them
  Menu,       \* the kinds of calls to try as the first, second, ... call;
              \* its length bounds the number of calls
  MaxTime,    \* bound on the clock
  MaxStarts,  \* bound on the number of processes
  Faults,     \* of "reload", "reuse", "save_races": uses that are not safe
  None

ASSUME EcacheAssumption == Ttls \subseteq Nat /\ None \notin Nat

VARIABLES
  mgr,     \* ECacheManager: pool_configs_ and pool_id_mapping_, or None
  index,   \* the cache: actual key -> item
  items,   \* item -> [key, pool, data, exp], for all that are not freed
  thr,     \* thread -> its call, from find() to its return
  views,   \* thread -> the CacheValues it keeps: what they view, what they pin
  now,
  save,    \* the place of Save's iterator, or None
  file,    \* the backup
  calls,   \* number of calls so far
  starts,  \* number of processes so far
  acked,   \* history: the values whose Set has returned
  dead,    \* history: those that a later call has replaced or removed
  stable   \* history: the contents that are unchanged since Save began

cache == <<index, items, thr, views>>
history == <<acked, dead>>
vars == <<mgr, cache, now, save, file, calls, starts, history, stable>>

NoCall == [op |-> "none", h |-> None, seen |-> {}]
PoolIds == 0 .. Cardinality(Pools) - 1
NoViews == [refs |-> {}, pins |-> {}]

\* Two functions as one, the first where both have a value.
Over(f, g) ==
  [x \in DOMAIN f \cup DOMAIN g |-> IF x \in DOMAIN f THEN f[x] ELSE g[x]]

At(k, v) == [x \in {k} |-> v]

-----------------------------------------------------------------------------
(* Keys, and CacheLib as ECache uses it.                                   *)

\* getActualKey.
ActualKey(id, n) ==
  IF n.kind = "string" THEN <<id, n.kind, n.key>>
                       ELSE <<id, n.kind, n.size, n.key>>

KeyOf(p, n) == ActualKey(mgr.ids[p], n)

Find(key) ==
  IF key \in DOMAIN index /\ items[index[key]].exp \notin 1 .. now
  THEN index[key] ELSE None

Pinned(th, vw) == UNION {{th[t].h} \cup vw[t].pins : t \in Threads}

\* What allocate may evict: None while there is room.  It fails, {}, if all
\* items of the pool are pinned.
Evictions(id) ==
  LET inPool == {i \in DOMAIN items : items[i].pool = id}
  IN IF Cardinality(inPool) < Cap[id + 1] THEN {None}
     ELSE (inPool \cap Range(index)) \ Pinned(thr, views)

NewItem ==
  CHOOSE i \in 1 .. Cardinality(DOMAIN items) + 1 : i \notin DOMAIN items

Without(e) == [k \in {k \in DOMAIN index : index[k] # e} |-> index[k]]

\* Items that are neither in the index nor pinned are freed.
Freeing(its) ==
  [i \in DOMAIN its \cap (Range(index') \cup Pinned(thr', views')) |-> its[i]]

\* allocate, at the cost of e, and insertOrReplace.
Insert(key, id, data, exp, e) ==
  /\ index' = Over(At(key, NewItem), Without(e))
  /\ items' = Freeing(Over(items, At(NewItem,
       [key |-> key, pool |-> id, data |-> data, exp |-> exp])))

\* updateExpiryTime: it fails on an item that is no longer in the index.
WithExpiry(i, exp) ==
  IF i \in Range(index) THEN [items EXCEPT ![i].exp = exp] ELSE items

ExpiryOf(ttl) == IF ttl = 0 THEN 0 ELSE now + ttl

ValuesIn(data) == {data[f] : f \in DOMAIN data}

\* The values that are in some item or in the backup.
Stored ==
  UNION ({ValuesIn(items[i].data) : i \in DOMAIN items} \cup
         (IF file = None THEN {}
          ELSE {ValuesIn(file.entries[i].data) : i \in DOMAIN file.entries}))

\* A value is readable no more once a call that began after it was set has
\* replaced or removed it.  The values that are gone are forgotten.
Acks(vals, killed) ==
  /\ acked' = (acked \cup vals) \cap Stored'
  /\ dead' = (dead \cup killed) \cap Stored'

-----------------------------------------------------------------------------
(* Pools.                                                                  *)

\* addPool refuses a name it has; NewCache then records nothing.
AddPool(m, p) ==
  IF p \in DOMAIN m.ids THEN m
  ELSE [pools |-> Append(m.pools, p),
        ids |-> Over(At(p, Cardinality(DOMAIN m.ids)), m.ids)]

InitManager ==
  /\ mgr = None /\ starts < MaxStarts
  /\ mgr' = [pools |-> <<>>, ids |-> <<>>]
  /\ starts' = starts + 1
  /\ UNCHANGED <<cache, now, save, file, calls, history>>

\* The calls on the manager are made by one thread, so none during a Save.
NewCache(p) ==
  /\ mgr # None /\ p \notin DOMAIN mgr.ids /\ save = None
  /\ mgr' = AddPool(mgr, p)
  /\ UNCHANGED <<cache, now, save, file, calls, starts, history>>

\* The process ends, by itself, by a null pointer or by undefined behaviour.
\* What Save has written so far, or a part of it, is in the file.
Down ==
  /\ mgr' = None /\ index' = <<>> /\ items' = <<>>
  /\ thr' = [t \in Threads |-> NoCall]
  /\ views' = [t \in Threads |-> NoViews]
  /\ save' = None
  /\ IF save = None THEN UNCHANGED file
     ELSE \E i \in 0 .. Len(file.entries) :
            file' = [file EXCEPT !.entries = SubSeq(@, 1, i), !.state = "cut"]
  /\ Acks({}, {})
  /\ UNCHANGED <<now, starts>>

Stop == mgr # None /\ Down /\ UNCHANGED calls

-----------------------------------------------------------------------------
(* Strings and whole keys: one call of CacheLib each.                      *)

Value(p, n, f, ttl) == [owner |-> <<p, n, f>>, nr |-> calls + 1, ttl |-> ttl]

AckedOf(p, n, fs) == {v \in acked : v.owner \in {<<p, n, f>> : f \in fs}}

Counted(op) ==
  /\ calls < Len(Menu) /\ op \in Menu[calls + 1]
  /\ calls' = calls + 1

\* Set: the CacheValue it returns is the item that it replaced.  The result
\* of allocate is not tested.
Set(t, p, n, ttl) ==
  LET v == Value(p, n, 0, ttl)
      key == KeyOf(p, n)
      e == Evictions(mgr.ids[p])
  IN /\ thr[t] = NoCall /\ n.kind = "string" /\ Counted("set")
     /\ \/ /\ e = {} /\ Down
        \/ \E i \in e :
             LET old == IF key \in DOMAIN Without(i) THEN {index[key]} ELSE {}
             IN /\ views' = [views EXCEPT ![t] = [refs |-> old, pins |-> old]]
                /\ UNCHANGED thr
                /\ Insert(key, mgr.ids[p], At(0, v), ExpiryOf(ttl), i)
                /\ UNCHANGED <<mgr, now, save, file, starts>>
                /\ Acks({v}, AckedOf(p, n, {0}))

Del(t, p, n) ==
  /\ thr[t] = NoCall /\ KeyOf(p, n) \in DOMAIN index
  /\ Counted("del")
  /\ index' = Without(index[KeyOf(p, n)])
  /\ UNCHANGED <<thr, views>>
  /\ items' = Freeing(items)
  /\ UNCHANGED <<mgr, now, save, file, starts>>
  /\ Acks({}, AckedOf(p, n, Fields \cup {0}))

\* The caller gives up the results it keeps.
Drop(t) ==
  /\ views[t] # NoViews
  /\ views' = [views EXCEPT ![t] = NoViews]
  /\ UNCHANGED <<thr, index>>
  /\ items' = Freeing(items)
  /\ UNCHANGED <<mgr, now, save, file, calls, starts, history>>

-----------------------------------------------------------------------------
(* The calls that begin with find().  seen is what the call may rely on    *)
(* from then on: the dead values for a read, the ones it kills for others. *)

Begin(t, p, call, seen) ==
  /\ thr[t] = NoCall
  /\ Counted(call.op)
  /\ thr' = [thr EXCEPT ![t] =
       Over(call, [h |-> Find(KeyOf(p, call.name)), pool |-> p, pc |-> "found",
                   seen |-> seen])]
  /\ UNCHANGED <<mgr, index, items, views, now, save, file, starts,
                 history>>

BeginSet(t, p, n, f, ttl) ==
  /\ n.kind # "string"
  /\ Begin(t, p, [op |-> "set", name |-> n, ttl |-> ttl,
                   val |-> Value(p, n, f, ttl)],
           AckedOf(p, n, {f}))

\* Get, RangeMapGet, HashMapGet, RangeGet and the two GetAll: want is the set
\* of fields asked for.
BeginGet(t, p, n, want) ==
  /\ n.kind = "string" => want = {0}
  /\ Begin(t, p, [op |-> "get", name |-> n, want |-> want], dead)

BeginMin(t, p, n) ==
  /\ n.kind = "range"
  /\ Begin(t, p, [op |-> "min", name |-> n], dead)

BeginErase(t, p, n, f) ==
  /\ n.kind # "string"
  /\ Begin(t, p, [op |-> "erase", name |-> n, field |-> f], AckedOf(p, n, {f}))

BeginPop(t, p, n) ==
  /\ n.kind = "range"
  /\ Begin(t, p, [op |-> "pop", name |-> n], AckedOf(p, n, Fields))

BeginExpire(t, p, n, ttl) ==
  /\ Begin(t, p, [op |-> "expire", name |-> n, ttl |-> ttl], {})

-----------------------------------------------------------------------------
(* What follows the find().                                                *)

Return(t) == thr' = [thr EXCEPT ![t] = NoCall]

\* DoRangeMapSet and DoHashMapSet, no map found: a map with the field is
\* created and replaces whatever is in the index by then; its expiry is set
\* after that.  create throws if there is no memory.
CreateMap(t) ==
  LET c == thr[t]
      id == mgr.ids[c.pool]
  IN /\ c.op = "set" /\ c.pc = "found" /\ c.h = None
     /\ UNCHANGED <<mgr, now, save, file, calls, starts>>
     /\ \/ /\ Evictions(id) = {} /\ Return(t)
           /\ UNCHANGED <<index, items, views, history>>
        \/ \E e \in Evictions(id) :
             /\ IF c.ttl > 0
                THEN thr' = [thr EXCEPT ![t] = [@ EXCEPT !.h = NewItem, !.pc = "created"]]
                ELSE Return(t)
             /\ UNCHANGED views
             /\ Insert(KeyOf(c.pool, c.name), id, At(c.val.owner[3], c.val),
                       0, e)
             /\ IF c.ttl > 0 THEN UNCHANGED history ELSE Acks({c.val}, c.seen)

\* The expiry of the map just created.
ExpireCreated(t) ==
  LET c == thr[t]
  IN /\ c.op = "set" /\ c.pc = "created"
     /\ Return(t)
     /\ UNCHANGED <<index, views>>
     /\ items' = Freeing(WithExpiry(c.h, now + c.ttl))
     /\ UNCHANGED <<mgr, now, save, file, calls, starts>>
     /\ Acks({c.val}, c.seen)

\* A map was found: its expiry first, then the field.
ExpireFound(t) ==
  LET c == thr[t]
  IN /\ c.op = "set" /\ c.pc = "found" /\ c.h # None /\ c.ttl > 0
     /\ thr' = [thr EXCEPT ![t].pc = "put"]
     /\ items' = WithExpiry(c.h, now + c.ttl)
     /\ UNCHANGED <<mgr, index, views, now, save, file, calls, starts,
                    history>>

\* Mistake: insert in place of insertOrReplace.
PutField_InsertOnly(t) ==
  LET c == thr[t]
  IN /\ c.op = "set" /\ c.h # None
     /\ c.pc = "put" \/ (c.pc = "found" /\ c.ttl = 0)
     /\ Return(t)
     /\ UNCHANGED <<index, views>>
     /\ items' = Freeing(
          [items EXCEPT ![c.h].data = Over(@, At(c.val.owner[3], c.val))])
     /\ UNCHANGED <<mgr, now, save, file, calls, starts>>
     /\ Acks({c.val}, c.seen)

PutField(t) ==
  LET c == thr[t]
  IN /\ c.op = "set" /\ c.h # None
     /\ c.pc = "put" \/ (c.pc = "found" /\ c.ttl = 0)
     /\ Return(t)
     /\ UNCHANGED <<index, views>>
     /\ items' = Freeing(
          [items EXCEPT ![c.h].data = Over(At(c.val.owner[3], c.val), @)])
     /\ UNCHANGED <<mgr, now, save, file, calls, starts>>
     /\ Acks({c.val}, c.seen)

LeastField(data) == CHOOSE f \in DOMAIN data : \A g \in DOMAIN data : f <= g

\* The fields a read returns.
Result(c) ==
  IF c.h = None THEN {}
  ELSE LET data == items[c.h].data
       IN IF c.op = "get" THEN c.want \cap DOMAIN data
          ELSE {f \in DOMAIN data : f = LeastField(data)}

\* Mistake: the handle is given up with the map object.
Read_Unpinned(t) ==
  LET c == thr[t]
  IN /\ c.op \in {"get", "min"}
     /\ Return(t)
     /\ views' = [views EXCEPT ![t] =
          IF Result(c) = {} THEN NoViews ELSE [refs |-> {c.h}, pins |-> {}]]
     /\ UNCHANGED index
     /\ items' = Freeing(items)
     /\ UNCHANGED <<mgr, now, save, file, calls, starts, history>>

\* The first CacheValue keeps the handle for all of them.  In a vector that
\* is used again it loses the handle it had.
Read(t) ==
  LET c == thr[t]
      kept == IF "reuse" \in Faults THEN views[t] ELSE NoViews
  IN /\ c.op \in {"get", "min"}
     /\ Return(t)
     /\ views' = [views EXCEPT ![t] =
          IF Result(c) = {} THEN kept
          ELSE [refs |-> kept.refs \cup {c.h}, pins |-> {c.h}]]
     /\ UNCHANGED index
     /\ items' = Freeing(items)
     /\ UNCHANGED <<mgr, now, save, file, calls, starts, history>>

\* RangeMapDel, HashMapDel and RangeMapPop.  Pop of an empty map reads the
\* key of its end iterator.
Erase(t) ==
  LET c == thr[t]
      data == IF c.h = None THEN <<>> ELSE items[c.h].data
      gone == IF c.op = "erase" THEN {c.field} \cap DOMAIN data
              ELSE {f \in DOMAIN data : f = LeastField(data)}
  IN /\ c.op \in {"erase", "pop"}
     /\ \/ c.op = "pop" /\ c.h # None /\ gone = {} /\ Down
           /\ UNCHANGED calls
        \/ /\ Return(t)
           /\ UNCHANGED <<index, views>>
           /\ items' = Freeing(
                IF gone = {} THEN items
                ELSE [items EXCEPT ![c.h].data =
                        [f \in DOMAIN data \ gone |-> data[f]]])
           /\ UNCHANGED <<mgr, now, save, file, calls, starts>>
           /\ Acks({}, {v \in c.seen : v.owner[3] \in gone})

\* Expire and, for an absolute time, ExpireAt.
Expire(t) ==
  LET c == thr[t]
  IN /\ c.op = "expire"
     /\ Return(t)
     /\ UNCHANGED <<index, views>>
     /\ \E exp \in {now + c.ttl, c.ttl} :
          items' = Freeing(IF c.h = None THEN items ELSE WithExpiry(c.h, exp))
     /\ UNCHANGED <<mgr, now, save, file, calls, starts, history>>

Tick ==
  /\ now < MaxTime
  /\ now' = now + 1
  /\ UNCHANGED <<mgr, cache, save, file, calls, starts, history>>

-----------------------------------------------------------------------------
(* Save and Load.                                                          *)

Contents ==
  IF mgr = None THEN {}
  ELSE {[pool |-> CHOOSE p \in DOMAIN mgr.ids : mgr.ids[p] = items[i].pool,
         key |-> SubSeq(items[i].key, 2, Len(items[i].key)),
         data |-> items[i].data, exp |-> items[i].exp] : i \in Range(index)}

\* The file is opened with "w+", so the last backup is gone; the header has
\* the pools.
SaveBegin ==
  /\ mgr # None /\ save = None
  /\ save' = 0 /\ Counted("save")
  /\ file' = [pools |-> mgr.pools, entries |-> <<>>, state |-> "open",
              stable |-> {}, dead |-> dead]
  /\ UNCHANGED <<mgr, cache, now, starts, history>>

\* Mistake: the iterator is moved on twice.
SaveNext_Twice ==
  {i \in save + 2 .. Len(HashOrder) : HashOrder[i] \in DOMAIN index}

\* The next key the iterator meets.
SaveNext == {i \in save + 1 .. Len(HashOrder) : HashOrder[i] \in DOMAIN index}

\* A string, or the fields of a map: the write of an empty value fails.
IsEmpty(data) == \E f \in DOMAIN data : data[f].nr \in Empty

\* Mistake: the expiry is not written.
Written_NoExpiry(item) == [key |-> item.key, data |-> item.data, exp |-> 0]

\* What is written of an item, and what becomes of it in load_cache: the
\* pool is the first byte of the key.
Written(item) == [key |-> item.key, data |-> item.data, exp |-> item.exp]

Loaded(entry) ==
  [key |-> entry.key, pool |-> entry.key[1], data |-> entry.data,
   exp |-> entry.exp]

\* One turn of the loop of save_cache.  file_write_string fails on an empty
\* string, and Save with it.
SaveItem ==
  /\ save # None
  /\ \E at \in SaveNext :
       LET this == index[HashOrder[at]]
           item == items[this]
       IN /\ \A i \in SaveNext : at <= i
          /\ "save_races" \in Faults \/
               \A t \in Threads :
                 thr[t].h = this => thr[t].op # "set" \/ thr[t].pc # "created"
          /\ IF IsEmpty(item.data)
             THEN save' = None /\ file' = [file EXCEPT !.state = "failed"]
             ELSE /\ save' = at
                  /\ file' = [file EXCEPT !.entries = Append(@, Written(item))]
  /\ UNCHANGED <<mgr, cache, now, calls, starts, history>>

SaveEnd ==
  /\ save # None /\ SaveNext = {}
  /\ save' = None
  /\ file' = [file EXCEPT !.state = "whole", !.stable = stable]
  /\ UNCHANGED <<mgr, cache, now, calls, starts, history>>

\* The entries of the file that are in the cache after load_cache: all of
\* them, unless a pool has not room for that many.
Kept(entries) ==
  LET of(id, es) == {e \in es : entries[e].key[1] = id}
      enough(es, id) == Cardinality(of(id, es)) =
        IF Cardinality(of(id, DOMAIN entries)) < Cap[id + 1]
        THEN Cardinality(of(id, DOMAIN entries)) ELSE Cap[id + 1]
  IN {es \in SUBSET DOMAIN entries :
        \A id \in PoolIds : enough(es, id)}

\* Load: Init, NewCache of every pool of the header, then the entries under
\* the keys they had.  pool_id_mapping_ is cleared, pool_configs_ is not.  A
\* file that was cut loads as far as it goes, if it has its header.
Load ==
  /\ mgr = None \/ "reload" \in Faults
  /\ file # None /\ save = None /\ starts < MaxStarts
  /\ \A t \in Threads : thr[t] = NoCall /\ views[t] = NoViews
  /\ mgr' = LET after[i \in 0 .. Len(file.pools)] ==
                  IF i = 0
                  THEN [pools |-> IF mgr = None THEN <<>> ELSE mgr.pools, ids |-> <<>>]
                  ELSE AddPool(after[i - 1], file.pools[i])
            IN after[Len(file.pools)]
  /\ \E es \in Kept(file.entries) :
       /\ items' = [i \in es |-> Loaded(file.entries[i])]
       /\ index' = [k \in {file.entries[i].key : i \in es} |->
            CHOOSE i \in es : file.entries[i].key = k]
  /\ starts' = starts + 1
  /\ UNCHANGED <<thr, views, now, save, file, calls, acked>>
  /\ dead' = file.dead \cap Stored'

-----------------------------------------------------------------------------

Init ==
  /\ mgr = None /\ index = <<>> /\ items = <<>>
  /\ thr = [t \in Threads |-> NoCall]
  /\ views = [t \in Threads |-> NoViews]
  /\ now = 0 /\ save = None /\ file = None
  /\ calls = 0 /\ starts = 0
  /\ acked = {} /\ dead = {} /\ stable = {}

Calls(t, p, n) ==
  \/ \E ttl \in Ttls : Set(t, p, n, ttl)
  \/ \E f \in Fields, ttl \in Ttls : BeginSet(t, p, n, f, ttl)
  \/ \E lo, hi \in Fields \cup {0} : BeginGet(t, p, n, lo .. hi)
  \/ BeginMin(t, p, n)
  \/ \E f \in Fields : BeginErase(t, p, n, f)
  \/ BeginPop(t, p, n)
  \/ \E ttl \in Ttls \ {0} : BeginExpire(t, p, n, ttl)
  \/ Del(t, p, n)

MapSet(t) == CreateMap(t) \/ ExpireCreated(t) \/ ExpireFound(t) \/ PutField(t)

Steps(t) ==
  \/ MapSet(t)
  \/ Read(t) \/ Erase(t) \/ Expire(t) \/ Drop(t)

Manager ==
  \/ InitManager
  \/ \E p \in Pools : NewCache(p)
  \/ SaveBegin \/ SaveItem \/ SaveEnd \/ Load \/ Stop

Next ==
  /\ \/ mgr # None /\ \E t \in Threads, p \in DOMAIN mgr.ids, n \in Names :
                         Calls(t, p, n)
     \/ \E t \in Threads : Steps(t)
     \/ Manager
     \/ Tick
  /\ stable' = CASE save' = None -> {}
                 [] save = None -> Contents
                 [] OTHER -> stable \cap Contents'

Spec == Init /\ [][Next]_vars

-----------------------------------------------------------------------------
(* Properties.                                                             *)

\* The values that thread t's read hands to its caller in this step.
Returned(t) ==
  IF thr[t].op \in {"get", "min"} /\ thr'[t] = NoCall /\ mgr' # None
  THEN {items[thr[t].h].data[f] : f \in Result(thr[t])} ELSE {}

\* A read returns only what was set under the same pool name, kind, key and
\* field, also after a Load, and never a value that had been replaced or
\* removed before the read began, whatever maps the Sets, Dels and Pops of
\* other threads create, replace and empty between its find() and its lookup;
\* nor does an eviction or an expiry bring back an older value.  After a Load
\* this is so for everything that was replaced or removed before the Save began.
ReadsFresh ==
  [][\A t \in Threads :
       /\ Returned(t) \cap thr[t].seen = {}
       /\ \A v \in Returned(t) : v.owner[1] = thr[t].pool /\ v.owner[2] = thr[t].name]_vars

\* The memory that the CacheValues of a caller point into is not freed as
\* long as the caller keeps them: the one handle in a result pins the item
\* for all of its views, through evictions and replacements of the item.
ViewsAlive == \A t \in Threads : views[t].refs \subseteq DOMAIN items

\* A Set with expire_secs that has returned leaves no entry that lives for
\* ever, though the expiry of a map is set in a step of its own; not even
\* after a Save and a Load.
MortalStays ==
  \A i \in Range(index) :
    (\E f \in DOMAIN items[i].data :
       items[i].data[f] \in acked /\ items[i].data[f].ttl > 0)
      => items[i].exp # 0

\* What was in the cache when Save began and did not change until it returned
\* 0 is there after a Load of the file, in the pool of the same name, with
\* the same values and the same expiry, unless the file has more entries
\* than fit.
LoadRestores ==
  [][(mgr = None /\ mgr' # None /\ file # None /\ index' # <<>>)
       => \/ Cardinality(Range(index')) < Len(file.entries)
          \/ file.stable \subseteq Contents']_vars
=============================================================================

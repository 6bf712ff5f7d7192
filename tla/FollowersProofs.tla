--------------------------- MODULE FollowersProofs ---------------------------
(***************************************************************************)
(* Proofs about Followers: for any objects, values, writes, failures and   *)
(* restarts, an object the controllers have done with follows its spec,    *)
(* and a status is only ever written from the spec it is stored with.      *)
(***************************************************************************)
EXTENDS Followers, Events

-----------------------------------------------------------------------------
(* The inductive invariant.                                                *)

(* The events of a kind are about objects of that kind.                    *)
KindInv ==
    /\ \A kind \in Kinds : \A n \in 1..Len(watch[kind]) : Kind(watch[kind][n].key) = kind
    /\ \A kind \in Kinds : worker[kind] # Idle => Kind(worker[kind].key) = kind

(* The last event of an object brings its stored state; the cache of an    *)
(* object without an event has it.                                         *)
LastEvent(events, k, o, n) ==
    /\ events[n].key = k
    /\ events[n].obj = o
    /\ \A m \in 1..Len(events) : m > n => events[m].key # k

UpToDate(events, k, cached, stored) ==
    \/ \E n \in 1..Len(events) : LastEvent(events, k, stored, n)
    \/ cached = stored /\ \A n \in 1..Len(events) : events[n].key # k

CacheInv == \A k \in Objects : UpToDate(watch[Kind(k)], k, cache[k], api[k])

(* A copy with the version of the stored object is that object.            *)
OldCopy(o, stored, r) == /\ o.rev <= r
                         /\ o.rev # 0 /\ o.rev = stored.rev => o = stored

VersionInv ==
    /\ \A k \in Objects : api[k].rev <= rev /\ OldCopy(cache[k], api[k], rev)
    /\ \A kind \in Kinds : \A n \in 1..Len(watch[kind]) :
           OldCopy(watch[kind][n].obj, api[watch[kind][n].key], rev)
    /\ \A kind \in Kinds :
           worker[kind] # Idle =>
               OldCopy(worker[kind].obj, api[worker[kind].key], rev)

(* A worker's copy is the cached one, or its object comes again.           *)
WorkInv ==
    \A kind \in Kinds : worker[kind] # Idle =>
        \/ worker[kind].key \in queue
        \/ Pending(worker[kind].key)
        \/ worker[kind].obj = api[worker[kind].key]

Inv == /\ TypeOK /\ KindInv /\ CacheInv /\ VersionInv /\ WorkInv
       /\ FollowsWhenSettled

-----------------------------------------------------------------------------
LEMMA KindsOfObjects ==
    /\ \A k \in Objects : Kind(k) \in Kinds
    /\ \A c \in Conns : Kind(c) = "IpsecConn"
    /\ \A p \in Pingers : Kind(p) = "Pinger"
    /\ \A k \in Objects : Kind(k) = "IpsecConn" => k \in Conns
    /\ \A k \in Objects : Kind(k) = "Pinger" => k \in Pingers
BY NamesAssumption DEF Objects, Kinds, Kind

LEMMA IdleIsNoWork == \A w \in Worker : w # Idle => /\ w.pc = "write" /\ w.key \in Objects
                                                    /\ w.obj \in Object
BY DEF Worker, Idle

(* An object that is stored is of a version of its own.                    *)
LEMMA Versions ==
    /\ \A o \in Object : o.rev \in Nat /\ o.rev # 0
    /\ NoObject.rev = 0
    /\ \A o \in Object \cup {NoObject} : o.rev \in Nat /\ (Exists(o) <=> o.rev # 0)
    /\ \A o \in Object \cup {NoObject} : Exists(o) => o \in Object
BY DEF Object, NoObject, Exists

-----------------------------------------------------------------------------
(* What a write does, whoever makes it.                                    *)

APIStep ==
    \/ UNCHANGED <<rev, api, watch>>
    \/ \E k \in Objects, o \in Object \cup {NoObject} :
           o.rev \in {0, rev + 1} /\ Notify(k, o)

Written ==
    /\ rev' \in Nat
    /\ api' \in [Objects -> Object \cup {NoObject}]
    /\ watch' \in [Kinds -> Seq(Event)]
    /\ \A kind \in Kinds : \A n \in 1..Len(watch'[kind]) :
           /\ Kind(watch'[kind][n].key) = kind
           /\ OldCopy(watch'[kind][n].obj, api'[watch'[kind][n].key], rev')
    /\ CacheInv'
    /\ \A k \in Objects : api'[k].rev <= rev'
    /\ \A k \in Objects, o \in Object \cup {NoObject} : 
           OldCopy(o, api[k], rev) => OldCopy(o, api'[k], rev')
    /\ \A k \in Objects : Pending(k) => Pending(k)'
    /\ \A k \in Objects : api'[k] = api[k] \/ Pending(k)'

LEMMA NotifyWrites ==
    ASSUME TypeOK, KindInv, CacheInv, VersionInv, UNCHANGED cache,
           NEW k \in Objects, NEW o \in Object \cup {NoObject},
           o.rev \in {0, rev + 1}, Notify(k, o)
    PROVE  Written
<1> DEFINE e == [key |-> k, obj |-> o]
           K == Kind(k)
<1>1. e \in Event /\ e.key = k /\ e.obj = o
  BY DEF Event
<1>2. K \in Kinds
  BY KindsOfObjects
<1> HIDE DEF e, K
<1>3. /\ rev' = rev + 1 /\ rev \in Nat
      /\ api' = [api EXCEPT ![k] = o]
      /\ watch' = [watch EXCEPT ![K] = Append(@, e)]
  BY DEF Notify, e, K, TypeOK
<1>4. /\ watch[K] \in Seq(Event) /\ watch'[K] = Append(watch[K], e)
      /\ \A kind \in Kinds : kind # K => watch'[kind] = watch[kind]
      /\ watch' \in [Kinds -> Seq(Event)]
  BY <1>1, <1>2, <1>3, Appending DEF TypeOK
<1>5. /\ Len(watch[K]) \in Nat /\ Len(watch'[K]) = Len(watch[K]) + 1
      /\ \A n \in 1..Len(watch[K]) : watch'[K][n] = watch[K][n]
      /\ watch'[K][Len(watch[K]) + 1] = e
  BY <1>1, <1>4, Appending
<1>6. /\ api'[k] = o /\ api' \in [Objects -> Object \cup {NoObject}]
      /\ \A j \in Objects : j # k => api'[j] = api[j]
  BY <1>3 DEF TypeOK
<1>7. \A j \in Objects, x \in Object \cup {NoObject} : 
          OldCopy(x, api[j], rev) => OldCopy(x, api'[j], rev')
  <2> SUFFICES ASSUME NEW j \in Objects, NEW x \in Object \cup {NoObject},
                      OldCopy(x, api[j], rev)
               PROVE  OldCopy(x, api'[j], rev')
    OBVIOUS
  <2>1. x.rev \in Nat /\ x.rev <= rev
    BY Versions DEF OldCopy
  <2>2. x.rev <= rev'
    BY <1>3, <2>1
  <2>3. CASE j = k
    BY <1>3, <1>6, <2>1, <2>2, <2>3 DEF OldCopy
  <2>4. CASE j # k
    BY <1>6, <2>2, <2>4 DEF OldCopy
  <2> QED
    BY <2>3, <2>4
<1>8. OldCopy(o, api'[k], rev') /\ api'[k].rev <= rev'
  BY <1>3, <1>6 DEF OldCopy
<1>9. \A j \in Objects : api'[j].rev <= rev'
  <2> SUFFICES ASSUME NEW j \in Objects, j # k PROVE api'[j].rev <= rev'
    BY <1>8
  <2>1. api[j].rev \in Nat /\ api[j].rev <= rev
    BY Versions DEF TypeOK, VersionInv
  <2> QED
    BY <1>3, <1>6, <2>1
<1>10. ASSUME NEW kind \in Kinds, NEW n \in 1..Len(watch'[kind])
       PROVE  /\ Kind(watch'[kind][n].key) = kind
              /\ OldCopy(watch'[kind][n].obj, api'[watch'[kind][n].key], rev')
  <2>1. CASE kind = K /\ n = Len(watch[K]) + 1
    BY <1>1, <1>5, <1>8, <2>1 DEF K
  <2>2. CASE kind # K \/ n # Len(watch[K]) + 1
    <3>1. n \in 1..Len(watch[kind]) /\ watch'[kind][n] = watch[kind][n]
      BY <1>4, <1>5, <2>2
    <3>2. watch[kind][n] \in Event
      BY <3>1, ElementOfSeq DEF TypeOK
    <3>3. /\ watch[kind][n].key \in Objects
          /\ watch[kind][n].obj \in Object \cup {NoObject}
      BY <3>2 DEF Event
    <3>4. OldCopy(watch[kind][n].obj, api[watch[kind][n].key], rev)
      BY <3>1 DEF VersionInv
    <3>5. OldCopy(watch[kind][n].obj, api'[watch[kind][n].key], rev')
      BY <1>7, <3>3, <3>4
    <3> QED
      BY <3>1, <3>5 DEF KindInv
  <2> QED
    BY <2>1, <2>2
<1>11. /\ \A j \in Objects : Pending(j) => Pending(j)'
       /\ Pending(k)'
  <2>1. Pending(k)'
    BY <1>1, <1>5 DEF Pending, K
  <2>2. ASSUME NEW j \in Objects, Pending(j)
        PROVE  Pending(j)'
    <3>1. Kind(j) \in Kinds
      BY KindsOfObjects
    <3>2. CASE Kind(j) = K
      BY <1>5, <2>2, <3>2 DEF Pending
    <3>3. CASE Kind(j) # K
      BY <1>4, <2>2, <3>1, <3>3 DEF Pending
    <3> QED
      BY <3>2, <3>3
  <2> QED
    BY <2>1, <2>2
<1>12. CacheInv'
  <2> SUFFICES ASSUME NEW j \in Objects
               PROVE  UpToDate(watch'[Kind(j)], j, cache'[j], api'[j])
    BY DEF CacheInv
  <2>1. Kind(j) \in Kinds
    BY KindsOfObjects
  <2>2. CASE j = k
    <3>1. Kind(j) = K /\ api'[j] = o
      BY <1>6, <2>2 DEF K
    <3>2. LastEvent(watch'[K], j, o, Len(watch[K]) + 1)
      BY <1>1, <1>5, <2>2 DEF LastEvent
    <3>3. Len(watch[K]) + 1 \in 1..Len(watch'[K])
      BY <1>5
    <3> QED
      BY <3>1, <3>2, <3>3 DEF UpToDate
  <2>3. CASE j # k /\ Kind(j) = K
    <3>1. ASSUME NEW n \in 1..Len(watch[K]), LastEvent(watch[K], j, api[j], n)
          PROVE  n \in 1..Len(watch'[K]) /\ LastEvent(watch'[K], j, api'[j], n)
      <4>1. n \in 1..Len(watch'[K]) /\ watch'[K][n].key = j /\ watch'[K][n].obj = api'[j]
        BY <1>5, <1>6, <2>3, <3>1 DEF LastEvent
      <4>2. ASSUME NEW m \in 1..Len(watch'[K]), m > n
            PROVE  watch'[K][m].key # j
        BY <1>1, <1>5, <2>3, <3>1, <4>2 DEF LastEvent
      <4> QED
        BY <4>1, <4>2 DEF LastEvent
    <3>2. ASSUME cache[j] = api[j], \A n \in 1..Len(watch[K]) : watch[K][n].key # j
          PROVE  /\ cache'[j] = api'[j]
                 /\ \A n \in 1..Len(watch'[K]) : watch'[K][n].key # j
      BY <1>1, <1>5, <1>6, <2>3, <3>2
    <3>3. UpToDate(watch[K], j, cache[j], api[j])
      BY <2>3 DEF CacheInv
    <3>4. UpToDate(watch'[K], j, cache'[j], api'[j])
      BY <3>1, <3>2, <3>3 DEF UpToDate
    <3> QED
      BY <2>3, <3>4
  <2>4. CASE Kind(j) # K
    <3>1. j # k
      BY <2>4 DEF K
    <3>2. watch'[Kind(j)] = watch[Kind(j)] /\ api'[j] = api[j] /\ cache'[j] = cache[j]
      BY <1>4, <1>6, <2>1, <2>4, <3>1
    <3> QED
      BY <3>2 DEF CacheInv
  <2> QED
    BY <2>2, <2>3, <2>4
<1>13. rev' \in Nat
  BY <1>3
<1> QED
  BY <1>4, <1>6, <1>7, <1>9, <1>10, <1>11, <1>12, <1>13 DEF Written

LEMMA APIWrites ==
    ASSUME TypeOK, KindInv, CacheInv, VersionInv, UNCHANGED cache, APIStep
    PROVE  Written
<1>1. CASE UNCHANGED <<rev, api, watch>>
  <2>1. rev' = rev /\ api' = api /\ watch' = watch /\ cache' = cache
    BY <1>1
  <2>2. CacheInv'
    BY <2>1 DEF CacheInv
  <2>3. \A k \in Objects : Pending(k) => Pending(k)'
    BY <2>1 DEF Pending
  <2> QED
    BY <2>1, <2>2, <2>3 DEF Written, TypeOK, KindInv, VersionInv
<1> QED
  BY <1>1, NotifyWrites DEF APIStep

(* Anything but a version of its own that is stored gets one.              *)
Draft == [rev : Nat, spec : Values, copy : Values \cup {None}, deleting : BOOLEAN]

LEMMA StoreWrites ==
    ASSUME TypeOK, NEW k \in Objects, NEW o \in Draft, Store(k, o)
    PROVE  /\ APIStep
           /\ api' \in [Objects -> Object \cup {NoObject}]
           /\ api'[k].rev = rev + 1
           /\ api'[k].spec = o.spec /\ api'[k].copy = o.copy
           /\ api'[k].deleting = o.deleting
           /\ \A j \in Objects : j # k => api'[j] = api[j]
           /\ api'[k] # api[k] => Exists(api'[k])
<1> DEFINE new == [o EXCEPT !.rev = rev + 1]
<1>1. rev \in Nat /\ rev + 1 \in Nat \ {0}
  BY DEF TypeOK
<1>2. new \in Object /\ new.rev = rev + 1 /\ new.spec = o.spec /\ new.copy = o.copy
      /\ new.deleting = o.deleting
  BY <1>1 DEF Draft, Object
<1>3. Notify(k, new)
  BY DEF Store
<1> HIDE DEF new
<1>4. APIStep
  BY <1>2, <1>3 DEF APIStep
<1>5. api'[k] = new /\ \A j \in Objects : j # k => api'[j] = api[j]
  BY <1>3 DEF Notify, TypeOK
<1>6. api' \in [Objects -> Object \cup {NoObject}]
  BY <1>2, <1>3 DEF Notify, TypeOK
<1> QED
  BY <1>1, <1>2, <1>4, <1>5, <1>6 DEF Exists

LEMMA StoredIsDraft ==
    ASSUME TypeOK, NEW k \in Objects, Exists(api[k])
    PROVE  api[k] \in Draft /\ api[k] \in Object
BY Versions DEF TypeOK, Draft, Object

-----------------------------------------------------------------------------
(* What the workers do beside.                                             *)

LEMMA OnlyWrites ==
    ASSUME Inv, APIStep, UNCHANGED <<cache, queue, worker>>, faults' \in Nat
    PROVE  Inv'
<1>1. Written
  BY APIWrites DEF Inv
<1>2. /\ TypeOK /\ KindInv /\ VersionInv /\ WorkInv /\ FollowsWhenSettled
      /\ cache' = cache /\ queue' = queue /\ worker' = worker
  BY DEF Inv
<1>3. TypeOK'
  BY <1>1, <1>2 DEF TypeOK, Written
<1>4. KindInv'
  BY <1>1, <1>2 DEF KindInv, Written
<1>5. \A kind \in Kinds : worker[kind] # Idle =>
          /\ worker[kind].key \in Objects
          /\ worker[kind].obj \in Object
  BY <1>2, IdleIsNoWork DEF TypeOK
<1>6. VersionInv'
  <2>1. \A k \in Objects : OldCopy(cache[k], api'[k], rev')
    BY <1>1, <1>2 DEF VersionInv, Written, TypeOK
  <2>2. \A kind \in Kinds : worker[kind] # Idle =>
            OldCopy(worker[kind].obj, api'[worker[kind].key], rev')
    BY <1>1, <1>2, <1>5 DEF VersionInv, Written
  <2> QED
    BY <1>1, <1>2, <2>1, <2>2 DEF VersionInv, Written
<1>7. WorkInv'
  BY <1>1, <1>2, <1>5 DEF WorkInv, Written
<1>8. FollowsWhenSettled'
  BY <1>1, <1>2 DEF FollowsWhenSettled, Written, Follows, InHand
<1>9. CacheInv'
  BY <1>1 DEF Written
<1> QED
  BY <1>3, <1>4, <1>6, <1>7, <1>8, <1>9 DEF Inv

(* A worker that ends its pass has seen to its object, or will again.      *)
LEMMA PassEnds ==
    ASSUME Inv, APIStep, UNCHANGED cache, faults' \in Nat,
           NEW kind \in Kinds, worker[kind] # Idle,
           worker' = [worker EXCEPT ![kind] = Idle],
           queue' \in {queue, queue \cup {worker[kind].key}},
           NEW k, k = worker[kind].key,
           k \in queue' \/ Pending(k)' \/ Follows(k)'
    PROVE  Inv'
<1>1. Written
  BY APIWrites DEF Inv
<1>2. /\ TypeOK /\ KindInv /\ VersionInv /\ WorkInv /\ FollowsWhenSettled
      /\ cache' = cache
  BY DEF Inv
<1>3. worker[kind] \in Worker /\ k \in Objects /\ Kind(k) = kind
  BY <1>2, IdleIsNoWork DEF TypeOK, KindInv
<1>4. /\ worker' \in [Kinds -> Worker] /\ worker'[kind] = Idle
      /\ \A other \in Kinds : other # kind => worker'[other] = worker[other]
  BY <1>2 DEF TypeOK, Worker
<1>5. queue' \subseteq Objects /\ queue \subseteq queue'
  BY <1>2, <1>3 DEF TypeOK
<1>6. TypeOK'
  BY <1>1, <1>2, <1>4, <1>5 DEF TypeOK, Written
<1>7. KindInv'
  BY <1>1, <1>2, <1>4 DEF KindInv, Written
<1>8. \A other \in Kinds : worker[other] # Idle =>
          /\ worker[other].key \in Objects
          /\ worker[other].obj \in Object
  BY <1>2, IdleIsNoWork DEF TypeOK
<1>9. VersionInv'
  <2>1. \A j \in Objects : OldCopy(cache[j], api'[j], rev')
    BY <1>1, <1>2 DEF VersionInv, Written, TypeOK
  <2>2. \A other \in Kinds : worker'[other] # Idle =>
            OldCopy(worker'[other].obj, api'[worker'[other].key], rev')
    BY <1>1, <1>2, <1>4, <1>8 DEF VersionInv, Written
  <2> QED
    BY <1>1, <1>2, <2>1, <2>2 DEF VersionInv, Written
<1>10. WorkInv'
  <2> SUFFICES ASSUME NEW other \in Kinds, NEW j, worker'[other] # Idle,
                      j = worker'[other].key
               PROVE  j \in queue' \/ Pending(j)' \/ worker'[other].obj = api'[j]
    BY DEF WorkInv, Pending
  <2>1. other # kind /\ worker'[other] = worker[other]
    BY <1>4
  <2>2. j \in queue \/ Pending(j) \/ worker[other].obj = api[j]
    BY <1>2, <2>1 DEF WorkInv
  <2> QED
    BY <1>1, <1>5, <1>8, <2>1, <2>2 DEF Written
<1>11. FollowsWhenSettled'
  <2> SUFFICES ASSUME NEW j \in Objects, ~Pending(j)', j \notin queue', ~InHand(j)'
               PROVE  Follows(j)'
    BY DEF FollowsWhenSettled
  <2>1. CASE j = k
    BY <2>1
  <2>2. CASE j # k
    <3>1. ~InHand(j)
      BY <1>3, <1>4, <2>2, KindsOfObjects DEF InHand
    <3>2. ~Pending(j) /\ api'[j] = api[j] /\ j \notin queue
      BY <1>1, <1>5 DEF Written
    <3> QED
      BY <1>2, <3>1, <3>2 DEF FollowsWhenSettled, Follows
  <2> QED
    BY <2>1, <2>2
<1>12. CacheInv'
  BY <1>1 DEF Written
<1> QED
  BY <1>6, <1>7, <1>9, <1>10, <1>11, <1>12 DEF Inv

(* A worker that takes a key and has nothing to do finds it following, as  *)
(* far as nothing is pending.                                              *)
LEMMA TakeInv ==
    ASSUME Inv, NEW k \in Objects, NEW goOn \in BOOLEAN, Take(k, cache[k], goOn),
           goOn => Exists(cache[k]),
           ~goOn /\ cache[k] = api[k] => Follows(k)
    PROVE  Inv'
<1> DEFINE kind == Kind(k)
           w == IF goOn THEN [pc |-> "write", key |-> k, obj |-> cache[k]] ELSE Idle
<1>1. /\ TypeOK /\ KindInv /\ VersionInv /\ WorkInv /\ FollowsWhenSettled /\ CacheInv
      /\ UNCHANGED <<rev, api, watch, cache, faults>>
      /\ kind \in Kinds /\ worker[kind] = Idle
      /\ k \in queue /\ queue' = queue \ {k}
      /\ worker' = [worker EXCEPT ![kind] = w]
  BY KindsOfObjects DEF Inv, Take
<1>2. cache[k] \in Object \cup {NoObject}
  BY <1>1 DEF TypeOK
<1>3. w \in Worker /\ (w # Idle => w.key = k /\ w.obj = cache[k])
      /\ (goOn => w # Idle)
  BY <1>2, Versions DEF Worker, Idle
<1>4. kind = Kind(k)
  OBVIOUS
<1> HIDE DEF w, kind
<1>5. /\ worker' \in [Kinds -> Worker] /\ worker'[kind] = w
      /\ \A other \in Kinds : other # kind => worker'[other] = worker[other]
  BY <1>1, <1>3 DEF TypeOK
<1>6. TypeOK'
  BY <1>1, <1>5 DEF TypeOK
<1>7. KindInv'
  BY <1>1, <1>3, <1>4, <1>5 DEF KindInv
<1>8. CacheInv'
  BY <1>1 DEF CacheInv
<1>9. VersionInv'
  BY <1>1, <1>3, <1>5 DEF VersionInv
<1>10. \A j \in Objects : Pending(j)' <=> Pending(j)
  BY <1>1 DEF Pending
<1>11. cache[k] = api[k] \/ Pending(k)
  BY <1>1 DEF CacheInv, UpToDate, Pending, LastEvent
<1>12. \A other \in Kinds : worker[other] # Idle =>
           worker[other].key \in Objects /\ Kind(worker[other].key) = other
  BY <1>1, IdleIsNoWork DEF TypeOK, KindInv
<1>13. WorkInv'
  <2> SUFFICES ASSUME NEW other \in Kinds, NEW j, worker'[other] # Idle,
                      j = worker'[other].key
               PROVE  j \in queue' \/ Pending(j)' \/ worker'[other].obj = api'[j]
    BY DEF WorkInv, Pending
  <2>1. CASE other = kind
    <3>1. j = k /\ worker'[other].obj = cache[k]
      BY <1>3, <1>5, <2>1
    <3> QED
      BY <1>1, <1>10, <1>11, <3>1
  <2>2. CASE other # kind
    <3>1. worker'[other] = worker[other] /\ worker[other].key # k /\ j \in Objects
      BY <1>4, <1>5, <1>12, <2>2
    <3>2. j \in queue \/ Pending(j) \/ worker[other].obj = api[j]
      BY <1>1, <3>1 DEF WorkInv
    <3> QED
      BY <1>1, <1>10, <3>1, <3>2
  <2> QED
    BY <2>1, <2>2
<1>14. FollowsWhenSettled'
  <2> SUFFICES ASSUME NEW j \in Objects, ~Pending(j)', j \notin queue', ~InHand(j)'
               PROVE  Follows(j)'
    BY DEF FollowsWhenSettled
  <2>1. Follows(j)' <=> Follows(j)
    BY <1>1 DEF Follows
  <2>2. CASE j = k
    <3>1. ~goOn
      BY <1>3, <1>4, <1>5, <2>2 DEF InHand
    <3> QED
      BY <1>10, <1>11, <2>1, <2>2, <3>1
  <2>3. CASE j # k
    <3>1. j \notin queue
      BY <1>1, <2>3
    <3>2. ~InHand(j)
      BY <1>1, <1>5, <2>3, KindsOfObjects DEF InHand
    <3> QED
      BY <1>1, <1>10, <2>1, <3>1, <3>2 DEF FollowsWhenSettled
  <2> QED
    BY <2>2, <2>3
<1> QED
  BY <1>6, <1>7, <1>8, <1>9, <1>13, <1>14 DEF Inv

-----------------------------------------------------------------------------
LEMMA InitInv == Init => Inv
<1> SUFFICES ASSUME Init PROVE Inv
  OBVIOUS
<1>1. /\ \A kind \in Kinds : watch[kind] = <<>> /\ Len(watch[kind]) = 0
      /\ \A k \in Objects : api[k] = NoObject /\ cache[k] = NoObject /\ Kind(k) \in Kinds
      /\ \A kind \in Kinds : worker[kind] = Idle
      /\ rev = 0
  BY KindsOfObjects, EmptySeq DEF Init
<1>2. TypeOK
  BY EmptySeq DEF Init, TypeOK, Worker
<1>3. KindInv /\ WorkInv
  BY <1>1 DEF KindInv, WorkInv
<1>4. CacheInv
  BY <1>1 DEF CacheInv, UpToDate
<1>5. VersionInv
  BY <1>1 DEF VersionInv, OldCopy, NoObject
<1>6. FollowsWhenSettled
  BY <1>1 DEF FollowsWhenSettled, Follows, Exists, NoObject
<1> QED
  BY <1>2, <1>3, <1>4, <1>5, <1>6 DEF Inv

LEMMA DeliverInv ==
    ASSUME Inv, NEW kind \in Kinds, Deliver(kind)
    PROVE  Inv'
<1> DEFINE e == Head(watch[kind])
           old == watch[kind]
           new == Tail(watch[kind])
<1>1. /\ TypeOK /\ KindInv /\ VersionInv /\ WorkInv /\ FollowsWhenSettled /\ CacheInv
      /\ UNCHANGED <<rev, api, worker, faults>>
      /\ old # <<>> /\ old \in Seq(Event)
      /\ cache' = [cache EXCEPT ![e.key] = e.obj]
      /\ queue' = queue \cup {e.key}
      /\ watch' = [watch EXCEPT ![kind] = new]
  BY DEF Inv, Deliver, TypeOK
<1>2. /\ new \in Seq(Event) /\ e = old[1] /\ e \in Event
      /\ Len(old) \in Nat \ {0} /\ Len(new) = Len(old) - 1
      /\ \A n \in 1..(Len(old) - 1) : new[n] = old[n + 1]
  BY <1>1, Beheading
<1>3. e.key \in Objects /\ e.obj \in Object \cup {NoObject}
  BY <1>2 DEF Event
<1>4. Kind(e.key) = kind
  BY <1>1, <1>2 DEF KindInv
<1>5. OldCopy(e.obj, api[e.key], rev)
  BY <1>1, <1>2 DEF VersionInv
<1>6. /\ watch'[kind] = new /\ watch[kind] = old
      /\ \A other \in Kinds : other # kind => watch'[other] = watch[other]
      /\ watch' \in [Kinds -> Seq(Event)]
  BY <1>1, <1>2 DEF TypeOK
<1> HIDE DEF e, old, new
<1>7. /\ cache'[e.key] = e.obj
      /\ \A j \in Objects : j # e.key => cache'[j] = cache[j]
      /\ cache' \in [Objects -> Object \cup {NoObject}]
  BY <1>1, <1>3 DEF TypeOK
<1>8. TypeOK'
  BY <1>1, <1>3, <1>6, <1>7 DEF TypeOK
<1>9. \A other \in Kinds : \A n \in 1..Len(watch'[other]) :
          \E m \in 1..Len(watch[other]) : watch'[other][n] = watch[other][m]
  <2> SUFFICES ASSUME NEW other \in Kinds, NEW n \in 1..Len(watch'[other])
               PROVE  \E m \in 1..Len(watch[other]) : watch'[other][n] = watch[other][m]
    OBVIOUS
  <2>1. CASE other = kind
    <3>1. n \in 1..(Len(old) - 1) /\ n + 1 \in 1..Len(old)
      BY <1>2, <1>6, <2>1
    <3> QED
      BY <1>2, <1>6, <2>1, <3>1
  <2>2. CASE other # kind
    BY <1>6, <2>2
  <2> QED
    BY <2>1, <2>2
<1>10. KindInv'
  BY <1>1, <1>9 DEF KindInv
<1>11. VersionInv'
  <2>1. \A k \in Objects : OldCopy(cache'[k], api[k], rev)
    BY <1>1, <1>5, <1>7 DEF VersionInv
  <2>2. \A other \in Kinds : \A n \in 1..Len(watch'[other]) :
            OldCopy(watch'[other][n].obj, api[watch'[other][n].key], rev)
    BY <1>1, <1>9 DEF VersionInv
  <2> QED
    BY <1>1, <2>1, <2>2 DEF VersionInv
<1>12. CacheInv'
  <2> SUFFICES ASSUME NEW j \in Objects
               PROVE  UpToDate(watch'[Kind(j)], j, cache'[j], api[j])
    BY <1>1 DEF CacheInv
  <2>1. UpToDate(watch[Kind(j)], j, cache[j], api[j]) /\ Kind(j) \in Kinds
    BY <1>1, KindsOfObjects DEF CacheInv
  <2>2. CASE Kind(j) # kind
    BY <1>4, <1>6, <1>7, <2>1, <2>2
  <2>3. CASE Kind(j) = kind
    <3>1. ASSUME NEW n \in 1..Len(old), LastEvent(old, j, api[j], n), n # 1
          PROVE  UpToDate(new, j, cache'[j], api[j])
      <4>1. n - 1 \in 1..Len(new) /\ new[n - 1] = old[n]
        BY <1>2, <3>1
      <4>2. ASSUME NEW m \in 1..Len(new), m > n - 1
            PROVE  new[m].key # j
        <5>1. m + 1 \in 1..Len(old) /\ m + 1 > n /\ new[m] = old[m + 1]
          BY <1>2, <4>2
        <5> QED
          BY <3>1, <5>1 DEF LastEvent
      <4>3. LastEvent(new, j, api[j], n - 1)
        BY <3>1, <4>1, <4>2 DEF LastEvent
      <4> QED
        BY <4>1, <4>3 DEF UpToDate
    <3>2. ASSUME LastEvent(old, j, api[j], 1)
          PROVE  UpToDate(new, j, cache'[j], api[j])
      <4>1. cache'[j] = api[j]
        BY <1>2, <1>7, <3>2 DEF LastEvent
      <4>2. ASSUME NEW m \in 1..Len(new)
            PROVE  new[m].key # j
        <5>1. m + 1 \in 1..Len(old) /\ m + 1 > 1 /\ new[m] = old[m + 1]
          BY <1>2
        <5> QED
          BY <3>2, <5>1 DEF LastEvent
      <4> QED
        BY <4>1, <4>2 DEF UpToDate
    <3>3. ASSUME cache[j] = api[j], \A n \in 1..Len(old) : old[n].key # j
          PROVE  UpToDate(new, j, cache'[j], api[j])
      <4>1. e.key # j
        BY <1>2, <3>3
      <4>2. ASSUME NEW m \in 1..Len(new)
            PROVE  new[m].key # j
        <5>1. m + 1 \in 1..Len(old) /\ new[m] = old[m + 1]
          BY <1>2
        <5> QED
          BY <3>3, <5>1
      <4> QED
        BY <1>7, <3>3, <4>1, <4>2 DEF UpToDate
    <3>4. UpToDate(old, j, cache[j], api[j])
      BY <1>6, <2>1, <2>3
    <3>5. UpToDate(new, j, cache'[j], api[j])
      BY <3>1, <3>2, <3>3, <3>4 DEF UpToDate
    <3> QED
      BY <1>6, <2>3, <3>5
  <2> QED
    BY <2>2, <2>3
<1>13. ASSUME NEW j \in Objects, j # e.key
       PROVE  Pending(j)' <=> Pending(j)
  <2>1. CASE Kind(j) # kind
    BY <1>6, <2>1, KindsOfObjects DEF Pending
  <2>2. CASE Kind(j) = kind
    <3>1. ASSUME NEW n \in 1..Len(old), old[n].key = j
          PROVE  \E m \in 1..Len(new) : new[m].key = j
      <4>1. n # 1
        BY <1>2, <1>13, <3>1
      <4>2. n - 1 \in 1..Len(new) /\ new[n - 1] = old[n]
        BY <1>2, <4>1
      <4> QED
        BY <3>1, <4>2
    <3>2. ASSUME NEW n \in 1..Len(new), new[n].key = j
          PROVE  \E m \in 1..Len(old) : old[m].key = j
      <4>1. n + 1 \in 1..Len(old) /\ new[n] = old[n + 1]
        BY <1>2
      <4> QED
        BY <3>2, <4>1
    <3> QED
      BY <1>6, <2>2, <3>1, <3>2 DEF Pending
  <2> QED
    BY <2>1, <2>2
<1>14. WorkInv'
  <2> SUFFICES ASSUME NEW other \in Kinds, NEW j, worker[other] # Idle, j = worker[other].key
               PROVE  j \in queue' \/ Pending(j)' \/ worker[other].obj = api[j]
    BY <1>1 DEF WorkInv, Pending
  <2>1. j \in Objects
    BY <1>1, IdleIsNoWork DEF TypeOK
  <2>2. j \in queue \/ Pending(j) \/ worker[other].obj = api[j]
    BY <1>1 DEF WorkInv
  <2> QED
    BY <1>1, <1>13, <2>1, <2>2
<1>15. FollowsWhenSettled'
  <2> SUFFICES ASSUME NEW j \in Objects, ~Pending(j)', j \notin queue', ~InHand(j)'
               PROVE  Follows(j)'
    BY DEF FollowsWhenSettled
  <2>1. j # e.key /\ j \notin queue /\ ~Pending(j) /\ ~InHand(j)
    BY <1>1, <1>13 DEF InHand
  <2> QED
    BY <1>1, <2>1 DEF FollowsWhenSettled, Follows
<1> QED
  BY <1>8, <1>10, <1>11, <1>12, <1>14, <1>15 DEF Inv

LEMMA ResyncInv == Inv /\ Resync => Inv'
<1> SUFFICES ASSUME Inv, Resync PROVE Inv'
  OBVIOUS
<1>1. /\ UNCHANGED <<rev, api, watch, cache, worker, faults>>
      /\ queue \subseteq queue'
      /\ TypeOK /\ KindInv /\ VersionInv /\ WorkInv /\ FollowsWhenSettled /\ CacheInv
  BY DEF Resync, Inv
<1>2. TypeOK'
  BY <1>1 DEF TypeOK, Resync
<1>3. KindInv' /\ VersionInv' /\ CacheInv'
  BY <1>1 DEF KindInv, VersionInv, CacheInv
<1>4. WorkInv'
  BY <1>1 DEF WorkInv, Pending
<1>5. FollowsWhenSettled'
  BY <1>1 DEF FollowsWhenSettled, Pending, InHand, Follows
<1> QED
  BY <1>2, <1>3, <1>4, <1>5 DEF Inv

LEMMA RestartInv == Inv /\ Restart => Inv'
<1> SUFFICES ASSUME Inv, Restart PROVE Inv'
  OBVIOUS
<1>1. /\ rev' = rev /\ api' = api /\ cache' = api
      /\ queue' = {k \in Objects : Exists(api[k])}
      /\ worker' = [kind \in Kinds |-> Idle] /\ watch' = [kind \in Kinds |-> <<>>]
      /\ faults' = faults + 1
      /\ TypeOK /\ VersionInv
  BY DEF Restart, Inv
<1>2. /\ \A kind \in Kinds : watch'[kind] = <<>> /\ Len(watch'[kind]) = 0
      /\ \A kind \in Kinds : worker'[kind] = Idle
      /\ \A k \in Objects : Kind(k) \in Kinds
  BY <1>1, KindsOfObjects, EmptySeq
<1>3. TypeOK'
  <2>1. faults' \in Nat
    BY <1>1 DEF TypeOK
  <2> QED
    BY <1>1, <2>1, EmptySeq DEF TypeOK, Worker
<1>4. KindInv' /\ WorkInv'
  BY <1>2 DEF KindInv, WorkInv
<1>5. CacheInv'
  BY <1>1, <1>2 DEF CacheInv, UpToDate
<1>6. VersionInv'
  BY <1>1, <1>2 DEF VersionInv, OldCopy
<1>7. FollowsWhenSettled'
  BY <1>1 DEF FollowsWhenSettled, Follows
<1> QED
  BY <1>3, <1>4, <1>5, <1>6, <1>7 DEF Inv

-----------------------------------------------------------------------------
(* The users.                                                              *)

(* A write of a user, and what it leaves of a status.                      *)
UserWrite ==
    /\ APIStep
    /\ UNCHANGED <<cache, queue, worker>> /\ faults' \in Nat
    /\ \A k \in Objects :
           k \in Pingers /\ Exists(api[k]) /\ Exists(api'[k]) => api'[k].copy = api[k].copy

LEMMA DeletionWrites ==
    ASSUME TypeOK, NEW k \in Objects, Notify(k, NoObject)
    PROVE  /\ APIStep
           /\ ~Exists(api'[k])
           /\ \A j \in Objects : j # k => api'[j] = api[j]
<1>1. APIStep
  BY Versions DEF APIStep
<1>2. api'[k] = NoObject /\ \A j \in Objects : j # k => api'[j] = api[j]
  BY DEF Notify, TypeOK
<1> QED
  BY <1>1, <1>2, Versions

LEMMA UsersWrite ==
    ASSUME TypeOK, User \/ \E p \in Pingers : FinishDeletion(p)
    PROVE  UserWrite
<1>1. \A p \in Pingers : p \in Objects
  BY DEF Objects
<1>2. \A c \in Conns : c \in Objects /\ c \notin Pingers
  BY NamesAssumption DEF Objects
<1>3. ASSUME Users PROVE UNCHANGED <<cache, queue, worker>> /\ faults' \in Nat
  BY <1>3 DEF Users, TypeOK
<1>4. ASSUME NEW k \in Objects, NEW v \in Values, Create(k, v)
      PROVE  UserWrite
  <2>1. [NoObject EXCEPT !.spec = v] \in Draft
    BY DEF NoObject, Draft
  <2>2. ~Exists(api[k]) /\ Store(k, [NoObject EXCEPT !.spec = v]) /\ Users
    BY <1>4 DEF Create
  <2> QED
    BY <1>3, <2>1, <2>2, StoreWrites DEF UserWrite
<1>5. ASSUME NEW k \in Objects, NEW v \in Values, EditSpec(k, v)
      PROVE  UserWrite
  <2>1. Exists(api[k]) /\ Store(k, [api[k] EXCEPT !.spec = v]) /\ Users
    BY <1>5 DEF EditSpec
  <2>2. [api[k] EXCEPT !.spec = v] \in Draft /\ [api[k] EXCEPT !.spec = v].copy = api[k].copy
    BY <2>1, StoredIsDraft DEF Draft
  <2> QED
    BY <1>3, <2>1, <2>2, StoreWrites DEF UserWrite
<1>6. ASSUME NEW c \in Conns, NEW v \in Values \cup {None}, EditLabel(c, v)
      PROVE  UserWrite
  <2>1. Exists(api[c]) /\ Store(c, [api[c] EXCEPT !.copy = v]) /\ Users
    BY <1>6 DEF EditLabel
  <2>2. [api[c] EXCEPT !.copy = v] \in Draft
    BY <1>2, <2>1, StoredIsDraft DEF Draft
  <2> QED
    BY <1>2, <1>3, <2>1, <2>2, StoreWrites DEF UserWrite
<1>7. ASSUME NEW k \in Objects, Delete(k)
      PROVE  UserWrite
  BY <1>3, <1>7, DeletionWrites DEF Delete, UserWrite
<1>8. ASSUME NEW p \in Pingers, MarkDeleted(p)
      PROVE  UserWrite
  <2>1. Exists(api[p]) /\ Store(p, [api[p] EXCEPT !.deleting = TRUE]) /\ Users
    BY <1>8 DEF MarkDeleted
  <2>2. /\ [api[p] EXCEPT !.deleting = TRUE] \in Draft
        /\ [api[p] EXCEPT !.deleting = TRUE].copy = api[p].copy
    BY <1>1, <2>1, StoredIsDraft DEF Draft
  <2> QED
    BY <1>1, <1>3, <2>1, <2>2, StoreWrites DEF UserWrite
<1>9. ASSUME NEW p \in Pingers, FinishDeletion(p)
      PROVE  UserWrite
  BY <1>1, <1>9, DeletionWrites DEF FinishDeletion, UserWrite, TypeOK
<1> QED
  BY <1>4, <1>5, <1>6, <1>7, <1>8, <1>9 DEF User

-----------------------------------------------------------------------------
(* The workers.                                                            *)

StatusStep ==
    \A p \in Pingers :
        Exists(api[p]) /\ Exists(api'[p]) /\ api'[p].copy # api[p].copy
            => api'[p].copy = api'[p].spec

(* What a patch does to the object of a worker and to the others.          *)
LEMMA PatchWrites ==
    ASSUME Inv, worker["IpsecConn"] # Idle, ApplyPatch(worker["IpsecConn"]),
           NEW k, k = worker["IpsecConn"].key
    PROVE  /\ k \in Conns /\ APIStep /\ StatusStep
           /\ ~Exists(api[k]) => UNCHANGED <<rev, api, watch>>
           /\ worker["IpsecConn"].obj = api[k] => api'[k] # api[k] \/ Follows(k)'
<1> DEFINE w == worker["IpsecConn"]
           new == [api[k] EXCEPT !.copy = w.obj.spec]
<1>1. k \in Objects /\ Kind(k) = "IpsecConn" /\ w.obj \in Object
  BY IdleIsNoWork DEF Inv, TypeOK, KindInv, Kinds
<1>2. k \in Conns /\ k \notin Pingers /\ TypeOK
  BY <1>1, KindsOfObjects, NamesAssumption DEF Inv
<1>3. CASE Exists(api[k]) /\ w.obj.copy # w.obj.spec /\ api[k].copy # w.obj.spec
  <2>1. Store(k, new)
    BY <1>3 DEF ApplyPatch
  <2>2. new \in Draft
    BY <1>1, <1>2, <1>3, StoredIsDraft DEF Draft, Object
  <2>3. /\ APIStep /\ api'[k].rev = rev + 1
        /\ \A j \in Objects : j # k => api'[j] = api[j]
    BY <1>1, <1>2, <2>1, <2>2, StoreWrites
  <2>4. api[k].rev \in Nat /\ api[k].rev <= rev /\ rev \in Nat
    BY <1>1, Versions DEF Inv, TypeOK, VersionInv
  <2>5. api'[k] # api[k]
    BY <2>3, <2>4
  <2>6. StatusStep
    BY <1>2, <2>3 DEF StatusStep, Objects
  <2> QED
    BY <1>2, <1>3, <2>3, <2>5, <2>6
<1>4. CASE ~(Exists(api[k]) /\ w.obj.copy # w.obj.spec /\ api[k].copy # w.obj.spec)
  <2>1. UNCHANGED <<rev, api, watch>>
    BY <1>4 DEF ApplyPatch
  <2>2. APIStep /\ StatusStep
    BY <2>1 DEF APIStep, StatusStep
  <2>3. w.obj = api[k] => Follows(k)'
    BY <1>4, <2>1 DEF Follows
  <2> QED
    BY <1>2, <2>1, <2>2, <2>3
<1> QED
  BY <1>3, <1>4

(* What an update does: it is that of the stored object.                   *)
LEMMA UpdateWrites ==
    ASSUME Inv, worker["Pinger"] # Idle, ApplyUpdate(worker["Pinger"]),
           NEW k, k = worker["Pinger"].key
    PROVE  /\ k \in Pingers /\ APIStep /\ StatusStep
           /\ Current(worker["Pinger"]) => api'[k] # api[k]
<1> DEFINE w == worker["Pinger"]
           new == [api[k] EXCEPT !.copy = w.obj.spec]
<1>1. k \in Objects /\ Kind(k) = "Pinger" /\ w.obj \in Object
  BY IdleIsNoWork DEF Inv, TypeOK, KindInv, Kinds
<1>2. k \in Pingers /\ TypeOK
  BY <1>1, KindsOfObjects DEF Inv
<1>3. CASE Current(w)
  <2>1. api[k].rev = w.obj.rev /\ w.obj.rev # 0
    BY <1>1, <1>3, Versions DEF Current
  <2>2. w.obj = api[k]
    BY <2>1 DEF Inv, VersionInv, OldCopy, Kinds
  <2>3. new \in Draft /\ new.copy = new.spec
    BY <1>1, <2>2 DEF Draft, Object
  <2>4. Store(k, new)
    BY <1>3 DEF ApplyUpdate
  <2>5. /\ APIStep /\ api'[k].rev = rev + 1 /\ api'[k].copy = api'[k].spec
        /\ \A j \in Objects : j # k => api'[j] = api[j]
    BY <1>1, <1>2, <2>3, <2>4, StoreWrites
  <2>6. api[k].rev \in Nat /\ api[k].rev <= rev /\ rev \in Nat
    BY <1>1, Versions DEF Inv, TypeOK, VersionInv
  <2>7. api'[k] # api[k]
    BY <2>5, <2>6
  <2>8. StatusStep
    BY <2>5 DEF StatusStep, Objects
  <2> QED
    BY <1>2, <2>5, <2>7, <2>8
<1>4. CASE ~Current(w)
  <2>1. UNCHANGED <<rev, api, watch>>
    BY <1>4 DEF ApplyUpdate
  <2>2. APIStep /\ StatusStep
    BY <2>1 DEF APIStep, StatusStep
  <2> QED
    BY <1>2, <1>4, <2>2
<1> QED
  BY <1>3, <1>4

(* After a write of its object, or before, a worker's object is pending.   *)
LEMMA StillToCome ==
    ASSUME Inv, UNCHANGED cache, APIStep, NEW kind \in Kinds, worker[kind] # Idle,
           NEW k, k = worker[kind].key
    PROVE  /\ k \in queue \/ Pending(k)' \/ worker[kind].obj = api[k]
           /\ api'[k] # api[k] => Pending(k)'
<1>1. Written
  BY APIWrites DEF Inv
<1>2. k \in Objects
  BY IdleIsNoWork DEF Inv, TypeOK
<1> QED
  BY <1>1, <1>2 DEF Inv, WorkInv, Written

LEMMA PatchInv == Inv /\ Patch => Inv' /\ StatusStep
<1> SUFFICES ASSUME Inv, Patch PROVE Inv' /\ StatusStep
  OBVIOUS
<1> PICK k : k = worker["IpsecConn"].key
  OBVIOUS
<1>1. /\ worker["IpsecConn"] # Idle /\ ApplyPatch(worker["IpsecConn"])
      /\ cache' = cache /\ faults' \in Nat
      /\ worker' = [worker EXCEPT !["IpsecConn"] = Idle] /\ "IpsecConn" \in Kinds
      /\ IF Exists(api[k]) THEN queue' = queue ELSE queue' = queue \cup {k}
  BY DEF Patch, Done, Retry, Inv, TypeOK, Kinds
<1>2. /\ k \in Conns /\ APIStep /\ StatusStep
      /\ worker["IpsecConn"].obj = api[k] => api'[k] # api[k] \/ Follows(k)'
  BY <1>1, PatchWrites
<1>3. k \in queue' \/ Pending(k)' \/ Follows(k)'
  BY <1>1, <1>2, StillToCome
<1> QED
  BY <1>1, <1>2, <1>3, PassEnds

LEMMA PatchFailsInv == Inv /\ PatchFails => Inv' /\ StatusStep
<1> SUFFICES ASSUME Inv, PatchFails PROVE Inv' /\ StatusStep
  OBVIOUS
<1> PICK k : k = worker["IpsecConn"].key
  OBVIOUS
<1>1. /\ worker["IpsecConn"] # Idle /\ "IpsecConn" \in Kinds
      /\ cache' = cache /\ faults' \in Nat
      /\ worker' = [worker EXCEPT !["IpsecConn"] = Idle]
      /\ queue' = queue \cup {k}
      /\ UNCHANGED <<rev, api, watch>> \/ ApplyPatch(worker["IpsecConn"])
  BY DEF PatchFails, Fault, Retry, Inv, TypeOK, Kinds
<1>2. APIStep /\ StatusStep
  <2>1. CASE UNCHANGED <<rev, api, watch>>
    BY <2>1 DEF APIStep, StatusStep
  <2> QED
    BY <1>1, <2>1, PatchWrites
<1> QED
  BY <1>1, <1>2, PassEnds

LEMMA UpdateInv == Inv /\ updatePinger => Inv' /\ StatusStep
<1> SUFFICES ASSUME Inv, updatePinger PROVE Inv' /\ StatusStep
  OBVIOUS
<1> PICK k : k = worker["Pinger"].key
  OBVIOUS
<1>1. /\ worker["Pinger"] # Idle /\ ApplyUpdate(worker["Pinger"])
      /\ cache' = cache /\ faults' \in Nat
      /\ worker' = [worker EXCEPT !["Pinger"] = Idle] /\ "Pinger" \in Kinds
      /\ IF Current(worker["Pinger"]) THEN queue' = queue ELSE queue' = queue \cup {k}
  BY DEF updatePinger, Done, Retry, Inv, TypeOK, Kinds
<1>2. /\ APIStep /\ StatusStep
      /\ Current(worker["Pinger"]) => api'[k] # api[k]
  BY <1>1, UpdateWrites
<1>3. k \in queue' \/ Pending(k)'
  BY <1>1, <1>2, StillToCome
<1> QED
  BY <1>1, <1>2, <1>3, PassEnds

LEMMA UpdateFailsInv == Inv /\ UpdateFails => Inv' /\ StatusStep
<1> SUFFICES ASSUME Inv, UpdateFails PROVE Inv' /\ StatusStep
  OBVIOUS
<1> PICK k : k = worker["Pinger"].key
  OBVIOUS
<1>1. /\ worker["Pinger"] # Idle /\ "Pinger" \in Kinds
      /\ cache' = cache /\ faults' \in Nat
      /\ worker' = [worker EXCEPT !["Pinger"] = Idle]
      /\ queue' = queue \cup {k}
      /\ UNCHANGED <<rev, api, watch>> \/ ApplyUpdate(worker["Pinger"])
  BY DEF UpdateFails, Fault, Retry, Inv, TypeOK, Kinds
<1>2. APIStep /\ StatusStep
  <2>1. CASE UNCHANGED <<rev, api, watch>>
    BY <2>1 DEF APIStep, StatusStep
  <2> QED
    BY <1>1, <2>1, UpdateWrites
<1> QED
  BY <1>1, <1>2, PassEnds

LEMMA TakesInv ==
    ASSUME Inv, \/ \E c \in Conns : TakeConn(c)
                \/ \E p \in Pingers : TakePinger(p)
    PROVE  Inv' /\ StatusStep
<1>1. ASSUME NEW c \in Conns, TakeConn(c)
      PROVE  Inv'
  BY <1>1, TakeInv DEF TakeConn, Follows, Objects, Exists
<1>2. ASSUME NEW p \in Pingers, TakePinger(p)
      PROVE  Inv'
  <2>1. isChanged(cache[p]) \in BOOLEAN /\ Exists(cache[p]) \in BOOLEAN
    BY DEF isChanged, Exists
  <2> QED
    BY <1>2, <2>1, TakeInv DEF TakePinger, isChanged, Follows, Objects
<1>3. api' = api
  BY DEF TakeConn, TakePinger, Take
<1> QED
  BY <1>1, <1>2, <1>3 DEF StatusStep

LEMMA NextInv == Inv /\ [Next]_vars => Inv' /\ StatusStep
<1> SUFFICES ASSUME Inv, [Next]_vars PROVE Inv' /\ StatusStep
  OBVIOUS
<1>1. CASE User \/ \E p \in Pingers : FinishDeletion(p)
  BY <1>1, UsersWrite, OnlyWrites DEF UserWrite, StatusStep, Inv, Objects
<1>2. ASSUME NEW kind \in Kinds, Deliver(kind)
      PROVE  Inv' /\ StatusStep
  BY <1>2, DeliverInv DEF Deliver, StatusStep
<1>3. CASE Resync
  BY <1>3, ResyncInv DEF Resync, StatusStep
<1>4. CASE Restart
  BY <1>4, RestartInv DEF Restart, StatusStep
<1>5. CASE UNCHANGED vars
  <2>1. APIStep /\ UNCHANGED <<cache, queue, worker>> /\ faults' \in Nat
    BY <1>5 DEF vars, APIStep, Inv, TypeOK
  <2> QED
    BY <1>5, <2>1, OnlyWrites DEF vars, StatusStep
<1>6. CASE Reconcile
  BY <1>6, TakesInv, PatchInv, UpdateInv DEF Reconcile
<1> QED
  BY <1>1, <1>2, <1>3, <1>4, <1>5, <1>6, PatchFailsInv, UpdateFailsInv DEF Next

LEMMA InductiveInv == Safe => []Inv
<1>1. Init => Inv
  BY InitInv
<1>2. Inv /\ [Next]_vars => Inv'
  BY NextInv
<1> QED
  BY <1>1, <1>2, PTL DEF Safe

-----------------------------------------------------------------------------
(* The theorems.                                                           *)

(* Every variable keeps its type; a patch makes no object (r.Patch).       *)
THEOREM TypeCorrect == Safe => []TypeOK
<1>1. Inv => TypeOK
  BY DEF Inv
<1> QED
  BY <1>1, InductiveInv, PTL

(* However users write, calls fail and the process restarts, an object     *)
(* that is not pending, queued or in hand follows its spec                 *)
(* (handleAddOrUpdateIpsecConnection, handleAddOrUpdatePinger).            *)
THEOREM FollowsWhenSettledHolds == Safe => []FollowsWhenSettled
<1>1. Inv => FollowsWhenSettled
  BY DEF Inv
<1> QED
  BY <1>1, InductiveInv, PTL

(* However old the copy a Pinger's worker has, the status that is stored   *)
(* is that of the spec it is stored with (updatePinger).                   *)
THEOREM StatusFromCurrentSpecHolds == Safe => StatusFromCurrentSpec
<1>1. Inv /\ [Next]_vars => [StatusStep]_api
  BY NextInv
<1> QED
  BY <1>1, InductiveInv, PTL DEF Safe, StatusFromCurrentSpec, StatusStep
=============================================================================

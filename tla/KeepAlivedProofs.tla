-------------------------- MODULE KeepAlivedProofs --------------------------
(***************************************************************************)
(* Proofs about the router ID allocator, for any number of objects, any    *)
(* MaxID, any number of writes and failures.                               *)
(*                                                                         *)
(* TypeCorrect needs nothing else.  WriteOnceHolds rests on VersionInv: a  *)
(* copy of an object, wherever it is (cache, pending event, worker), is of *)
(* an older version than the stored object or agrees with it.              *)
(* NoClashWithElders and ImplementsTheAllocator rest on ReplayInv and      *)
(* EldersSeen: the informer applies all events in the order of the writes, *)
(* so that a cache which holds the stored version of an object holds every *)
(* router ID that was stored before the object was created.                *)
(***************************************************************************)
EXTENDS KeepAlived, SequenceTheorems, WellFoundedInduction, TLAPS

-----------------------------------------------------------------------------
(* findNextAvailableID.                                                    *)

(* A non-empty set of naturals has a least element.                        *)
LEMMA LeastElement ==
    ASSUME NEW T, T \subseteq Nat, T # {}
    PROVE  \E n \in T : \A j \in T : n <= j
<1> DEFINE R == {ss \in Nat \X Nat : ss[1] < ss[2]}
<1>1. IsWellFoundedOn(R, Nat)
  BY NatLessThanWellFounded DEF OpToRel
<1>2. PICK n \in T : \A j \in T : <<j, n>> \notin R
  <2> HIDE DEF R
  <2> QED
    BY <1>1, WFMin
<1>3. ASSUME NEW j \in T
      PROVE  n <= j
  <2>1. n \in Nat /\ j \in Nat
    OBVIOUS
  <2>2. <<j, n>> \in R <=> j < n
    BY <2>1
  <2> QED
    BY <1>2, <2>1, <2>2
<1> QED
  BY <1>3

(* findNextAvailableID returns an ID of 1..MaxID that is not in use, and   *)
(* the least such, whenever there is one.                                  *)
LEMMA FindNextIsFree ==
    ASSUME NEW used, Free(used) # {}
    PROVE  /\ findNextAvailableID(used) \in IDs
           /\ findNextAvailableID(used) \notin used
           /\ \A j \in Free(used) : findNextAvailableID(used) <= j
<1>1. Free(used) \subseteq Nat
  BY MaxIDAssumption DEF Free, IDs
<1>2. \E n \in Free(used) : \A j \in Free(used) : n <= j
  BY <1>1, LeastElement
<1>3. /\ findNextAvailableID(used) \in Free(used)
      /\ \A j \in Free(used) : findNextAvailableID(used) <= j
  BY <1>2 DEF findNextAvailableID
<1> QED
  BY <1>3 DEF Free

-----------------------------------------------------------------------------
(* Type correctness.                                                       *)

(* Every step of the API server, the informer and the worker keeps the     *)
(* types; Update's ID is in range by FindNextIsFree.                       *)
LEMMA TypeStep == TypeOK /\ [Next]_vars => TypeOK'
<1> SUFFICES ASSUME TypeOK, [Next]_vars
             PROVE  TypeOK'
  OBVIOUS
<1> USE DEF TypeOK
<1>w. ASSUME NEW k \in KeepAliveds, NEW o \in Object, Write(k, o)
      PROVE  /\ rev' \in Nat
             /\ api' \in [KeepAliveds -> Object]
             /\ watch' \in Seq(Event)
  BY <1>w DEF Write, Event
<1>o. NoObject \in Object /\ (rev \in Nat => [rev |-> rev + 1, routerID |-> 0] \in Object)
  BY MaxIDAssumption DEF NoObject, Object
<1>1. ASSUME NEW k \in KeepAliveds, CreateKeepAlived(k)
      PROVE  TypeOK'
  BY <1>1, <1>w, <1>o DEF CreateKeepAlived
<1>2. ASSUME NEW k \in KeepAliveds, EditSpec(k)
      PROVE  TypeOK'
  <2>1. [rev |-> rev + 1, routerID |-> api[k].routerID] \in Object
    BY DEF Object
  <2> QED
    BY <1>2, <1>w, <2>1 DEF EditSpec
<1>3. ASSUME NEW k \in KeepAliveds, DeleteKeepAlived(k)
      PROVE  TypeOK'
  BY <1>3, <1>w, <1>o DEF DeleteKeepAlived
<1>4. CASE Deliver
  <2>1. Head(watch) \in Event /\ Tail(watch) \in Seq(Event)
    BY <1>4, HeadTailProperties DEF Deliver
  <2> QED
    BY <1>4, <2>1 DEF Deliver, Event
<1>5. CASE Resync
  BY <1>5 DEF Resync
<1>6. ASSUME NEW k \in KeepAliveds, Get(k)
      PROVE  TypeOK'
  BY <1>6 DEF Get, Worker
<1>7. CASE List
  <2>1. worker.ka \in KeepAliveds /\ worker.obj \in Object
    BY <1>7 DEF List, Worker, Idle
  <2>2. worker' \in Worker
    BY <1>7, <2>1, FindNextIsFree DEF List, Worker
  <2> QED
    BY <1>7, <2>2 DEF List
<1>8. CASE Update
  <2>1. /\ worker.ka \in KeepAliveds
        /\ [rev |-> rev + 1, routerID |-> worker.id] \in Object
    BY <1>8, MaxIDAssumption DEF Update, Worker, Idle, Object, IDs
  <2>2. worker' \in Worker
    BY <1>8 DEF Update, Worker
  <2> QED
    BY <1>8, <1>w, <2>1, <2>2 DEF Update
<1>9. CASE UpdateFails
  BY <1>9 DEF UpdateFails, Worker
<1>10. CASE Restart
  BY <1>10 DEF Restart, Worker
<1>11. CASE UNCHANGED vars
  BY <1>11 DEF vars
<1> QED
  BY <1>1, <1>2, <1>3, <1>4, <1>5, <1>6, <1>7, <1>8, <1>9, <1>10, <1>11
     DEF Next, User, Reconcile

(* Every reachable state is of the declared types, for every MaxID: the    *)
(* allocator never stores or holds an ID outside 0..MaxID.                 *)
THEOREM TypeCorrect == Safe => []TypeOK
<1>1. Init => TypeOK
  BY MaxIDAssumption DEF Init, TypeOK, NoObject, Object, Worker
<1> QED
  BY <1>1, TypeStep, PTL DEF Safe

-----------------------------------------------------------------------------
(* What a write and a delivery do to the pending events.                   *)

(* A write adds one event at the end of the pending ones.                  *)
LEMMA WriteAppends ==
    ASSUME TypeOK, NEW k \in KeepAliveds, NEW o \in Object, Write(k, o)
    PROVE  /\ Len(watch) \in Nat
           /\ Len(watch') = Len(watch) + 1
           /\ watch'[Len(watch) + 1] = [ka |-> k, obj |-> o]
           /\ \A n \in 1..Len(watch) : watch'[n] = watch[n] /\ watch[n] \in Event
<1> DEFINE e == [ka |-> k, obj |-> o]
<1> USE DEF TypeOK
<1>1. e \in Event /\ watch' = Append(watch, e)
  BY DEF Write, Event
<1>2. Len(watch) \in Nat /\ \A n \in 1..Len(watch) : watch[n] \in Event
  BY ElementOfSeq, LenProperties
<1> HIDE DEF e
<1>3. /\ Len(watch') = Len(watch) + 1
      /\ watch'[Len(watch) + 1] = e
      /\ \A n \in 1..Len(watch) : watch'[n] = watch[n]
  BY <1>1, AppendProperties
<1> QED
  BY <1>2, <1>3 DEF e

(* Deliver drops the oldest event and renumbers the others.                *)
LEMMA DeliverDrops ==
    ASSUME TypeOK, Deliver
    PROVE  /\ Len(watch) \in Nat /\ Len(watch) # 0
           /\ Head(watch) = watch[1] /\ watch[1] \in Event
           /\ Len(watch') = Len(watch) - 1
           /\ \A n \in 1..Len(watch') : watch'[n] = watch[n + 1]
BY HeadTailProperties DEF TypeOK, Deliver

-----------------------------------------------------------------------------
(* WriteOnce.                                                              *)

(* The copy o of object k is no newer than the last write, and if it is of *)
(* the stored version it has the stored router ID.                         *)
Current(k, o) ==
    /\ o.rev <= rev
    /\ o.rev # 0 /\ o.rev = api[k].rev => o.routerID = api[k].routerID

VersionInv ==
    /\ \A k \in KeepAliveds : api[k].rev <= rev
    /\ \A k \in KeepAliveds : Current(k, cache[k])
    /\ \A i \in 1..Len(watch) : Current(watch[i].ka, watch[i].obj)
    /\ worker # Idle => /\ worker.obj.rev # 0
                        /\ worker.obj.routerID = 0
                        /\ Current(worker.ka, worker.obj)

(* What a worker that is not idle holds.                                   *)
LEMMA BusyWorker ==
    ASSUME TypeOK, worker # Idle
    PROVE  worker.ka \in KeepAliveds /\ worker.obj \in Object
BY DEF TypeOK, Worker

(* A write gives its object a version no copy has.                         *)
LEMMA WriteKeepsVersions ==
    ASSUME TypeOK, VersionInv,
           NEW k \in KeepAliveds, NEW o \in Object, Write(k, o),
           o.rev \in {0, rev + 1},
           cache' = cache, worker' \in {worker, Idle}
    PROVE  VersionInv'
<1> USE DEF TypeOK, Object
<1>1. ASSUME NEW j \in KeepAliveds, NEW x \in Object, Current(j, x)
      PROVE  Current(j, x)'
  BY <1>1 DEF Write, Current
<1>2. \A j \in KeepAliveds : api'[j].rev <= rev'
  BY DEF VersionInv, Write
<1>3. \A j \in KeepAliveds : Current(j, cache[j])'
  BY <1>1 DEF VersionInv
<1>4. ASSUME NEW i \in 1..Len(watch')
      PROVE  Current(watch[i].ka, watch[i].obj)'
  <2>1. /\ Len(watch') = Len(watch) + 1 /\ Len(watch) \in Nat
        /\ i \in 1..Len(watch) => watch'[i] = watch[i] /\ watch[i] \in Event
        /\ i = Len(watch) + 1 => watch'[i] = [ka |-> k, obj |-> o]
    BY WriteAppends
  <2>2. CASE i \in 1..Len(watch)
    <3>1. Current(watch[i].ka, watch[i].obj)
      BY <2>2 DEF VersionInv
    <3>2. watch[i].ka \in KeepAliveds /\ watch[i].obj \in Object
      BY <2>1, <2>2 DEF Event
    <3>3. \A j \in KeepAliveds, x \in Object :
            Current(j, x) => /\ x.rev <= rev'
                             /\ x.rev # 0 /\ x.rev = api'[j].rev
                                   => x.routerID = api'[j].routerID
      BY DEF Write, Current
    <3>4. watch'[i] = watch[i]
      BY <2>1, <2>2
    <3>5. /\ watch[i].obj.rev <= rev'
          /\ watch[i].obj.rev # 0 /\ watch[i].obj.rev = api'[watch[i].ka].rev
               => watch[i].obj.routerID = api'[watch[i].ka].routerID
      BY <3>1, <3>2, <3>3
    <3> HIDE DEF TypeOK, Object
    <3> QED
      BY <3>4, <3>5 DEF Current
  <2>3. CASE i = Len(watch) + 1
    BY <2>1, <2>3 DEF Write, Current
  <2> QED
    BY <2>1, <2>2, <2>3
<1>5. worker' # Idle => /\ worker'.obj.rev # 0
                        /\ worker'.obj.routerID = 0
                        /\ Current(worker.ka, worker.obj)'
  BY <1>1, BusyWorker DEF VersionInv, Current
<1> QED
  BY <1>2, <1>3, <1>4, <1>5 DEF VersionInv

(* Every step keeps VersionInv: only a write makes a version, and Deliver, *)
(* Get and List only copy objects.                                         *)
LEMMA VersionStep == TypeOK /\ VersionInv /\ [Next]_vars => VersionInv'
<1> SUFFICES ASSUME TypeOK, VersionInv, [Next]_vars
             PROVE  VersionInv'
  OBVIOUS
<1> USE DEF TypeOK
<1>0. NoObject \in Object /\ NoObject.rev = 0
  BY MaxIDAssumption DEF NoObject, Object
<1>1. ASSUME NEW k \in KeepAliveds, CreateKeepAlived(k)
      PROVE  VersionInv'
  <2>1. [rev |-> rev + 1, routerID |-> 0] \in Object
    BY MaxIDAssumption DEF Object
  <2> QED
    BY <1>1, <2>1, WriteKeepsVersions DEF CreateKeepAlived
<1>2. ASSUME NEW k \in KeepAliveds, EditSpec(k)
      PROVE  VersionInv'
  <2>1. [rev |-> rev + 1, routerID |-> api[k].routerID] \in Object
    BY DEF Object
  <2> QED
    BY <1>2, <2>1, WriteKeepsVersions DEF EditSpec
<1>3. ASSUME NEW k \in KeepAliveds, DeleteKeepAlived(k)
      PROVE  VersionInv'
  BY <1>3, <1>0, WriteKeepsVersions DEF DeleteKeepAlived
<1>4. CASE Deliver
  <2>3. \A k \in KeepAliveds : Current(k, cache[k])'
    BY <1>4, DeliverDrops DEF Deliver, VersionInv, Current, Event
  <2>4. \A i \in 1..Len(watch') : Current(watch[i].ka, watch[i].obj)'
    BY <1>4, DeliverDrops DEF Deliver, VersionInv, Current
  <2> QED
    BY <1>4, <2>3, <2>4 DEF Deliver, VersionInv, Current
<1>5. CASE Resync
  BY <1>5 DEF Resync, VersionInv, Current
<1>6. ASSUME NEW k \in KeepAliveds, Get(k)
      PROVE  VersionInv'
  BY <1>6 DEF Get, VersionInv, Current, Exists
<1>7. CASE List
  <2>1. worker # Idle
    BY <1>7 DEF List, Idle
  <2>2. worker' # Idle => worker'.ka = worker.ka /\ worker'.obj = worker.obj
    BY <1>7 DEF List
  <2> QED
    BY <1>7, <2>1, <2>2 DEF List, VersionInv, Current
<1>8. CASE Update
  <2>1. /\ worker.ka \in KeepAliveds
        /\ [rev |-> rev + 1, routerID |-> worker.id] \in Object
    BY <1>8, MaxIDAssumption DEF Update, Worker, Idle, Object, IDs
  <2>2. CASE UNCHANGED <<rev, api, watch>>
    BY <1>8, <2>2 DEF Update, VersionInv, Current
  <2>3. CASE Write(worker.ka, [rev |-> rev + 1, routerID |-> worker.id])
    BY <1>8, <2>1, <2>3, WriteKeepsVersions DEF Update
  <2> QED
    BY <1>8, <2>2, <2>3 DEF Update
<1>9. CASE UpdateFails
  BY <1>9 DEF UpdateFails, VersionInv, Current
<1>10. CASE Restart
  BY <1>10 DEF Restart, VersionInv, Current
<1>11. CASE UNCHANGED vars
  BY <1>11 DEF vars, VersionInv, Current
<1> QED
  BY <1>1, <1>2, <1>3, <1>4, <1>5, <1>6, <1>7, <1>8, <1>9, <1>10, <1>11
     DEF Next, User, Reconcile

(* In every reachable state a copy of an object is of an older version     *)
(* than the stored object, or agrees with it on the router ID: what makes  *)
(* the version check of r.Update protect a stored ID.                      *)
THEOREM VersionsHold == Safe => []VersionInv
<1>1. Init => VersionInv
  BY DEF Init, VersionInv, Current, NoObject
<1> QED
  BY <1>1, TypeCorrect, VersionStep, PTL DEF Safe

(* A stored router ID is never replaced, whatever copies the informer and  *)
(* the worker hold.                                                        *)
THEOREM WriteOnceHolds == Safe => WriteOnce
<1> DEFINE A == \A k \in KeepAliveds :
                    Exists(api[k]) /\ api[k].routerID # 0 /\ Exists(api'[k])
                        => api'[k].routerID = api[k].routerID
<1>1. ASSUME TypeOK, VersionInv, [Next]_vars, ~UNCHANGED api
      PROVE  A
  <2> USE <1>1 DEF TypeOK, Write, Exists
  <2>1. ASSUME NEW k \in KeepAliveds, CreateKeepAlived(k)
        PROVE  A
    BY <2>1 DEF CreateKeepAlived
  <2>2. ASSUME NEW k \in KeepAliveds, EditSpec(k)
        PROVE  A
    BY <2>2 DEF EditSpec
  <2>3. ASSUME NEW k \in KeepAliveds, DeleteKeepAlived(k)
        PROVE  A
    BY <2>3 DEF DeleteKeepAlived, NoObject
  <2>4. CASE Update
    <3>1. worker # Idle /\ worker.ka \in KeepAliveds
      BY <2>4, BusyWorker DEF Update, Idle
    <3>2. api[worker.ka].routerID = 0
      BY <2>4, <3>1 DEF Update, VersionInv, Current
    <3> QED
      BY <2>4, <3>1, <3>2 DEF Update
  <2>5. CASE Deliver \/ Resync \/ UpdateFails \/ Restart \/ List
    BY <2>5 DEF Deliver, Resync, UpdateFails, Restart, List
  <2>6. ASSUME NEW k \in KeepAliveds, Get(k)
        PROVE  A
    BY <2>6 DEF Get
  <2> QED
    BY <2>1, <2>2, <2>3, <2>4, <2>5, <2>6 DEF Next, User, Reconcile, vars
<1>2. TypeOK /\ VersionInv /\ [Next]_vars => [A]_api
  BY <1>1
<1> QED
  BY <1>2, TypeCorrect, VersionsHold, PTL DEF Safe, WriteOnce

-----------------------------------------------------------------------------
(* The informer.                                                           *)

(* No event for object k is pending after the i-th.                        *)
NoneAfter(k, i) == \A j \in 1..Len(watch) : j > i => watch[j].ka # k

(* Applying the pending events to the cache gives the stored objects.      *)
ReplayInv ==
    \A k \in KeepAliveds :
        /\ NoneAfter(k, 0) => cache[k] = api[k]
        /\ \A i \in 1..Len(watch) :
             watch[i].ka = k /\ NoneAfter(k, i) => watch[i].obj = api[k]

(* A write leaves the pending events a replay of the stored objects.       *)
LEMMA WriteReplays ==
    ASSUME TypeOK, ReplayInv, cache' = cache,
           NEW k \in KeepAliveds, NEW o \in Object, Write(k, o)
    PROVE  ReplayInv'
<1>0. /\ Len(watch) \in Nat
      /\ Len(watch') = Len(watch) + 1
      /\ watch'[Len(watch) + 1] = [ka |-> k, obj |-> o]
      /\ \A n \in 1..Len(watch) : watch'[n] = watch[n]
      /\ api' = [api EXCEPT ![k] = o] /\ api \in [KeepAliveds -> Object]
  BY WriteAppends DEF Write, TypeOK
<1>1. SUFFICES ASSUME NEW j \in KeepAliveds
               PROVE  /\ NoneAfter(j, 0)' => cache[j] = api'[j]
                      /\ \A i \in 1..Len(watch') :
                           watch'[i].ka = j /\ NoneAfter(j, i)' => watch'[i].obj = api'[j]
  BY Zenon DEF ReplayInv
<1>2. CASE j = k
  <2>1. watch'[Len(watch) + 1].ka = k /\ watch'[Len(watch) + 1].obj = api'[k]
    BY <1>0
  <2>2. ~NoneAfter(k, 0)'
    BY <1>0, <2>1 DEF NoneAfter
  <2>3. ASSUME NEW i \in 1..Len(watch'), NoneAfter(k, i)'
        PROVE  i = Len(watch) + 1
    BY <1>0, <2>1, <2>3 DEF NoneAfter
  <2> QED
    BY <1>2, <2>1, <2>2, <2>3
<1>3. CASE j # k
  <2>1. api'[j] = api[j] /\ watch'[Len(watch) + 1].ka # j
    BY <1>0, <1>3
  <2>2. \A i \in 0..Len(watch) : NoneAfter(j, i)' => NoneAfter(j, i)
    BY <1>0 DEF NoneAfter
  <2>3. NoneAfter(j, 0)' => cache[j] = api'[j]
    BY <1>0, <2>1, <2>2 DEF ReplayInv
  <2>4. ASSUME NEW i \in 1..Len(watch'), watch'[i].ka = j, NoneAfter(j, i)'
        PROVE  watch'[i].obj = api'[j]
    <3>1. i \in 1..Len(watch) /\ watch'[i] = watch[i]
      BY <1>0, <2>1, <2>4
    <3> QED
      BY <2>1, <2>2, <2>4, <3>1 DEF ReplayInv
  <2> QED
    BY <2>3, <2>4
<1> QED
  BY <1>2, <1>3

(* Every step keeps ReplayInv: Deliver applies the oldest event, Restart   *)
(* lists the objects anew.                                                 *)
LEMMA ReplayStep == TypeOK /\ ReplayInv /\ [Next]_vars => ReplayInv'
<1> SUFFICES ASSUME TypeOK, ReplayInv, [Next]_vars
             PROVE  ReplayInv'
  OBVIOUS
<1> USE DEF TypeOK
<1>0. NoObject \in Object
  BY MaxIDAssumption DEF NoObject, Object
<1>1. ASSUME NEW k \in KeepAliveds, CreateKeepAlived(k)
      PROVE  ReplayInv'
  <2>1. [rev |-> rev + 1, routerID |-> 0] \in Object
    BY MaxIDAssumption DEF Object
  <2> QED
    BY <1>1, <2>1, WriteReplays DEF CreateKeepAlived
<1>2. ASSUME NEW k \in KeepAliveds, EditSpec(k)
      PROVE  ReplayInv'
  <2>1. [rev |-> rev + 1, routerID |-> api[k].routerID] \in Object
    BY DEF Object
  <2> QED
    BY <1>2, <2>1, WriteReplays DEF EditSpec
<1>3. ASSUME NEW k \in KeepAliveds, DeleteKeepAlived(k)
      PROVE  ReplayInv'
  BY <1>3, <1>0, WriteReplays DEF DeleteKeepAlived
<1>4. CASE Deliver
  <2>1. SUFFICES ASSUME NEW k \in KeepAliveds
                 PROVE  /\ NoneAfter(k, 0)' => cache'[k] = api[k]
                        /\ \A i \in 1..Len(watch') :
                             watch'[i].ka = k /\ NoneAfter(k, i)' => watch'[i].obj = api[k]
    BY <1>4, Zenon DEF ReplayInv, Deliver
  <2>2. ASSUME NEW i \in 0..Len(watch'), NoneAfter(k, i)'
        PROVE  NoneAfter(k, i + 1)
    <3> SUFFICES ASSUME NEW j \in 1..Len(watch), j > i + 1
                 PROVE  watch[j].ka # k
      BY DEF NoneAfter
    <3>1. j - 1 \in 1..Len(watch') /\ j - 1 > i /\ watch'[j - 1] = watch[j]
      BY <1>4, DeliverDrops
    <3> QED
      BY <2>2, <3>1 DEF NoneAfter
  <2>3. NoneAfter(k, 0)' => cache'[k] = api[k]
    <3>1. CASE watch[1].ka = k
      BY <1>4, <2>2, <3>1, DeliverDrops DEF Deliver, ReplayInv
    <3>2. CASE watch[1].ka # k
      <4>1. NoneAfter(k, 1) => NoneAfter(k, 0)
        BY <1>4, <3>2, DeliverDrops DEF NoneAfter
      <4> QED
        BY <1>4, <2>2, <3>2, <4>1, DeliverDrops DEF Deliver, ReplayInv
    <3> QED
      BY <3>1, <3>2
  <2>4. ASSUME NEW i \in 1..Len(watch'), watch'[i].ka = k, NoneAfter(k, i)'
        PROVE  watch'[i].obj = api[k]
    BY <1>4, <2>2, <2>4, DeliverDrops DEF ReplayInv
  <2> QED
    BY <2>3, <2>4
<1>5. CASE UNCHANGED <<api, watch, cache>>
  BY <1>5 DEF ReplayInv, NoneAfter
<1>6. CASE Update
  <2>1. /\ worker.ka \in KeepAliveds
        /\ [rev |-> rev + 1, routerID |-> worker.id] \in Object
    BY <1>6, MaxIDAssumption DEF Update, Worker, Idle, Object, IDs
  <2> QED
    BY <1>5, <1>6, <2>1, WriteReplays DEF Update
<1>7. CASE Restart
  BY <1>7 DEF Restart, ReplayInv
<1> QED
  BY <1>1, <1>2, <1>3, <1>4, <1>5, <1>6, <1>7
     DEF Next, User, Reconcile, vars, Resync, Get, List, UpdateFails

(* In every reachable state the cache with the pending events applied is   *)
(* what the API server stores: the informer neither loses nor reorders.    *)
THEOREM ReplayHolds == Safe => []ReplayInv
<1>1. Init => ReplayInv
  BY DEF Init, ReplayInv
<1> QED
  BY <1>1, TypeCorrect, ReplayStep, PTL DEF Safe

(* What does not exist has no router ID.                                   *)
GoneInv == \A k \in KeepAliveds : ~Exists(api[k]) => api[k].routerID = 0

(* Every step keeps GoneInv: Update stores an ID in an object that exists. *)
LEMMA GoneStep == TypeOK /\ GoneInv /\ [Next]_vars => GoneInv'
<1> SUFFICES ASSUME TypeOK, GoneInv, [Next]_vars
             PROVE  GoneInv'
  OBVIOUS
<1> USE DEF GoneInv
<1>0. ASSUME NEW k \in KeepAliveds, NEW o, Write(k, o),
             ~Exists(o) => o.routerID = 0
      PROVE  GoneInv'
  <2>1. \A j \in KeepAliveds : api'[j] = IF j = k THEN o ELSE api[j]
    BY <1>0 DEF TypeOK, Write
  <2> QED
    BY <1>0, <2>1 DEF Exists
<1>1. ASSUME NEW k \in KeepAliveds, CreateKeepAlived(k)
      PROVE  GoneInv'
  BY <1>0, <1>1 DEF CreateKeepAlived
<1>2. ASSUME NEW k \in KeepAliveds, EditSpec(k)
      PROVE  GoneInv'
  BY <1>0, <1>2 DEF EditSpec, Exists, TypeOK
<1>3. ASSUME NEW k \in KeepAliveds, DeleteKeepAlived(k)
      PROVE  GoneInv'
  BY <1>0, <1>3 DEF DeleteKeepAlived, NoObject
<1>4. CASE Update
  <2>1. worker.ka \in KeepAliveds
    BY <1>4, BusyWorker DEF Update, Idle
  <2>2. CASE Write(worker.ka, [rev |-> rev + 1, routerID |-> worker.id])
    <3>1. Exists([rev |-> rev + 1, routerID |-> worker.id])
      BY DEF Exists, TypeOK
    <3> QED
      BY <1>0, <2>1, <2>2, <3>1
  <2>3. CASE UNCHANGED api
    BY <2>3 DEF Exists
  <2> QED
    BY <1>4, <2>2, <2>3 DEF Update
<1>5. CASE api' = api
  BY <1>5 DEF Exists
<1> QED
  BY <1>1, <1>2, <1>3, <1>4, <1>5
     DEF Next, User, Reconcile, vars, Deliver, Resync, Get, List, UpdateFails, Restart

-----------------------------------------------------------------------------
(* Elders.                                                                 *)

(* The informer's copies of object k: the cached one at place 0, and one   *)
(* in each pending event about it.                                         *)
IsCopy(k, i) == i # 0 => watch[i].ka = k
Copy(k, i) == IF i = 0 THEN cache[k] ELSE watch[i].obj

HasStoredID(k, i) == Copy(k, i).routerID = api[k].routerID

(* A copy of an elder without its ID is followed by another one, at the    *)
(* place of the stored version of the younger object at the latest.        *)
EldersSeen ==
    \A k \in KeepAliveds : \A m \in elders[k] : \A i, j \in 0..Len(watch) :
        /\ IsCopy(k, i) /\ Exists(api[k]) /\ Copy(k, i).rev = api[k].rev
        /\ IsCopy(m, j) /\ ~HasStoredID(m, j)
        => \E n \in (j + 1)..i : watch[n].ka = m

(* An elder has its ID.                                                    *)
EldersHaveIDs == \A k \in KeepAliveds : \A m \in elders[k] : api[m].routerID # 0

(* A worker whose copy is of the stored version finds every elder's ID, in *)
(* the cache and in every pending event, when it lists; and the ID it is   *)
(* about to store is not one of theirs.                                    *)
WorkerSees ==
    worker # Idle /\ api[worker.ka].rev = worker.obj.rev =>
        \A m \in elders[worker.ka] :
            /\ worker.pc = "list" =>
                 \A j \in 0..Len(watch) : IsCopy(m, j) => HasStoredID(m, j)
            /\ worker.pc = "update" => api[m].routerID # worker.id

EldersInv == EldersSeen /\ EldersHaveIDs /\ WorkerSees

(* What a write has to respect: of the objects that stay elders none gets  *)
(* another ID, and only the object written may get elders.                 *)
RespectsElders(k, o) ==
    /\ \A n \in KeepAliveds : n # k => elders'[n] \subseteq elders[n]
    /\ \A n \in KeepAliveds : k \in elders'[n] => o.routerID = api[k].routerID

(* A write that respects the elders keeps EldersSeen: the new version of k *)
(* comes after every event there is, and by then all copies are replayed.  *)
LEMMA WriteKeepsSeen ==
    ASSUME TypeOK, VersionInv, ReplayInv, EldersSeen, cache' = cache,
           elders' \in [KeepAliveds -> SUBSET KeepAliveds],
           NEW k \in KeepAliveds, NEW o \in Object, Write(k, o),
           o.rev \in {0, rev + 1}, RespectsElders(k, o)
    PROVE  EldersSeen'
<1>0. /\ Len(watch) \in Nat
      /\ Len(watch') = Len(watch) + 1
      /\ watch'[Len(watch) + 1] = [ka |-> k, obj |-> o]
      /\ \A n \in 1..Len(watch) : watch'[n] = watch[n] /\ watch[n] \in Event
      /\ api' = [api EXCEPT ![k] = o] /\ api \in [KeepAliveds -> Object]
      /\ rev \in Nat
  BY WriteAppends DEF Write, TypeOK
<1>1. SUFFICES ASSUME NEW n \in KeepAliveds, NEW m \in elders'[n],
                      NEW i \in 0..Len(watch'), NEW j \in 0..Len(watch'),
                      IsCopy(n, i)', Exists(api'[n]), Copy(n, i)'.rev = api'[n].rev,
                      IsCopy(m, j)', ~HasStoredID(m, j)'
               PROVE  \E l \in (j + 1)..i : watch'[l].ka = m
  BY DEF EldersSeen
<1>2. \A x \in KeepAliveds, l \in 0..Len(watch) :
         /\ IsCopy(x, l)' <=> IsCopy(x, l)
         /\ Copy(x, l)' = Copy(x, l)
  BY <1>0 DEF IsCopy, Copy
<1>3. m \in KeepAliveds
  OBVIOUS
<1>4. j \in 0..Len(watch)
  <2>1. SUFFICES ASSUME j = Len(watch) + 1
                 PROVE  FALSE
    BY <1>0
  <2>2. Copy(m, j)' = o
    BY <1>0, <2>1 DEF Copy
  <2>3. m = k
    BY <1>0, <1>1, <2>1 DEF IsCopy
  <2> QED
    BY <1>0, <1>1, <2>2, <2>3 DEF HasStoredID
<1>5. IsCopy(m, j) /\ Copy(m, j).routerID # api'[m].routerID
  BY <1>1, <1>2, <1>3, <1>4 DEF HasStoredID
<1>6. CASE n = k
  <2>1. i = Len(watch) + 1
    <3>1. SUFFICES ASSUME i \in 0..Len(watch)
                   PROVE  FALSE
      BY <1>0
    <3>2. Copy(n, i).rev <= rev
      BY <1>0, <1>1, <1>2, <3>1 DEF VersionInv, Current, Copy, IsCopy
    <3>3. api'[n].rev = rev + 1
      BY <1>0, <1>1, <1>6 DEF Exists
    <3> QED
      BY <1>0, <1>1, <1>2, <3>1, <3>2, <3>3
  <2>2. CASE m = k
    BY <1>0, <1>4, <2>1, <2>2
  <2>3. CASE m # k
    <3>1. Copy(m, j) # api[m]
      BY <1>0, <1>3, <1>5, <2>3
    <3>2. ~NoneAfter(m, j)
      BY <1>0, <1>3, <1>4, <1>5, <3>1 DEF ReplayInv, Copy, IsCopy
    <3> QED
      BY <1>0, <1>4, <2>1, <3>2 DEF NoneAfter
  <2> QED
    BY <2>2, <2>3
<1>7. CASE n # k
  <2>1. i \in 0..Len(watch)
    BY <1>0, <1>1, <1>7 DEF IsCopy
  <2>2. m \in elders[n] /\ api'[n] = api[n]
    BY <1>0, <1>7 DEF RespectsElders
  <2>3. api'[m].routerID = api[m].routerID
    BY <1>0, <1>3 DEF RespectsElders
  <2>4. IsCopy(n, i) /\ Exists(api[n]) /\ Copy(n, i).rev = api[n].rev
    BY <1>1, <1>2, <2>1, <2>2
  <2>5. ~HasStoredID(m, j)
    BY <1>5, <2>3 DEF HasStoredID
  <2>6. PICK l \in (j + 1)..i : watch[l].ka = m
    BY <1>4, <1>5, <2>1, <2>2, <2>4, <2>5 DEF EldersSeen
  <2>7. l \in 1..Len(watch)
    BY <1>0, <1>4, <2>1
  <2> QED
    BY <1>0, <2>6, <2>7
<1> QED
  BY <1>6, <1>7

(* It keeps the other two as well, if the worker does not begin anything.  *)
LEMMA WriteKeepsElders ==
    ASSUME TypeOK, VersionInv, ReplayInv, EldersInv, cache' = cache,
           elders' \in [KeepAliveds -> SUBSET KeepAliveds],
           NEW k \in KeepAliveds, NEW o \in Object, Write(k, o),
           o.rev \in {0, rev + 1}, RespectsElders(k, o),
           \A m \in elders'[k] : api[m].routerID # 0,
           worker' \in {worker, Idle}
    PROVE  EldersInv'
<1>0. /\ Len(watch) \in Nat
      /\ Len(watch') = Len(watch) + 1
      /\ watch'[Len(watch) + 1] = [ka |-> k, obj |-> o]
      /\ \A n \in 1..Len(watch) : watch'[n] = watch[n] /\ watch[n] \in Event
      /\ api' = [api EXCEPT ![k] = o] /\ api \in [KeepAliveds -> Object]
      /\ rev \in Nat
  BY WriteAppends DEF Write, TypeOK
<1>1. EldersSeen'
  BY WriteKeepsSeen DEF EldersInv
<1>2. EldersHaveIDs'
  <2>1. SUFFICES ASSUME NEW n \in KeepAliveds, NEW m \in elders'[n]
                 PROVE  api'[m].routerID # 0
    BY DEF EldersHaveIDs
  <2>2. api[m].routerID # 0
    BY DEF EldersInv, EldersHaveIDs, RespectsElders
  <2> QED
    BY <1>0, <2>2 DEF RespectsElders
<1>3. WorkerSees'
  <2>1. SUFFICES ASSUME worker' # Idle, api'[worker'.ka].rev = worker'.obj.rev,
                        NEW m \in elders'[worker'.ka]
                 PROVE  /\ worker'.pc = "list" =>
                             \A j \in 0..Len(watch') : IsCopy(m, j)' => HasStoredID(m, j)'
                        /\ worker'.pc = "update" => api'[m].routerID # worker'.id
    BY DEF WorkerSees
  <2>2. worker' = worker /\ worker # Idle
    BY <2>1
  <2>3. worker.ka \in KeepAliveds /\ worker.obj \in Object
    BY <2>2, BusyWorker
  <2>4. worker.obj.rev # 0 /\ worker.obj.rev <= rev
    BY <2>2, <2>3 DEF VersionInv, Current
  <2>5. worker.ka # k
    BY <1>0, <2>1, <2>2, <2>3, <2>4 DEF Object
  <2>6. m \in elders[worker.ka] /\ api[worker.ka].rev = worker.obj.rev
    BY <1>0, <2>1, <2>2, <2>3, <2>5 DEF RespectsElders
  <2>7. m \in KeepAliveds /\ api'[m].routerID = api[m].routerID
    BY <1>0, <2>1, <2>2, <2>3 DEF RespectsElders
  <2>8. worker.pc = "update" => api'[m].routerID # worker.id
    BY <2>2, <2>6, <2>7 DEF EldersInv, WorkerSees
  <2>9. ASSUME worker.pc = "list", NEW j \in 0..Len(watch'), IsCopy(m, j)'
        PROVE  HasStoredID(m, j)'
    <3>1. CASE j \in 0..Len(watch)
      <4>1. IsCopy(m, j) /\ Copy(m, j)' = Copy(m, j)
        BY <1>0, <2>9, <3>1 DEF IsCopy, Copy
      <4>2. HasStoredID(m, j)
        BY <2>2, <2>6, <2>9, <3>1, <4>1 DEF EldersInv, WorkerSees
      <4> QED
        BY <2>7, <4>1, <4>2 DEF HasStoredID
    <3>2. CASE j = Len(watch) + 1
      <4>1. Copy(m, j)' = o /\ m = k
        BY <1>0, <2>9, <3>2 DEF IsCopy, Copy
      <4> QED
        BY <1>0, <4>1 DEF HasStoredID
    <3> QED
      BY <1>0, <3>1, <3>2
  <2> QED
    BY <2>2, <2>8, <2>9
<1> QED
  BY <1>1, <1>2, <1>3 DEF EldersInv

(* Delivering an event moves every copy one place forward.                 *)
LEMMA DeliverKeepsElders ==
    ASSUME TypeOK, EldersInv, Deliver
    PROVE  EldersInv'
<1>0. /\ Len(watch) \in Nat /\ Len(watch) # 0
      /\ watch[1] \in Event
      /\ cache' = [cache EXCEPT ![watch[1].ka] = watch[1].obj]
      /\ cache \in [KeepAliveds -> Object]
      /\ Len(watch') = Len(watch) - 1
      /\ \A n \in 1..Len(watch') : watch'[n] = watch[n + 1]
      /\ UNCHANGED <<api, worker, elders>>
      /\ elders \in [KeepAliveds -> SUBSET KeepAliveds]
  BY DeliverDrops DEF Deliver, TypeOK
<1> DEFINE Was(x, l) == IF l = 0 /\ watch[1].ka # x THEN 0 ELSE l + 1
<1>1. ASSUME NEW x \in KeepAliveds, NEW l \in 0..Len(watch'), IsCopy(x, l)'
      PROVE  /\ Was(x, l) \in 0..Len(watch)
             /\ IsCopy(x, Was(x, l))
             /\ Copy(x, l)' = Copy(x, Was(x, l))
  BY <1>0, <1>1 DEF IsCopy, Copy, Event
<1>2. EldersSeen'
  <2>1. SUFFICES ASSUME NEW n \in KeepAliveds, NEW m \in elders[n],
                        NEW i \in 0..Len(watch'), NEW j \in 0..Len(watch'),
                        IsCopy(n, i)', Exists(api[n]), Copy(n, i)'.rev = api[n].rev,
                        IsCopy(m, j)', ~HasStoredID(m, j)'
                 PROVE  \E l \in (j + 1)..i : watch'[l].ka = m
    BY <1>0 DEF EldersSeen
  <2>2. m \in KeepAliveds
    BY <1>0
  <2>3. ~HasStoredID(m, Was(m, j))
    BY <1>0, <1>1, <2>1, <2>2 DEF HasStoredID
  <2>4. PICK l \in (Was(m, j) + 1)..Was(n, i) : watch[l].ka = m
    <3>1. /\ Was(n, i) \in 0..Len(watch) /\ IsCopy(n, Was(n, i))
          /\ Copy(n, Was(n, i)).rev = api[n].rev
      BY <1>1, <2>1
    <3>2. Was(m, j) \in 0..Len(watch) /\ IsCopy(m, Was(m, j))
      BY <1>1, <2>1, <2>2
    <3> HIDE DEF Was
    <3> QED
      BY <2>1, <2>3, <3>1, <3>2 DEF EldersInv, EldersSeen
  <2>5. l - 1 \in (j + 1)..i
    BY <1>0, <2>1, <2>4
  <2>6. watch'[l - 1] = watch[l]
    BY <1>0, <2>5
  <2> QED
    BY <2>4, <2>5, <2>6
<1>3. EldersHaveIDs'
  BY <1>0 DEF EldersInv, EldersHaveIDs
<1>4. WorkerSees'
  <2>1. SUFFICES ASSUME worker # Idle, api[worker.ka].rev = worker.obj.rev,
                        NEW m \in elders[worker.ka]
                 PROVE  /\ worker.pc = "list" =>
                             \A j \in 0..Len(watch') : IsCopy(m, j)' => HasStoredID(m, j)'
                        /\ worker.pc = "update" => api[m].routerID # worker.id
    BY <1>0 DEF WorkerSees
  <2>2. worker.ka \in KeepAliveds
    BY <2>1, BusyWorker
  <2>3. m \in KeepAliveds
    BY <1>0, <2>2
  <2>4. ASSUME worker.pc = "list", NEW j \in 0..Len(watch'), IsCopy(m, j)'
        PROVE  HasStoredID(m, j)'
    <3>1. HasStoredID(m, Was(m, j))
      <4>1. Was(m, j) \in 0..Len(watch) /\ IsCopy(m, Was(m, j))
        BY <1>1, <2>3, <2>4
      <4> HIDE DEF Was
      <4> QED
        BY <2>1, <2>4, <4>1 DEF EldersInv, WorkerSees
    <3> QED
      BY <1>0, <1>1, <2>3, <2>4, <3>1 DEF HasStoredID
  <2> QED
    BY <2>1, <2>4 DEF EldersInv, WorkerSees
<1> QED
  BY <1>2, <1>3, <1>4 DEF EldersInv

(* Every step keeps EldersInv: Get takes a copy of the stored version only *)
(* after every elder's ID has reached the cache, and List avoids them.     *)
LEMMA EldersStep ==
    TypeOK /\ VersionInv /\ ReplayInv /\ GoneInv /\ EldersInv /\ [Next]_vars => EldersInv'
<1> SUFFICES ASSUME TypeOK, VersionInv, ReplayInv, GoneInv, EldersInv, [Next]_vars
             PROVE  EldersInv'
  OBVIOUS
<1>t. /\ rev \in Nat /\ api \in [KeepAliveds -> Object]
      /\ elders \in [KeepAliveds -> SUBSET KeepAliveds]
      /\ cache \in [KeepAliveds -> Object] /\ Len(watch) \in Nat
  BY LenProperties DEF TypeOK
<1>h. \A n \in KeepAliveds : \A m \in elders[n] : api[m].routerID # 0
  BY DEF EldersInv, EldersHaveIDs
<1>1. ASSUME NEW k \in KeepAliveds, CreateKeepAlived(k)
      PROVE  EldersInv'
  <2> DEFINE o == [rev |-> rev + 1, routerID |-> 0]
  <2>1. o \in Object /\ o.rev = rev + 1
    BY <1>t, MaxIDAssumption DEF Object
  <2>2. Write(k, o) /\ UNCHANGED <<cache, worker>>
    BY <1>1 DEF CreateKeepAlived
  <2>3. elders' = [elders EXCEPT ![k] = {m \in KeepAliveds : api[m].routerID # 0}]
    BY <1>1 DEF CreateKeepAlived
  <2>4. api[k].routerID = 0
    BY <1>1 DEF CreateKeepAlived, GoneInv
  <2>5. RespectsElders(k, o)
    BY <1>t, <1>h, <2>3, <2>4 DEF RespectsElders
  <2>6. elders' \in [KeepAliveds -> SUBSET KeepAliveds] /\ \A m \in elders'[k] : api[m].routerID # 0
    BY <1>t, <2>3
  <2> HIDE DEF o
  <2> QED
    BY <2>1, <2>2, <2>5, <2>6, WriteKeepsElders
<1>2. ASSUME NEW k \in KeepAliveds, EditSpec(k)
      PROVE  EldersInv'
  <2> DEFINE o == [rev |-> rev + 1, routerID |-> api[k].routerID]
  <2>1. o \in Object /\ o.rev = rev + 1
    BY <1>t DEF Object
  <2>2. Write(k, o) /\ UNCHANGED <<cache, worker, elders>>
    BY <1>2 DEF EditSpec
  <2>3. RespectsElders(k, o)
    BY <2>2 DEF RespectsElders
  <2> HIDE DEF o
  <2> QED
    BY <1>t, <1>h, <2>1, <2>2, <2>3, WriteKeepsElders
<1>3. ASSUME NEW k \in KeepAliveds, DeleteKeepAlived(k)
      PROVE  EldersInv'
  <2>1. NoObject \in Object /\ NoObject.rev = 0
    BY MaxIDAssumption DEF Object, NoObject
  <2>2. Write(k, NoObject) /\ UNCHANGED <<cache, worker>>
    BY <1>3 DEF DeleteKeepAlived
  <2>3. elders' = [m \in KeepAliveds |-> IF m = k THEN {} ELSE elders[m] \ {k}]
    BY <1>3 DEF DeleteKeepAlived
  <2>4. RespectsElders(k, NoObject)
    BY <1>t, <2>3 DEF RespectsElders
  <2>5. elders' \in [KeepAliveds -> SUBSET KeepAliveds] /\ \A m \in elders'[k] : api[m].routerID # 0
    BY <1>t, <2>3
  <2> QED
    BY <2>1, <2>2, <2>4, <2>5, WriteKeepsElders
<1>4. CASE Deliver
  BY <1>4, DeliverKeepsElders
<1>5. ASSUME NEW k \in KeepAliveds, Get(k)
      PROVE  EldersInv'
  <2>1. UNCHANGED <<api, watch, cache, elders>>
    BY <1>5 DEF Get
  <2>2. EldersSeen' /\ EldersHaveIDs'
    BY <2>1 DEF EldersInv, EldersSeen, EldersHaveIDs, IsCopy, Copy, HasStoredID
  <2>3. CASE worker' = Idle
    BY <2>2, <2>3 DEF EldersInv, WorkerSees
  <2>4. CASE worker' = [pc |-> "list", ka |-> k, obj |-> cache[k]] /\ Exists(cache[k])
    <3>1. SUFFICES ASSUME api[k].rev = cache[k].rev, NEW m \in elders[k],
                          NEW j \in 0..Len(watch), IsCopy(m, j)
                   PROVE  HasStoredID(m, j)
      BY <2>1, <2>2, <2>4 DEF EldersInv, WorkerSees, IsCopy, Copy, HasStoredID
    <3>2. IsCopy(k, 0) /\ Exists(api[k]) /\ Copy(k, 0).rev = api[k].rev /\ 0 \in 0..Len(watch)
      BY <1>t, <2>4, <3>1 DEF IsCopy, Copy, Exists
    <3>3. ~ \E n \in (j + 1)..0 : watch[n].ka = m
      BY <1>t, <3>1
    <3> QED
      BY <3>1, <3>2, <3>3 DEF EldersInv, EldersSeen
  <2> QED
    BY <1>5, <2>3, <2>4 DEF Get
<1>6. CASE List
  <2>1. UNCHANGED <<api, watch, cache, elders>> /\ worker # Idle
    BY <1>6 DEF List, Idle
  <2>2. EldersSeen' /\ EldersHaveIDs'
    BY <2>1 DEF EldersInv, EldersSeen, EldersHaveIDs, IsCopy, Copy, HasStoredID
  <2>3. CASE Free(RouterIDs(cache)) = {}
    BY <1>6, <2>2, <2>3 DEF List, EldersInv, WorkerSees
  <2>4. CASE Free(RouterIDs(cache)) # {}
    <3> DEFINE id == findNextAvailableID(RouterIDs(cache))
    <3>1. worker' = [pc |-> "update", ka |-> worker.ka, obj |-> worker.obj, id |-> id]
      BY <1>6, <2>4 DEF List
    <3>2. id \in IDs /\ id \notin RouterIDs(cache)
      BY <2>4, FindNextIsFree
    <3>3. worker.ka \in KeepAliveds
      BY <2>1, BusyWorker
    <3> HIDE DEF id
    <3>4. SUFFICES ASSUME api[worker.ka].rev = worker.obj.rev, NEW m \in elders[worker.ka]
                   PROVE  api[m].routerID # id
      BY <2>1, <2>2, <3>1 DEF EldersInv, WorkerSees
    <3>5. IsCopy(m, 0) /\ 0 \in 0..Len(watch) /\ m \in KeepAliveds
      BY <1>t, <3>3 DEF IsCopy
    <3>6. cache[m].routerID = api[m].routerID
      BY <1>6, <2>1, <3>4, <3>5 DEF List, EldersInv, WorkerSees, HasStoredID, Copy
    <3>7. api[m].routerID # 0
      BY <1>h, <3>3
    <3> QED
      BY <3>2, <3>5, <3>6, <3>7 DEF RouterIDs
  <2> QED
    BY <2>3, <2>4
<1>7. CASE Update
  <2>1. /\ worker # Idle /\ worker' = Idle /\ UNCHANGED <<cache, elders>>
        /\ worker.ka \in KeepAliveds /\ worker.id \in IDs
    BY <1>7 DEF Update, Idle, TypeOK, Worker
  <2>2. CASE UNCHANGED <<api, watch>>
    BY <2>1, <2>2 DEF EldersInv, EldersSeen, EldersHaveIDs, WorkerSees, IsCopy, Copy, HasStoredID
  <2>3. CASE /\ api[worker.ka].rev = worker.obj.rev
             /\ Write(worker.ka, [rev |-> rev + 1, routerID |-> worker.id])
    <3> DEFINE o == [rev |-> rev + 1, routerID |-> worker.id]
               k == worker.ka
    <3>1. o \in Object /\ o.rev = rev + 1
      BY <1>t, <2>1 DEF Object, IDs
    <3>2. api[k].routerID = 0
      BY <2>1, <2>3 DEF VersionInv, Current
    <3>3. RespectsElders(k, o)
      BY <1>h, <2>1, <3>2 DEF RespectsElders
    <3>4. Write(k, o) /\ k \in KeepAliveds
      BY <2>1, <2>3
    <3> HIDE DEF o, k
    <3> QED
      BY <1>t, <1>h, <2>1, <3>1, <3>3, <3>4, WriteKeepsElders
  <2> QED
    BY <1>7, <2>2, <2>3 DEF Update
<1>8. CASE Restart
  <2>1. /\ UNCHANGED <<api, elders>> /\ cache' = api /\ worker' = Idle
        /\ watch' = <<>>
    BY <1>8 DEF Restart
  <2>2. Len(watch') = 0
    BY <2>1
  <2> QED
    BY <1>h, <2>1, <2>2 DEF EldersInv, EldersSeen, EldersHaveIDs, WorkerSees, IsCopy, Copy, HasStoredID
<1>9. CASE UNCHANGED <<api, watch, cache, elders>> /\ worker' \in {worker, Idle}
  BY <1>9 DEF EldersInv, EldersSeen, EldersHaveIDs, WorkerSees, IsCopy, Copy, HasStoredID
<1> QED
  BY <1>1, <1>2, <1>3, <1>4, <1>5, <1>6, <1>7, <1>8, <1>9
     DEF Next, User, Reconcile, vars, Resync, UpdateFails

(* No object has the router ID of one of its elders.                       *)
DiffersFromElders ==
    \A k \in KeepAliveds : \A m \in elders[k] : api[k].routerID # api[m].routerID

(* An Update avoids the elders' IDs, and no elder gets another ID.         *)
LEMMA DiffersStep ==
    TypeOK /\ VersionInv /\ GoneInv /\ EldersInv /\ DiffersFromElders /\ [Next]_vars
        => DiffersFromElders'
<1> SUFFICES ASSUME TypeOK, VersionInv, GoneInv, EldersInv, DiffersFromElders, [Next]_vars
             PROVE  DiffersFromElders'
  OBVIOUS
<1>t. /\ api \in [KeepAliveds -> Object]
      /\ elders \in [KeepAliveds -> SUBSET KeepAliveds]
  BY DEF TypeOK
<1>h. \A n \in KeepAliveds : \A m \in elders[n] : api[m].routerID # 0
  BY DEF EldersInv, EldersHaveIDs
<1>1. ASSUME NEW k \in KeepAliveds, CreateKeepAlived(k)
      PROVE  DiffersFromElders'
  <2>1. /\ api' = [api EXCEPT ![k] = [rev |-> rev + 1, routerID |-> 0]]
        /\ elders' = [elders EXCEPT ![k] = {m \in KeepAliveds : api[m].routerID # 0}]
        /\ api[k].routerID = 0
    BY <1>1 DEF CreateKeepAlived, Write, GoneInv
  <2> QED
    BY <1>t, <1>h, <2>1 DEF DiffersFromElders
<1>2. ASSUME NEW k \in KeepAliveds, EditSpec(k)
      PROVE  DiffersFromElders'
  <2>1. /\ api' = [api EXCEPT ![k] = [rev |-> rev + 1, routerID |-> api[k].routerID]]
        /\ elders' = elders
    BY <1>2 DEF EditSpec, Write
  <2>2. \A n \in KeepAliveds : api'[n].routerID = api[n].routerID
    BY <1>t, <2>1
  <2> QED
    BY <1>t, <2>1, <2>2 DEF DiffersFromElders
<1>3. ASSUME NEW k \in KeepAliveds, DeleteKeepAlived(k)
      PROVE  DiffersFromElders'
  <2>1. /\ api' = [api EXCEPT ![k] = NoObject]
        /\ elders' = [m \in KeepAliveds |-> IF m = k THEN {} ELSE elders[m] \ {k}]
    BY <1>3 DEF DeleteKeepAlived, Write
  <2> QED
    BY <1>t, <2>1 DEF DiffersFromElders
<1>4. CASE Update
  <2>1. worker # Idle /\ worker.ka \in KeepAliveds /\ UNCHANGED elders
    BY <1>4 DEF Update, Idle, TypeOK, Worker
  <2>2. CASE UNCHANGED api
    BY <2>1, <2>2 DEF DiffersFromElders
  <2>3. CASE /\ api[worker.ka].rev = worker.obj.rev
             /\ Write(worker.ka, [rev |-> rev + 1, routerID |-> worker.id])
    <3>1. api' = [api EXCEPT ![worker.ka] = [rev |-> rev + 1, routerID |-> worker.id]]
      BY <2>3 DEF Write
    <3>2. api[worker.ka].routerID = 0
      BY <2>1, <2>3 DEF VersionInv, Current
    <3>3. \A m \in elders[worker.ka] : api[m].routerID # worker.id
      BY <1>4, <2>1, <2>3 DEF Update, EldersInv, WorkerSees
    <3>4. \A n \in KeepAliveds : worker.ka \notin elders[n]
      BY <1>h, <3>2
    <3> QED
      BY <1>t, <2>1, <3>1, <3>3, <3>4 DEF DiffersFromElders
  <2> QED
    BY <1>4, <2>2, <2>3 DEF Update
<1>5. CASE UNCHANGED <<api, elders>>
  BY <1>5 DEF DiffersFromElders
<1> QED
  BY <1>1, <1>2, <1>3, <1>4, <1>5
     DEF Next, User, Reconcile, vars, Deliver, Resync, Get, List, UpdateFails, Restart

(* In every reachable state an elder has its ID, and wherever the stored   *)
(* version of a younger object is cached, every copy of the elder has it   *)
(* too: what an ID that is chosen from a cache depends on.                 *)
THEOREM EldersHold == Safe => []EldersInv
<1>1. Init => GoneInv /\ EldersInv
  BY DEF Init, GoneInv, NoObject, EldersInv, EldersSeen, EldersHaveIDs, WorkerSees
<1> QED
  BY <1>1, GoneStep, EldersStep, TypeCorrect, VersionsHold, ReplayHolds, PTL DEF Safe

(* However far the cache of findNextAvailableID lags, no object is ever    *)
(* given the router ID of one that had its ID when it was created, for any *)
(* number of objects and any MaxID.                                        *)
THEOREM NoClashWithElders == Safe => []DiffersFromElders
<1>1. Init => GoneInv /\ DiffersFromElders
  BY DEF Init, GoneInv, NoObject, DiffersFromElders
<1> QED
  BY <1>1, GoneStep, DiffersStep, EldersHold, TypeCorrect, VersionsHold, PTL DEF Safe

-----------------------------------------------------------------------------
(* The abstract allocator.                                                 *)

(* A write that stores or removes an object without giving it an ID adds   *)
(* it, removes it, or changes nothing that the abstract allocator sees.    *)
LEMMA WriteSimulates ==
    ASSUME TypeOK, NEW k \in KeepAliveds, NEW o \in Object, Write(k, o),
           o.routerID = (IF Exists(o) THEN api[k].routerID ELSE 0),
           ~Exists(api[k]) => api[k].routerID = 0,
           elders' = IF ~Exists(api[k]) /\ Exists(o)
                     THEN [elders EXCEPT ![k] = {m \in KeepAliveds : api[m].routerID # 0}]
                     ELSE IF Exists(api[k]) /\ ~Exists(o)
                     THEN [m \in KeepAliveds |-> IF m = k THEN {} ELSE elders[m] \ {k}]
                     ELSE elders
    PROVE  [Allocation!Next]_Allocation!vars
<1> DEFINE objects == {j \in KeepAliveds : Exists(api[j])}
           id == [j \in KeepAliveds |-> api[j].routerID]
<1>1. /\ \A j \in KeepAliveds : j # k => api'[j] = api[j]
      /\ api'[k] = o
  BY DEF TypeOK, Write
<1>2. CASE Exists(api[k]) <=> Exists(o)
  <2>1. objects' = objects
    BY <1>1, <1>2, Zenon
  <2>2. id' = id
    BY <1>1, <1>2
  <2>3. elders' = elders
    BY <1>2
  <2> QED
    BY <2>1, <2>2, <2>3 DEF Allocation!vars
<1>3. CASE ~Exists(api[k]) /\ Exists(o)
  <2>1. k \notin objects /\ objects' = objects \cup {k}
    BY <1>1, <1>3
  <2>2. id' = id
    BY <1>1, <1>3
  <2>3. elders' = [elders EXCEPT ![k] = {m \in KeepAliveds : id[m] # 0}]
    BY <1>3
  <2> HIDE DEF objects, id
  <2>4. k \notin objects /\ objects' = objects \cup {k} /\ UNCHANGED id
        /\ elders' = [elders EXCEPT ![k] = {m \in KeepAliveds : id[m] # 0}]
    BY <2>1, <2>2, <2>3
  <2> QED
    BY <2>4, Zenon DEF Allocation!Next, Allocation!Add, objects, id
<1>4. CASE Exists(api[k]) /\ ~Exists(o)
  <2>1. k \in objects /\ objects' = objects \ {k}
    BY <1>1, <1>4
  <2>2. id' = [id EXCEPT ![k] = 0]
    BY <1>1, <1>4
  <2>3. elders' = [m \in KeepAliveds |-> IF m = k THEN {} ELSE elders[m] \ {k}]
    BY <1>4
  <2> QED
    BY <2>1, <2>2, <2>3 DEF Allocation!Next, Allocation!Remove
<1> QED
  BY <1>2, <1>3, <1>4

(* Update is the abstract assignment: the version check finds the object   *)
(* as Get saw it, without an ID, and no elder has the chosen one.          *)
LEMMA UpdateSimulates ==
    ASSUME TypeOK, VersionInv, EldersInv, Update
    PROVE  [Allocation!Next]_Allocation!vars
<1> DEFINE objects == {j \in KeepAliveds : Exists(api[j])}
           id == [j \in KeepAliveds |-> api[j].routerID]
           k == worker.ka
<1>1. /\ worker # Idle /\ k \in KeepAliveds
      /\ worker.obj \in Object /\ worker.id \in IDs
  BY DEF Update, Idle, TypeOK, Worker
<1>2. CASE UNCHANGED api
  BY <1>2 DEF Allocation!vars, Update
<1>3. CASE ~UNCHANGED api
  <2>1. /\ api[k].rev = worker.obj.rev
        /\ Write(k, [rev |-> rev + 1, routerID |-> worker.id])
    BY <1>3 DEF Update
  <2>2. Exists(api[k]) /\ api[k].routerID = 0
    BY <1>1, <2>1 DEF VersionInv, Current, Exists
  <2>3. /\ \A j \in KeepAliveds : j # k => api'[j] = api[j]
        /\ api'[k] = [rev |-> rev + 1, routerID |-> worker.id]
    BY <1>1, <2>1 DEF TypeOK, Write
  <2>4. Exists(api'[k])
    BY <2>3 DEF TypeOK, Exists
  <2>5. k \in objects /\ objects' = objects
    BY <1>1, <2>2, <2>3, <2>4
  <2>6. id[k] = 0 /\ id' = [id EXCEPT ![k] = worker.id]
    BY <1>1, <2>2, <2>3
  <2>7. \A m \in elders[k] : id[m] # worker.id
    <3>1. elders[k] \subseteq KeepAliveds
      BY <1>1 DEF TypeOK
    <3> QED
      BY <1>1, <2>1, <3>1 DEF EldersInv, WorkerSees, Update
  <2>8. worker.id \in 1..MaxID /\ UNCHANGED elders
    BY <1>1, <1>3 DEF IDs, Update
  <2> HIDE DEF objects, id, k
  <2>9. \E i \in 1..MaxID :
          /\ k \in objects
          /\ id[k] = 0
          /\ \A m \in elders[k] : id[m] # i
          /\ id' = [id EXCEPT ![k] = i]
          /\ UNCHANGED <<objects, elders>>
    BY <2>5, <2>6, <2>7, <2>8, Zenon
  <2>10. Allocation!Next
    BY <1>1, <2>9 DEF Allocation!Next, Allocation!Assign, objects, id
  <2> QED
    BY <2>10
<1> QED
  BY <1>2, <1>3

(* The controller with its lagging cache, queue, conflicts, failures and   *)
(* restarts implements the abstract allocator: initial states map to the   *)
(* initial state and every step to a step or a stutter.                    *)
THEOREM ImplementsTheAllocator == Safe => ImplementsAllocator
<1>1. Init => Allocation!Init
  BY DEF Init, Allocation!Init, NoObject, Exists
<1>2. Init => GoneInv
  BY DEF Init, GoneInv, NoObject
<1>3. TypeOK /\ VersionInv /\ GoneInv /\ EldersInv /\ [Next]_vars
        => [Allocation!Next]_Allocation!vars
  <2> SUFFICES ASSUME TypeOK, VersionInv, GoneInv, EldersInv, [Next]_vars
               PROVE  [Allocation!Next]_Allocation!vars
    OBVIOUS
  <2>1. ASSUME NEW k \in KeepAliveds, CreateKeepAlived(k)
        PROVE  [Allocation!Next]_Allocation!vars
    <3> DEFINE o == [rev |-> rev + 1, routerID |-> 0]
    <3>1. o \in Object /\ Exists(o)
      BY MaxIDAssumption DEF Object, TypeOK, Exists
    <3>2. Write(k, o) /\ api[k].routerID = 0 /\ o.routerID = 0
      BY <2>1 DEF CreateKeepAlived, GoneInv
    <3>3. elders' = [elders EXCEPT ![k] = {m \in KeepAliveds : api[m].routerID # 0}]
      BY <2>1 DEF CreateKeepAlived
    <3>4. ~Exists(api[k])
      BY <2>1 DEF CreateKeepAlived
    <3> HIDE DEF o
    <3> QED
      BY <3>1, <3>2, <3>3, <3>4, WriteSimulates
  <2>2. ASSUME NEW k \in KeepAliveds, EditSpec(k)
        PROVE  [Allocation!Next]_Allocation!vars
    <3> DEFINE o == [rev |-> rev + 1, routerID |-> api[k].routerID]
    <3>1. o \in Object /\ Exists(o) /\ o.routerID = api[k].routerID
      BY DEF Object, TypeOK, Exists
    <3>2. Write(k, o) /\ Exists(api[k]) /\ elders' = elders
      BY <2>2 DEF EditSpec
    <3> HIDE DEF o
    <3> QED
      BY <3>1, <3>2, WriteSimulates
  <2>3. ASSUME NEW k \in KeepAliveds, DeleteKeepAlived(k)
        PROVE  [Allocation!Next]_Allocation!vars
    <3>1. NoObject \in Object /\ ~Exists(NoObject) /\ NoObject.routerID = 0
      BY MaxIDAssumption DEF Object, NoObject, Exists
    <3>2. Write(k, NoObject) /\ Exists(api[k])
      BY <2>3 DEF DeleteKeepAlived
    <3>3. elders' = [m \in KeepAliveds |-> IF m = k THEN {} ELSE elders[m] \ {k}]
      BY <2>3 DEF DeleteKeepAlived
    <3> QED
      BY <3>1, <3>2, <3>3, WriteSimulates
  <2>4. CASE Update
    BY <2>4, UpdateSimulates
  <2>5. CASE UNCHANGED <<api, elders>>
    BY <2>5 DEF Allocation!vars
  <2> QED
    BY <2>1, <2>2, <2>3, <2>4, <2>5
       DEF Next, User, Reconcile, vars, Deliver, Resync, Get, List, UpdateFails, Restart
<1> QED
  BY <1>1, <1>2, <1>3, GoneStep, TypeCorrect, VersionsHold, EldersHold, PTL
     DEF Safe, ImplementsAllocator, Allocation!Spec
=============================================================================

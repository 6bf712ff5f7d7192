--------------------------- MODULE DebuggerProofs ---------------------------
(***************************************************************************)
(* Proofs about Debugger, for any specs and budget: a status is only ever  *)
(* recorded from the spec it is stored with, a controller at rest has      *)
(* recorded a Debugger that can be deployed, and what is recorded runs and *)
(* has its ConfigMap mounted, as long as nothing happens that the code     *)
(* does not notice.                                                        *)
(***************************************************************************)
EXTENDS Debugger, Events

-----------------------------------------------------------------------------
(* The inductive invariant.                                                *)

Copy == DebuggerType \cup {None}

(* A copy that has the version of the stored Debugger is that Debugger.    *)
OldCopy(d, stored, r) ==
    d # None => /\ d.rev <= r
                /\ stored # None /\ d.rev = stored.rev => d = stored

ObjectInv ==
    /\ rev \in Nat /\ debugger \in Copy /\ cache \in Copy /\ watch \in Seq(Copy)
    /\ OldCopy(debugger, debugger, rev)
    /\ OldCopy(cache, debugger, rev)
    /\ \A n \in 1..Len(watch) : OldCopy(watch[n], debugger, rev)

ClusterInv ==
    /\ configMap \in ConfigMapStates /\ pinger \in PingerStates
    /\ workload \in [Kinds -> WorkloadType \cup {None}]
    /\ seen \subseteq Kinds /\ pending \subseteq Kinds
    /\ queued \in BOOLEAN
    /\ budget \in 0..Budget

(* A pass that is under way has the Debugger it began with.                *)
WorkerInv ==
    \/ worker = Idle
    \/ worker \in [pc : {"workload", "status"}, debugger : DebuggerType]

Inv == ObjectInv /\ ClusterInv /\ WorkerInv

-----------------------------------------------------------------------------
LEMMA RecordedType == \A s \in Specs : Recorded(s) \in StatusType
BY ConstantsAssumption DEF Recorded, StatusType, SpecType

LEMMA NewDebuggerType ==
    \A uid \in Nat, s \in Specs : /\ NewDebugger(uid, s) \in DebuggerType
                                  /\ NewDebugger(uid, s).rev = uid
BY DEF NewDebugger, DebuggerType, EmptyStatus, StatusType

LEMMA InitInv == Init => Inv
<1> SUFFICES ASSUME Init PROVE Inv
  OBVIOUS
<1>1. PICK s \in Specs : debugger = NewDebugger(1, s)
  BY DEF Init
<1>2. debugger \in DebuggerType /\ debugger.rev = 1
  BY <1>1, NewDebuggerType
<1>3. watch \in Seq(Copy) /\ Len(watch) = 1 /\ watch[1] = debugger
  BY <1>2 DEF Init, Copy
<1>4. ObjectInv
  BY <1>2, <1>3 DEF Init, ObjectInv, OldCopy, Copy
<1>5. ClusterInv
  <2>1. budget \in 0..Budget
    BY ConstantsAssumption DEF Init
  <2>2. workload \in [Kinds -> WorkloadType \cup {None}]
    BY DEF Init
  <2> QED
    BY <2>1, <2>2 DEF Init, ClusterInv
<1> QED
  BY <1>4, <1>5 DEF Init, Inv, WorkerInv

-----------------------------------------------------------------------------
(* The Debugger and its versions.                                          *)

StatusStep ==
    debugger # None /\ debugger' # None /\ debugger'.uid = debugger.uid
      /\ debugger'.status # debugger.status
      => debugger'.status = Recorded(debugger'.spec)

(* A write makes every copy there is an old one.                           *)
LEMMA WriteInv ==
    ASSUME ObjectInv, NEW d \in Copy, d # None => d.rev = rev + 1,
           Write(d), cache' = cache
    PROVE  ObjectInv'
<1>1. /\ rev \in Nat /\ rev' = rev + 1 /\ debugger' = d
      /\ watch \in Seq(Copy) /\ watch' = Append(watch, d)
  BY DEF ObjectInv, Write
<1>2. /\ watch' \in Seq(Copy) /\ Len(watch') = Len(watch) + 1 /\ Len(watch) \in Nat
      /\ \A n \in 1..Len(watch) : watch'[n] = watch[n]
      /\ watch'[Len(watch) + 1] = d
  BY <1>1, Appending
<1>3. OldCopy(d, d, rev')
  BY <1>1 DEF OldCopy
<1>4. ASSUME NEW c \in Copy, OldCopy(c, debugger, rev)
      PROVE  OldCopy(c, d, rev')
  <2>1. CASE c # None
    <3>1. c.rev \in Nat /\ c.rev <= rev
      BY <1>4, <2>1 DEF Copy, DebuggerType, OldCopy
    <3> QED
      BY <1>1, <3>1 DEF OldCopy
  <2>2. CASE c = None
    BY <2>2 DEF OldCopy
  <2> QED
    BY <2>1, <2>2
<1>5. OldCopy(cache, d, rev')
  BY <1>4 DEF ObjectInv
<1>6. ASSUME NEW n \in 1..Len(watch')
      PROVE  OldCopy(watch'[n], d, rev')
  <2>1. CASE n = Len(watch) + 1
    BY <1>2, <1>3, <2>1
  <2>2. CASE n # Len(watch) + 1
    <3>1. n \in 1..Len(watch) /\ watch'[n] = watch[n]
      BY <1>2, <2>2
    <3>2. watch[n] \in Copy
      BY <1>1, <3>1, ElementOfSeq
    <3> QED
      BY <1>4, <3>1, <3>2 DEF ObjectInv
  <2> QED
    BY <2>1, <2>2
<1> QED
  BY <1>1, <1>2, <1>3, <1>5, <1>6 DEF ObjectInv

LEMMA UserWrites ==
    ASSUME ObjectInv,
           \/ \E s \in Specs : EditDebugger(s) \/ RecreateDebugger(s)
           \/ DeleteDebugger
    PROVE  ObjectInv' /\ StatusStep
<1>1. rev \in Nat /\ rev + 1 \in Nat /\ debugger \in Copy
  BY DEF ObjectInv
<1>2. ASSUME NEW s \in Specs, EditDebugger(s)
      PROVE  ObjectInv' /\ StatusStep
  <2> DEFINE d == [debugger EXCEPT !.rev = rev + 1, !.spec = s]
  <2>1. debugger \in DebuggerType
    BY <1>1, <1>2 DEF EditDebugger, Copy
  <2>2. d \in DebuggerType /\ d.rev = rev + 1 /\ d.status = debugger.status
    BY <1>1, <2>1 DEF DebuggerType
  <2>3. Write(d) /\ cache' = cache
    BY <1>2 DEF EditDebugger
  <2>4. debugger' = d
    BY <2>3 DEF Write
  <2> HIDE DEF d
  <2> QED
    BY <2>2, <2>3, <2>4, WriteInv DEF Copy, StatusStep
<1>3. ASSUME NEW s \in Specs, RecreateDebugger(s)
      PROVE  ObjectInv' /\ StatusStep
  <2>1. /\ debugger = None /\ cache' = cache
        /\ Write(NewDebugger(rev + 1, s))
    BY <1>3 DEF RecreateDebugger
  <2>2. /\ NewDebugger(rev + 1, s) \in Copy
        /\ NewDebugger(rev + 1, s).rev = rev + 1
    BY <1>1, NewDebuggerType DEF Copy
  <2> QED
    BY <2>1, <2>2, WriteInv DEF StatusStep
<1>4. CASE DeleteDebugger
  <2>1. Write(None) /\ cache' = cache /\ debugger' = None
    BY <1>4 DEF DeleteDebugger, Write
  <2> QED
    BY <2>1, WriteInv DEF Copy, StatusStep
<1> QED
  BY <1>2, <1>3, <1>4

(* The version of the cached copy is checked, so what is recorded was      *)
(* computed from the stored spec.                                          *)
LEMMA StatusWrites ==
    ASSUME ObjectInv, UpdateDebugger
    PROVE  ObjectInv' /\ StatusStep
<1>1. cache' = cache
  BY DEF UpdateDebugger
<1>2. CASE UNCHANGED objectVars
  BY <1>1, <1>2 DEF ObjectInv, OldCopy, StatusStep, objectVars
<1>3. CASE /\ debugger # None /\ cache # None /\ debugger.rev = cache.rev
           /\ Write([debugger EXCEPT !.rev = rev + 1,
                                     !.status = Recorded(cache.spec)])
  <2>1. PICK x \in DebuggerType : x = debugger /\ x = cache
    BY <1>3 DEF ObjectInv, OldCopy, Copy
  <2>2. PICK r \in Nat : r = rev + 1
    BY DEF ObjectInv
  <2>3. PICK st \in StatusType : st = Recorded(x.spec)
    BY <2>1, RecordedType DEF DebuggerType
  <2> DEFINE d == [x EXCEPT !.rev = r, !.status = st]
  <2>4. d \in DebuggerType /\ d.rev = r /\ d.spec = x.spec /\ d.status = st
    BY DEF DebuggerType
  <2>5. Write(d) /\ debugger' = d
    BY <1>3, <2>1, <2>2, <2>3 DEF Write
  <2> HIDE DEF d
  <2>6. d.status = Recorded(d.spec)
    BY <2>3, <2>4
  <2> QED
    BY <1>1, <2>2, <2>4, <2>5, <2>6, WriteInv DEF Copy, StatusStep
<1> QED
  BY <1>2, <1>3 DEF UpdateDebugger

LEMMA DeliverInv == ObjectInv /\ Deliver => ObjectInv' /\ StatusStep
<1> SUFFICES ASSUME ObjectInv, Deliver PROVE ObjectInv' /\ StatusStep
  OBVIOUS
<1>1. /\ watch \in Seq(Copy) /\ watch # <<>> /\ watch' = Tail(watch)
      /\ cache' = Head(watch) /\ rev' = rev /\ debugger' = debugger
  BY DEF Deliver, ObjectInv
<1>2. /\ watch' \in Seq(Copy) /\ Len(watch) \in Nat \ {0} /\ Len(watch') = Len(watch) - 1
      /\ \A n \in 1..(Len(watch) - 1) : watch'[n] = watch[n + 1]
      /\ cache' = watch[1] /\ cache' \in Copy
  BY <1>1, Beheading
<1>3. OldCopy(cache', debugger', rev')
  BY <1>1, <1>2 DEF ObjectInv
<1>4. \A n \in 1..Len(watch') : OldCopy(watch'[n], debugger', rev')
  BY <1>1, <1>2 DEF ObjectInv
<1>5. OldCopy(debugger', debugger', rev')
  BY <1>1 DEF ObjectInv
<1> QED
  BY <1>1, <1>2, <1>3, <1>4, <1>5 DEF ObjectInv, StatusStep

LEMMA RestartInv == ObjectInv /\ Restart => ObjectInv' /\ StatusStep
<1> SUFFICES ASSUME ObjectInv, Restart PROVE ObjectInv' /\ StatusStep
  OBVIOUS
<1>1. /\ cache' = debugger /\ watch' = <<>> /\ rev' = rev /\ debugger' = debugger
  BY DEF Restart
<1>2. watch' \in Seq(Copy) /\ \A n \in 1..Len(watch') : FALSE
  BY <1>1, EmptySeq
<1> QED
  BY <1>1, <1>2 DEF ObjectInv, StatusStep

(* No other action writes the Debugger, or moves a copy of it.             *)
LEMMA OthersInv == ObjectInv /\ UNCHANGED <<objectVars, cache>> => ObjectInv' /\ StatusStep
BY DEF ObjectInv, StatusStep, objectVars

LEMMA NextObjectInv == Inv /\ [Next]_vars => ObjectInv' /\ StatusStep
<1> SUFFICES ASSUME ObjectInv, [Next]_vars PROVE ObjectInv' /\ StatusStep
  BY DEF Inv
<1>1. CASE User
  <2>1. CASE \/ \E s \in Specs : EditDebugger(s) \/ RecreateDebugger(s)
             \/ DeleteDebugger
    BY <2>1, UserWrites
  <2>2. CASE \/ \E state \in ConfigMapStates : ChangeConfigMap(state)
             \/ \E state \in PingerStates : ChangePinger(state)
    BY <2>2, OthersInv DEF ChangeConfigMap, ChangePinger
  <2>3. CASE \E k \in Kinds : DeleteWorkload(k)
    BY <2>3, OthersInv DEF DeleteWorkload, Remove
  <2> QED
    BY <1>1, <2>1, <2>2, <2>3 DEF User
<1>2. CASE Worker
  BY <1>2, StatusWrites, OthersInv
     DEF Worker, FetchStops, FetchRetries, Fetch, TakeKey,
         WriteWorkload, WriteRefused, AtWorkload
<1>3. CASE Resync \/ \E k \in Kinds : DeliverWorkload(k) \/ CollectGarbage(k)
  BY <1>3, OthersInv DEF Resync, DeliverWorkload, CollectGarbage, Remove
<1>4. CASE WriteFails \/ MountsFail \/ StatusFails
  BY <1>4, OthersInv DEF WriteFails, MountsFail, StatusFails, AtWorkload
<1>5. CASE UNCHANGED vars
  BY <1>5, OthersInv DEF vars
<1> QED
  BY <1>1, <1>2, <1>3, <1>4, <1>5, DeliverInv, RestartInv DEF Next

-----------------------------------------------------------------------------
(* The cluster and the worker.                                             *)

LEMMA SetWorkloadInv ==
    ASSUME ClusterInv, NEW k \in Kinds, NEW w \in WorkloadType \cup {None},
           SetWorkload(k, w), UNCHANGED <<inputVars, seen>>,
           queued' \in BOOLEAN, budget' \in 0..Budget
    PROVE  ClusterInv'
<1>1. /\ workload \in [Kinds -> WorkloadType \cup {None}] /\ pending \subseteq Kinds
      /\ workload' = [workload EXCEPT ![k] = w]
      /\ pending' \subseteq pending \cup {k}
  BY DEF ClusterInv, SetWorkload
<1>2. /\ workload' \in [Kinds -> WorkloadType \cup {None}]
      /\ pending' \subseteq Kinds
  BY <1>1
<1> QED
  BY <1>2 DEF ClusterInv, inputVars

LEMMA Spending == \A what : budget \in 0..Budget /\ Disturb(what) => budget' \in 0..Budget
BY ConstantsAssumption DEF Disturb

(* The worker's place in a pass.                                           *)
LEMMA WorkerMoves ==
    ASSUME WorkerInv,
           \/ UNCHANGED worker
           \/ Retry
           \/ Done
           \/ worker.pc = "workload" /\ worker' = [worker EXCEPT !.pc = "status"]
           \/ cache \in DebuggerType /\ worker' = [pc |-> "workload", debugger |-> cache]
    PROVE  WorkerInv'
BY DEF WorkerInv, Retry, Done, Idle

LEMMA AcceptedInv ==
    ASSUME Inv, NEW mounted \in BOOLEAN, worker.pc = "workload", Accepted(mounted),
           UNCHANGED <<inputVars, seen>>, queued' \in BOOLEAN, budget' \in 0..Budget
    PROVE  ClusterInv'
<1>1. worker.debugger \in DebuggerType
  BY DEF Inv, WorkerInv, Idle
<1>2. Kind \in Kinds
  BY <1>1, ConstantsAssumption DEF Kind, DebuggerType, SpecType
<1>3. WorkloadFor(worker.debugger, mounted) \in WorkloadType
  BY <1>1 DEF WorkloadFor, WorkloadType, DebuggerType
<1> QED
  BY <1>2, <1>3, SetWorkloadInv DEF Inv, Accepted

LEMMA RemoveInv ==
    ASSUME Inv, NEW k \in Kinds, Remove(k), budget' \in 0..Budget
    PROVE  ClusterInv' /\ WorkerInv'
<1>1. /\ SetWorkload(k, None) /\ UNCHANGED <<inputVars, seen>>
      /\ queued' \in BOOLEAN /\ UNCHANGED worker
  BY DEF Remove, Inv, ClusterInv
<1> QED
  BY <1>1, SetWorkloadInv, WorkerMoves DEF Inv

LEMMA UserInv == Inv /\ User => ClusterInv' /\ WorkerInv'
<1> SUFFICES ASSUME Inv, User PROVE ClusterInv' /\ WorkerInv'
  OBVIOUS
<1>1. budget \in 0..Budget
  BY DEF Inv, ClusterInv
<1>2. CASE \/ \E s \in Specs : EditDebugger(s) \/ RecreateDebugger(s)
           \/ DeleteDebugger
  <2>1. /\ budget' \in 0..Budget
        /\ UNCHANGED <<inputVars, workloadVars, seen, queued, worker>>
    BY <1>1, <1>2, Spending DEF EditDebugger, RecreateDebugger, DeleteDebugger
  <2> QED
    BY <2>1, WorkerMoves DEF Inv, ClusterInv, inputVars, workloadVars
<1>3. ASSUME NEW state \in ConfigMapStates, ChangeConfigMap(state)
      PROVE  ClusterInv' /\ WorkerInv'
  BY <1>1, <1>3, Spending, WorkerMoves DEF ChangeConfigMap, Inv, ClusterInv, workloadVars
<1>4. ASSUME NEW state \in PingerStates, ChangePinger(state)
      PROVE  ClusterInv' /\ WorkerInv'
  BY <1>1, <1>4, Spending, WorkerMoves DEF ChangePinger, Inv, ClusterInv, workloadVars
<1>5. ASSUME NEW k \in Kinds, DeleteWorkload(k)
      PROVE  ClusterInv' /\ WorkerInv'
  BY <1>1, <1>5, Spending, RemoveInv DEF DeleteWorkload
<1> QED
  BY <1>2, <1>3, <1>4, <1>5 DEF User

LEMMA InformersInv ==
    ASSUME Inv, \/ Deliver \/ Resync \/ Restart
                \/ \E k \in Kinds : DeliverWorkload(k) \/ CollectGarbage(k)
    PROVE  ClusterInv' /\ WorkerInv'
<1>1. CASE Deliver \/ Resync
  BY <1>1, WorkerMoves
     DEF Deliver, Resync, Inv, ClusterInv, inputVars, workloadVars
<1>2. ASSUME NEW k \in Kinds, DeliverWorkload(k)
      PROVE  ClusterInv' /\ WorkerInv'
  <2>1. /\ pending' \subseteq Kinds /\ seen' \subseteq Kinds /\ queued' \in BOOLEAN
        /\ UNCHANGED <<inputVars, workload, budget, worker>>
    BY <1>2 DEF DeliverWorkload, Inv, ClusterInv
  <2> QED
    BY <2>1, WorkerMoves DEF Inv, ClusterInv, inputVars
<1>3. ASSUME NEW k \in Kinds, CollectGarbage(k)
      PROVE  ClusterInv' /\ WorkerInv'
  BY <1>3, RemoveInv DEF CollectGarbage, Inv, ClusterInv
<1>4. CASE Restart
  <2>1. /\ pending' \subseteq Kinds /\ seen' \subseteq Kinds /\ queued' \in BOOLEAN
        /\ UNCHANGED <<inputVars, workload>> /\ budget' \in 0..Budget
        /\ worker' = Idle
    BY <1>4, Spending DEF Restart, Inv, ClusterInv
  <2> QED
    BY <2>1 DEF Inv, ClusterInv, WorkerInv, inputVars
<1> QED
  BY <1>1, <1>2, <1>3, <1>4

LEMMA QueueStays == ASSUME ClusterInv, Retry \/ Done PROVE queued' \in BOOLEAN
BY DEF ClusterInv, Retry, Done

LEMMA FetchInv ==
    Inv /\ (FetchStops \/ FetchRetries \/ Fetch) => ClusterInv' /\ WorkerInv'
<1> SUFFICES ASSUME Inv, FetchStops \/ FetchRetries \/ Fetch
             PROVE  ClusterInv' /\ WorkerInv'
  OBVIOUS
<1>1. UNCHANGED <<inputVars, workloadVars, seen, budget>> /\ queued' \in BOOLEAN
  BY DEF FetchStops, FetchRetries, Fetch, TakeKey, Retry
<1>2. ClusterInv'
  BY <1>1 DEF Inv, ClusterInv, inputVars, workloadVars
<1>3. Fetch => cache \in DebuggerType
  BY DEF Fetch, Inv, ObjectInv, Copy
<1>4. WorkerInv'
  BY <1>3, WorkerMoves DEF FetchStops, FetchRetries, Fetch, Inv
<1> QED
  BY <1>2, <1>4

LEMMA WorkloadInv ==
    ASSUME Inv, WriteWorkload \/ WriteRefused \/ WriteFails \/ MountsFail
    PROVE  ClusterInv' /\ WorkerInv'
<1>1. worker.pc = "workload" /\ UNCHANGED <<inputVars, seen>>
  BY DEF WriteWorkload, WriteRefused, WriteFails, MountsFail, AtWorkload
<1>2. queued' \in BOOLEAN
  BY QueueStays DEF WriteWorkload, WriteRefused, WriteFails, MountsFail, Inv, ClusterInv
<1>3. budget' \in 0..Budget
  BY Spending DEF WriteWorkload, WriteRefused, WriteFails, MountsFail, Inv, ClusterInv
<1>4. WorkerInv'
  BY <1>1, WorkerMoves DEF WriteWorkload, WriteRefused, WriteFails, MountsFail, Inv
<1>5. \A s : getVolumesMounts(s) \in BOOLEAN
  BY DEF getVolumesMounts
<1>6. CASE \E mounted \in BOOLEAN : Accepted(mounted)
  BY <1>1, <1>2, <1>3, <1>4, <1>6, AcceptedInv
<1>7. CASE UNCHANGED workloadVars
  BY <1>1, <1>2, <1>3, <1>4, <1>7 DEF Inv, ClusterInv, inputVars, workloadVars
<1>8. \/ \E mounted \in BOOLEAN : Accepted(mounted)
      \/ UNCHANGED workloadVars
  BY <1>5 DEF WriteWorkload, WriteRefused, WriteFails, MountsFail
<1> QED
  BY <1>4, <1>6, <1>7, <1>8

LEMMA StatusInv ==
    ASSUME Inv, UpdateDebugger \/ StatusFails
    PROVE  ClusterInv' /\ WorkerInv'
<1>1. Retry \/ Done
  BY DEF UpdateDebugger, StatusFails
<1>2. budget' \in 0..Budget /\ UNCHANGED <<inputVars, workloadVars, seen>>
  BY Spending DEF UpdateDebugger, StatusFails, Inv, ClusterInv
<1>3. queued' \in BOOLEAN
  BY <1>1, QueueStays DEF Inv
<1>4. WorkerInv'
  BY <1>1, WorkerMoves DEF Inv
<1> QED
  BY <1>2, <1>3, <1>4 DEF Inv, ClusterInv, inputVars, workloadVars

LEMMA NextInv == Inv /\ [Next]_vars => Inv' /\ StatusStep
<1> SUFFICES ASSUME Inv, [Next]_vars PROVE Inv' /\ StatusStep
  OBVIOUS
<1>1. ObjectInv' /\ StatusStep
  BY NextObjectInv
<1>2. ASSUME UNCHANGED vars
      PROVE  ClusterInv' /\ WorkerInv'
  BY <1>2 DEF vars, Inv, ClusterInv, WorkerInv, inputVars, workloadVars
<1>3. ClusterInv' /\ WorkerInv'
  BY <1>2, UserInv, InformersInv, FetchInv, WorkloadInv, StatusInv DEF Next, Worker, Inv
<1> QED
  BY <1>1, <1>3 DEF Inv

LEMMA InductiveInv == Spec => []Inv
<1>1. Inv /\ [Next]_vars => Inv'
  BY NextInv
<1> QED
  BY <1>1, InitInv, PTL DEF Spec

-----------------------------------------------------------------------------
(* The theorems.                                                           *)

(* Every variable keeps its type, and a pass keeps the Debugger it began   *)
(* with (handleAddOrUpdateDebugger).                                       *)
THEOREM TypeCorrect == Spec => []TypeOK
<1>1. Inv => TypeOK
  <2> SUFFICES ASSUME Inv PROVE TypeOK
    OBVIOUS
  <2>1. worker \in WorkerType /\ (worker.pc = "idle" <=> worker = Idle)
    BY DEF Inv, WorkerInv, WorkerType, Idle
  <2> QED
    BY <2>1 DEF Inv, TypeOK, ObjectInv, ClusterInv, Copy
<1> QED
  BY <1>1, InductiveInv, PTL

(* However old the cached copy the status was computed from, whatever is   *)
(* edited, fails or restarts meanwhile, the status that is stored is that  *)
(* of the spec it is stored with (UpdateDebugger).                         *)
THEOREM RecordedFromCurrentSpecHolds == Spec => RecordedFromCurrentSpec
<1>1. Inv /\ [Next]_vars => [StatusStep]_debugger
  BY NextInv
<1> QED
  BY <1>1, InductiveInv, PTL DEF Spec, RecordedFromCurrentSpec, StatusStep

-----------------------------------------------------------------------------
(* A controller at rest has recorded what can be deployed.                 *)

(* The events that are pending end with the stored Debugger.               *)
LastEvent == IF watch = <<>> THEN cache = debugger ELSE watch[Len(watch)] = debugger

AtRest == worker = Idle /\ ~queued /\ watch = <<>>

UpToDate == Deployable => debugger.status = Recorded(debugger.spec)

SettledInv == LastEvent /\ (AtRest => UpToDate)

LEMMA InitSettled == Init => SettledInv
<1> SUFFICES ASSUME Init PROVE SettledInv
  OBVIOUS
<1>1. watch = <<debugger>>
  BY DEF Init
<1>2. watch # <<>> /\ watch[Len(watch)] = debugger
  BY <1>1
<1> QED
  BY <1>2 DEF SettledInv, LastEvent, AtRest

(* A write is the last event, and one to be delivered.                     *)
LEMMA WriteSettles ==
    ASSUME ObjectInv, NEW d \in Copy, Write(d)
    PROVE  SettledInv'
<1>1. watch \in Seq(Copy) /\ debugger' = d /\ watch' = Append(watch, d)
  BY DEF ObjectInv, Write
<1>2. /\ watch' \in Seq(Copy) /\ Len(watch') = Len(watch) + 1
      /\ Len(watch) \in Nat /\ watch'[Len(watch) + 1] = d
  BY <1>1, Appending
<1>3. watch' # <<>> /\ watch'[Len(watch')] = debugger'
  BY <1>1, <1>2
<1> QED
  BY <1>3 DEF SettledInv, LastEvent, AtRest

LEMMA DeliverSettles == Inv /\ SettledInv /\ Deliver => SettledInv'
<1> SUFFICES ASSUME Inv, SettledInv, Deliver PROVE SettledInv'
  OBVIOUS
<1>1. /\ watch \in Seq(Copy) /\ watch # <<>> /\ watch' = Tail(watch)
      /\ cache' = Head(watch) /\ debugger' = debugger /\ queued' = TRUE
  BY DEF Deliver, Inv, ObjectInv
<1>2. /\ watch' \in Seq(Copy)
      /\ Len(watch) \in Nat \ {0} /\ Len(watch') = Len(watch) - 1
      /\ \A n \in 1..(Len(watch) - 1) : watch'[n] = watch[n + 1]
      /\ cache' = watch[1]
  BY <1>1, Beheading
<1>3. watch[Len(watch)] = debugger /\ ~AtRest'
  BY <1>1 DEF SettledInv, LastEvent, AtRest
<1>4. CASE watch' = <<>>
  <2>1. Len(watch) = 1
    BY <1>2, <1>4
  <2> QED
    BY <1>1, <1>2, <1>3, <1>4, <2>1 DEF SettledInv, LastEvent
<1>5. CASE watch' # <<>>
  <2>1. Len(watch') # 0
    BY <1>2, <1>5, EmptySeq
  <2>2. watch'[Len(watch')] = watch[Len(watch)]
    BY <1>2, <2>1
  <2> QED
    BY <1>1, <1>3, <1>5, <2>2 DEF SettledInv, LastEvent
<1> QED
  BY <1>4, <1>5

(* A step that leaves the Debugger and its copies alone.                   *)
LEMMA StepSettles ==
    ASSUME SettledInv, UNCHANGED <<objectVars, cache>>, AtRest' => UpToDate'
    PROVE  SettledInv'
BY DEF SettledInv, LastEvent, objectVars

(* It may be one that does not bring the controller to rest either.        *)
LEMMA RestSettles ==
    ASSUME SettledInv, UNCHANGED <<objectVars, cache, inputVars>>, AtRest' => AtRest
    PROVE  SettledInv'
<1>1. UpToDate' = UpToDate
  BY DEF UpToDate, Deployable, InputsReady, objectVars, inputVars
<1> QED
  BY <1>1, StepSettles DEF SettledInv

LEMMA UserSettles ==
    ASSUME "input" \notin Disturbances, Inv, SettledInv, User
    PROVE  SettledInv'
<1>1. ObjectInv /\ rev + 1 \in Nat /\ debugger \in Copy
  BY DEF Inv, ObjectInv
<1>2. ASSUME NEW s \in Specs, EditDebugger(s)
      PROVE  SettledInv'
  <2> DEFINE d == [debugger EXCEPT !.rev = rev + 1, !.spec = s]
  <2>1. debugger \in DebuggerType
    BY <1>1, <1>2 DEF EditDebugger, Copy
  <2>2. d \in Copy
    BY <1>1, <2>1 DEF DebuggerType, Copy
  <2>3. Write(d)
    BY <1>2 DEF EditDebugger
  <2> HIDE DEF d
  <2> QED
    BY <1>1, <2>2, <2>3, WriteSettles
<1>3. ASSUME NEW s \in Specs, RecreateDebugger(s)
      PROVE  SettledInv'
  <2>1. Write(NewDebugger(rev + 1, s)) /\ NewDebugger(rev + 1, s) \in Copy
    BY <1>1, <1>3, NewDebuggerType DEF RecreateDebugger, Copy
  <2> QED
    BY <1>1, <2>1, WriteSettles
<1>4. CASE DeleteDebugger
  BY <1>1, <1>4, WriteSettles DEF DeleteDebugger, Copy
<1>5. CASE \/ \E state \in ConfigMapStates : ChangeConfigMap(state)
           \/ \E state \in PingerStates : ChangePinger(state)
  BY <1>5 DEF ChangeConfigMap, ChangePinger, Disturb
<1>6. CASE \E k \in Kinds : DeleteWorkload(k)
  BY <1>6, RestSettles DEF DeleteWorkload, Remove, AtRest, objectVars
<1> QED
  BY <1>2, <1>3, <1>4, <1>5, <1>6 DEF User

LEMMA InformersSettle ==
    ASSUME Inv, SettledInv,
           \/ Resync \/ Restart
           \/ \E k \in Kinds : DeliverWorkload(k) \/ CollectGarbage(k)
    PROVE  SettledInv'
<1>1. CASE Resync
  BY <1>1, StepSettles DEF Resync, AtRest
<1>2. CASE \E k \in Kinds : DeliverWorkload(k) \/ CollectGarbage(k)
  <2>1. /\ UNCHANGED <<objectVars, cache, inputVars, worker>>
        /\ queued => queued'
    <3>1. ASSUME NEW k \in Kinds, DeliverWorkload(k)
          PROVE  UNCHANGED <<objectVars, cache, inputVars, worker>> /\ (queued => queued')
      BY <3>1, Zenon DEF DeliverWorkload
    <3>2. ASSUME NEW k \in Kinds, CollectGarbage(k)
          PROVE  UNCHANGED <<objectVars, cache, inputVars, worker>> /\ (queued => queued')
      BY <3>2 DEF CollectGarbage, Remove
    <3> QED
      BY <1>2, <3>1, <3>2
  <2>2. AtRest' => AtRest
    BY <2>1 DEF AtRest, objectVars
  <2> QED
    BY <2>1, <2>2, RestSettles
<1>3. CASE Restart
  BY <1>3 DEF Restart, SettledInv, LastEvent, AtRest, UpToDate, Deployable
<1> QED
  BY <1>1, <1>2, <1>3

(* A pass that begins and ends at once has seen the stored Debugger, or an *)
(* event of it is pending.                                                 *)
LEMMA FetchSettles ==
    ASSUME Inv, SettledInv, FetchStops \/ FetchRetries \/ Fetch
    PROVE  SettledInv'
<1>1. UNCHANGED <<objectVars, cache, inputVars>>
  BY DEF FetchStops, FetchRetries, Fetch, TakeKey
<1>2. CASE FetchStops
  <2> SUFFICES ASSUME AtRest' PROVE UpToDate'
    BY <1>1, StepSettles
  <2>1. cache = debugger
    BY <1>1 DEF AtRest, objectVars, SettledInv, LastEvent
  <2>2. UpToDate
    BY <1>2, <2>1 DEF FetchStops, UpToDate, Deployable, isChanged
  <2> QED
    BY <1>1, <2>2 DEF UpToDate, Deployable, InputsReady, objectVars, inputVars
<1>3. CASE FetchRetries \/ Fetch
  <2>1. ~AtRest'
    BY <1>3 DEF FetchRetries, Fetch, Retry, AtRest, Idle
  <2> QED
    BY <1>1, <2>1, StepSettles
<1> QED
  BY <1>2, <1>3

LEMMA WorkloadSettles ==
    ASSUME Inv, SettledInv, WriteWorkload \/ WriteRefused \/ WriteFails \/ MountsFail
    PROVE  SettledInv'
<1>1. UNCHANGED <<objectVars, cache>> /\ worker.pc = "workload"
  BY DEF WriteWorkload, WriteRefused, WriteFails, MountsFail, AtWorkload
<1>2. worker \in [pc : {"workload", "status"}, debugger : DebuggerType]
  BY <1>1 DEF Inv, WorkerInv, Idle
<1>3. queued' = TRUE \/ worker' = [worker EXCEPT !.pc = "status"]
  BY DEF WriteWorkload, WriteRefused, WriteFails, MountsFail, Retry
<1>4. ~AtRest'
  BY <1>2, <1>3 DEF AtRest, Idle
<1> QED
  BY <1>1, <1>4, StepSettles

(* The last step of a pass compares the copy that is cached by then.       *)
LEMMA StatusSettles ==
    ASSUME Inv, SettledInv, UpdateDebugger \/ StatusFails
    PROVE  SettledInv'
<1>1. UNCHANGED <<cache, inputVars>>
  BY DEF UpdateDebugger, StatusFails
<1>2. CASE UNCHANGED objectVars /\ Retry
  BY <1>1, <1>2, StepSettles DEF Retry, AtRest
<1>3. CASE UNCHANGED objectVars /\ (cache = None \/ ~isChanged(cache))
  <2> SUFFICES ASSUME AtRest' PROVE UpToDate'
    BY <1>1, <1>3, StepSettles
  <2>1. cache = debugger
    BY <1>3 DEF AtRest, objectVars, SettledInv, LastEvent
  <2>2. UpToDate
    BY <1>3, <2>1 DEF UpToDate, Deployable, isChanged
  <2> QED
    BY <1>1, <1>3, <2>2 DEF UpToDate, Deployable, InputsReady, objectVars, inputVars
<1>4. CASE /\ debugger # None /\ cache # None /\ debugger.rev = cache.rev
           /\ Write([debugger EXCEPT !.rev = rev + 1,
                                     !.status = Recorded(cache.spec)])
  <2> DEFINE d == [debugger EXCEPT !.rev = rev + 1, !.status = Recorded(cache.spec)]
  <2>1. /\ debugger \in DebuggerType /\ cache \in DebuggerType
        /\ rev + 1 \in Nat
    BY <1>4 DEF Inv, ObjectInv, Copy
  <2>2. Recorded(cache.spec) \in StatusType
    BY <2>1, RecordedType DEF DebuggerType
  <2>3. d \in Copy
    BY <2>1, <2>2 DEF DebuggerType, Copy
  <2>4. Write(d)
    BY <1>4
  <2> HIDE DEF d
  <2> QED
    BY <2>3, <2>4, WriteSettles DEF Inv
<1> QED
  BY <1>2, <1>3, <1>4 DEF UpdateDebugger, StatusFails

LEMMA NextSettled ==
    ASSUME "input" \notin Disturbances, Inv, SettledInv, [Next]_vars
    PROVE  SettledInv'
<1>1. CASE UNCHANGED vars
  BY <1>1, RestSettles DEF vars, AtRest, objectVars
<1> QED
  BY <1>1, UserSettles, InformersSettle, DeliverSettles, FetchSettles,
     WorkloadSettles, StatusSettles DEF Next, Worker

(* Whatever is edited, recreated, fails or restarts in the middle of a     *)
(* pass, a controller with nothing left to do has recorded a Debugger that *)
(* can be deployed (isChanged, UpdateDebugger).  Nothing tells it of a     *)
(* ConfigMap or Pinger that changes, hence the assumption.                 *)
THEOREM RecordedWhenSettledHolds ==
    ASSUME "input" \notin Disturbances
    PROVE  Spec => []RecordedWhenSettled
<1>1. Inv /\ SettledInv /\ [Next]_vars => SettledInv'
  BY NextSettled
<1>2. SettledInv => RecordedWhenSettled
  BY DEF SettledInv, AtRest, UpToDate, RecordedWhenSettled
<1> QED
  BY <1>1, <1>2, InitSettled, InductiveInv, PTL DEF Spec

-----------------------------------------------------------------------------
(* What a step does to the workloads, to the pass and to the Debugger.     *)

WorkloadStep ==
    \/ UNCHANGED workload
    \/ \E k \in Kinds :
          /\ workload' = [workload EXCEPT ![k] = None]
          /\ \/ "workload" \in Disturbances
             \/ debugger # None => workload[k].owner # debugger.uid
    \/ \E mounted \in BOOLEAN :
          /\ worker.pc = "workload"
          /\ workload' = [workload EXCEPT ![Kind] = WorkloadFor(worker.debugger, mounted)]
          /\ \/ "fault" \in Disturbances
             \/ mounted = getVolumesMounts(worker.debugger.spec)

PassStep ==
    \/ worker' = worker
    \/ worker' = Idle
    \/ /\ cache # None /\ InputsReady(cache.spec)
       /\ worker' = [pc |-> "workload", debugger |-> cache]
    \/ /\ worker.pc = "workload"
       /\ worker' = [worker EXCEPT !.pc = "status"]
       /\ \E w : workload' = [workload EXCEPT ![Kind] = w] /\ w # None

LEMMA AcceptedWorkload ==
    ASSUME Inv, worker.pc = "workload", NEW mounted \in BOOLEAN, Accepted(mounted)
    PROVE  /\ workload' = [workload EXCEPT ![Kind] = WorkloadFor(worker.debugger, mounted)]
           /\ WorkloadFor(worker.debugger, mounted) # None
<1>1. worker.debugger \in DebuggerType
  BY DEF Inv, WorkerInv, Idle
<1>2. WorkloadFor(worker.debugger, mounted) \in WorkloadType
  BY <1>1 DEF WorkloadFor, WorkloadType, DebuggerType
<1> QED
  BY <1>2, NoneAssumption DEF Accepted, SetWorkload

LEMMA NextWorkload == Inv /\ [Next]_vars => WorkloadStep
<1> SUFFICES ASSUME Inv, [Next]_vars PROVE WorkloadStep
  OBVIOUS
<1>1. ASSUME NEW k \in Kinds, Remove(k)
      PROVE  workload' = [workload EXCEPT ![k] = None]
  BY <1>1 DEF Remove, SetWorkload
<1>2. CASE \E k \in Kinds : DeleteWorkload(k) \/ CollectGarbage(k)
  BY <1>1, <1>2 DEF DeleteWorkload, CollectGarbage, Disturb, WorkloadStep
<1>3. \A s : getVolumesMounts(s) \in BOOLEAN
  BY DEF getVolumesMounts
<1>4. CASE WriteWorkload \/ WriteFails \/ MountsFail
  BY <1>3, <1>4, AcceptedWorkload
     DEF WriteWorkload, WriteFails, MountsFail, AtWorkload, Disturb, WorkloadStep,
         workloadVars
<1>5. CASE UNCHANGED workload
  BY <1>5 DEF WorkloadStep
<1>6. CASE UNCHANGED vars
  BY <1>6 DEF vars, workloadVars, WorkloadStep
<1>7. CASE User
  BY <1>2, <1>5, <1>7
     DEF User, EditDebugger, RecreateDebugger, DeleteDebugger, ChangeConfigMap,
         ChangePinger, workloadVars
<1>8. CASE Worker
  BY <1>4, <1>5, <1>8
     DEF Worker, FetchStops, FetchRetries, Fetch, TakeKey, WriteRefused,
         UpdateDebugger, workloadVars
<1>9. CASE Deliver \/ Resync \/ StatusFails \/ Restart \/ \E k \in Kinds : DeliverWorkload(k)
  BY <1>5, <1>9
     DEF Deliver, Resync, StatusFails, Restart, DeliverWorkload, workloadVars
<1> QED
  BY <1>2, <1>4, <1>6, <1>7, <1>8, <1>9 DEF Next

LEMMA NextPass == Inv /\ [Next]_vars => PassStep
<1> SUFFICES ASSUME Inv, [Next]_vars PROVE PassStep
  OBVIOUS
<1>1. CASE User
  BY <1>1
     DEF User, EditDebugger, RecreateDebugger, DeleteDebugger, ChangeConfigMap,
         ChangePinger, DeleteWorkload, Remove, PassStep
<1>2. CASE FetchStops \/ FetchRetries \/ Fetch
  BY <1>2 DEF FetchStops, FetchRetries, Fetch, Retry, PassStep
<1>3. CASE WriteWorkload \/ MountsFail
  <2>1. PICK mounted \in BOOLEAN :
            /\ worker.pc = "workload" /\ Accepted(mounted)
            /\ worker' = [worker EXCEPT !.pc = "status"]
    BY <1>3 DEF WriteWorkload, MountsFail, AtWorkload, getVolumesMounts
  <2> QED
    BY <2>1, AcceptedWorkload DEF PassStep
<1>4. CASE WriteRefused \/ WriteFails \/ UpdateDebugger \/ StatusFails \/ Restart
  BY <1>4
     DEF WriteRefused, WriteFails, UpdateDebugger, StatusFails, Restart, Retry, Done,
         PassStep
<1>5. CASE Deliver \/ Resync \/ \E k \in Kinds : DeliverWorkload(k) \/ CollectGarbage(k)
  BY <1>5 DEF Deliver, Resync, DeliverWorkload, CollectGarbage, Remove, PassStep
<1>6. CASE UNCHANGED vars
  BY <1>6 DEF vars, PassStep
<1> QED
  BY <1>1, <1>2, <1>3, <1>4, <1>5, <1>6 DEF Next, Worker

-----------------------------------------------------------------------------
(* No workload loses its volumes while the inputs stay as they are.        *)

MountedInv ==
    /\ \A k \in Kinds : workload[k] # None => workload[k].mounted
    /\ worker.pc = "workload" => getVolumesMounts(worker.debugger.spec)

LEMMA InputsStay ==
    ASSUME "input" \notin Disturbances, [Next]_vars
    PROVE  UNCHANGED inputVars
<1>1. CASE User
  BY <1>1
     DEF User, EditDebugger, RecreateDebugger, DeleteDebugger, ChangeConfigMap,
         ChangePinger, DeleteWorkload, Remove, Disturb
<1>2. CASE Worker
  BY <1>2
     DEF Worker, FetchStops, FetchRetries, Fetch, TakeKey, WriteWorkload,
         WriteRefused, AtWorkload, UpdateDebugger
<1>3. CASE Deliver \/ Resync \/ \E k \in Kinds : DeliverWorkload(k) \/ CollectGarbage(k)
  BY <1>3 DEF Deliver, Resync, DeliverWorkload, CollectGarbage, Remove
<1>4. CASE WriteFails \/ MountsFail \/ StatusFails \/ Restart
  BY <1>4 DEF WriteFails, MountsFail, StatusFails, Restart, AtWorkload, inputVars
<1>5. CASE UNCHANGED vars
  BY <1>5 DEF vars
<1> QED
  BY <1>1, <1>2, <1>3, <1>4, <1>5 DEF Next

LEMMA NextMounted ==
    ASSUME "input" \notin Disturbances, "fault" \notin Disturbances,
           Inv, MountedInv, [Next]_vars
    PROVE  MountedInv'
<1>1. UNCHANGED inputVars
  BY InputsStay
<1>2. ASSUME NEW k \in Kinds, workload'[k] # None
      PROVE  workload'[k].mounted
  <2>1. workload \in [Kinds -> WorkloadType \cup {None}]
    BY DEF Inv, ClusterInv
  <2>2. CASE UNCHANGED workload
    BY <1>2, <2>2 DEF MountedInv
  <2>3. ASSUME NEW j \in Kinds, workload' = [workload EXCEPT ![j] = None]
        PROVE  workload'[k].mounted
    BY <1>2, <2>1, <2>3 DEF MountedInv
  <2>4. ASSUME worker.pc = "workload", NEW mounted \in BOOLEAN,
               workload' = [workload EXCEPT ![Kind] = WorkloadFor(worker.debugger, mounted)],
               mounted = getVolumesMounts(worker.debugger.spec)
        PROVE  workload'[k].mounted
    <3>1. mounted
      BY <2>4 DEF MountedInv
    <3> QED
      BY <1>2, <2>1, <2>4, <3>1 DEF MountedInv, WorkloadFor
  <2> QED
    BY <2>2, <2>3, <2>4, NextWorkload DEF WorkloadStep
<1>3. ASSUME worker'.pc = "workload"
      PROVE  getVolumesMounts(worker.debugger.spec)'
  <2>1. CASE worker' = worker
    BY <1>1, <1>3, <2>1 DEF MountedInv, getVolumesMounts, inputVars
  <2>2. CASE cache # None /\ InputsReady(cache.spec)
             /\ worker' = [pc |-> "workload", debugger |-> cache]
    BY <1>1, <2>2 DEF InputsReady, getVolumesMounts, inputVars
  <2>3. CASE worker' = Idle
    BY <1>3, <2>3 DEF Idle
  <2>4. CASE worker.pc = "workload" /\ worker' = [worker EXCEPT !.pc = "status"]
    <3>1. worker \in [pc : {"workload", "status"}, debugger : DebuggerType]
      BY <2>4 DEF Inv, WorkerInv, Idle
    <3> QED
      BY <1>3, <2>4, <3>1
  <2> QED
    BY <2>1, <2>2, <2>3, <2>4, NextPass DEF PassStep
<1> QED
  BY <1>2, <1>3 DEF MountedInv

(* The ConfigMap is read twice in a pass, and the second read does not     *)
(* report an error (getVolumesMounts).  Unless the ConfigMap changes       *)
(* between the reads or the second one fails, a recorded Debugger has its  *)
(* ConfigMap mounted, whatever is edited, recreated or restarts.           *)
THEOREM ScriptsMountedHolds ==
    ASSUME "input" \notin Disturbances, "fault" \notin Disturbances
    PROVE  Spec => []ScriptsMounted
<1>1. Inv /\ MountedInv /\ [Next]_vars => MountedInv'
  BY NextMounted
<1>2. Init => MountedInv
  BY DEF Init, MountedInv, Idle
<1>3. Inv /\ MountedInv => ScriptsMounted
  <2> SUFFICES ASSUME Inv, MountedInv, Deployable
               PROVE  LET w == workload[debugger.spec.kind] IN
                      w # None => w.spec # debugger.spec \/ w.mounted
    BY DEF ScriptsMounted
  <2>1. debugger.spec.kind \in Kinds
    BY ConstantsAssumption DEF Deployable, Inv, ObjectInv, Copy, DebuggerType, SpecType
  <2> QED
    BY <2>1 DEF MountedInv
<1> QED
  BY <1>1, <1>2, <1>3, InductiveInv, PTL DEF Spec

-----------------------------------------------------------------------------
(* A recorded Debugger has a workload of its kind.                         *)

OneKind == \A s, t \in Specs : s.kind = t.kind

(* There is only ever the first Debugger.                                  *)
First(d) == d # None => d.uid = 1

FirstInv ==
    /\ debugger # None /\ First(debugger) /\ First(cache)
    /\ \A n \in 1..Len(watch) : First(watch[n])
    /\ worker # Idle => First(worker.debugger)

HasWorkload == \A s \in Specs : workload[s.kind] # None

DeployedInv ==
    /\ FirstInv
    /\ \A k \in Kinds : workload[k] # None => workload[k].owner = 1
    /\ worker.pc = "status" \/ debugger.status # EmptyStatus => HasWorkload

ObjectStep ==
    \/ UNCHANGED <<objectVars, cache>>
    \/ \E d \in DebuggerType :
          /\ Write(d) /\ cache' = cache
          /\ d.uid = debugger.uid
          /\ d.status = debugger.status \/ worker.pc = "status"
    \/ Deliver
    \/ cache' = debugger /\ watch' = <<>> /\ UNCHANGED <<rev, debugger>>

LEMMA NextObject ==
    ASSUME "delete" \notin Disturbances, Inv, [Next]_vars
    PROVE  ObjectStep
<1>1. ASSUME NEW s \in Specs, EditDebugger(s)
      PROVE  ObjectStep
  <2> DEFINE d == [debugger EXCEPT !.rev = rev + 1, !.spec = s]
  <2>1. debugger \in DebuggerType /\ rev + 1 \in Nat
    BY <1>1 DEF EditDebugger, Inv, ObjectInv, Copy
  <2>2. d \in DebuggerType /\ d.uid = debugger.uid /\ d.status = debugger.status
    BY <2>1 DEF DebuggerType
  <2>3. Write(d) /\ cache' = cache
    BY <1>1 DEF EditDebugger
  <2> HIDE DEF d
  <2> QED
    BY <2>2, <2>3 DEF ObjectStep
<1>2. CASE UpdateDebugger
  <2>1. worker.pc = "status" /\ cache' = cache
    BY <1>2 DEF UpdateDebugger
  <2>2. CASE UNCHANGED objectVars
    BY <2>1, <2>2 DEF ObjectStep
  <2>3. CASE /\ debugger # None /\ cache # None
             /\ Write([debugger EXCEPT !.rev = rev + 1,
                                       !.status = Recorded(cache.spec)])
    <3> DEFINE d == [debugger EXCEPT !.rev = rev + 1, !.status = Recorded(cache.spec)]
    <3>1. debugger \in DebuggerType /\ cache \in DebuggerType /\ rev + 1 \in Nat
      BY <2>3 DEF Inv, ObjectInv, Copy
    <3>2. Recorded(cache.spec) \in StatusType
      BY <3>1, RecordedType DEF DebuggerType
    <3>3. d \in DebuggerType /\ d.uid = debugger.uid
      BY <3>1, <3>2 DEF DebuggerType
    <3>4. Write(d)
      BY <2>3
    <3> HIDE DEF d
    <3> QED
      BY <2>1, <3>3, <3>4 DEF ObjectStep
  <2> QED
    BY <1>2, <2>2, <2>3 DEF UpdateDebugger
<1>3. CASE User
  BY <1>1, <1>3
     DEF User, RecreateDebugger, DeleteDebugger, ChangeConfigMap, ChangePinger,
         DeleteWorkload, Remove, Disturb, ObjectStep
<1>4. CASE FetchStops \/ FetchRetries \/ Fetch \/ WriteWorkload \/ WriteRefused
  BY <1>4
     DEF FetchStops, FetchRetries, Fetch, TakeKey, WriteWorkload, WriteRefused,
         AtWorkload, ObjectStep
<1>5. CASE Resync \/ \E k \in Kinds : DeliverWorkload(k) \/ CollectGarbage(k)
  BY <1>5 DEF Resync, DeliverWorkload, CollectGarbage, Remove, ObjectStep
<1>6. CASE WriteFails \/ MountsFail \/ StatusFails \/ Restart
  BY <1>6 DEF WriteFails, MountsFail, StatusFails, AtWorkload, Restart, ObjectStep
<1>7. CASE UNCHANGED vars
  BY <1>7 DEF vars, ObjectStep
<1> QED
  BY <1>2, <1>3, <1>4, <1>5, <1>6, <1>7 DEF Next, Worker, ObjectStep

LEMMA NextFirst ==
    ASSUME "delete" \notin Disturbances, Inv, FirstInv, [Next]_vars
    PROVE  FirstInv'
<1>1. /\ debugger' # None /\ First(debugger') /\ First(cache')
      /\ \A n \in 1..Len(watch') : First(watch'[n])
  <2>1. CASE UNCHANGED <<objectVars, cache>>
    BY <2>1 DEF FirstInv, objectVars
  <2>2. ASSUME NEW d \in DebuggerType, Write(d), cache' = cache, d.uid = debugger.uid
        PROVE  <1>1
    <3>1. /\ watch \in Seq(Copy) /\ d \in Copy
          /\ debugger' = d /\ watch' = Append(watch, d)
      BY <2>2 DEF Inv, ObjectInv, Write, Copy
    <3>2. /\ Len(watch') = Len(watch) + 1 /\ Len(watch) \in Nat
          /\ \A n \in 1..Len(watch) : watch'[n] = watch[n]
          /\ watch'[Len(watch) + 1] = d
      BY <3>1, Appending
    <3>3. First(d) /\ d # None
      BY <2>2, NoneAssumption DEF FirstInv, First
    <3>4. \A n \in 1..Len(watch') : n \in 1..Len(watch) \/ n = Len(watch) + 1
      BY <3>2
    <3> QED
      BY <2>2, <3>1, <3>2, <3>3, <3>4 DEF FirstInv
  <2>3. CASE Deliver
    <3>1. /\ watch \in Seq(Copy) /\ watch # <<>> /\ watch' = Tail(watch)
          /\ cache' = Head(watch) /\ debugger' = debugger
      BY <2>3 DEF Deliver, Inv, ObjectInv
    <3>2. /\ Len(watch) \in Nat \ {0} /\ Len(watch') = Len(watch) - 1
          /\ \A n \in 1..(Len(watch) - 1) : watch'[n] = watch[n + 1]
          /\ cache' = watch[1]
      BY <3>1, Beheading
    <3> QED
      BY <3>1, <3>2 DEF FirstInv
  <2>4. CASE cache' = debugger /\ watch' = <<>> /\ UNCHANGED <<rev, debugger>>
    BY <2>4, EmptySeq DEF FirstInv
  <2> QED
    BY <2>1, <2>2, <2>3, <2>4, NextObject DEF ObjectStep
<1>2. worker' # Idle => First(worker'.debugger)
  <2>1. CASE worker.pc = "workload" /\ worker' = [worker EXCEPT !.pc = "status"]
    <3>1. worker \in [pc : {"workload", "status"}, debugger : DebuggerType]
      BY <2>1 DEF Inv, WorkerInv, Idle
    <3> QED
      BY <2>1, <3>1 DEF FirstInv, Idle
  <2> QED
    BY <2>1, NextPass DEF PassStep, FirstInv
<1> QED
  BY <1>1, <1>2 DEF FirstInv, First

LEMMA NextDeployed ==
    ASSUME "delete" \notin Disturbances, "workload" \notin Disturbances, OneKind,
           Inv, DeployedInv, [Next]_vars
    PROVE  DeployedInv'
<1>1. FirstInv'
  BY NextFirst DEF DeployedInv
<1>2. workload \in [Kinds -> WorkloadType \cup {None}]
  BY DEF Inv, ClusterInv
<1>3. ~\E k \in Kinds : /\ workload' = [workload EXCEPT ![k] = None]
                        /\ debugger # None => workload[k].owner # debugger.uid
                        /\ workload[k] # None
  BY DEF DeployedInv, FirstInv, First
<1>4. worker.pc = "workload" => \A s \in Specs : s.kind = Kind /\ Kind \in Kinds
  <2>1. worker.pc = "workload" => worker.debugger \in DebuggerType
    BY DEF Inv, WorkerInv, Idle
  <2> QED
    BY <2>1, ConstantsAssumption DEF OneKind, Kind, DebuggerType, SpecType
<1>5. ASSUME NEW mounted \in BOOLEAN, worker.pc = "workload",
             workload' = [workload EXCEPT ![Kind] = WorkloadFor(worker.debugger, mounted)]
      PROVE  /\ \A k \in Kinds : workload'[k] # None => workload'[k].owner = 1
             /\ HasWorkload'
  <2>1. worker # Idle /\ worker.debugger \in DebuggerType
    BY <1>5 DEF Inv, WorkerInv, Idle
  <2>2. WorkloadFor(worker.debugger, mounted) \in WorkloadType
    BY <2>1 DEF WorkloadFor, WorkloadType, DebuggerType
  <2>3. WorkloadFor(worker.debugger, mounted).owner = 1
    BY <2>1, NoneAssumption DEF WorkloadFor, DeployedInv, FirstInv, First
  <2> QED
    BY <1>2, <1>4, <1>5, <2>2, <2>3, NoneAssumption DEF DeployedInv, HasWorkload
<1>6. /\ \A k \in Kinds : workload'[k] # None => workload'[k].owner = 1
      /\ HasWorkload => HasWorkload'
  BY <1>2, <1>3, <1>5, NextWorkload DEF WorkloadStep, DeployedInv, HasWorkload
<1>7. worker'.pc = "status" => worker.pc = "status" \/ HasWorkload'
  <2>1. ASSUME NEW w, worker.pc = "workload", w # None,
               workload' = [workload EXCEPT ![Kind] = w]
        PROVE  HasWorkload'
    BY <1>2, <1>4, <2>1 DEF HasWorkload
  <2> QED
    BY <2>1, NextPass DEF PassStep, Idle
<1>8. debugger'.status # EmptyStatus => worker.pc = "status" \/ debugger.status # EmptyStatus
  BY NextObject DEF ObjectStep, objectVars, Write, Deliver
<1> QED
  BY <1>1, <1>6, <1>7, <1>8 DEF DeployedInv

(* The status is written last (UpdateDebugger), so a Debugger recorded as  *)
(* up to date has a workload of its kind, whatever fails, restarts or      *)
(* happens to its inputs; if its kind is never edited and neither it nor   *)
(* its workload is deleted (a recorded Debugger is left alone).            *)
THEOREM DeployedWhenRecordedHolds ==
    ASSUME "delete" \notin Disturbances, "workload" \notin Disturbances, OneKind
    PROVE  Spec => []DeployedWhenRecorded
<1>1. Inv /\ DeployedInv /\ [Next]_vars => DeployedInv'
  BY NextDeployed
<1>2. Init => DeployedInv
  <2> SUFFICES ASSUME Init PROVE DeployedInv
    OBVIOUS
  <2>1. PICK s \in Specs : debugger = NewDebugger(1, s)
    BY DEF Init
  <2>2. debugger \in DebuggerType /\ debugger.uid = 1 /\ debugger.status = EmptyStatus
    BY <2>1, NewDebuggerType DEF NewDebugger
  <2>3. Len(watch) = 1 /\ watch[1] = debugger
    BY DEF Init
  <2>4. FirstInv
    BY <2>2, <2>3, NoneAssumption DEF Init, FirstInv, First
  <2> QED
    BY <2>2, <2>4 DEF Init, DeployedInv, Idle
<1>3. Inv /\ DeployedInv => DeployedWhenRecorded
  <2> SUFFICES ASSUME Inv, DeployedInv,
                      debugger # None, debugger.status = Recorded(debugger.spec)
               PROVE  workload[debugger.spec.kind] # None
    BY DEF DeployedWhenRecorded
  <2>1. debugger.spec \in Specs /\ debugger.spec.kind \in Kinds
    BY ConstantsAssumption DEF Inv, ObjectInv, Copy, DebuggerType, SpecType
  <2>2. debugger.status # EmptyStatus
    BY <2>1 DEF Recorded, EmptyStatus, Kinds, Unset
  <2> QED
    BY <2>1, <2>2 DEF DeployedInv, HasWorkload
<1> QED
  BY <1>1, <1>2, <1>3, InductiveInv, PTL DEF Spec
=============================================================================

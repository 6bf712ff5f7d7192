----------------------------- MODULE VpnGwProofs -----------------------------
(***************************************************************************)
(* Proofs about VpnGw: for any specs, connections, pods, edits and         *)
(* failures, no workload is deployed without a router ID it needs, a       *)
(* status is computed from the spec it is stored with, and a pass that     *)
(* gets to the status has put its connections into its pods.               *)
(***************************************************************************)
EXTENDS VpnGw, Events

-----------------------------------------------------------------------------
(* The inductive invariant.                                                *)

Copy == GwType \cup {None}

(* A copy that has the version of the stored gateway is that gateway.      *)
OldCopy(g, stored, r) ==
    g # None => /\ g.rev <= r
                /\ stored # None /\ g.rev = stored.rev => g = stored

GwInv ==
    /\ rev \in Nat /\ gw \in Copy /\ gwCache \in Copy /\ gwWatch \in Seq(Copy)
    /\ OldCopy(gw, gw, rev)
    /\ OldCopy(gwCache, gw, rev)
    /\ \A n \in 1..Len(gwWatch) : OldCopy(gwWatch[n], gw, rev)

ClusterInv ==
    /\ ka \in KaType
    /\ conns \in [Conns -> ConnStates]
    /\ workload \in [Kinds -> WorkloadType \cup {None}]
    /\ seen \subseteq Kinds
    /\ owned \in BOOLEAN /\ queued \in BOOLEAN
    /\ pods \in [Pods -> PodType \cup {None}]
    /\ budget \in 0..Budget

(* The cache holds pods, and the history its marks.                        *)
ViewInv == podSeen \subseteq Pods /\ hist \subseteq Marks

(* What a pass knows: the router ID of a gateway that needs one, and that  *)
(* a pod the command has run in has its connections or has restarted.      *)
Pass == [pc : {"workload", "connections", "exec", "status"}, gw : GwType,
         routerID : RouterIDs, conns : SUBSET Conns, cmd : SUBSET Conns,
         pods : SUBSET Pods, todo : SUBSET Pods, allRunning : BOOLEAN]

PassInv(w) ==
    /\ w \in Pass
    /\ w.gw.spec.keepalived => w.routerID # 0
    /\ w.pc \in {"workload", "connections"} => w.pods = {} /\ w.todo = {}
    /\ w.pc = "status" => w.todo = {}

Ran(w, ps) ==
    \A p \in w.pods \ w.todo : ps[p] # None => ps[p].loaded \in {w.cmd, {}}

WorkerInv == worker = Idle \/ (PassInv(worker) /\ Ran(worker, pods))

Inv == GwInv /\ ClusterInv /\ WorkerInv /\ RouterIDReady /\ ViewInv

-----------------------------------------------------------------------------
(* The objects.                                                            *)

LEMMA SpecFields ==
    \A s \in Specs :
        /\ s.kind \in Kinds
        /\ s.keepalived \in BOOLEAN /\ s.ssl \in BOOLEAN /\ s.ipsec \in BOOLEAN
        /\ s.res \in Values /\ s.sslCfg \in Values
        /\ s.ipsecImage \in Values \cup {Unset}
BY ConstantsAssumption DEF SpecType

LEMMA NewGwType ==
    \A uid \in Nat, s \in Specs : NewGw(uid, s) \in GwType /\ NewGw(uid, s).rev = uid
BY DEF NewGw, GwType, EmptyStatus, StatusType

LEMMA NewStatusType ==
    ASSUME NEW g \in GwType, NEW cs \in SUBSET Conns
    PROVE  NewStatus(g, cs) \in StatusType /\ NewStatus(g, cs).res = g.spec.res
<1>1. g.spec \in Specs /\ g.status \in StatusType
  BY DEF GwType
<1> QED
  BY <1>1, SpecFields DEF NewStatus, StatusType

LEMMA InitInv == Init => Inv
<1> SUFFICES ASSUME Init PROVE Inv
  OBVIOUS
<1>1. PICK s \in Specs : gw = NewGw(1, s)
  BY DEF Init
<1>2. gw \in GwType /\ gw.rev = 1
  BY <1>1, NewGwType
<1>3. gwWatch \in Seq(Copy) /\ Len(gwWatch) = 1 /\ gwWatch[1] = gw
  BY <1>2 DEF Init, Copy
<1>4. GwInv
  BY <1>2, <1>3 DEF Init, GwInv, OldCopy, Copy
<1>5. ClusterInv
  <2>1. budget \in 0..Budget
    BY ConstantsAssumption DEF Init
  <2>2. workload \in [Kinds -> WorkloadType \cup {None}]
    BY DEF Init
  <2>3. pods \in [Pods -> PodType \cup {None}]
    BY DEF Init
  <2>4. conns \in [Conns -> ConnStates]
    BY DEF Init, ConnStates
  <2>5. ka \in KaType
    BY DEF Init, KaType, RouterIDs
  <2>6. seen \subseteq Kinds /\ owned \in BOOLEAN /\ queued \in BOOLEAN
    BY DEF Init
  <2> QED
    BY <2>1, <2>2, <2>3, <2>4, <2>5, <2>6 DEF ClusterInv
<1>6. RouterIDReady
  BY DEF Init, RouterIDReady
<1>7. ViewInv
  BY DEF Init, ViewInv
<1> QED
  BY <1>4, <1>5, <1>6, <1>7 DEF Init, Inv, WorkerInv

-----------------------------------------------------------------------------
(* The gateway and its versions.                                           *)

StatusStep ==
    gw # None /\ gw' # None /\ gw'.status # gw.status /\ gw'.uid = gw.uid
      => gw'.status.res = gw'.spec.res

(* A write makes every copy there is an old one.                           *)
LEMMA WriteInv ==
    ASSUME GwInv, NEW g \in Copy, g # None => g.rev = rev + 1,
           WriteGw(g), gwCache' = gwCache
    PROVE  GwInv'
<1>1. /\ rev \in Nat /\ rev' = rev + 1 /\ gw' = g
      /\ gwWatch \in Seq(Copy) /\ gwWatch' = Append(gwWatch, g)
  BY DEF GwInv, WriteGw
<1>2. /\ gwWatch' \in Seq(Copy) /\ Len(gwWatch') = Len(gwWatch) + 1
      /\ Len(gwWatch) \in Nat
      /\ \A n \in 1..Len(gwWatch) : gwWatch'[n] = gwWatch[n]
      /\ gwWatch'[Len(gwWatch) + 1] = g
  BY <1>1, Appending
<1>3. OldCopy(g, g, rev')
  BY <1>1 DEF OldCopy
<1>4. ASSUME NEW c \in Copy, OldCopy(c, gw, rev)
      PROVE  OldCopy(c, g, rev')
  <2>1. CASE c # None
    <3>1. c.rev \in Nat /\ c.rev <= rev
      BY <1>4, <2>1 DEF Copy, GwType, OldCopy
    <3> QED
      BY <1>1, <3>1 DEF OldCopy
  <2>2. CASE c = None
    BY <2>2 DEF OldCopy
  <2> QED
    BY <2>1, <2>2
<1>5. OldCopy(gwCache, g, rev')
  BY <1>4 DEF GwInv
<1>6. ASSUME NEW n \in 1..Len(gwWatch')
      PROVE  OldCopy(gwWatch'[n], g, rev')
  <2>1. CASE n = Len(gwWatch) + 1
    BY <1>2, <1>3, <2>1
  <2>2. CASE n # Len(gwWatch) + 1
    <3>1. n \in 1..Len(gwWatch) /\ gwWatch'[n] = gwWatch[n]
      BY <1>2, <2>2
    <3>2. gwWatch[n] \in Copy
      BY <1>1, <3>1, ElementOfSeq
    <3> QED
      BY <1>4, <3>1, <3>2 DEF GwInv
  <2> QED
    BY <2>1, <2>2
<1> QED
  BY <1>1, <1>2, <1>3, <1>5, <1>6 DEF GwInv

LEMMA UserWritesInv ==
    ASSUME GwInv, (\E s \in Specs : EditGw(s) \/ RecreateGw(s)) \/ DeleteGw
    PROVE  GwInv' /\ StatusStep
<1>1. rev + 1 \in Nat /\ gw \in Copy
  BY DEF GwInv
<1>2. ASSUME NEW s \in Specs, EditGw(s)
      PROVE  GwInv' /\ StatusStep
  <2> DEFINE g == [gw EXCEPT !.rev = rev + 1, !.spec = s]
  <2>1. gw \in GwType
    BY <1>1, <1>2 DEF EditGw, Copy
  <2>2. g \in GwType /\ g.rev = rev + 1 /\ g.status = gw.status
    BY <1>1, <2>1 DEF GwType
  <2>3. WriteGw(g) /\ gwCache' = gwCache /\ gw' = g
    BY <1>2 DEF EditGw, UserWrites, WriteGw
  <2> HIDE DEF g
  <2> QED
    BY <2>2, <2>3, WriteInv DEF Copy, StatusStep
<1>3. ASSUME NEW s \in Specs, RecreateGw(s)
      PROVE  GwInv' /\ StatusStep
  <2>1. gw = None /\ gwCache' = gwCache /\ WriteGw(NewGw(rev + 1, s))
    BY <1>3 DEF RecreateGw, UserWrites
  <2>2. NewGw(rev + 1, s) \in Copy /\ NewGw(rev + 1, s).rev = rev + 1
    BY <1>1, NewGwType DEF Copy
  <2> QED
    BY <2>1, <2>2, WriteInv DEF StatusStep
<1>4. CASE DeleteGw
  <2>1. WriteGw(None) /\ gwCache' = gwCache /\ gw' = None
    BY <1>4 DEF DeleteGw, UserWrites, WriteGw
  <2> QED
    BY <2>1, WriteInv DEF Copy, StatusStep
<1> QED
  BY <1>2, <1>3, <1>4

(* The version of the cached copy is checked, so the status was computed   *)
(* from the stored spec.                                                   *)
LEMMA StatusWrites ==
    ASSUME Inv, UpdateVpnGW
    PROVE  GwInv' /\ StatusStep
<1>1. gwCache' = gwCache /\ GwInv /\ worker.conns \in SUBSET Conns
  BY DEF UpdateVpnGW, Inv, WorkerInv, PassInv, Pass, Idle
<1>2. CASE UNCHANGED gwVars
  BY <1>1, <1>2 DEF GwInv, OldCopy, StatusStep, gwVars
<1>3. CASE /\ gw # None /\ gwCache # None /\ gw.rev = gwCache.rev
           /\ WriteGw([gw EXCEPT !.rev = rev + 1,
                                 !.status = NewStatus(gwCache, worker.conns)])
  <2>1. PICK x \in GwType : x = gw /\ x = gwCache
    BY <1>1, <1>3 DEF GwInv, OldCopy, Copy
  <2>2. PICK r \in Nat : r = rev + 1
    BY <1>1 DEF GwInv
  <2>3. PICK st \in StatusType : st = NewStatus(x, worker.conns) /\ st.res = x.spec.res
    BY <1>1, NewStatusType
  <2> DEFINE g == [x EXCEPT !.rev = r, !.status = st]
  <2>4. g \in GwType /\ g.rev = r /\ g.spec = x.spec /\ g.status = st
    BY DEF GwType
  <2>5. WriteGw(g) /\ gw' = g
    BY <1>3, <2>1, <2>2, <2>3 DEF WriteGw
  <2> HIDE DEF g
  <2> QED
    BY <1>1, <2>2, <2>3, <2>4, <2>5, WriteInv DEF Copy, StatusStep
<1> QED
  BY <1>2, <1>3 DEF UpdateVpnGW

LEMMA DeliverInv == GwInv /\ DeliverGw => GwInv' /\ StatusStep
<1> SUFFICES ASSUME GwInv, DeliverGw PROVE GwInv' /\ StatusStep
  OBVIOUS
<1>1. /\ gwWatch \in Seq(Copy) /\ gwWatch # <<>> /\ gwWatch' = Tail(gwWatch)
      /\ gwCache' = Head(gwWatch) /\ rev' = rev /\ gw' = gw
  BY DEF DeliverGw, GwInv
<1>2. /\ gwWatch' \in Seq(Copy)
      /\ Len(gwWatch) \in Nat \ {0} /\ Len(gwWatch') = Len(gwWatch) - 1
      /\ \A n \in 1..(Len(gwWatch) - 1) : gwWatch'[n] = gwWatch[n + 1]
      /\ gwCache' = gwWatch[1] /\ gwCache' \in Copy
  BY <1>1, Beheading
<1>3. OldCopy(gwCache', gw', rev')
  BY <1>1, <1>2 DEF GwInv
<1>4. \A n \in 1..Len(gwWatch') : OldCopy(gwWatch'[n], gw', rev')
  BY <1>1, <1>2 DEF GwInv
<1>5. OldCopy(gw', gw', rev')
  BY <1>1 DEF GwInv
<1> QED
  BY <1>1, <1>2, <1>3, <1>4, <1>5 DEF GwInv, StatusStep

LEMMA RestartGwInv == GwInv /\ Restart => GwInv' /\ StatusStep
<1> SUFFICES ASSUME GwInv, Restart PROVE GwInv' /\ StatusStep
  OBVIOUS
<1>1. gwCache' = gw /\ gwWatch' = <<>> /\ rev' = rev /\ gw' = gw
  BY DEF Restart
<1>2. gwWatch' \in Seq(Copy) /\ \A n \in 1..Len(gwWatch') : FALSE
  BY <1>1, EmptySeq
<1> QED
  BY <1>1, <1>2 DEF GwInv, StatusStep

(* No other action writes the gateway, or moves a copy of it.              *)
LEMMA OthersInv == GwInv /\ UNCHANGED <<gwVars, gwCache>> => GwInv' /\ StatusStep
BY DEF GwInv, StatusStep, gwVars

LEMMA NextGwInv == Inv /\ [Next]_vars => GwInv' /\ StatusStep
<1> SUFFICES ASSUME Inv, [Next]_vars PROVE GwInv' /\ StatusStep
  OBVIOUS
<1>1. GwInv
  BY DEF Inv
<1>2. CASE User
  <2>1. CASE (\E s \in Specs : EditGw(s) \/ RecreateGw(s)) \/ DeleteGw
    BY <1>1, <2>1, UserWritesInv
  <2>2. CASE \/ \E state \in {"missing", "invalid", "valid"} : ReplaceKeepAlived(state)
             \/ \E c \in Conns, state \in ConnStates : ChangeConn(c, state)
    BY <1>1, <2>2, OthersInv DEF ReplaceKeepAlived, ChangeConn
  <2>3. CASE \E k \in Kinds : DeleteWorkload(k)
    BY <1>1, <2>3, OthersInv DEF DeleteWorkload, Remove
  <2> QED
    BY <1>2, <2>1, <2>2, <2>3 DEF User
<1>3. CASE Kubernetes
  BY <1>1, <1>3, OthersInv
     DEF Kubernetes, CollectGarbage, Remove, StartPod, StopPod, CreatePod, SetPod
<1>4. CASE Worker
  <2>1. CASE FetchStops \/ FetchRetries \/ Fetch
    BY <1>1, <2>1, OthersInv DEF FetchStops, FetchRetries, Fetch, TakeKey
  <2>2. CASE WriteWorkload \/ WriteRefused \/ WorkloadUnchanged
    BY <1>1, <2>2, OthersInv
       DEF WriteWorkload, WriteRefused, WorkloadUnchanged, AtWorkload
  <2>3. CASE RefreshConns \/ (\E p \in Pods : Exec(p)) \/ ExecDone
    BY <1>1, <2>3, OthersInv DEF RefreshConns, Exec, ExecDone
  <2> QED
    BY <1>4, <2>1, <2>2, <2>3, StatusWrites DEF Worker
<1>5. CASE AssignRouterID \/ DeliverOwned \/ DeliverPods \/ Resync
  BY <1>1, <1>5, OthersInv DEF AssignRouterID, DeliverOwned, DeliverPods, Resync
<1>6. CASE Failure
  BY <1>1, <1>6, OthersInv, RestartGwInv
     DEF Failure, WriteFails, AtWorkload, StatusFails, ExecFails, RestartPod, SetPod
<1>7. CASE UNCHANGED vars
  BY <1>1, <1>7, OthersInv DEF vars
<1> QED
  BY <1>1, <1>2, <1>3, <1>4, <1>5, <1>6, <1>7, DeliverInv DEF Next, Informer

-----------------------------------------------------------------------------
(* The cluster.                                                            *)

RestInv == ClusterInv /\ WorkerInv /\ RouterIDReady

(* What may happen to a pod while the worker's back is turned.             *)
Kept(p, pod) ==
    \/ pod = None
    \/ pod.loaded = {}
    \/ pods[p] # None /\ pod.loaded = pods[p].loaded

LEMMA Spending == \A what : budget \in 0..Budget /\ Disturb(what) => budget' \in 0..Budget
BY ConstantsAssumption DEF Disturb

LEMMA PassTyped ==
    ASSUME NEW w, PassInv(w)
    PROVE  /\ w \in Pass /\ w.pc \in {"workload", "connections", "exec", "status"}
           /\ w.gw \in GwType /\ w.gw.spec \in Specs /\ w.gw.spec.kind \in Kinds
           /\ w.routerID \in RouterIDs /\ w.cmd \in SUBSET Conns
           /\ w.pods \in SUBSET Pods /\ w.todo \in SUBSET Pods
BY SpecFields DEF PassInv, Pass, GwType

LEMMA SetPodTypes ==
    ASSUME ClusterInv, NEW p \in Pods, NEW pod \in PodType \cup {None},
           pods' = [pods EXCEPT ![p] = pod]
    PROVE  /\ pods' \in [Pods -> PodType \cup {None}]
           /\ pods'[p] = pod /\ \A q \in Pods : q # p => pods'[q] = pods[q]
BY DEF ClusterInv

LEMMA SetPodInv ==
    ASSUME Inv, NEW p \in Pods, NEW pod \in PodType \cup {None}, Kept(p, pod),
           SetPod(p, pod), budget' \in 0..Budget
    PROVE  RestInv'
<1>1. /\ pods' = [pods EXCEPT ![p] = pod] /\ owned' = TRUE
      /\ UNCHANGED <<ka, conns, workload, seen, queued, worker>>
  BY DEF SetPod
<1>2. /\ pods' \in [Pods -> PodType \cup {None}]
      /\ pods'[p] = pod /\ \A q \in Pods : q # p => pods'[q] = pods[q]
  BY <1>1, SetPodTypes DEF Inv
<1>3. ClusterInv'
  BY <1>1, <1>2 DEF Inv, ClusterInv
<1>4. RouterIDReady'
  BY <1>1 DEF Inv, RouterIDReady
<1>5. ASSUME PassInv(worker), Ran(worker, pods)
      PROVE  Ran(worker, pods')
  BY <1>2, <1>5, PassTyped DEF Ran, Kept
<1>6. WorkerInv'
  BY <1>1, <1>5 DEF Inv, WorkerInv
<1> QED
  BY <1>3, <1>4, <1>6 DEF RestInv

LEMMA SetWorkloadInv ==
    ASSUME Inv, NEW k \in Kinds, NEW w \in WorkloadType \cup {None},
           w # None /\ w.spec.keepalived => w.routerID # 0,
           workload' = [workload EXCEPT ![k] = w]
    PROVE  workload' \in [Kinds -> WorkloadType \cup {None}] /\ RouterIDReady'
BY DEF Inv, ClusterInv, RouterIDReady

LEMMA RemoveInv ==
    ASSUME Inv, NEW k \in Kinds, Remove(k), budget' \in 0..Budget
    PROVE  RestInv'
<1>1. /\ workload' = [workload EXCEPT ![k] = None] /\ owned' = TRUE
      /\ UNCHANGED <<ka, conns, seen, pods, queued, worker>>
  BY DEF Remove
<1>2. workload' \in [Kinds -> WorkloadType \cup {None}] /\ RouterIDReady'
  BY <1>1, SetWorkloadInv
<1>3. ClusterInv'
  BY <1>1, <1>2 DEF Inv, ClusterInv
<1>4. WorkerInv'
  BY <1>1 DEF Inv, WorkerInv
<1> QED
  BY <1>2, <1>3, <1>4 DEF RestInv

LEMMA KubernetesInv == Inv /\ Kubernetes => RestInv'
<1> SUFFICES ASSUME Inv, Kubernetes PROVE RestInv'
  OBVIOUS
<1>1. /\ budget \in 0..Budget /\ pods \in [Pods -> PodType \cup {None}]
      /\ workload \in [Kinds -> WorkloadType \cup {None}]
  BY DEF Inv, ClusterInv
<1>2. ASSUME NEW p \in Pods, StartPod(p)
      PROVE  RestInv'
  <2>1. pods[p] \in PodType /\ pods[p] # None
    BY <1>1, <1>2 DEF StartPod
  <2> DEFINE pod == [pods[p] EXCEPT !.state = "up"]
  <2>2. pod \in PodType /\ pod.loaded = pods[p].loaded
    BY <2>1 DEF PodType
  <2>3. SetPod(p, pod) /\ budget' = budget
    BY <1>2 DEF StartPod
  <2> HIDE DEF pod
  <2> QED
    BY <1>1, <2>1, <2>2, <2>3, SetPodInv DEF Kept
<1>3. ASSUME NEW p \in Pods, StopPod(p)
      PROVE  RestInv'
  BY <1>1, <1>3, SetPodInv DEF StopPod, Kept
<1>4. ASSUME NEW p \in Pods, NEW k \in Kinds, CreatePod(p, k)
      PROVE  RestInv'
  <2>1. workload[k].spec \in Specs
    BY <1>1, <1>4 DEF CreatePod, WorkloadType
  <2> DEFINE pod == [kind |-> k, spec |-> workload[k].spec, state |-> "pending",
                     loaded |-> {}]
  <2>2. pod \in PodType /\ pod.loaded = {}
    BY <2>1 DEF PodType
  <2>3. SetPod(p, pod) /\ budget' = budget
    BY <1>4 DEF CreatePod
  <2> HIDE DEF pod
  <2> QED
    BY <1>1, <2>2, <2>3, SetPodInv DEF Kept
<1>5. ASSUME NEW k \in Kinds, CollectGarbage(k)
      PROVE  RestInv'
  BY <1>1, <1>5, RemoveInv DEF CollectGarbage
<1> QED
  BY <1>2, <1>3, <1>4, <1>5 DEF Kubernetes

(* No step of these touches what the cluster runs or the worker knows.     *)
LEMMA InputsInv ==
    ASSUME Inv, UNCHANGED <<workload, pods, worker>>,
           ka' \in KaType, conns' \in [Conns -> ConnStates], seen' \subseteq Kinds,
           owned' \in BOOLEAN, queued' \in BOOLEAN, budget' \in 0..Budget
    PROVE  RestInv'
<1>1. ClusterInv'
  BY DEF Inv, ClusterInv
<1>2. WorkerInv' /\ RouterIDReady'
  BY DEF Inv, WorkerInv, RouterIDReady
<1> QED
  BY <1>1, <1>2 DEF RestInv

LEMMA UserInv == Inv /\ User => RestInv'
<1> SUFFICES ASSUME Inv, User PROVE RestInv'
  OBVIOUS
<1>1. budget \in 0..Budget
  BY DEF Inv, ClusterInv
<1>2. CASE (\E s \in Specs : EditGw(s) \/ RecreateGw(s)) \/ DeleteGw
  <2>1. /\ UNCHANGED <<ka, conns, clusterVars, queued, worker>>
        /\ budget' \in 0..Budget
    BY <1>1, <1>2, Spending DEF EditGw, RecreateGw, DeleteGw
  <2> QED
    BY <2>1, InputsInv DEF Inv, ClusterInv, clusterVars
<1>3. ASSUME NEW state \in {"missing", "invalid", "valid"}, ReplaceKeepAlived(state)
      PROVE  RestInv'
  <2>1. /\ UNCHANGED <<conns, clusterVars, queued, worker>>
        /\ budget' \in 0..Budget /\ ka' \in KaType
    BY <1>1, <1>3, Spending DEF ReplaceKeepAlived, KaType, RouterIDs
  <2> QED
    BY <2>1, InputsInv DEF Inv, ClusterInv, clusterVars
<1>4. ASSUME NEW c \in Conns, NEW state \in ConnStates, ChangeConn(c, state)
      PROVE  RestInv'
  <2>1. /\ UNCHANGED <<ka, clusterVars, queued, worker>>
        /\ budget' \in 0..Budget /\ conns' \in [Conns -> ConnStates]
    BY <1>1, <1>4, Spending DEF ChangeConn, Inv, ClusterInv
  <2> QED
    BY <2>1, InputsInv DEF Inv, ClusterInv, clusterVars
<1>5. ASSUME NEW k \in Kinds, DeleteWorkload(k)
      PROVE  RestInv'
  BY <1>1, <1>5, Spending, RemoveInv DEF DeleteWorkload
<1> QED
  BY <1>2, <1>3, <1>4, <1>5 DEF User

LEMMA InformerInv == Inv /\ (AssignRouterID \/ Informer \/ Resync) => RestInv'
<1> SUFFICES ASSUME Inv, AssignRouterID \/ Informer \/ Resync PROVE RestInv'
  OBVIOUS
<1>1. UNCHANGED <<conns, workload, pods, worker, budget>>
  BY DEF AssignRouterID, Informer, DeliverGw, DeliverOwned, DeliverPods, Resync,
         clusterVars
<1>2. ka' \in KaType
  <2>1. ka \in KaType
    BY DEF Inv, ClusterInv
  <2>2. [ka EXCEPT !.routerID = 1] \in KaType
    BY <2>1 DEF KaType, RouterIDs
  <2> QED
    BY <2>1, <2>2
       DEF AssignRouterID, Informer, DeliverGw, DeliverOwned, DeliverPods, Resync
<1>3. seen' \subseteq Kinds /\ owned' \in BOOLEAN /\ queued' \in BOOLEAN
  BY DEF AssignRouterID, Informer, DeliverGw, DeliverOwned, DeliverPods, Resync,
         clusterVars, Inv, ClusterInv
<1> QED
  BY <1>1, <1>2, <1>3, InputsInv DEF Inv, ClusterInv

-----------------------------------------------------------------------------
(* The worker.                                                             *)

LEMMA QueueStays == ASSUME ClusterInv, Retry \/ Done PROVE queued' \in BOOLEAN
BY DEF ClusterInv, Retry, Done

(* A step of the worker that leaves the cluster alone.                     *)
LEMMA WorkerStepInv ==
    ASSUME Inv, UNCHANGED <<ka, conns, clusterVars>>,
           queued' \in BOOLEAN, budget' \in 0..Budget,
           \/ worker' = worker
           \/ worker' = Idle
           \/ PassInv(worker') /\ Ran(worker', pods)
    PROVE  RestInv'
<1>1. ClusterInv'
  BY DEF Inv, ClusterInv, clusterVars
<1>2. RouterIDReady'
  BY DEF Inv, RouterIDReady, clusterVars
<1>3. WorkerInv'
  BY DEF Inv, WorkerInv, clusterVars
<1> QED
  BY <1>1, <1>2, <1>3 DEF RestInv

(* The next place in the handler.                                          *)
LEMMA Moving ==
    ASSUME NEW w, PassInv(w), NEW ps, Ran(w, ps),
           NEW pc \in {"connections", "status"}, w.todo = {},
           pc = "connections" => w.pods = {}
    PROVE  PassInv([w EXCEPT !.pc = pc]) /\ Ran([w EXCEPT !.pc = pc], ps)
<1> DEFINE v == [w EXCEPT !.pc = pc]
<1>1. w \in Pass /\ (w.gw.spec.keepalived => w.routerID # 0)
  BY DEF PassInv
<1>2. /\ v \in Pass /\ v.pc = pc /\ v.gw = w.gw /\ v.routerID = w.routerID
      /\ v.pods = w.pods /\ v.todo = w.todo /\ v.cmd = w.cmd
  BY <1>1 DEF Pass
<1> HIDE DEF v
<1>3. PassInv(v)
  BY <1>1, <1>2 DEF PassInv
<1>4. Ran(v, ps)
  BY <1>2 DEF Ran
<1> QED
  BY <1>3, <1>4 DEF v

Fetching(g, r) == [Idle EXCEPT !.pc = "workload", !.gw = g, !.routerID = r]

LEMMA Fetched ==
    ASSUME NEW g \in GwType, NEW r \in RouterIDs, g.spec.keepalived => r # 0, NEW ps
    PROVE  PassInv(Fetching(g, r)) /\ Ran(Fetching(g, r), ps)
<1>1. PICK i \in WorkerType : i = Idle /\ i.pods = {} /\ i.todo = {}
  <2>1. /\ Idle \in WorkerType /\ Idle.pods = {} /\ Idle.todo = {}
    BY DEF Idle, WorkerType, RouterIDs
  <2> QED
    BY <2>1
<1> DEFINE v == [i EXCEPT !.pc = "workload", !.gw = g, !.routerID = r]
<1>2. /\ v \in WorkerType /\ v.pc = "workload" /\ v.gw = g /\ v.routerID = r
      /\ v.pods = {} /\ v.todo = {}
  BY <1>1 DEF WorkerType
<1>3. Fetching(g, r) = v
  BY <1>1 DEF Fetching
<1> HIDE DEF v
<1>4. v \in Pass
  BY <1>2 DEF WorkerType, Pass
<1>5. PassInv(v) /\ Ran(v, ps)
  BY <1>2, <1>4 DEF PassInv, Ran
<1> QED
  BY <1>3, <1>5

LEMMA FetchInv == Inv /\ (FetchStops \/ FetchRetries \/ Fetch) => RestInv'
<1> SUFFICES ASSUME Inv, FetchStops \/ FetchRetries \/ Fetch PROVE RestInv'
  OBVIOUS
<1>1. /\ UNCHANGED <<ka, conns, clusterVars>>
      /\ queued' \in BOOLEAN /\ budget' \in 0..Budget
  BY DEF FetchStops, FetchRetries, Fetch, TakeKey, Retry, Inv, ClusterInv
<1>2. CASE FetchStops \/ FetchRetries
  BY <1>1, <1>2, WorkerStepInv DEF FetchStops, FetchRetries, Retry
<1>3. CASE Fetch
  <2>1. gwCache \in GwType /\ gwCache.spec.keepalived \in BOOLEAN
    BY <1>3, SpecFields DEF Fetch, Inv, GwInv, Copy, GwType
  <2>2. PICK r \in RouterIDs : /\ r = IF NeedsKa THEN ka.routerID ELSE 0
                               /\ gwCache.spec.keepalived => r # 0
    BY <1>3, <2>1 DEF Fetch, NeedsKa, Inv, ClusterInv, KaType, RouterIDs
  <2>3. worker' = Fetching(gwCache, r)
    BY <1>3, <2>2 DEF Fetch, Fetching
  <2>4. PassInv(worker') /\ Ran(worker', pods)
    BY <2>1, <2>2, <2>3, Fetched
  <2> QED
    BY <1>1, <2>4, WorkerStepInv
<1> QED
  BY <1>2, <1>3

(* A step of the worker in which it may also write the workload.           *)
LEMMA WorkloadStepInv ==
    ASSUME Inv, UNCHANGED <<ka, conns, seen, pods>>, queued' \in BOOLEAN,
           budget' \in 0..Budget, WorkerInv', worker.pc = "workload",
           Accepted \/ UNCHANGED <<workload, owned>>
    PROVE  RestInv'
<1>1. CASE UNCHANGED <<workload, owned>>
  <2>1. ClusterInv'
    BY <1>1 DEF Inv, ClusterInv
  <2>2. RouterIDReady'
    BY <1>1 DEF Inv, RouterIDReady
  <2> QED
    BY <2>1, <2>2 DEF RestInv
<1>2. CASE Accepted
  <2>1. PassInv(worker)
    BY DEF Inv, WorkerInv, Idle
  <2>2. /\ worker.gw \in GwType /\ worker.gw.spec \in Specs
        /\ worker.gw.spec.kind \in Kinds /\ worker.routerID \in RouterIDs
        /\ worker.gw.spec.keepalived => worker.routerID # 0
    BY <2>1, PassTyped DEF PassInv
  <2> DEFINE w == WorkloadFor(worker.gw, worker.routerID)
  <2>3. w \in WorkloadType /\ w.spec = worker.gw.spec /\ w.routerID = worker.routerID
    BY <2>2 DEF WorkloadFor, WorkloadType, GwType
  <2>4. workload' = [workload EXCEPT ![Kind] = w] /\ owned' \in BOOLEAN
    BY <1>2 DEF Accepted, Inv, ClusterInv
  <2> HIDE DEF w
  <2>5. workload' \in [Kinds -> WorkloadType \cup {None}] /\ RouterIDReady'
    BY <2>2, <2>3, <2>4, SetWorkloadInv DEF Kind
  <2>6. ClusterInv'
    BY <2>4, <2>5 DEF Inv, ClusterInv
  <2> QED
    BY <2>5, <2>6 DEF RestInv
<1> QED
  BY <1>1, <1>2

LEMMA WorkloadInv ==
    ASSUME Inv, WriteWorkload \/ WriteRefused \/ WorkloadUnchanged \/ WriteFails
    PROVE  RestInv'
<1>1. worker.pc = "workload" /\ UNCHANGED <<ka, conns, seen, pods>>
  BY DEF WriteWorkload, WriteRefused, WorkloadUnchanged, WriteFails, AtWorkload
<1>2. Retry \/ AfterWorkload
  BY DEF WriteWorkload, WriteRefused, WorkloadUnchanged, WriteFails
<1>3. queued' \in BOOLEAN
  BY <1>2, QueueStays DEF AfterWorkload, Inv, ClusterInv
<1>4. budget' \in 0..Budget
  BY Spending DEF WriteWorkload, WriteRefused, WorkloadUnchanged, WriteFails,
                  Inv, ClusterInv
<1>5. Accepted \/ UNCHANGED <<workload, owned>>
  BY DEF WriteWorkload, WriteRefused, WorkloadUnchanged, WriteFails
<1>6. WorkerInv'
  <2>1. CASE Retry
    BY <2>1 DEF Retry, WorkerInv
  <2>2. CASE AfterWorkload
    <3>1. PassInv(worker) /\ Ran(worker, pods) /\ worker.pods = {} /\ worker.todo = {}
      BY <1>1 DEF Inv, WorkerInv, PassInv, Idle
    <3>2. PICK pc \in {"connections", "status"} : worker' = [worker EXCEPT !.pc = pc]
      BY <2>2 DEF AfterWorkload
    <3>3. PassInv(worker') /\ Ran(worker', pods)
      BY <3>1, <3>2, Moving
    <3> QED
      BY <1>1, <3>3 DEF WorkerInv
  <2> QED
    BY <1>2, <2>1, <2>2
<1> QED
  BY <1>1, <1>3, <1>4, <1>5, <1>6, WorkloadStepInv

(* The refresh begins with nothing done.                                   *)
LEMMA Executing ==
    ASSUME NEW w \in Pass, w.gw.spec.keepalived => w.routerID # 0,
           NEW listed \in SUBSET Conns, NEW good \in SUBSET Conns,
           NEW names \in SUBSET Pods, NEW running \in BOOLEAN, NEW ps
    PROVE  LET v == [w EXCEPT !.pc = "exec", !.conns = listed, !.cmd = good,
                              !.pods = names, !.todo = names, !.allRunning = running]
           IN  PassInv(v) /\ Ran(v, ps)
<1> DEFINE v == [w EXCEPT !.pc = "exec", !.conns = listed, !.cmd = good,
                          !.pods = names, !.todo = names, !.allRunning = running]
<1>1. /\ v \in Pass /\ v.pc = "exec" /\ v.gw = w.gw /\ v.routerID = w.routerID
      /\ v.pods = names /\ v.todo = names
  BY DEF Pass
<1> HIDE DEF v
<1>2. PassInv(v)
  BY <1>1 DEF PassInv
<1>3. Ran(v, ps)
  BY <1>1 DEF Ran
<1> QED
  BY <1>2, <1>3 DEF v

LEMMA RefreshInv == Inv /\ RefreshConns => RestInv'
<1> SUFFICES ASSUME Inv, RefreshConns PROVE RestInv'
  OBVIOUS
<1>1. /\ UNCHANGED <<ka, conns, clusterVars, budget>> /\ budget' \in 0..Budget
      /\ worker.pc = "connections"
  BY DEF RefreshConns, Inv, ClusterInv
<1>2. CASE Retry
  BY <1>1, <1>2, WorkerStepInv DEF Retry
<1>3. CASE ConnsValid /\ getVpnGwPodNames # {}
  <2> DEFINE running == Running(getVpnGwPodNames)
  <2>1. worker \in Pass /\ (worker.gw.spec.keepalived => worker.routerID # 0)
    BY <1>1 DEF Inv, WorkerInv, PassInv, Idle
  <2>2. /\ Listed \in SUBSET Conns /\ Good \in SUBSET Conns
        /\ getVpnGwPodNames \in SUBSET Pods /\ running \in BOOLEAN
    BY DEF Listed, Good, getVpnGwPodNames, Running, Inv, ViewInv
  <2>3. /\ worker' = [worker EXCEPT
                        !.pc = "exec", !.conns = Listed, !.cmd = Good,
                        !.pods = getVpnGwPodNames, !.todo = getVpnGwPodNames,
                        !.allRunning = running]
        /\ queued' = queued
    BY <1>3 DEF RefreshConns
  <2> HIDE DEF running
  <2>4. PassInv(worker') /\ Ran(worker', pods)
    BY <2>1, <2>2, <2>3, Executing
  <2> QED
    BY <1>1, <2>3, <2>4, WorkerStepInv DEF Inv, ClusterInv
<1> QED
  BY <1>2, <1>3 DEF RefreshConns

(* The command runs in a pod, or has run in it when it fails.              *)
LEMMA Loading ==
    ASSUME Inv, NEW p \in Pods, pods[p] # None, NEW cs \in SUBSET Conns,
           pods' = [pods EXCEPT ![p].loaded = cs]
    PROVE  /\ pods' \in [Pods -> PodType \cup {None}]
           /\ pods'[p].loaded = cs
           /\ \A q \in Pods : q # p => pods'[q] = pods[q]
<1>1. pods[p] \in PodType
  BY DEF Inv, ClusterInv
<1> DEFINE pod == [pods[p] EXCEPT !.loaded = cs]
<1>2. pod \in PodType /\ pod.loaded = cs
  BY <1>1 DEF PodType
<1>3. pods' = [pods EXCEPT ![p] = pod]
  OBVIOUS
<1> HIDE DEF pod
<1> QED
  BY <1>2, <1>3, SetPodTypes DEF Inv

(* A step of the worker in which a command may also write to a pod.        *)
LEMMA PodStepInv ==
    ASSUME Inv, UNCHANGED <<ka, conns, workload, seen, owned>>,
           queued' \in BOOLEAN, budget' \in 0..Budget, WorkerInv',
           pods' \in [Pods -> PodType \cup {None}]
    PROVE  RestInv'
<1>1. ClusterInv'
  BY DEF Inv, ClusterInv
<1>2. RouterIDReady'
  BY DEF Inv, RouterIDReady
<1> QED
  BY <1>1, <1>2 DEF RestInv

LEMMA ExecInv ==
    ASSUME Inv, NEW p \in Pods, Exec(p)
    PROVE  RestInv'
<1>1. /\ worker.pc = "exec" /\ p \in worker.todo /\ budget' \in 0..Budget
      /\ UNCHANGED <<ka, conns, workload, seen, owned, podSeen>>
  BY DEF Exec, Inv, ClusterInv
<1>2. PassInv(worker) /\ Ran(worker, pods)
  BY <1>1 DEF Inv, WorkerInv, Idle
<1>3. CASE pods[p] # None /\ pods[p].state = "up"
  <2>1. /\ pods' = [pods EXCEPT ![p].loaded = worker.cmd]
        /\ worker' = [worker EXCEPT !.todo = worker.todo \ {p}]
        /\ queued' \in BOOLEAN
    BY <1>3 DEF Exec, Inv, ClusterInv
  <2>2. /\ pods' \in [Pods -> PodType \cup {None}]
        /\ pods'[p].loaded = worker.cmd
        /\ \A q \in Pods : q # p => pods'[q] = pods[q]
    BY <1>2, <1>3, <2>1, Loading, PassTyped
  <2> PICK w : w = worker
    OBVIOUS
  <2> DEFINE v == [w EXCEPT !.todo = w.todo \ {p}]
  <2>3. w \in Pass /\ w.todo \in SUBSET Pods
    BY <1>2, PassTyped
  <2>4. /\ v \in Pass /\ v.pc = w.pc /\ v.gw = w.gw /\ v.routerID = w.routerID
        /\ v.pods = w.pods /\ v.todo = w.todo \ {p} /\ v.cmd = w.cmd
    BY <2>3 DEF Pass
  <2>5. worker' = v
    BY <2>1
  <2> HIDE DEF v
  <2>6. PassInv(v)
    BY <1>1, <1>2, <2>4 DEF PassInv
  <2>7. w.pods \in SUBSET Pods
    BY <1>2, PassTyped
  <2>8. Ran(v, pods')
    BY <1>2, <2>2, <2>4, <2>7 DEF Ran
  <2>9. WorkerInv'
    BY <2>5, <2>6, <2>8 DEF WorkerInv
  <2> QED
    BY <1>1, <2>1, <2>2, <2>9, PodStepInv
<1>4. CASE Retry /\ UNCHANGED pods
  BY <1>1, <1>4, WorkerStepInv DEF Retry, clusterVars
<1> QED
  BY <1>3, <1>4 DEF Exec

LEMMA ExecFailsInv ==
    ASSUME Inv, NEW p \in Pods, ExecFails(p)
    PROVE  RestInv'
<1>1. /\ worker.pc = "exec" /\ UNCHANGED <<ka, conns, workload, seen, owned>>
      /\ budget' \in 0..Budget /\ worker' = Idle /\ queued' \in BOOLEAN
  BY Spending DEF ExecFails, Retry, Inv, ClusterInv
<1>2. worker.cmd \in SUBSET Conns
  BY <1>1, PassTyped DEF Inv, WorkerInv, Idle
<1>3. pods' \in [Pods -> PodType \cup {None}]
  BY <1>2, Loading DEF ExecFails, Inv, ClusterInv
<1>4. WorkerInv'
  BY <1>1 DEF WorkerInv
<1> QED
  BY <1>1, <1>3, <1>4, PodStepInv

LEMMA PassEndsInv == Inv /\ (ExecDone \/ UpdateVpnGW \/ StatusFails) => RestInv'
<1> SUFFICES ASSUME Inv, ExecDone \/ UpdateVpnGW \/ StatusFails PROVE RestInv'
  OBVIOUS
<1>1. UNCHANGED <<ka, conns, clusterVars>> /\ budget' \in 0..Budget
  BY Spending DEF ExecDone, UpdateVpnGW, StatusFails, Inv, ClusterInv
<1>2. CASE Retry \/ Done
  <2>1. queued' \in BOOLEAN /\ worker' = Idle
    BY <1>2, QueueStays DEF Retry, Done, Inv
  <2> QED
    BY <1>1, <2>1, WorkerStepInv
<1>3. CASE ExecDone /\ worker.allRunning
  <2>1. /\ worker.pc = "exec" /\ worker.todo = {} /\ queued' \in BOOLEAN
        /\ worker' = [worker EXCEPT !.pc = "status"]
    BY <1>3 DEF ExecDone, Inv, ClusterInv
  <2>2. PassInv(worker) /\ Ran(worker, pods)
    BY <2>1 DEF Inv, WorkerInv, Idle
  <2>3. PassInv(worker') /\ Ran(worker', pods)
    BY <2>1, <2>2, Moving
  <2> QED
    BY <1>1, <2>1, <2>3, WorkerStepInv
<1> QED
  BY <1>2, <1>3 DEF ExecDone, UpdateVpnGW, StatusFails

LEMMA FailureInv == Inv /\ Failure => RestInv'
<1> SUFFICES ASSUME Inv, Failure PROVE RestInv'
  OBVIOUS
<1>1. budget \in 0..Budget
  BY DEF Inv, ClusterInv
<1>2. ASSUME NEW p \in Pods, RestartPod(p)
      PROVE  RestInv'
  <2>1. pods[p] \in PodType /\ pods[p] # None
    BY <1>2 DEF RestartPod, Inv, ClusterInv
  <2>2. PICK cs \in SUBSET Conns :
            /\ cs = IF pods[p].kind = "static" THEN pods[p].loaded ELSE {}
            /\ cs = pods[p].loaded \/ cs = {}
    BY <2>1 DEF PodType
  <2> DEFINE pod == [pods[p] EXCEPT !.state = "down", !.loaded = cs]
  <2>3. pod \in PodType /\ pod.loaded = cs
    BY <2>1 DEF PodType
  <2>4. SetPod(p, pod) /\ budget' \in 0..Budget
    BY <1>1, <1>2, <2>2, Spending DEF RestartPod
  <2> HIDE DEF pod
  <2>5. Kept(p, pod)
    BY <2>1, <2>2, <2>3 DEF Kept
  <2> QED
    BY <2>3, <2>4, <2>5, SetPodInv
<1>3. CASE Restart
  <2>1. /\ budget' \in 0..Budget /\ worker' = Idle /\ seen' \subseteq Kinds
        /\ owned' \in BOOLEAN /\ queued' \in BOOLEAN
        /\ UNCHANGED <<ka, conns, workload, pods>>
    BY <1>1, <1>3, Spending DEF Restart
  <2>2. ClusterInv'
    BY <2>1 DEF Inv, ClusterInv
  <2>3. RouterIDReady' /\ WorkerInv'
    BY <2>1 DEF Inv, RouterIDReady, WorkerInv
  <2> QED
    BY <2>2, <2>3 DEF RestInv
<1> QED
  BY <1>2, <1>3, WorkloadInv, PassEndsInv, ExecFailsInv DEF Failure

-----------------------------------------------------------------------------
(* The cache's list of pods, and the history.                              *)
LEMMA ViewStays == ViewInv /\ [Next]_vars => ViewInv'
<1> SUFFICES ASSUME ViewInv, [Next]_vars PROVE ViewInv'
  OBVIOUS
<1>1. podSeen' = podSeen \/ podSeen' = IPsecPods
  <2>1. CASE User \/ AssignRouterID \/ Informer \/ Resync \/ Kubernetes
    BY <2>1 DEF User, EditGw, RecreateGw, DeleteGw, ReplaceKeepAlived, ChangeConn,
       DeleteWorkload, AssignRouterID, Informer, DeliverGw, DeliverOwned, DeliverPods,
       Resync, Kubernetes, CollectGarbage, Remove, StartPod, StopPod, CreatePod, SetPod,
       clusterVars
  <2>2. CASE Worker \/ Failure \/ UNCHANGED vars
    BY <2>2 DEF Worker, FetchStops, FetchRetries, Fetch, TakeKey, WriteWorkload,
       WriteRefused, WorkloadUnchanged, AtWorkload, RefreshConns, Exec, ExecDone,
       UpdateVpnGW, Failure, WriteFails, StatusFails, Restart, ExecFails, RestartPod,
       SetPod, vars, clusterVars
  <2> QED
    BY <2>1, <2>2 DEF Next
<1>2. hist' \subseteq hist \cup Marks
  <2>1. CASE User \/ AssignRouterID \/ Informer \/ Resync \/ Kubernetes
    BY <2>1 DEF User, EditGw, RecreateGw, DeleteGw, UserWrites, ReplaceKeepAlived,
       ChangeConn, DeleteWorkload, AssignRouterID, Informer, DeliverGw, DeliverOwned,
       DeliverPods, Resync, Kubernetes, CollectGarbage, Remove, StartPod, StopPod,
       CreatePod, SetPod, Mark, Marks
  <2>2. CASE Worker \/ Failure \/ UNCHANGED vars
    BY <2>2 DEF Worker, FetchStops, FetchRetries, Fetch, TakeKey, WriteWorkload,
       WriteRefused, WorkloadUnchanged, AtWorkload, RefreshConns, Exec, ExecDone,
       UpdateVpnGW, MarkSkewed, Failure, WriteFails, StatusFails, Restart, ExecFails,
       RestartPod, SetPod, Mark, Marks, vars
  <2> QED
    BY <2>1, <2>2 DEF Next
<1> QED
  BY <1>1, <1>2 DEF ViewInv, IPsecPods

LEMMA NextInv == Inv /\ [Next]_vars => Inv' /\ StatusStep
<1> SUFFICES ASSUME Inv, [Next]_vars PROVE Inv' /\ StatusStep
  OBVIOUS
<1>1. GwInv' /\ ViewInv' /\ StatusStep
  BY NextGwInv, ViewStays DEF Inv
<1>2. CASE UNCHANGED vars
  <2>1. /\ UNCHANGED <<workload, pods, worker>>
        /\ UNCHANGED <<ka, conns, seen, owned, queued, budget>>
    BY <1>2 DEF vars, clusterVars
  <2>2. RestInv'
    BY <2>1, InputsInv DEF Inv, ClusterInv
  <2> QED
    BY <1>1, <2>2 DEF Inv, RestInv
<1>3. CASE Worker
  <2>1. RestInv'
    BY <1>3, FetchInv, WorkloadInv, RefreshInv, ExecInv, PassEndsInv DEF Worker
  <2> QED
    BY <1>1, <2>1 DEF Inv, RestInv
<1>4. CASE Next /\ ~Worker
  <2>1. RestInv'
    BY <1>4, UserInv, InformerInv, KubernetesInv, FailureInv DEF Next
  <2> QED
    BY <1>1, <2>1 DEF Inv, RestInv
<1> QED
  BY <1>2, <1>3, <1>4

LEMMA InductiveInv == Safe => []Inv
<1>1. Inv /\ [Next]_vars => Inv'
  BY NextInv
<1> QED
  BY <1>1, InitInv, PTL DEF Safe

-----------------------------------------------------------------------------
(* The theorems.                                                           *)

(* Every variable keeps its type, and no local outlives a pass             *)
(* (handleAddOrUpdateVpnGw).                                               *)
THEOREM TypeCorrect == Safe => []TypeOK
<1>1. Inv => TypeOK
  <2> SUFFICES ASSUME Inv PROVE TypeOK
    OBVIOUS
  <2>1. CASE worker = Idle
    <3>1. worker \in WorkerType /\ (worker.pc = "idle" <=> worker = Idle)
      BY <2>1 DEF WorkerType, Idle, RouterIDs
    <3> QED
      BY <3>1 DEF Inv, TypeOK, GwInv, ClusterInv, ViewInv, Copy
  <2>2. CASE PassInv(worker)
    <3>1. worker \in WorkerType /\ worker.pc # "idle"
      BY <2>2 DEF PassInv, Pass, WorkerType
    <3>2. worker.pc = "idle" <=> worker = Idle
      BY <3>1 DEF Idle
    <3> QED
      BY <3>1, <3>2 DEF Inv, TypeOK, GwInv, ClusterInv, ViewInv, Copy
  <2> QED
    BY <2>1, <2>2 DEF Inv, WorkerInv
<1> QED
  BY <1>1, InductiveInv, PTL

(* Whatever becomes of the KeepAlived, the calls and the controller, no    *)
(* workload that runs keepalived is deployed with the router ID 0          *)
(* (handleAddOrUpdateVpnGw waits for Status.RouterID).                     *)
THEOREM RouterIDReadyHolds == Safe => []RouterIDReady
<1>1. Inv => RouterIDReady
  BY DEF Inv
<1> QED
  BY <1>1, InductiveInv, PTL

(* However old the cached copy the status was computed from, the status    *)
(* that is stored is that of the spec it is stored with (UpdateVpnGW).     *)
THEOREM StatusFromCurrentSpecHolds == Safe => StatusFromCurrentSpec
<1>1. Inv /\ [Next]_vars => [StatusStep]_gw
  BY NextInv
<1> QED
  BY <1>1, InductiveInv, PTL DEF Safe, StatusFromCurrentSpec, StatusStep

(* A pass that has come to the status has run the command in all its pods: *)
(* none serves connections of an earlier pass, however the pods restart    *)
(* and are replaced meanwhile (handleAddOrUpdateVpnGw).                    *)
THEOREM LoadedBeforeRecordedHolds == Safe => []LoadedBeforeRecorded
<1>1. Inv => LoadedBeforeRecorded
  <2> SUFFICES ASSUME Inv, worker.pc = "status"
               PROVE  \A p \in worker.pods : pods[p] # None => pods[p].loaded \in {worker.cmd, {}}
    BY DEF LoadedBeforeRecorded
  <2>1. PassInv(worker) /\ Ran(worker, pods)
    BY DEF Inv, WorkerInv, Idle
  <2> QED
    BY <2>1 DEF PassInv, Ran
<1> QED
  BY <1>1, InductiveInv, PTL
=============================================================================

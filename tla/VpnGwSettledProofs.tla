------------------------- MODULE VpnGwSettledProofs -------------------------
(***************************************************************************)
(* Proofs about what VpnGw leaves behind: a controller with nothing left   *)
(* to do has a workload for its gateway, has brought all pods it listed to *)
(* the same IPsec connections and has recorded them; and the workload is   *)
(* the one of the current spec if users edit at rest, and fields that the  *)
(* controller follows, and no pass recorded a spec it did not deploy.      *)
(***************************************************************************)
EXTENDS VpnGwProofs

-----------------------------------------------------------------------------
(* The inductive invariant, on top of Inv.                                 *)

Names(ps) == {p \in Pods : ps[p] # None /\ ps[p].spec.ipsec}

NoneListed == \A s \in Specs : s.conns = {}

(* Nothing will make the worker begin another pass.                        *)
Quiet == ~queued /\ gwWatch = <<>> /\ ~owned

(* The last event brings the stored gateway; without one the cache has it. *)
LastEvent == IF gwWatch = <<>> THEN gwCache = gw ELSE gwWatch[Len(gwWatch)] = gw

QuietIdle ==
    IPsecOn /\ WellInformed => \E cs \in SUBSET Conns :
        /\ cs # {}
        /\ \A p \in Names(pods) : pods[p].loaded = cs
        /\ NoneListed => cs \subseteq gw.status.conns

(* No pod came, went or restarted since the pass listed them; if the list  *)
(* was complete, every pod has run the command or will.                    *)
QuietPass(w, ps, h) ==
    w.pc = "exec" \/ (w.pc = "status" /\ w.gw.spec.ipsec) =>
        /\ w.cmd # {} /\ w.cmd \subseteq w.conns
        /\ "missed" \notin h => Names(ps) \subseteq w.pods
        /\ \A p \in w.pods \ w.todo : ps[p].loaded = w.cmd

QuietWorker ==
    \/ worker = Idle /\ QuietIdle
    \/ worker # Idle /\ worker.gw = gw /\ QuietPass(worker, pods, hist)

AgreeInv == LastEvent /\ (Quiet => QuietWorker)

-----------------------------------------------------------------------------
LEMMA NamesArePods == IPsecPods = Names(pods)
BY DEF IPsecPods, Names

LEMMA InitAgrees == Init => AgreeInv
<1> SUFFICES ASSUME Init PROVE AgreeInv
  OBVIOUS
<1>1. gwWatch = <<gw>>
  BY DEF Init
<1>2. gwWatch # <<>> /\ gwWatch[Len(gwWatch)] = gw
  BY <1>1
<1> QED
  BY <1>2 DEF AgreeInv, LastEvent, Quiet

(* A write is the last event, and makes the worker begin another pass.     *)
LEMMA WriteAgrees ==
    ASSUME GwInv, NEW g \in Copy, WriteGw(g)
    PROVE  AgreeInv'
<1>1. gwWatch \in Seq(Copy) /\ gw' = g /\ gwWatch' = Append(gwWatch, g)
  BY DEF GwInv, WriteGw
<1>2. /\ gwWatch' \in Seq(Copy) /\ Len(gwWatch') = Len(gwWatch) + 1
      /\ Len(gwWatch) \in Nat /\ gwWatch'[Len(gwWatch) + 1] = g
  BY <1>1, Appending
<1>3. gwWatch' # <<>> /\ gwWatch'[Len(gwWatch')] = gw'
  BY <1>1, <1>2
<1> QED
  BY <1>3 DEF AgreeInv, LastEvent, Quiet

LEMMA DeliverAgrees == Inv /\ LastEvent /\ DeliverGw => AgreeInv'
<1> SUFFICES ASSUME Inv, LastEvent, DeliverGw PROVE AgreeInv'
  OBVIOUS
<1>1. /\ gwWatch \in Seq(Copy) /\ gwWatch # <<>> /\ gwWatch' = Tail(gwWatch)
      /\ gwCache' = Head(gwWatch) /\ gw' = gw /\ queued' = TRUE
  BY DEF DeliverGw, Inv, GwInv
<1>2. /\ gwWatch' \in Seq(Copy)
      /\ Len(gwWatch) \in Nat \ {0} /\ Len(gwWatch') = Len(gwWatch) - 1
      /\ \A n \in 1..(Len(gwWatch) - 1) : gwWatch'[n] = gwWatch[n + 1]
      /\ gwCache' = gwWatch[1]
  BY <1>1, Beheading
<1>3. gwWatch[Len(gwWatch)] = gw
  BY <1>1 DEF LastEvent
<1>4. CASE gwWatch' = <<>>
  <2>1. Len(gwWatch) = 1
    BY <1>2, <1>4
  <2> QED
    BY <1>1, <1>2, <1>3, <1>4, <2>1 DEF AgreeInv, LastEvent, Quiet
<1>5. CASE gwWatch' # <<>>
  <2>1. Len(gwWatch') # 0
    BY <1>2, <1>5, EmptySeq
  <2>2. gwWatch'[Len(gwWatch')] = gwWatch[Len(gwWatch)]
    BY <1>2, <2>1
  <2> QED
    BY <1>1, <1>3, <1>5, <2>2 DEF AgreeInv, LastEvent, Quiet
<1> QED
  BY <1>4, <1>5

(* A step that is sure to be followed by another pass.                     *)
LEMMA AnotherPass ==
    ASSUME AgreeInv, UNCHANGED <<gw, gwWatch, gwCache>>, queued' \/ owned'
    PROVE  AgreeInv'
BY DEF AgreeInv, LastEvent, Quiet

(* A step that does not change what the invariant is about.                *)
LEMMA SameAgrees ==
    ASSUME AgreeInv, ka'.state = ka.state, hist' = hist,
           UNCHANGED <<gw, gwWatch, gwCache, pods, queued, owned, worker>>
    PROVE  AgreeInv'
<1>1. LastEvent'
  BY DEF AgreeInv, LastEvent
<1>2. Quiet' = Quiet
  BY DEF Quiet
<1>3. IPsecOn' = IPsecOn
  BY DEF IPsecOn, Deployable
<1>4. QuietIdle => QuietIdle'
  BY <1>3 DEF QuietIdle, WellInformed
<1>5. QuietWorker => QuietWorker'
  BY <1>4 DEF QuietWorker
<1> QED
  BY <1>1, <1>2, <1>5 DEF AgreeInv

(* A step of a pass, or out of it.                                         *)
LEMMA PassAgrees ==
    ASSUME AgreeInv, UNCHANGED <<gw, gwWatch, gwCache>>, Quiet' => QuietWorker'
    PROVE  AgreeInv'
BY DEF AgreeInv, LastEvent

-----------------------------------------------------------------------------
(* The environment.                                                        *)

LEMMA UserAgrees ==
    ASSUME Inv, AgreeInv, User
    PROVE  AgreeInv'
<1>1. GwInv /\ rev + 1 \in Nat /\ gw \in Copy
  BY DEF Inv, GwInv
<1>2. ASSUME NEW s \in Specs, EditGw(s)
      PROVE  AgreeInv'
  <2> DEFINE g == [gw EXCEPT !.rev = rev + 1, !.spec = s]
  <2>1. gw \in GwType
    BY <1>1, <1>2 DEF EditGw, Copy
  <2>2. g \in Copy
    BY <1>1, <2>1 DEF GwType, Copy
  <2>3. WriteGw(g)
    BY <1>2 DEF EditGw, UserWrites
  <2> HIDE DEF g
  <2> QED
    BY <1>1, <2>2, <2>3, WriteAgrees
<1>3. ASSUME NEW s \in Specs, RecreateGw(s)
      PROVE  AgreeInv'
  <2>1. NewGw(rev + 1, s) \in Copy /\ WriteGw(NewGw(rev + 1, s))
    BY <1>1, <1>3, NewGwType DEF RecreateGw, UserWrites, Copy
  <2> QED
    BY <1>1, <2>1, WriteAgrees
<1>4. CASE DeleteGw
  <2>1. None \in Copy /\ WriteGw(None)
    BY <1>4 DEF DeleteGw, UserWrites, Copy
  <2> QED
    BY <1>1, <2>1, WriteAgrees
<1>5. ASSUME NEW state, ReplaceKeepAlived(state)
      PROVE  AgreeInv'
  <2>1. /\ UNCHANGED <<gw, gwWatch, gwCache, pods, queued, owned, worker>>
        /\ "replaced" \in hist' /\ ("missed" \notin hist' => "missed" \notin hist)
    BY <1>5 DEF ReplaceKeepAlived, Mark, gwVars, clusterVars
  <2>2. Quiet' = Quiet /\ QuietIdle'
    BY <2>1 DEF Quiet, QuietIdle, WellInformed
  <2>3. worker # Idle => (QuietPass(worker, pods, hist) => QuietPass(worker', pods', hist'))
    BY <2>1 DEF QuietPass
  <2>4. Quiet' => QuietWorker'
    BY <2>1, <2>2, <2>3 DEF AgreeInv, QuietWorker
  <2> QED
    BY <2>1, <2>4, PassAgrees
<1>6. ASSUME NEW c \in Conns, NEW state \in ConnStates, ChangeConn(c, state)
      PROVE  AgreeInv'
  BY <1>6, SameAgrees DEF ChangeConn, gwVars, clusterVars
<1>7. ASSUME NEW k \in Kinds, DeleteWorkload(k)
      PROVE  AgreeInv'
  BY <1>7, AnotherPass DEF DeleteWorkload, Remove, gwVars
<1> QED
  BY <1>2, <1>3, <1>4, <1>5, <1>6, <1>7 DEF User

LEMMA ClusterAgrees ==
    ASSUME Inv, AgreeInv, AssignRouterID \/ Informer \/ Resync \/ Kubernetes
    PROVE  AgreeInv'
<1>1. CASE AssignRouterID
  <2>1. ka \in KaType
    BY DEF Inv, ClusterInv
  <2>2. [ka EXCEPT !.routerID = 1].state = ka.state
    BY <2>1 DEF KaType
  <2>3. ka'.state = ka.state
    BY <1>1, <2>2 DEF AssignRouterID
  <2> QED
    BY <1>1, <2>3, SameAgrees DEF AssignRouterID, gwVars, clusterVars
<1>2. CASE DeliverGw
  BY <1>2, DeliverAgrees DEF AgreeInv
<1>3. CASE DeliverOwned \/ Resync
  BY <1>3, AnotherPass DEF DeliverOwned, Resync, gwVars
<1>5. CASE DeliverPods
  BY <1>5, SameAgrees DEF DeliverPods, gwVars
<1>4. CASE Kubernetes
  BY <1>4, AnotherPass
     DEF Kubernetes, CollectGarbage, Remove, StartPod, StopPod, CreatePod, SetPod, gwVars
<1> QED
  BY <1>1, <1>2, <1>3, <1>4, <1>5 DEF Informer

LEMMA FailureAgrees ==
    ASSUME Inv, AgreeInv, Failure
    PROVE  AgreeInv'
<1>1. CASE WriteFails \/ StatusFails \/ \E p \in Pods : ExecFails(p) \/ RestartPod(p)
  BY <1>1, AnotherPass
     DEF WriteFails, AtWorkload, StatusFails, ExecFails, RestartPod, SetPod, Retry, gwVars
<1>2. CASE Restart
  <2>1. /\ gwCache' = gw /\ gw' = gw /\ gwWatch' = <<>> /\ worker' = Idle
        /\ gw # None => queued'
    BY <1>2 DEF Restart
  <2>2. LastEvent'
    BY <2>1 DEF LastEvent
  <2>3. Quiet' => QuietIdle'
    BY <2>1 DEF Quiet, QuietIdle, IPsecOn, Deployable
  <2> QED
    BY <2>1, <2>2, <2>3 DEF AgreeInv, QuietWorker
<1> QED
  BY <1>1, <1>2 DEF Failure

-----------------------------------------------------------------------------
(* The worker.                                                             *)

(* A pass that stops at once leaves a gateway that cannot be deployed.     *)
LEMMA FetchAgrees ==
    ASSUME Inv, AgreeInv, FetchStops \/ FetchRetries \/ Fetch
    PROVE  AgreeInv'
<1>1. UNCHANGED <<gw, gwWatch, gwCache, ka, pods, owned>> /\ worker = Idle
  BY DEF FetchStops, FetchRetries, Fetch, TakeKey, gwVars, clusterVars
<1>2. Quiet' => gwCache = gw
  BY <1>1 DEF Quiet, AgreeInv, LastEvent
<1>3. CASE FetchRetries
  BY <1>1, <1>3, AnotherPass DEF FetchRetries, Retry
<1>4. CASE FetchStops
  <2>1. Quiet' => ~IPsecOn'
    BY <1>1, <1>2, <1>4 DEF FetchStops, NeedsKa, IPsecOn, Deployable
  <2>2. worker' = Idle
    BY <1>1, <1>4 DEF FetchStops
  <2> QED
    BY <1>1, <2>1, <2>2, PassAgrees DEF QuietWorker, QuietIdle
<1>5. CASE Fetch
  <2>1. gwCache \in GwType
    BY <1>5 DEF Fetch, Inv, GwInv, Copy
  <2>2. worker' = Fetching(gwCache, IF NeedsKa THEN ka.routerID ELSE 0)
    BY <1>5 DEF Fetch, Fetching
  <2>3. worker'.pc = "workload" /\ worker'.gw = gwCache /\ worker' # Idle
    BY <2>2 DEF Fetching, Idle
  <2>4. QuietPass(worker', pods', hist')
    BY <2>3 DEF QuietPass
  <2> QED
    BY <1>1, <1>2, <2>3, <2>4, PassAgrees DEF QuietWorker
<1> QED
  BY <1>3, <1>4, <1>5

(* Every pod the worker knows of has loaded what the status will name.     *)
LEMMA WorkloadAgrees ==
    ASSUME Inv, AgreeInv, WriteWorkload \/ WriteRefused \/ WorkloadUnchanged
    PROVE  AgreeInv'
<1>1. UNCHANGED <<gw, gwWatch, gwCache, ka, pods>> /\ worker.pc = "workload"
  BY DEF WriteWorkload, WriteRefused, WorkloadUnchanged, AtWorkload, gwVars
<1>2. CASE Retry
  BY <1>1, <1>2, AnotherPass DEF Retry
<1>3. CASE AfterWorkload /\ (owned => owned')
  <2>1. Quiet' => Quiet
    BY <1>1, <1>3 DEF Quiet, AfterWorkload
  <2>2. worker # Idle /\ PassInv(worker)
    BY <1>1 DEF Idle, Inv, WorkerInv
  <2>3. PICK w \in Pass : w = worker
    BY <2>2 DEF PassInv
  <2>4. PICK pc \in {"connections", "status"} :
            /\ worker' = [w EXCEPT !.pc = pc]
            /\ pc = "status" => ~w.gw.spec.ipsec
    BY <1>3, <2>3 DEF AfterWorkload
  <2>5. worker'.pc = pc /\ worker'.gw = w.gw /\ worker' # Idle
    BY <2>3, <2>4 DEF Pass, Idle
  <2>6. QuietPass(worker', pods', hist')
    BY <2>4, <2>5 DEF QuietPass
  <2>7. Quiet => worker.gw = gw
    BY <2>2 DEF AgreeInv, QuietWorker
  <2> QED
    BY <1>1, <2>1, <2>3, <2>5, <2>6, <2>7, PassAgrees DEF QuietWorker
<1>4. Accepted => (owned => owned')
  BY DEF Accepted
<1>5. Retry \/ (AfterWorkload /\ (owned => owned'))
  BY <1>4 DEF WriteWorkload, WriteRefused, WorkloadUnchanged
<1> QED
  BY <1>2, <1>3, <1>5

LEMMA RefreshAgrees ==
    ASSUME Inv, AgreeInv, RefreshConns
    PROVE  AgreeInv'
<1>1. /\ UNCHANGED <<gw, gwWatch, gwCache, ka, pods, owned>>
      /\ worker.pc = "connections"
  BY DEF RefreshConns, gwVars, clusterVars
<1>2. CASE Retry
  BY <1>1, <1>2, AnotherPass DEF Retry
<1>3. CASE ConnsValid /\ getVpnGwPodNames # {}
  <2>1. worker # Idle /\ PassInv(worker)
    BY <1>1 DEF Idle, Inv, WorkerInv
  <2> DEFINE running == Running(getVpnGwPodNames)
             v == [worker EXCEPT
                      !.pc = "exec", !.conns = Listed, !.cmd = Good,
                      !.pods = getVpnGwPodNames, !.todo = getVpnGwPodNames,
                      !.allRunning = running]
  <2>2. worker' = v /\ queued' = queued
    BY <1>3 DEF RefreshConns
  <2>3. running \in BOOLEAN
    BY DEF Running
  <2> HIDE DEF running
  <2>4. /\ getVpnGwPodNames \in SUBSET Pods
        /\ Listed \in SUBSET Conns /\ Good \in SUBSET Conns
        /\ Good # {} /\ Good \subseteq Listed
    BY <1>3 DEF Inv, ViewInv, getVpnGwPodNames, Listed, Good, ConnsValid
  <2>5. worker \in Pass
    BY <2>1 DEF PassInv
  <2>6. /\ v.pc = "exec" /\ v.gw = worker.gw /\ v.conns = Listed /\ v.cmd = Good
        /\ v.pods = getVpnGwPodNames /\ v.todo = getVpnGwPodNames
    BY <2>5 DEF Pass
  <2> HIDE DEF v
  <2>7. v # Idle
    BY <2>6 DEF Idle
  <2>10. "missed" \notin hist' => Names(pods) \subseteq getVpnGwPodNames
    BY <2>1, NamesArePods DEF RefreshConns, Mark
  <2>8. QuietPass(v, pods, hist')
    BY <2>4, <2>6, <2>10 DEF QuietPass
  <2>9. Quiet => worker.gw = gw
    BY <2>1 DEF AgreeInv, QuietWorker
  <2> QED
    BY <1>1, <2>2, <2>6, <2>7, <2>8, <2>9, PassAgrees DEF QuietWorker, Quiet
<1> QED
  BY <1>2, <1>3 DEF RefreshConns

LEMMA ExecAgrees ==
    ASSUME Inv, AgreeInv, NEW p \in Pods, Exec(p)
    PROVE  AgreeInv'
<1>1. /\ UNCHANGED <<gw, gwWatch, gwCache, ka, owned, hist>>
      /\ worker.pc = "exec" /\ p \in worker.todo
  BY DEF Exec, gwVars
<1>2. CASE Retry
  BY <1>1, <1>2, AnotherPass DEF Retry
<1>3. CASE pods[p] # None /\ pods[p].state = "up"
  <2>1. worker # Idle /\ PassInv(worker)
    BY <1>1 DEF Idle, Inv, WorkerInv
  <2>2. PICK w \in Pass : w = worker
    BY <2>1 DEF PassInv
  <2> DEFINE v == [w EXCEPT !.todo = w.todo \ {p}]
             pod == [pods[p] EXCEPT !.loaded = worker.cmd]
  <2>3. /\ w.todo \in SUBSET Pods /\ w.cmd \in SUBSET Conns /\ w.pods \in SUBSET Pods
        /\ p \in w.todo
    BY <1>1, <2>2 DEF Pass
  <2>4. /\ v \in Pass /\ v.pc = "exec" /\ v.gw = w.gw /\ v.conns = w.conns
        /\ v.cmd = w.cmd /\ v.pods = w.pods /\ v.todo = w.todo \ {p}
    BY <1>1, <2>2, <2>3 DEF Pass
  <2>5. worker' = v /\ queued' = queued /\ pods' = [pods EXCEPT ![p] = pod]
    BY <1>3, <2>2 DEF Exec
  <2>6. pods[p] \in PodType
    BY <1>3 DEF Inv, ClusterInv
  <2>7. pod \in PodType /\ pod.loaded = w.cmd /\ pod.spec = pods[p].spec
    BY <2>2, <2>3, <2>6 DEF PodType
  <2> HIDE DEF v, pod
  <2>8. pods'[p] = pod /\ \A q \in Pods : q # p => pods'[q] = pods[q]
    BY <2>5, <2>7, SetPodTypes DEF Inv
  <2>9. Names(pods') = Names(pods)
    BY <1>3, <2>7, <2>8, NoneAssumption DEF Names
  <2>10. Quiet => worker.gw = gw /\ QuietPass(w, pods, hist)
    BY <2>1, <2>2 DEF AgreeInv, QuietWorker
  <2>11. Quiet => QuietPass(v, pods', hist')
    BY <1>1, <2>2, <2>3, <2>4, <2>7, <2>8, <2>9, <2>10 DEF QuietPass
  <2>12. v # Idle
    BY <2>4 DEF Idle
  <2> QED
    BY <1>1, <2>2, <2>4, <2>5, <2>10, <2>11, <2>12, PassAgrees DEF QuietWorker, Quiet
<1> QED
  BY <1>2, <1>3 DEF Exec

LEMMA ExecDoneAgrees ==
    ASSUME Inv, AgreeInv, ExecDone
    PROVE  AgreeInv'
<1>1. /\ UNCHANGED <<gw, gwWatch, gwCache, ka, owned, pods, hist>>
      /\ worker.pc = "exec" /\ worker.todo = {}
  BY DEF ExecDone, gwVars, clusterVars
<1>2. CASE Retry
  BY <1>1, <1>2, AnotherPass DEF Retry
<1>3. CASE worker.allRunning
  <2>1. worker # Idle /\ PassInv(worker)
    BY <1>1 DEF Idle, Inv, WorkerInv
  <2> DEFINE v == [worker EXCEPT !.pc = "status"]
  <2>2. worker' = v /\ queued' = queued
    BY <1>3 DEF ExecDone
  <2>3. worker \in Pass
    BY <2>1 DEF PassInv
  <2>4. /\ v.pc = "status" /\ v.gw = worker.gw /\ v.conns = worker.conns
        /\ v.cmd = worker.cmd /\ v.pods = worker.pods /\ v.todo = worker.todo
    BY <2>3 DEF Pass
  <2> HIDE DEF v
  <2>5. v # Idle
    BY <2>4 DEF Idle
  <2>6. Quiet => worker.gw = gw /\ QuietPass(worker, pods, hist)
    BY <2>1 DEF AgreeInv, QuietWorker
  <2>7. Quiet => QuietPass(v, pods, hist)
    BY <1>1, <2>4, <2>6 DEF QuietPass
  <2> QED
    BY <1>1, <2>2, <2>4, <2>5, <2>6, <2>7, PassAgrees DEF QuietWorker, Quiet
<1> QED
  BY <1>2, <1>3 DEF ExecDone

(* A status that is already the new one names the connections of the pass. *)
LEMMA Recorded ==
    ASSUME NEW g \in GwType, NEW cs \in SUBSET Conns, cs # {}, NoneListed,
           g.spec.ipsec, NewStatus(g, cs) = g.status
    PROVE  g.status.conns = cs
<1>1. g.spec \in Specs
  BY DEF GwType
<1>2. g.spec.conns = {}
  BY <1>1 DEF NoneListed
<1>3. NewStatus(g, cs).ipsec = g.spec.ipsec
  BY DEF NewStatus
<1>4. RecordsConns(g, cs)
  BY <1>2, <1>3 DEF RecordsConns
<1>5. NewStatus(g, cs).conns = cs
  BY <1>4 DEF NewStatus
<1> QED
  BY <1>5

LEMMA UpdateAgrees ==
    ASSUME Inv, AgreeInv, UpdateVpnGW
    PROVE  AgreeInv'
<1>1. UNCHANGED <<gwCache, ka, pods, owned>> /\ worker.pc = "status"
  BY DEF UpdateVpnGW, clusterVars
<1>2. CASE Retry /\ UNCHANGED gwVars
  BY <1>1, <1>2, AnotherPass DEF Retry, gwVars
<1>3. ASSUME NEW g, WriteGw(g)
      PROVE  AgreeInv'
  <2>1. g \in Copy
    BY <1>3, StatusWrites DEF WriteGw, GwInv
  <2> QED
    BY <1>3, <2>1, WriteAgrees DEF Inv
<1>4. CASE /\ Done /\ UNCHANGED gwVars
           /\ \/ gwCache = None
              \/ ~StatusChanged(gwCache, worker.conns)
              \/ gw = gwCache /\ NewStatus(gwCache, worker.conns) = gw.status
  <2>1. /\ worker' = Idle /\ queued' = queued
        /\ UNCHANGED <<gw, gwWatch, gwCache, ka, pods, owned, hist>>
    BY <1>1, <1>4 DEF Done, gwVars, UpdateVpnGW, MarkSkewed
  <2>2. worker # Idle /\ PassInv(worker)
    BY <1>1 DEF Idle, Inv, WorkerInv
  <2>3. ASSUME Quiet, IPsecOn, WellInformed
        PROVE  \E cs \in SUBSET Conns :
                  /\ cs # {}
                  /\ \A p \in Names(pods) : pods[p].loaded = cs
                  /\ NoneListed => cs \subseteq gw.status.conns
    <3>1. /\ gwCache = gw /\ worker.gw = gw /\ QuietPass(worker, pods, hist)
          /\ gw # None /\ gw.spec.ipsec
      BY <2>2, <2>3 DEF AgreeInv, LastEvent, Quiet, QuietWorker, IPsecOn, Deployable
    <3>2. /\ gw \in GwType /\ worker.todo = {}
          /\ worker.conns \in SUBSET Conns /\ worker.cmd \in SUBSET Conns
      BY <1>1, <2>2, <3>1 DEF PassInv, Pass
    <3>3. /\ worker.cmd # {} /\ worker.cmd \subseteq worker.conns
          /\ \A p \in Names(pods) : pods[p].loaded = worker.cmd
      BY <1>1, <2>3, <3>1, <3>2 DEF QuietPass, WellInformed
    <3>4. NewStatus(gw, worker.conns) = gw.status
      BY <1>4, <3>1 DEF StatusChanged
    <3>5. NoneListed => gw.status.conns = worker.conns
      BY <3>1, <3>2, <3>3, <3>4, Recorded
    <3> QED
      BY <3>2, <3>3, <3>5
  <2>4. Quiet' => Quiet
    BY <2>1 DEF Quiet
  <2>5. IPsecOn' /\ WellInformed' => IPsecOn /\ WellInformed
    BY <2>1 DEF IPsecOn, Deployable, WellInformed
  <2>6. Quiet' => QuietIdle'
    BY <2>1, <2>3, <2>4, <2>5 DEF QuietIdle
  <2> QED
    BY <2>1, <2>6, PassAgrees DEF QuietWorker
<1>5. gw # None /\ gwCache # None /\ gw.rev = gwCache.rev => gw = gwCache
  BY DEF Inv, GwInv, OldCopy
<1> QED
  BY <1>2, <1>3, <1>4, <1>5 DEF UpdateVpnGW

-----------------------------------------------------------------------------
LEMMA NextAgrees ==
    ASSUME Inv, AgreeInv, [Next]_vars
    PROVE  AgreeInv'
<1>1. CASE Worker
  BY <1>1, FetchAgrees, WorkloadAgrees, RefreshAgrees, ExecAgrees, ExecDoneAgrees,
     UpdateAgrees DEF Worker
<1>2. CASE UNCHANGED vars
  BY <1>2, SameAgrees DEF vars, gwVars, clusterVars
<1> QED
  BY <1>1, <1>2, UserAgrees, ClusterAgrees, FailureAgrees DEF Next

LEMMA AgreeInvariant == Safe => []AgreeInv
<1>1. Inv /\ AgreeInv /\ [Next]_vars => AgreeInv'
  BY NextAgrees
<1> QED
  BY <1>1, InitAgrees, InductiveInv, PTL DEF Safe

(* A worker with nothing to do is in the quiet state of the invariant.     *)
LEMMA SettledIsQuiet ==
    ASSUME AgreeInv, Settled, IPsecOn, WellInformed
    PROVE  \E cs \in SUBSET Conns :
              /\ cs # {} /\ \A p \in Serving : pods[p].loaded = cs
              /\ NoneListed => cs \subseteq gw.status.conns
<1>1. QuietIdle
  BY DEF Settled, AgreeInv, Quiet, QuietWorker
<1>2. Serving \subseteq Names(pods)
  BY NamesArePods DEF Serving
<1> QED
  BY <1>1, <1>2 DEF QuietIdle

-----------------------------------------------------------------------------
(* The theorems.                                                           *)

(* Whatever is edited, deleted, restarted or fails, and wherever it        *)
(* interrupts the refresh commands, pods that are left to serve agree on   *)
(* the connections if the last list of them was complete                   *)
(* (handleAddOrUpdateVpnGw).                                               *)
THEOREM PodsAgreeHolds == Safe => []PodsAgree
<1>1. AgreeInv => PodsAgree
  BY SettledIsQuiet DEF PodsAgree
<1> QED
  BY <1>1, AgreeInvariant, PTL

(* If users leave Spec.IPSecConnections to the controller, what the pods   *)
(* serve is recorded in the status although the pass that first loads it   *)
(* does not record it (UpdateVpnGW).                                       *)
THEOREM StatusNamesLoadedHolds ==
    ASSUME \A s \in Specs : s.conns = {}
    PROVE  Safe => []StatusNamesLoaded
<1>1. AgreeInv => StatusNamesLoaded
  BY SettledIsQuiet DEF StatusNamesLoaded, NoneListed
<1> QED
  BY <1>1, AgreeInvariant, PTL

-----------------------------------------------------------------------------
(* A gateway with nothing left to do has its workload.                     *)

(* The cache knows the workloads unless an event of one is pending.        *)
SeenInv == ~owned => seen = {k \in Kinds : workload[k] # None}

PastWorkload == worker.pc \in {"connections", "exec", "status"}

DeployedInv ==
    /\ SeenInv
    /\ Quiet /\ PastWorkload => workload[worker.gw.spec.kind] # None
    /\ Quiet /\ worker = Idle /\ Deployable /\ "replaced" \notin hist
          => workload[gw.spec.kind] # None

LEMMA InitDeployed == Init => DeployedInv
BY DEF Init, DeployedInv, SeenInv, Quiet, PastWorkload, Idle

LEMMA NoneIsNoObject == None \notin GwType /\ None \notin WorkloadType
BY NoneAssumption

(* An accepted write leaves a workload of its kind, and an event if that   *)
(* is not the one there was.                                               *)
LEMMA AcceptedWrites ==
    ASSUME Inv, Accepted, worker.pc = "workload"
    PROVE  /\ PassInv(worker) /\ Kind \in Kinds /\ ~Panics(worker.gw.spec)
           /\ workload'[Kind] # None /\ workload'[Kind].spec = worker.gw.spec
           /\ \A k \in Kinds : k # Kind => workload'[k] = workload[k]
           /\ owned' = (owned \/ workload' # workload)
<1>1. PassInv(worker)
  BY DEF Inv, WorkerInv, Idle
<1>2. /\ worker.gw \in GwType /\ Kind \in Kinds /\ worker.gw.spec \in Specs
      /\ worker.routerID \in RouterIDs
  BY <1>1, PassTyped DEF Kind
<1> DEFINE w == WorkloadFor(worker.gw, worker.routerID)
<1>3. w \in WorkloadType /\ w.spec = worker.gw.spec
  BY <1>2 DEF WorkloadFor, WorkloadType, GwType
<1>4. workload' = [workload EXCEPT ![Kind] = w] /\ owned' = (owned \/ workload' # workload)
  BY DEF Accepted
<1> HIDE DEF w
<1>5. workload'[Kind] = w /\ \A k \in Kinds : k # Kind => workload'[k] = workload[k]
  BY <1>2, <1>4 DEF Inv, ClusterInv
<1> QED
  BY <1>1, <1>2, <1>3, <1>4, <1>5, NoneIsNoObject DEF Accepted

LEMMA SeenStays == Inv /\ SeenInv /\ [Next]_vars => SeenInv'
<1> SUFFICES ASSUME Inv, SeenInv, [Next]_vars PROVE SeenInv'
  OBVIOUS
<1>1. ASSUME UNCHANGED <<workload, seen, owned>>
      PROVE  SeenInv'
  BY <1>1 DEF SeenInv
<1>2. ASSUME owned' = TRUE
      PROVE  SeenInv'
  BY <1>2 DEF SeenInv
<1>3. ASSUME seen' = {k \in Kinds : workload[k] # None}, workload' = workload
      PROVE  SeenInv'
  BY <1>3 DEF SeenInv
<1>4. ASSUME Accepted, seen' = seen
      PROVE  SeenInv'
  BY <1>4 DEF Accepted, SeenInv, Inv, ClusterInv
<1>5. CASE User
  BY <1>1, <1>2, <1>5
     DEF User, EditGw, RecreateGw, DeleteGw, ReplaceKeepAlived, ChangeConn,
         DeleteWorkload, Remove, clusterVars
<1>6. CASE AssignRouterID \/ Informer \/ Resync
  BY <1>1, <1>3, <1>6
     DEF AssignRouterID, Informer, DeliverGw, DeliverOwned, DeliverPods, Resync,
         clusterVars
<1>7. CASE Kubernetes
  BY <1>2, <1>7
     DEF Kubernetes, CollectGarbage, Remove, StartPod, StopPod, CreatePod, SetPod
<1>8. CASE Worker
  <2>1. CASE FetchStops \/ FetchRetries \/ Fetch
    BY <1>1, <2>1 DEF FetchStops, FetchRetries, Fetch, TakeKey, clusterVars
  <2>2. CASE WriteWorkload \/ WriteRefused \/ WorkloadUnchanged
    BY <1>1, <1>4, <2>2 DEF WriteWorkload, WriteRefused, WorkloadUnchanged, AtWorkload
  <2>3. CASE RefreshConns \/ (\E p \in Pods : Exec(p)) \/ ExecDone \/ UpdateVpnGW
    BY <1>1, <2>3 DEF RefreshConns, Exec, ExecDone, UpdateVpnGW, clusterVars
  <2> QED
    BY <1>8, <2>1, <2>2, <2>3 DEF Worker
<1>9. CASE Failure
  <2>1. CASE WriteFails
    BY <1>1, <1>4, <2>1 DEF WriteFails, AtWorkload
  <2>2. CASE StatusFails \/ \E p \in Pods : ExecFails(p)
    BY <1>1, <2>2 DEF StatusFails, ExecFails, clusterVars
  <2>3. CASE Restart
    BY <1>3, <2>3 DEF Restart
  <2>4. CASE \E p \in Pods : RestartPod(p)
    BY <1>2, <2>4 DEF RestartPod, SetPod
  <2> QED
    BY <1>9, <2>1, <2>2, <2>3, <2>4 DEF Failure
<1>10. CASE UNCHANGED vars
  BY <1>1, <1>10 DEF vars, clusterVars
<1> QED
  BY <1>5, <1>6, <1>7, <1>8, <1>9, <1>10 DEF Next

(* What the invariant is about stays; or another pass is sure to come.     *)
LEMMA SameDeployed ==
    ASSUME DeployedInv, SeenInv', ka'.state = ka.state, hist' = hist,
           UNCHANGED <<gw, gwWatch, workload, owned, queued, worker>>
    PROVE  DeployedInv'
<1>1. Quiet' = Quiet /\ PastWorkload' = PastWorkload /\ Deployable' = Deployable
  BY DEF Quiet, PastWorkload, Deployable
<1> QED
  BY <1>1 DEF DeployedInv

LEMMA DeployedAnyway ==
    ASSUME SeenInv', queued' \/ owned' \/ gwWatch' # <<>>
    PROVE  DeployedInv'
BY DEF DeployedInv, Quiet

LEMMA WriteIsWatched ==
    ASSUME GwInv, NEW g \in Copy, WriteGw(g)
    PROVE  gwWatch' # <<>>
<1>1. gwWatch \in Seq(Copy) /\ gwWatch' = Append(gwWatch, g)
  BY DEF GwInv, WriteGw
<1>2. /\ gwWatch' \in Seq(Copy) /\ Len(gwWatch') = Len(gwWatch) + 1
      /\ Len(gwWatch) \in Nat
  BY <1>1, Appending
<1> QED
  BY <1>1, <1>2

LEMMA UserDeployed ==
    ASSUME Inv, DeployedInv, SeenInv', User
    PROVE  DeployedInv'
<1>1. GwInv /\ rev + 1 \in Nat /\ gw \in Copy
  BY DEF Inv, GwInv
<1>2. ASSUME NEW s \in Specs, EditGw(s)
      PROVE  DeployedInv'
  <2> DEFINE g == [gw EXCEPT !.rev = rev + 1, !.spec = s]
  <2>1. gw \in GwType
    BY <1>1, <1>2 DEF EditGw, Copy
  <2>2. g \in Copy
    BY <1>1, <2>1 DEF GwType, Copy
  <2>3. WriteGw(g)
    BY <1>2 DEF EditGw, UserWrites
  <2> HIDE DEF g
  <2> QED
    BY <1>1, <2>2, <2>3, WriteIsWatched, DeployedAnyway
<1>3. ASSUME NEW s \in Specs, RecreateGw(s)
      PROVE  DeployedInv'
  <2>1. NewGw(rev + 1, s) \in Copy /\ WriteGw(NewGw(rev + 1, s))
    BY <1>1, <1>3, NewGwType DEF RecreateGw, UserWrites, Copy
  <2> QED
    BY <1>1, <2>1, WriteIsWatched, DeployedAnyway
<1>4. CASE DeleteGw
  <2>1. None \in Copy /\ WriteGw(None)
    BY <1>4 DEF DeleteGw, UserWrites, Copy
  <2> QED
    BY <1>1, <2>1, WriteIsWatched, DeployedAnyway
<1>5. ASSUME NEW state, ReplaceKeepAlived(state)
      PROVE  DeployedInv'
  BY <1>5 DEF ReplaceKeepAlived, Mark, gwVars, clusterVars, DeployedInv, Quiet,
              PastWorkload
<1>6. ASSUME NEW c \in Conns, NEW state \in ConnStates, ChangeConn(c, state)
      PROVE  DeployedInv'
  BY <1>6, SameDeployed DEF ChangeConn, gwVars, clusterVars
<1>7. ASSUME NEW k \in Kinds, DeleteWorkload(k)
      PROVE  DeployedInv'
  BY <1>7, DeployedAnyway DEF DeleteWorkload, Remove
<1> QED
  BY <1>2, <1>3, <1>4, <1>5, <1>6, <1>7 DEF User

LEMMA ClusterDeployed ==
    ASSUME Inv, DeployedInv, SeenInv', AssignRouterID \/ Informer \/ Resync \/ Kubernetes
    PROVE  DeployedInv'
<1>1. CASE AssignRouterID
  <2>1. ka \in KaType
    BY DEF Inv, ClusterInv
  <2>2. [ka EXCEPT !.routerID = 1].state = ka.state
    BY <2>1 DEF KaType
  <2>3. ka'.state = ka.state
    BY <1>1, <2>2 DEF AssignRouterID
  <2> QED
    BY <1>1, <2>3, SameDeployed DEF AssignRouterID, gwVars, clusterVars
<1>2. CASE DeliverGw \/ DeliverOwned \/ Resync
  BY <1>2, DeployedAnyway DEF DeliverGw, DeliverOwned, Resync
<1>4. CASE DeliverPods
  BY <1>4, SameDeployed DEF DeliverPods, gwVars
<1>3. CASE Kubernetes
  BY <1>3, DeployedAnyway
     DEF Kubernetes, CollectGarbage, Remove, StartPod, StopPod, CreatePod, SetPod
<1> QED
  BY <1>1, <1>2, <1>3, <1>4 DEF Informer

LEMMA FailureDeployed ==
    ASSUME SeenInv', Failure
    PROVE  DeployedInv'
<1>1. CASE WriteFails \/ StatusFails \/ \E p \in Pods : ExecFails(p) \/ RestartPod(p)
  BY <1>1, DeployedAnyway
     DEF WriteFails, StatusFails, ExecFails, RestartPod, SetPod, Retry
<1>2. CASE Restart
  BY <1>2 DEF Restart, DeployedInv, Quiet, PastWorkload, Idle, Deployable
<1> QED
  BY <1>1, <1>2 DEF Failure

-----------------------------------------------------------------------------
(* A step of the pass: it takes the worker past the workload only if the   *)
(* workload is there.                                                      *)
LEMMA FetchDeployed ==
    ASSUME AgreeInv, DeployedInv, SeenInv', FetchStops \/ FetchRetries \/ Fetch
    PROVE  DeployedInv'
<1>1. UNCHANGED <<gw, gwWatch, gwCache, ka, workload, owned>>
  BY DEF FetchStops, FetchRetries, Fetch, TakeKey, gwVars, clusterVars
<1>2. CASE FetchRetries
  BY <1>2, DeployedAnyway DEF FetchRetries, Retry
<1>3. CASE FetchStops
  <2>1. Quiet' => ~Deployable'
    BY <1>1, <1>3 DEF FetchStops, NeedsKa, Deployable, Quiet, AgreeInv, LastEvent
  <2>2. worker = Idle /\ worker' = worker
    BY <1>3 DEF FetchStops, TakeKey
  <2> QED
    BY <2>1, <2>2 DEF DeployedInv, PastWorkload, Idle
<1>4. CASE Fetch
  <2>1. worker' = Fetching(gwCache, IF NeedsKa THEN ka.routerID ELSE 0)
    BY <1>4 DEF Fetch, Fetching
  <2>2. worker'.pc = "workload"
    BY <2>1 DEF Fetching, Idle
  <2> QED
    BY <2>2 DEF DeployedInv, PastWorkload, Idle
<1> QED
  BY <1>2, <1>3, <1>4

LEMMA WorkloadDeployed ==
    ASSUME Inv, AgreeInv, DeployedInv, SeenInv',
           WriteWorkload \/ WriteRefused \/ WorkloadUnchanged
    PROVE  DeployedInv'
<1>1. worker.pc = "workload" /\ UNCHANGED <<gw, gwWatch>>
  BY DEF WriteWorkload, WriteRefused, WorkloadUnchanged, AtWorkload, gwVars
<1>2. CASE WriteRefused
  BY <1>2, DeployedAnyway DEF WriteRefused, Retry
<1>3. CASE AfterWorkload /\ (Quiet' => workload'[Kind] # None)
  <2>1. PICK w \in Pass : w = worker
    BY <1>1 DEF Inv, WorkerInv, PassInv, Idle
  <2>2. PICK pc \in {"connections", "status"} : worker' = [w EXCEPT !.pc = pc]
    BY <1>3, <2>1 DEF AfterWorkload
  <2>3. worker'.pc = pc /\ worker'.gw = w.gw
    BY <2>2 DEF Pass
  <2> QED
    BY <1>3, <2>1, <2>3 DEF DeployedInv, Idle, Kind
<1>4. CASE WriteWorkload
  BY <1>1, <1>3, <1>4, AcceptedWrites DEF WriteWorkload
<1>5. CASE WorkloadUnchanged
  <2>1. Quiet' => Quiet
    BY <1>1, <1>5 DEF Quiet, WorkloadUnchanged, AfterWorkload
  <2>2. Kind \in seen /\ workload' = workload
    BY <1>5 DEF WorkloadUnchanged, ToCreate
  <2>3. Quiet => workload[Kind] # None
    BY <2>2 DEF Quiet, DeployedInv, SeenInv
  <2> QED
    BY <1>3, <1>5, <2>1, <2>2, <2>3 DEF WorkloadUnchanged
<1> QED
  BY <1>2, <1>4, <1>5

(* Refreshing the connections takes the worker on with the same gateway,   *)
(* or ends the pass.                                                       *)
LEMMA ConnsStep ==
    ASSUME PassInv(worker), RefreshConns \/ (\E p \in Pods : Exec(p)) \/ ExecDone
    PROVE  Retry \/ (/\ queued' = queued /\ worker'.gw = worker.gw
                     /\ worker'.pc \in {"exec", "status"})
<1>1. PICK w \in Pass : w = worker
  BY DEF PassInv
<1>2. CASE RefreshConns /\ ConnsValid /\ getVpnGwPodNames # {}
  <2> DEFINE running == Running(getVpnGwPodNames)
             v == [w EXCEPT
                      !.pc = "exec", !.conns = Listed, !.cmd = Good,
                      !.pods = getVpnGwPodNames, !.todo = getVpnGwPodNames,
                      !.allRunning = running]
  <2>1. worker' = v /\ queued' = queued
    BY <1>1, <1>2 DEF RefreshConns
  <2> HIDE DEF running
  <2>2. v.pc = "exec" /\ v.gw = w.gw
    BY DEF Pass
  <2> HIDE DEF v
  <2> QED
    BY <1>1, <2>1, <2>2
<1>3. ASSUME NEW p \in Pods, Exec(p), pods[p] # None /\ pods[p].state = "up"
      PROVE  /\ queued' = queued /\ worker'.gw = worker.gw
             /\ worker'.pc \in {"exec", "status"}
  <2> DEFINE v == [w EXCEPT !.todo = w.todo \ {p}]
  <2>1. worker' = v /\ queued' = queued /\ w.pc = "exec"
    BY <1>1, <1>3 DEF Exec
  <2>2. v.pc = w.pc /\ v.gw = w.gw
    BY DEF Pass
  <2> HIDE DEF v
  <2> QED
    BY <1>1, <2>1, <2>2
<1>4. CASE ExecDone /\ worker.allRunning
  <2> DEFINE v == [w EXCEPT !.pc = "status"]
  <2>1. worker' = v /\ queued' = queued
    BY <1>1, <1>4 DEF ExecDone
  <2>2. v.pc = "status" /\ v.gw = w.gw
    BY DEF Pass
  <2> HIDE DEF v
  <2> QED
    BY <1>1, <2>1, <2>2
<1> QED
  BY <1>2, <1>3, <1>4 DEF RefreshConns, Exec, ExecDone

LEMMA ConnsDeployed ==
    ASSUME Inv, DeployedInv, SeenInv',
           RefreshConns \/ (\E p \in Pods : Exec(p)) \/ ExecDone
    PROVE  DeployedInv'
<1>1. /\ worker.pc \in {"connections", "exec"} /\ worker # Idle
      /\ UNCHANGED <<gw, gwWatch, workload, owned>>
  BY DEF RefreshConns, Exec, ExecDone, gwVars, clusterVars, Idle
<1>2. CASE Retry
  BY <1>2, DeployedAnyway DEF Retry
<1>3. CASE queued' = queued /\ worker'.gw = worker.gw /\ worker'.pc # "idle"
  BY <1>1, <1>3 DEF DeployedInv, Quiet, PastWorkload, Idle
<1> QED
  BY <1>1, <1>2, <1>3, ConnsStep DEF Inv, WorkerInv

LEMMA UpdateDeployed ==
    ASSUME Inv, AgreeInv, DeployedInv, SeenInv', UpdateVpnGW
    PROVE  DeployedInv'
<1>1. UNCHANGED <<ka, workload, owned>> /\ worker.pc = "status"
  BY DEF UpdateVpnGW, clusterVars
<1>2. CASE Retry
  BY <1>2, DeployedAnyway DEF Retry
<1>3. ASSUME NEW g, WriteGw(g)
      PROVE  DeployedInv'
  <2>1. g \in Copy
    BY <1>3, StatusWrites DEF WriteGw, GwInv
  <2> QED
    BY <1>3, <2>1, WriteIsWatched, DeployedAnyway DEF Inv
<1>4. CASE Done /\ UNCHANGED gwVars
  <2>1. worker # Idle /\ PastWorkload
    BY <1>1 DEF Idle, PastWorkload
  <2>2. Quiet => worker.gw = gw
    BY <2>1 DEF AgreeInv, QuietWorker
  <2>3. worker' = Idle /\ queued' = queued /\ UNCHANGED <<gw, gwWatch>>
    BY <1>4 DEF Done, gwVars
  <2> QED
    BY <1>1, <2>1, <2>2, <2>3 DEF DeployedInv, Quiet, PastWorkload, Idle, Deployable
<1> QED
  BY <1>2, <1>3, <1>4 DEF UpdateVpnGW

LEMMA NextDeployed ==
    ASSUME Inv, AgreeInv, DeployedInv, [Next]_vars
    PROVE  DeployedInv'
<1>1. SeenInv'
  BY SeenStays DEF DeployedInv
<1>2. CASE Worker
  BY <1>1, <1>2, FetchDeployed, WorkloadDeployed, ConnsDeployed, UpdateDeployed DEF Worker
<1>3. CASE UNCHANGED vars
  BY <1>1, <1>3, SameDeployed DEF vars, gwVars, clusterVars
<1> QED
  BY <1>1, <1>2, <1>3, UserDeployed, ClusterDeployed, FailureDeployed DEF Next

LEMMA DeployedInvariant == Safe => []DeployedInv
<1>1. Inv /\ AgreeInv /\ DeployedInv /\ [Next]_vars => DeployedInv'
  BY NextDeployed
<1> QED
  BY <1>1, InitDeployed, InductiveInv, AgreeInvariant, PTL DEF Safe

(* Whatever is edited, recreated or deleted in the middle of a pass, and   *)
(* whatever fails, a controller with nothing left to do has a workload of  *)
(* the kind its gateway asks for: the handler looks for it in every pass   *)
(* (handleAddOrUpdateVpnStatefulset, handleAddOrUpdateVpnDaemonset).       *)
THEOREM DeployedWhenSettledHolds == Safe => []DeployedWhenSettled
<1>1. DeployedInv => DeployedWhenSettled
  BY DEF DeployedInv, DeployedWhenSettled, Settled, Quiet
<1> QED
  BY <1>1, DeployedInvariant, PTL

-----------------------------------------------------------------------------
(* Edits at rest, of fields the controller follows.                        *)

(* A spec that the handler can deploy, and the fields of a status that it  *)
(* always copies.                                                          *)
Fit(s) == validateVpnGw(s) /\ ~Panics(s)

Matches(status, s) ==
    status.res = s.res /\ status.ssl = s.ssl /\ status.ipsec = s.ipsec

(* Two specs a user goes back and forth between differ in such a field;    *)
(* isChanged compares no more of them reliably, see README.md.             *)
EditsAreSeen ==
    \A s, t \in Specs : Fit(s) /\ Fit(t) /\ Matches(s, t) => s = t

(* No user hurried, and no pass recorded what it did not deploy.           *)
Calm == hist \cap {"hurried", "skewed"} = {}

(* A stored gateway whose KeepAlived, if it needs one, a pass has seen.    *)
KaReady ==
    gw # None
    /\ (gw.spec.keepalived => ka.state = "valid" /\ "replaced" \notin hist)

(* A controller with nothing left to do has recorded the spec.             *)
RestMatches ==
    Quiet /\ worker = Idle /\ KaReady /\ Fit(gw.spec) => Matches(gw.status, gw.spec)

(* A copy from before the last write, if there was one: a deletion, an     *)
(* edit at rest, or the record of a pass over the same spec.               *)
Older(g) ==
    \/ gw = None \/ g = None
    \/ g.status = gw.status /\ (Fit(g.spec) => Matches(g.status, g.spec))
    \/ g.spec = gw.spec /\ Matches(gw.status, gw.spec)

(* At most one write is on its way to the cache.                           *)
Pipeline ==
    \/ gwWatch = <<>> /\ gwCache = gw
    \/ gwWatch = <<gw>> /\ gwCache # gw /\ Older(gwCache)

(* A workload whose spec the status matches is that of the spec, or of the *)
(* stored one, which the status is yet to match.                           *)
StatusInv ==
    gw # None => \A s \in Specs :
        Fit(s) /\ Matches(gw.status, s) /\ workload[s.kind] # None
            => workload[s.kind].spec \in {s, gw.spec}

(* A pass over the stored spec leaves the workload of it, or had nothing   *)
(* to do.                                                                  *)
Deployed(g) ==
    gw # None /\ g.spec = gw.spec =>
        IF Panics(gw.spec)
        THEN Matches(gw.status, gw.spec)
        ELSE workload[gw.spec.kind] # None => workload[gw.spec.kind].spec = gw.spec

BusyInv ==
    worker # Idle =>
        /\ worker.gw = gw \/ Older(worker.gw)
        /\ PastWorkload => Deployed(worker.gw)

ValidPass == worker # Idle => validateVpnGw(worker.gw.spec)

WorkloadsFit == \A k \in Kinds : workload[k] # None => Fit(workload[k].spec)

AppliedInv ==
    /\ WorkloadsFit /\ ValidPass /\ RestMatches
    /\ Calm => Pipeline /\ StatusInv /\ BusyInv

LEMMA InitApplied == Init => AppliedInv
<1> SUFFICES ASSUME Init PROVE AppliedInv
  OBVIOUS
<1>1. gwWatch = <<gw>> /\ gwCache = None /\ \A k \in Kinds : workload[k] = None
  BY DEF Init
<1>2. gwWatch # <<>> /\ gw # None
  BY <1>1, NoneIsNoObject, NewGwType DEF Init
<1>3. StatusInv /\ WorkloadsFit
  BY <1>1, SpecFields DEF StatusInv, WorkloadsFit
<1>4. Pipeline
  BY <1>1, <1>2 DEF Pipeline, Older
<1> QED
  BY <1>2, <1>3, <1>4
     DEF Init, AppliedInv, BusyInv, ValidPass, RestMatches, Quiet

(* A step that leaves the gateway alone and makes no workload.             *)
LEMMA NoWorkloadMade ==
    ASSUME AppliedInv, gw' = gw, Calm' => Calm,
           \A k \in Kinds : workload'[k] \in {workload[k], None},
           RestMatches', ValidPass', Calm' => Pipeline' /\ BusyInv'
    PROVE  AppliedInv'
<1>1. WorkloadsFit'
  BY DEF AppliedInv, WorkloadsFit
<1>2. StatusInv => StatusInv'
  BY SpecFields DEF StatusInv
<1> QED
  BY <1>1, <1>2 DEF AppliedInv

(* What the invariant is about stays, up to workloads that go.             *)
LEMMA SameApplied ==
    ASSUME Inv, AppliedInv, UNCHANGED <<gw, gwWatch, gwCache, worker>>,
           \A k \in Kinds : workload'[k] \in {workload[k], None},
           Calm' => Calm, KaReady' => KaReady, Quiet' => Quiet
    PROVE  AppliedInv'
<1>1. PastWorkload' = PastWorkload
  BY DEF PastWorkload
<1>2. worker # Idle => worker.gw \in GwType /\ worker.gw.spec.kind \in Kinds
  BY PassTyped DEF Inv, WorkerInv
<1>3. BusyInv => BusyInv'
  BY <1>1, <1>2 DEF BusyInv, Deployed, Older
<1>4. Pipeline => Pipeline'
  BY DEF Pipeline, Older
<1>5. RestMatches' /\ ValidPass'
  BY DEF AppliedInv, RestMatches, ValidPass
<1> QED
  BY <1>3, <1>4, <1>5, NoWorkloadMade DEF AppliedInv

(* The pass ends, and another one is sure to come.                         *)
LEMMA RetryApplied ==
    ASSUME AppliedInv, gw' = gw, Calm' => Calm, worker' = Idle,
           queued' \/ owned' \/ gwWatch' # <<>>, Calm' => Pipeline',
           \A k \in Kinds : workload'[k] \in {workload[k], None}
    PROVE  AppliedInv'
<1>1. BusyInv' /\ ValidPass' /\ RestMatches'
  BY DEF BusyInv, ValidPass, RestMatches, Quiet
<1> QED
  BY <1>1, NoWorkloadMade

LEMMA SamePipeline ==
    ASSUME AppliedInv, UNCHANGED <<gw, gwWatch, gwCache>>, Calm' => Calm
    PROVE  Calm' => Pipeline'
BY DEF AppliedInv, Pipeline, Older

(* Somebody writes the gateway; the worker is or becomes idle.             *)
LEMMA WriteApplied ==
    ASSUME GwInv, AppliedInv, NEW g \in Copy, WriteGw(g), worker' = Idle,
           UNCHANGED workload,
           Calm' => gwWatch = <<>> /\ Older(gwCache)' /\ gwCache' # g /\ StatusInv'
    PROVE  AppliedInv'
<1>1. gwWatch' # <<>> /\ gw' = g
  BY WriteIsWatched DEF WriteGw
<1>2. BusyInv' /\ ValidPass' /\ RestMatches'
  BY <1>1 DEF BusyInv, ValidPass, RestMatches, Quiet
<1>3. WorkloadsFit'
  BY DEF AppliedInv, WorkloadsFit
<1>4. ASSUME Calm'
      PROVE  Pipeline'
  <2>1. gwWatch' = <<gw'>>
    BY <1>1, <1>4 DEF WriteGw
  <2> QED
    BY <1>1, <1>4, <2>1 DEF Pipeline
<1> QED
  BY <1>2, <1>3, <1>4 DEF AppliedInv

(* A copy of the gateway is not the one that is being written.             *)
LEMMA NewVersion ==
    ASSUME GwInv, NEW g \in Copy, g # None => g.rev = rev + 1, g = None => gw # None,
           gwCache = gw
    PROVE  gwCache # g
<1>1. CASE gwCache # None
  <2>1. gwCache.rev \in Nat /\ gwCache.rev <= rev /\ rev \in Nat
    BY <1>1 DEF GwInv, Copy, GwType, OldCopy
  <2> QED
    BY <1>1, <2>1
<1> QED
  BY <1>1

(* A user who is not in a hurry finds the controller with nothing left to  *)
(* do, and the cache up to date.                                           *)
LEMMA Unhurried ==
    ASSUME AgreeInv, AppliedInv, NEW g, UserWrites(g), Calm'
    PROVE  /\ AtRest /\ Quiet /\ worker = Idle /\ gwWatch = <<>> /\ gwCache = gw
           /\ gw # None => Calm /\ (Fit(gw.spec) => Matches(gw.status, gw.spec))
<1>1. AtRest
  BY DEF UserWrites, Calm
<1>2. Quiet /\ worker = Idle /\ gwWatch = <<>>
  BY <1>1 DEF AtRest, Settled, Quiet
<1>3. gw # None => KaReady /\ Calm
  BY <1>1 DEF AtRest, KaReady, UserWrites, Calm
<1> QED
  BY <1>1, <1>2, <1>3 DEF AgreeInv, LastEvent, AppliedInv, RestMatches

(* A user writes before the controller is at rest.                         *)
LEMMA HurriedApplied ==
    ASSUME GwInv, AppliedInv, NEW g \in Copy, WriteGw(g), ~Calm',
           UNCHANGED <<workload, worker>>
    PROVE  AppliedInv'
<1>1. gwWatch' # <<>>
  BY WriteIsWatched
<1> QED
  BY <1>1 DEF AppliedInv, WorkloadsFit, ValidPass, RestMatches, Quiet

LEMMA EditApplied ==
    ASSUME EditsAreSeen, Inv, AgreeInv, AppliedInv, NEW s \in Specs, EditGw(s)
    PROVE  AppliedInv'
<1>1. GwInv /\ rev + 1 \in Nat /\ gw \in GwType /\ gw # None
  BY DEF Inv, GwInv, EditGw, Copy
<1> DEFINE g == [gw EXCEPT !.rev = rev + 1, !.spec = s]
<1>2. g \in GwType /\ g.status = gw.status /\ g.spec = s /\ g.rev = rev + 1
  BY <1>1 DEF GwType
<1>3. /\ UserWrites(g) /\ WriteGw(g) /\ gw' = g
      /\ UNCHANGED <<gwCache, workload, worker>>
  BY DEF EditGw, UserWrites, WriteGw, clusterVars
<1> HIDE DEF g
<1>4. ASSUME Calm'
      PROVE  /\ gwWatch = <<>> /\ Older(gwCache)' /\ gwCache' # g /\ StatusInv'
             /\ worker = Idle
  <2>1. /\ gwWatch = <<>> /\ worker = Idle /\ gwCache = gw /\ Calm
        /\ Fit(gw.spec) => Matches(gw.status, gw.spec)
    BY <1>1, <1>3, <1>4, Unhurried
  <2>2. StatusInv
    BY <2>1 DEF AppliedInv
  <2>3. ASSUME NEW t \in Specs, Fit(t), Matches(gw.status, t), workload[t.kind] # None
        PROVE  workload[t.kind].spec = t
    <3>1. t.kind \in Kinds /\ Fit(workload[t.kind].spec)
      BY <2>3, SpecFields DEF AppliedInv, WorkloadsFit
    <3>2. workload[t.kind].spec \in {t, gw.spec}
      BY <1>1, <2>2, <2>3 DEF StatusInv
    <3>3. CASE workload[t.kind].spec = gw.spec
      <4>1. Fit(gw.spec) /\ gw.spec \in Specs
        BY <1>1, <3>1, <3>3 DEF GwType
      <4>2. Matches(gw.spec, t)
        BY <2>1, <2>3, <4>1 DEF Matches
      <4> QED
        BY <2>3, <3>3, <4>1, <4>2 DEF EditsAreSeen
    <3> QED
      BY <3>2, <3>3
  <2>4. StatusInv'
    BY <1>2, <1>3, <2>3 DEF StatusInv
  <2>5. Older(gwCache)'
    BY <1>2, <1>3, <2>1 DEF Older
  <2>6. gwCache' # g
    BY <1>1, <1>2, <1>3, <2>1, NewVersion, NoneIsNoObject DEF Copy
  <2> QED
    BY <2>1, <2>4, <2>5, <2>6
<1>5. CASE Calm'
  BY <1>1, <1>2, <1>3, <1>4, <1>5, WriteApplied DEF Copy
<1> QED
  BY <1>1, <1>2, <1>3, <1>5, HurriedApplied DEF Copy

LEMMA UserApplied ==
    ASSUME EditsAreSeen, Inv, AgreeInv, AppliedInv, User
    PROVE  AppliedInv'
<1>1. GwInv /\ rev + 1 \in Nat /\ gw \in Copy
  BY DEF Inv, GwInv
<1>2. ASSUME NEW s \in Specs, RecreateGw(s)
      PROVE  AppliedInv'
  <2> DEFINE g == NewGw(rev + 1, s)
  <2>1. g \in GwType /\ g.rev = rev + 1 /\ g.status.res = Unset
    BY <1>1, NewGwType DEF NewGw, EmptyStatus
  <2>2. /\ UserWrites(g) /\ WriteGw(g) /\ gw' = g /\ gw = None
        /\ UNCHANGED <<gwCache, workload, worker>>
    BY <1>2 DEF RecreateGw, UserWrites, WriteGw, clusterVars
  <2> HIDE DEF g
  <2>3. \A t \in Specs : ~Matches(g.status, t)
    BY <2>1, SpecFields DEF Matches, Values, Unset
  <2>4. StatusInv'
    BY <2>2, <2>3 DEF StatusInv
  <2>5. CASE Calm'
    <3>1. gwWatch = <<>> /\ worker = Idle /\ gwCache = gw
      BY <2>2, <2>5, Unhurried
    <3>2. gwCache' # g
      BY <2>1, <2>2, <3>1, NoneIsNoObject
    <3> QED
      BY <1>1, <2>1, <2>2, <2>4, <3>1, <3>2, WriteApplied DEF Older, Copy
  <2> QED
    BY <1>1, <2>1, <2>2, <2>5, HurriedApplied DEF Copy
<1>3. CASE DeleteGw
  <2>1. /\ None \in Copy /\ UserWrites(None) /\ WriteGw(None) /\ gw' = None
        /\ gw # None /\ UNCHANGED <<gwCache, workload, worker>>
    BY <1>3 DEF DeleteGw, Copy, UserWrites, WriteGw, clusterVars
  <2>2. StatusInv'
    BY <2>1 DEF StatusInv
  <2>3. CASE Calm'
    <3>1. gwWatch = <<>> /\ worker = Idle /\ gwCache = gw
      BY <2>1, <2>3, Unhurried
    <3> QED
      BY <1>1, <2>1, <2>2, <3>1, WriteApplied DEF Older
  <2> QED
    BY <1>1, <2>1, <2>3, HurriedApplied
<1>4. ASSUME NEW state, ReplaceKeepAlived(state)
      PROVE  AppliedInv'
  <2>1. /\ UNCHANGED <<gw, gwWatch, gwCache, worker, workload, queued, owned>>
        /\ hist' = hist \cup {"replaced"}
    BY <1>4 DEF ReplaceKeepAlived, Mark, gwVars, clusterVars
  <2>2. (Calm' => Calm) /\ (KaReady' => KaReady) /\ (Quiet' => Quiet)
    BY <2>1 DEF Calm, KaReady, Quiet
  <2> QED
    BY <2>1, <2>2, SameApplied
<1>5. ASSUME NEW c \in Conns, NEW state \in ConnStates, ChangeConn(c, state)
      PROVE  AppliedInv'
  BY <1>5, SameApplied DEF ChangeConn, gwVars, clusterVars, Quiet, Calm, KaReady
<1>6. ASSUME NEW k \in Kinds, DeleteWorkload(k)
      PROVE  AppliedInv'
  <2>1. UNCHANGED <<gw, gwWatch, gwCache, worker, ka, hist>> /\ owned' = TRUE
    BY <1>6 DEF DeleteWorkload, Remove, gwVars
  <2>2. \A l \in Kinds : workload'[l] \in {workload[l], None}
    BY <1>6 DEF DeleteWorkload, Remove, Inv, ClusterInv
  <2> QED
    BY <2>1, <2>2, SameApplied DEF Quiet, Calm, KaReady
<1> QED
  BY <1>2, <1>3, <1>4, <1>5, <1>6, EditApplied DEF User

LEMMA ClusterApplied ==
    ASSUME Inv, AppliedInv, AssignRouterID \/ Informer \/ Resync \/ Kubernetes
    PROVE  AppliedInv'
<1>1. CASE AssignRouterID
  <2>1. ka \in KaType
    BY DEF Inv, ClusterInv
  <2>2. [ka EXCEPT !.routerID = 1].state = ka.state
    BY <2>1 DEF KaType
  <2>3. /\ ka'.state = ka.state
        /\ UNCHANGED <<gw, gwWatch, gwCache, worker, workload, queued, owned, hist>>
    BY <1>1, <2>2 DEF AssignRouterID, gwVars, clusterVars
  <2> QED
    BY <2>3, SameApplied DEF Quiet, Calm, KaReady
<1>2. CASE DeliverGw
  <2>1. /\ gwWatch # <<>> /\ UNCHANGED <<gw, ka, workload, worker, hist>> /\ queued'
        /\ gwCache' = Head(gwWatch) /\ gwWatch' = Tail(gwWatch)
    BY <1>2 DEF DeliverGw, clusterVars
  <2>2. Calm' => Calm /\ gwWatch = <<gw>>
    BY <2>1 DEF AppliedInv, Calm, Pipeline
  <2>3. Calm' => Pipeline'
    BY <2>1, <2>2 DEF Pipeline
  <2>4. BusyInv => BusyInv'
    BY <2>1 DEF BusyInv, PastWorkload, Deployed, Older
  <2>5. RestMatches' /\ ValidPass'
    BY <2>1 DEF AppliedInv, RestMatches, ValidPass, Quiet
  <2> QED
    BY <2>1, <2>2, <2>3, <2>4, <2>5, NoWorkloadMade DEF AppliedInv
<1>3. CASE DeliverOwned \/ DeliverPods \/ Resync
  <2>1. /\ UNCHANGED <<gw, gwWatch, gwCache, worker, ka, hist, workload>>
        /\ queued' = TRUE \/ UNCHANGED <<queued, owned>>
    BY <1>3 DEF DeliverOwned, DeliverPods, Resync, gwVars, clusterVars
  <2> QED
    BY <2>1, SameApplied DEF Quiet, Calm, KaReady
<1>4. CASE Kubernetes
  <2>1. UNCHANGED <<gw, gwWatch, gwCache, worker, ka, hist>> /\ owned' = TRUE
    BY <1>4 DEF Kubernetes, CollectGarbage, Remove, StartPod, StopPod, CreatePod,
                SetPod, gwVars
  <2>2. \A l \in Kinds : workload'[l] \in {workload[l], None}
    BY <1>4 DEF Kubernetes, CollectGarbage, Remove, StartPod, StopPod, CreatePod,
                SetPod, Inv, ClusterInv
  <2> QED
    BY <2>1, <2>2, SameApplied DEF Quiet, Calm, KaReady
<1> QED
  BY <1>1, <1>2, <1>3, <1>4 DEF Informer

LEMMA FetchApplied ==
    ASSUME Inv, AgreeInv, AppliedInv, FetchStops \/ FetchRetries \/ Fetch
    PROVE  AppliedInv'
<1>1. /\ UNCHANGED <<gw, gwWatch, gwCache, ka, workload, owned>> /\ worker = Idle
      /\ hist' = hist \ {"replaced"}
  BY DEF FetchStops, FetchRetries, Fetch, TakeKey, Mark, gwVars, clusterVars
<1>2. (Calm' => Calm) /\ (Calm' => Pipeline')
  BY <1>1, SamePipeline DEF Calm
<1>3. CASE FetchRetries
  BY <1>1, <1>2, <1>3, RetryApplied DEF FetchRetries, Retry
<1>4. CASE FetchStops
  <2>1. worker' = Idle /\ (Quiet' => gwCache = gw)
    BY <1>1, <1>4 DEF FetchStops, Quiet, AgreeInv, LastEvent
  <2>2. RestMatches'
    BY <1>1, <1>4, <2>1 DEF FetchStops, NeedsKa, Fit, RestMatches, KaReady
  <2>3. BusyInv' /\ ValidPass'
    BY <2>1 DEF BusyInv, ValidPass
  <2> QED
    BY <1>1, <1>2, <2>2, <2>3, NoWorkloadMade
<1>5. CASE Fetch
  <2>1. worker' = Fetching(gwCache, IF NeedsKa THEN ka.routerID ELSE 0)
    BY <1>5 DEF Fetch, Fetching
  <2>2. worker'.pc = "workload" /\ worker'.gw = gwCache /\ worker' # Idle
    BY <2>1 DEF Fetching, Idle
  <2>3. RestMatches' /\ ValidPass'
    BY <1>5, <2>2 DEF RestMatches, ValidPass, Fetch
  <2>4. Calm' => BusyInv'
    BY <1>1, <1>2, <2>2 DEF BusyInv, PastWorkload, Pipeline, Older
  <2> QED
    BY <1>1, <1>2, <2>3, <2>4, NoWorkloadMade
<1> QED
  BY <1>3, <1>4, <1>5

(* What a pass that does something makes of a copy, the status says of it  *)
(* already, or the stored gateway has the same spec.                       *)
LEMMA CopySpec ==
    ASSUME NEW g \in GwType, gw # None, g = gw \/ Older(g), Fit(g.spec)
    PROVE  g.spec = gw.spec \/ Matches(gw.status, g.spec)
BY NoneIsNoObject DEF Older, Matches

(* An accepted write, whether the handler hears of it or not.              *)
LEMMA AcceptedApplied ==
    ASSUME EditsAreSeen, Inv, AppliedInv, Accepted, worker.pc = "workload",
           UNCHANGED <<gw, gwWatch, gwCache, hist>>, RestMatches', ValidPass',
           Calm' => BusyInv'
    PROVE  AppliedInv'
<1> DEFINE o == worker.gw
<1>1. /\ o \in GwType /\ o.spec \in Specs /\ Kind \in Kinds /\ Kind = o.spec.kind
      /\ Fit(o.spec) /\ workload'[Kind].spec = o.spec
      /\ \A k \in Kinds : k # Kind => workload'[k] = workload[k]
  BY AcceptedWrites, PassTyped DEF AppliedInv, ValidPass, Fit, Idle, Kind
<1>2. (Calm' => Calm) /\ (Calm' => Pipeline')
  BY SamePipeline DEF Calm
<1>3. WorkloadsFit'
  BY <1>1 DEF AppliedInv, WorkloadsFit
<1>4. ASSUME Calm', gw # None, NEW s \in Specs, Fit(s), Matches(gw.status, s),
             workload'[s.kind] # None
      PROVE  workload'[s.kind].spec \in {s, gw.spec}
  <2>1. CASE s.kind = Kind
    <3>1. o = gw \/ Older(o)
      BY <1>2, <1>4 DEF AppliedInv, BusyInv, Idle
    <3>2. CASE Matches(gw.status, o.spec)
      <4>1. Matches(o.spec, s)
        BY <1>4, <3>2 DEF Matches
      <4> QED
        BY <1>1, <1>4, <2>1, <4>1 DEF EditsAreSeen
    <3> QED
      BY <1>1, <1>4, <2>1, <3>1, <3>2, CopySpec
  <2>2. CASE s.kind # Kind
    BY <1>1, <1>2, <1>4, <2>2, SpecFields DEF AppliedInv, StatusInv
  <2> QED
    BY <2>1, <2>2
<1>5. Calm' => StatusInv'
  BY <1>4 DEF StatusInv
<1> QED
  BY <1>2, <1>3, <1>5 DEF AppliedInv

LEMMA WorkloadApplied ==
    ASSUME EditsAreSeen, Inv, AppliedInv,
           WriteWorkload \/ WriteRefused \/ WorkloadUnchanged
    PROVE  AppliedInv'
<1>1. /\ worker.pc = "workload" /\ worker # Idle
      /\ UNCHANGED <<gw, gwWatch, gwCache, hist>>
  BY DEF WriteWorkload, WriteRefused, WorkloadUnchanged, AtWorkload, gwVars, Idle
<1>2. (Calm' => Calm) /\ (Calm' => Pipeline')
  BY <1>1, SamePipeline DEF Calm
<1>3. /\ worker.gw \in GwType /\ worker.gw.spec \in Specs
      /\ validateVpnGw(worker.gw.spec)
      /\ Calm => worker.gw = gw \/ Older(worker.gw)
  BY <1>1, PassTyped DEF Inv, WorkerInv, AppliedInv, ValidPass, BusyInv
<1>4. CASE WriteRefused
  BY <1>1, <1>2, <1>4, RetryApplied DEF WriteRefused, Retry
<1>5. ASSUME AfterWorkload
      PROVE  worker'.pc # "idle" /\ worker'.gw = worker.gw /\ worker' # Idle
  <2>1. PICK w \in Pass : w = worker
    BY <1>1 DEF Inv, WorkerInv, PassInv
  <2>2. PICK pc \in {"connections", "status"} : worker' = [w EXCEPT !.pc = pc]
    BY <1>5, <2>1 DEF AfterWorkload
  <2> QED
    BY <2>1, <2>2 DEF Pass, Idle
<1>6. ASSUME AfterWorkload, Calm' => Deployed(worker.gw)'
      PROVE  RestMatches' /\ ValidPass' /\ (Calm' => BusyInv')
  <2>1. RestMatches' /\ ValidPass'
    BY <1>3, <1>5, <1>6 DEF RestMatches, ValidPass
  <2>2. Calm' => BusyInv'
    BY <1>1, <1>2, <1>3, <1>5, <1>6 DEF BusyInv, Older
  <2> QED
    BY <2>1, <2>2
<1>7. CASE WriteWorkload
  <2>1. Accepted /\ AfterWorkload
    BY <1>7 DEF WriteWorkload
  <2>2. ~Panics(worker.gw.spec) /\ workload'[worker.gw.spec.kind].spec = worker.gw.spec
    BY <1>1, <2>1, AcceptedWrites DEF Kind
  <2>3. Deployed(worker.gw)'
    BY <1>1, <1>5, <2>1, <2>2 DEF Deployed
  <2> QED
    BY <1>1, <1>6, <2>1, <2>3, AcceptedApplied
<1>8. CASE WorkloadUnchanged
  <2>1. AfterWorkload /\ ~isChanged(worker.gw) /\ workload' = workload
    BY <1>8 DEF WorkloadUnchanged, ToCreate, ToUpdate
  <2>2. Matches(worker.gw.status, worker.gw.spec)
    BY <2>1 DEF isChanged, Matches
  <2>3. ASSUME Calm', gw # None, worker.gw.spec = gw.spec
        PROVE  /\ Matches(gw.status, gw.spec)
               /\ ~Panics(gw.spec) /\ workload[gw.spec.kind] # None
                    => workload[gw.spec.kind].spec = gw.spec
    <3>1. Matches(gw.status, gw.spec)
      BY <1>2, <1>3, <2>2, <2>3, NoneIsNoObject DEF Older
    <3> QED
      BY <1>2, <1>3, <2>3, <3>1 DEF AppliedInv, StatusInv, Fit
  <2>4. Calm' => Deployed(worker.gw)'
    BY <1>1, <1>5, <2>1, <2>3 DEF Deployed
  <2> QED
    BY <1>1, <1>2, <1>6, <2>1, <2>4, NoWorkloadMade
<1> QED
  BY <1>4, <1>7, <1>8

LEMMA ConnsApplied ==
    ASSUME Inv, AppliedInv, RefreshConns \/ (\E p \in Pods : Exec(p)) \/ ExecDone
    PROVE  AppliedInv'
<1>1. /\ worker.pc \in {"connections", "exec"} /\ worker # Idle
      /\ UNCHANGED <<gw, gwWatch, gwCache, workload>>
      /\ "hurried" \in hist' <=> "hurried" \in hist
      /\ "skewed" \in hist' <=> "skewed" \in hist
  BY DEF RefreshConns, Exec, ExecDone, Mark, gwVars, clusterVars, Idle
<1>2. (Calm' => Calm) /\ (Calm' => Pipeline')
  BY <1>1, SamePipeline DEF Calm
<1>3. CASE Retry
  BY <1>1, <1>2, <1>3, RetryApplied DEF Retry
<1>4. CASE worker'.gw = worker.gw /\ worker'.pc # "idle"
  <2>1. PastWorkload /\ worker' # Idle
    BY <1>1, <1>4 DEF PastWorkload, Idle
  <2>2. RestMatches' /\ ValidPass'
    BY <1>1, <1>4, <2>1 DEF AppliedInv, RestMatches, ValidPass
  <2>3. Calm' => BusyInv'
    BY <1>1, <1>2, <1>4, <2>1 DEF AppliedInv, BusyInv, Deployed, Older
  <2> QED
    BY <1>1, <1>2, <2>2, <2>3, NoWorkloadMade
<1>5. Retry \/ (worker'.gw = worker.gw /\ worker'.pc # "idle")
  BY <1>1, ConnsStep DEF Inv, WorkerInv
<1> QED
  BY <1>3, <1>4, <1>5

(* The status is written.                                                  *)
LEMMA RecordApplied ==
    ASSUME EditsAreSeen, Inv, AppliedInv, UpdateVpnGW, Done, gw = gwCache, gw # None,
           WriteGw([gw EXCEPT !.rev = rev + 1, !.status = NewStatus(gw, worker.conns)])
    PROVE  AppliedInv'
<1> DEFINE st == NewStatus(gw, worker.conns)
           g == [gw EXCEPT !.rev = rev + 1, !.status = st]
<1>1. /\ worker.pc = "status" /\ worker # Idle /\ PastWorkload
      /\ UNCHANGED <<gwCache, workload>>
  BY DEF UpdateVpnGW, clusterVars, Idle, PastWorkload
<1>2. /\ GwInv /\ gw \in GwType /\ gw.spec \in Specs /\ rev + 1 \in Nat
      /\ worker.conns \in SUBSET Conns
  BY <1>1 DEF Inv, GwInv, Copy, GwType, WorkerInv, PassInv, Pass
<1>3. Matches(st, gw.spec) /\ st \in StatusType
  BY <1>2, NewStatusType DEF NewStatus, Matches
<1> HIDE DEF st
<1>4. g \in GwType /\ g.status = st /\ g.spec = gw.spec /\ g.rev = rev + 1
  BY <1>2, <1>3 DEF GwType
<1>5. WriteGw(g) /\ gw' = g /\ worker' = Idle
  BY DEF WriteGw, Done, st
<1> HIDE DEF g
<1>6. gwCache # g
  BY <1>2, <1>4, NewVersion, NoneIsNoObject DEF Copy
<1>7. ASSUME Calm'
      PROVE  gwWatch = <<>> /\ Older(gwCache)' /\ StatusInv'
  <2>1. Calm /\ worker.gw.spec = gw.spec
    BY <1>5, <1>6, <1>7 DEF UpdateVpnGW, MarkSkewed, Calm
  <2>2. Pipeline /\ StatusInv /\ Deployed(worker.gw) /\ validateVpnGw(gw.spec)
    BY <1>1, <2>1 DEF AppliedInv, BusyInv, ValidPass
  <2>3. gwWatch = <<>>
    BY <2>2 DEF Pipeline
  <2>4. Older(gwCache)'
    BY <1>1, <1>3, <1>4, <1>5 DEF Older
  <2>5. ASSUME NEW s \in Specs, Fit(s), Matches(st, s), workload[s.kind] # None
        PROVE  workload[s.kind].spec \in {s, gw.spec}
    <3>1. Matches(gw.spec, s)
      BY <1>3, <2>5 DEF Matches
    <3>2. CASE Panics(gw.spec)
      <4>1. Matches(gw.status, s)
        BY <2>1, <2>2, <3>1, <3>2 DEF Deployed, Matches
      <4> QED
        BY <2>2, <2>5, <4>1 DEF StatusInv
    <3>3. CASE ~Panics(gw.spec)
      <4>1. s = gw.spec
        BY <1>2, <2>2, <2>5, <3>1, <3>3 DEF EditsAreSeen, Fit
      <4> QED
        BY <2>1, <2>2, <2>5, <3>3, <4>1 DEF Deployed
    <3> QED
      BY <3>2, <3>3
  <2>6. StatusInv'
    BY <1>1, <1>4, <1>5, <2>5 DEF StatusInv
  <2> QED
    BY <2>3, <2>4, <2>6
<1> QED
  BY <1>1, <1>2, <1>4, <1>5, <1>6, <1>7, WriteApplied DEF Copy

LEMMA UpdateApplied ==
    ASSUME EditsAreSeen, Inv, AgreeInv, AppliedInv, UpdateVpnGW
    PROVE  AppliedInv'
<1>1. /\ worker.pc = "status" /\ worker # Idle
      /\ UNCHANGED <<gwCache, workload, owned>>
  BY DEF UpdateVpnGW, clusterVars, Idle
<1>2. CASE Retry /\ UNCHANGED gwVars
  <2>1. (Calm' => Calm) /\ (Calm' => Pipeline')
    BY <1>1, <1>2, SamePipeline DEF UpdateVpnGW, MarkSkewed, gwVars, Calm
  <2> QED
    BY <1>1, <1>2, <2>1, RetryApplied DEF Retry, gwVars
<1>3. CASE /\ Done /\ UNCHANGED gwVars
           /\ gw = gwCache /\ gw # None
                => NewStatus(gwCache, worker.conns) = gw.status
  <2>1. /\ worker' = Idle /\ UNCHANGED <<gw, gwWatch, queued, hist>>
        /\ (Calm' => Calm) /\ (Calm' => Pipeline')
    BY <1>1, <1>3, SamePipeline DEF Done, UpdateVpnGW, MarkSkewed, gwVars, Calm
  <2>2. Quiet' => gwCache = gw
    BY <1>1, <2>1 DEF Quiet, AgreeInv, LastEvent
  <2>3. Quiet' /\ gw # None => Matches(gw.status, gw.spec)
    BY <1>3, <2>2 DEF NewStatus, Matches
  <2>4. RestMatches' /\ BusyInv' /\ ValidPass'
    BY <2>1, <2>3 DEF RestMatches, KaReady, BusyInv, ValidPass
  <2> QED
    BY <1>1, <2>1, <2>4, NoWorkloadMade
<1>4. gw # None /\ gwCache # None /\ gw.rev = gwCache.rev => gw = gwCache
  BY DEF Inv, GwInv, OldCopy
<1>5. CASE gwCache = None \/ ~StatusChanged(gwCache, worker.conns)
  BY <1>3, <1>5 DEF UpdateVpnGW, StatusChanged
<1>6. CASE gwCache # None /\ StatusChanged(gwCache, worker.conns)
  BY <1>2, <1>3, <1>4, <1>6, RecordApplied DEF UpdateVpnGW
<1> QED
  BY <1>5, <1>6

LEMMA FailureApplied ==
    ASSUME EditsAreSeen, Inv, AppliedInv, Failure
    PROVE  AppliedInv'
<1>1. CASE WriteFails
  <2>1. /\ worker.pc = "workload" /\ worker' = Idle /\ queued' = TRUE
        /\ UNCHANGED <<gw, gwWatch, gwCache, hist>> /\ (Accepted \/ UNCHANGED workload)
    BY <1>1 DEF WriteFails, AtWorkload, Retry, gwVars
  <2>2. RestMatches' /\ ValidPass' /\ BusyInv'
    BY <2>1 DEF RestMatches, ValidPass, BusyInv, Quiet
  <2>3. (Calm' => Calm) /\ (Calm' => Pipeline')
    BY <2>1, SamePipeline DEF Calm
  <2> QED
    BY <2>1, <2>2, <2>3, AcceptedApplied, NoWorkloadMade
<1>2. CASE StatusFails \/ \E p \in Pods : ExecFails(p)
  <2>1. /\ worker' = Idle /\ queued' = TRUE
        /\ UNCHANGED <<gw, gwWatch, gwCache, workload, hist>>
    BY <1>2 DEF StatusFails, ExecFails, Retry, gwVars, clusterVars
  <2>2. (Calm' => Calm) /\ (Calm' => Pipeline')
    BY <2>1, SamePipeline DEF Calm
  <2> QED
    BY <2>1, <2>2, RetryApplied
<1>3. CASE \E p \in Pods : RestartPod(p)
  BY <1>3, SameApplied DEF RestartPod, SetPod, gwVars, Quiet, Calm, KaReady
<1>4. CASE Restart
  <2>1. /\ worker' = Idle /\ UNCHANGED <<gw, workload, hist>>
        /\ gwCache' = gw /\ gwWatch' = <<>> /\ (gw # None => queued')
    BY <1>4 DEF Restart
  <2>2. RestMatches' /\ ValidPass' /\ BusyInv'
    BY <2>1 DEF RestMatches, KaReady, ValidPass, BusyInv, Quiet
  <2>3. (Calm' => Calm) /\ Pipeline'
    BY <2>1 DEF Calm, Pipeline
  <2> QED
    BY <2>1, <2>2, <2>3, NoWorkloadMade
<1> QED
  BY <1>1, <1>2, <1>3, <1>4 DEF Failure

LEMMA NextApplied ==
    ASSUME EditsAreSeen, Inv, AgreeInv, AppliedInv, [Next]_vars
    PROVE  AppliedInv'
<1>1. CASE Worker
  BY <1>1, FetchApplied, WorkloadApplied, ConnsApplied, UpdateApplied DEF Worker
<1>2. CASE UNCHANGED vars
  BY <1>2, SameApplied DEF vars, gwVars, clusterVars, Quiet, Calm, KaReady
<1> QED
  BY <1>1, <1>2, UserApplied, ClusterApplied, FailureApplied DEF Next

LEMMA AppliedInvariant == ASSUME EditsAreSeen PROVE Safe => []AppliedInv
<1>1. Inv /\ AgreeInv /\ AppliedInv /\ [Next]_vars => AppliedInv'
  BY NextApplied
<1> QED
  BY <1>1, InitApplied, InductiveInv, AgreeInvariant, PTL DEF Safe

(* If users wait for the controller between two edits, of fields it always *)
(* copies to the status, the workload of a gateway with nothing left to do *)
(* is that of its spec, whatever failed during the passes before, however  *)
(* stale the copies they worked from and however often the same specs came *)
(* back, unless a pass recorded another spec than the one it deployed: the *)
(* second read of UpdateVpnGW is the only way to lose such an edit.        *)
THEOREM AppliedWhenSettledHolds ==
    ASSUME EditsAreSeen PROVE Safe => []AppliedWhenSettled
<1>1. ASSUME Inv, AppliedInv, DeployedWhenSettled
      PROVE  AppliedWhenSettled
  <2> SUFFICES ASSUME Settled, Deployable, Calm, "replaced" \notin hist
               PROVE  workload[gw.spec.kind] # None /\ workload[gw.spec.kind].spec = gw.spec
    BY DEF AppliedWhenSettled, Applied, Calm
  <2>1. gw # None /\ Fit(gw.spec) /\ KaReady /\ workload[gw.spec.kind] # None
    BY <1>1 DEF Deployable, Fit, DeployedWhenSettled, KaReady
  <2>2. gw.spec \in Specs
    BY <1>1, <2>1 DEF Inv, GwInv, Copy, GwType
  <2>3. Matches(gw.status, gw.spec)
    BY <1>1, <2>1 DEF AppliedInv, RestMatches, Settled, Quiet
  <2> QED
    BY <1>1, <2>1, <2>2, <2>3 DEF AppliedInv, StatusInv
<1> QED
  BY <1>1, InductiveInv, AppliedInvariant, DeployedWhenSettledHolds, PTL
=============================================================================

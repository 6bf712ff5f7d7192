------------------------------ MODULE Debugger ------------------------------
(***************************************************************************)
(* The Debugger controller                                                 *)
(* (src/internal/controller/debugger_controller.go): one Debugger object,  *)
(* the pod or DaemonSet made from it, and the ConfigMap and the Pinger it  *)
(* refers to, which belong to users and may be missing or unusable.        *)
(*                                                                         *)
(* As in VpnGw, the object is read twice from the cache in a pass, so its  *)
(* events are explicit; the ConfigMap is read from the API server itself.  *)
(***************************************************************************)
EXTENDS Naturals, Sequences

CONSTANTS
    Specs,         \* the specs a user may give the Debugger, see SpecType
    None,          \* "no such object"
    Disturbances,  \* what else may happen in this instance, see Disturb
    Budget         \* bound on edits and disturbances

VARIABLES
    rev,        \* resource version of the Debugger's last write
    debugger,   \* the Debugger in the API server, or None
    watch,      \* versions of it the informer has yet to deliver, oldest first
    cache,      \* the informer's copy
    configMap,  \* the ConfigMap it refers to
    pinger,     \* the Pinger it refers to
    workload,   \* the workload of each kind in the API server, or None
    seen,       \* the kinds of workload the cache holds
    pending,    \* the kinds with an undelivered event
    queued,     \* is the Debugger in the work queue?
    worker,     \* the worker's place in the handler and its locals
    budget      \* edits and disturbances left

objectVars == <<rev, debugger, watch>>
inputVars == <<configMap, pinger>>
workloadVars == <<workload, pending>>
vars == <<objectVars, cache, inputVars, workloadVars, seen, queued, worker, budget>>

Kinds == {"pod", "daemonset"}
Values == {"v1", "v2"}
Unset == "unset"

(* `res` stands for the fields copied to the status and compared with it   *)
(* (CPU, Memory, Image, QoSBandwidth, NodeName, HostNetwork, EnableSys,    *)
(* Tolerations, Affinity), aux for those that are not (Selector, Subnet),  *)
(* configMap for a ConfigMap that is mounted (ConfigMap with               *)
(* EnableConfigMap, or RunAt), pinger for a Pinger.                        *)
SpecType == [kind : Kinds, res : Values, aux : Values, configMap : BOOLEAN,
             pinger : BOOLEAN, enablePinger : BOOLEAN]

StatusType == [kind : Kinds \cup {Unset}, res : Values \cup {Unset},
               configMap : BOOLEAN, pinger : BOOLEAN, enablePinger : BOOLEAN]

EmptyStatus == [kind |-> Unset, res |-> Unset, configMap |-> FALSE,
                pinger |-> FALSE, enablePinger |-> FALSE]

DebuggerType == [uid : Nat, rev : Nat, spec : Specs, status : StatusType]

ConfigMapStates == {"missing", "empty", "filled"}
PingerStates == {"missing", "invalid", "valid"}

(* A workload is the Debugger it belongs to, the spec it was made from and *)
(* whether it has its volumes.                                             *)
WorkloadType == [owner : Nat, spec : Specs, mounted : BOOLEAN]

WorkerType == [pc : {"idle", "workload", "status"},
               debugger : DebuggerType \cup {None}]

Idle == [pc |-> "idle", debugger |-> None]

ASSUME ConstantsAssumption == Specs \subseteq SpecType /\ Budget \in Nat
ASSUME NoneAssumption == None \notin DebuggerType \cup WorkloadType

(* A slip: the pass ends, its copy of the Debugger stays.                  *)
RetryKeepingLocals == worker' = [worker EXCEPT !.pc = "idle"] /\ queued' = TRUE

(* SyncStateError puts the key back into the queue.                        *)
Retry == worker' = Idle /\ queued' = TRUE
Done == worker' = Idle /\ UNCHANGED queued

-----------------------------------------------------------------------------
(* The functions of the controller.  Operators named "...Without..." are   *)
(* slips a maintainer could make in the definition below them; each        *)
(* property is known to notice one.                                        *)

validateDebugger(s) == s.enablePinger => s.pinger

(* The fields UpdateDebugger copies and isChanged compares.                *)
Recorded(s) == [kind |-> s.kind, res |-> s.res, configMap |-> s.configMap,
                pinger |-> s.pinger, enablePinger |-> s.enablePinger]

IsChangedOnce(d) == d.status = EmptyStatus

isChanged(d) == Recorded(d.spec) # d.status

(* checkConfigMapWithState, getPinger and validatePinger: a reference that *)
(* cannot be resolved is tried again, an unusable object is not.           *)
RetryInputs(s) ==
    \/ s.configMap /\ configMap = "missing"
    \/ s.configMap /\ configMap = "filled" /\ s.pinger /\ pinger = "missing"
    \/ ~s.configMap /\ s.pinger /\ pinger = "missing"

InputsReady(s) ==
    /\ s.configMap => configMap = "filled"
    /\ s.pinger => \/ pinger = "valid"
                   \/ pinger = "invalid" /\ ~s.enablePinger

NoOwner == 0

WorkloadWithoutOwner(d, mounted) ==
    [owner |-> NoOwner, spec |-> d.spec, mounted |-> mounted]

(* getDebuggerPod and getDebuggerDaemonset.                                *)
WorkloadFor(d, mounted) ==
    [owner |-> d.uid, spec |-> d.spec, mounted |-> mounted]

(* getVolumesMounts reads the ConfigMap once more, and returns no volumes  *)
(* at all when it is missing now.                                          *)
getVolumesMounts(s) == s.configMap => configMap # "missing"

-----------------------------------------------------------------------------
(* Users of the API server, and the bounded disturbances.                  *)

Disturb(what) ==
    /\ what \in Disturbances
    /\ budget > 0
    /\ budget' = budget - 1

Write(d) ==
    /\ rev' = rev + 1
    /\ debugger' = d
    /\ watch' = Append(watch, d)

NewDebugger(uid, s) ==
    [uid |-> uid, rev |-> uid, spec |-> s, status |-> EmptyStatus]

EditDebugger(s) ==
    /\ debugger # None /\ s # debugger.spec
    /\ Disturb("edit")
    /\ Write([debugger EXCEPT !.rev = rev + 1, !.spec = s])
    /\ UNCHANGED <<cache, inputVars, workloadVars, seen, queued, worker>>

DeleteDebugger ==
    /\ debugger # None
    /\ Disturb("delete")
    /\ Write(None)
    /\ UNCHANGED <<cache, inputVars, workloadVars, seen, queued, worker>>

RecreateDebugger(s) ==
    /\ debugger = None
    /\ Disturb("delete")
    /\ Write(NewDebugger(rev + 1, s))
    /\ UNCHANGED <<cache, inputVars, workloadVars, seen, queued, worker>>

(* The controller watches neither ConfigMaps nor Pingers it does not own.  *)
ChangeConfigMap(state) ==
    /\ Disturb("input")
    /\ configMap' = state
    /\ UNCHANGED <<objectVars, cache, pinger, workloadVars, seen, queued, worker>>

ChangePinger(state) ==
    /\ Disturb("input")
    /\ pinger' = state
    /\ UNCHANGED <<objectVars, cache, configMap, workloadVars, seen, queued, worker>>

-----------------------------------------------------------------------------
(* The informers and Kubernetes.                                           *)

Deliver ==
    /\ watch # <<>>
    /\ cache' = Head(watch)
    /\ watch' = Tail(watch)
    /\ queued' = TRUE
    /\ UNCHANGED <<rev, debugger, inputVars, workloadVars, seen, worker, budget>>

(* Owns(DaemonSet) enqueues the Debugger; nobody owns up to the pods.      *)
DeliverWorkload(k) ==
    /\ k \in pending
    /\ pending' = pending \ {k}
    /\ seen' = IF workload[k] = None THEN seen \ {k} ELSE seen \cup {k}
    /\ queued' = (queued \/ k = "daemonset")
    /\ UNCHANGED <<objectVars, cache, inputVars, workload, worker, budget>>

Resync ==
    /\ cache # None
    /\ queued' = TRUE
    /\ UNCHANGED <<objectVars, cache, inputVars, workloadVars, seen, worker, budget>>

SetWorkload(k, w) ==
    /\ workload' = [workload EXCEPT ![k] = w]
    /\ pending' = pending \cup {j \in {k} : workload[k] # w}

Remove(k) ==
    /\ workload[k] # None
    /\ SetWorkload(k, None)
    /\ UNCHANGED <<objectVars, cache, inputVars, seen, queued, worker>>

CollectGarbage(k) ==
    /\ workload[k] # None /\ workload[k].owner # NoOwner
    /\ debugger # None => workload[k].owner # debugger.uid
    /\ Remove(k)
    /\ UNCHANGED budget

DeleteWorkload(k) == Disturb("workload") /\ Remove(k)

-----------------------------------------------------------------------------
(* The worker: handleAddOrUpdateDebugger.                                  *)

TakeKey ==
    /\ worker = Idle /\ queued
    /\ UNCHANGED <<objectVars, cache, inputVars, workloadVars, seen, budget>>

(* The Debugger is gone, invalid, refers to an unusable object, or has not *)
(* changed since its status was written.                                   *)
FetchStops ==
    /\ TakeKey
    /\ cache # None =>
         \/ ~validateDebugger(cache.spec)
         \/ ~InputsReady(cache.spec) /\ ~RetryInputs(cache.spec)
         \/ InputsReady(cache.spec) /\ ~isChanged(cache)
    /\ queued' = FALSE
    /\ UNCHANGED worker

(* The ConfigMap or the Pinger is missing: the key stays queued.           *)
FetchRetries ==
    /\ TakeKey
    /\ cache # None /\ validateDebugger(cache.spec)
    /\ RetryInputs(cache.spec)
    /\ Retry

Fetch ==
    /\ TakeKey
    /\ cache # None /\ validateDebugger(cache.spec)
    /\ InputsReady(cache.spec) /\ isChanged(cache)
    /\ queued' = FALSE
    /\ worker' = [pc |-> "workload", debugger |-> cache]

(* handleAddOrUpdatePod and handleAddOrUpdateDaemonset: the cache tells    *)
(* whether to create or to update.  A DaemonSet is replaced whatever its   *)
(* version.  A pod's spec cannot be replaced: the API server refuses the   *)
(* update, because the pod it stores has been scheduled and has volumes    *)
(* the new one lacks.                                                      *)
Kind == worker.debugger.spec.kind

Accepted(mounted) ==
    /\ IF Kind \in seen
       THEN Kind = "daemonset" /\ workload[Kind] # None
       ELSE workload[Kind] = None
    /\ SetWorkload(Kind, WorkloadFor(worker.debugger, mounted))

AtWorkload ==
    /\ worker.pc = "workload"
    /\ UNCHANGED <<objectVars, cache, inputVars, seen>>

WriteWorkload ==
    /\ AtWorkload
    /\ Accepted(getVolumesMounts(worker.debugger.spec))
    /\ worker' = [worker EXCEPT !.pc = "status"]
    /\ UNCHANGED <<queued, budget>>

WriteRefused ==
    /\ AtWorkload
    /\ IF Kind \in seen
       THEN Kind = "pod" \/ workload[Kind] = None
       ELSE workload[Kind] # None
    /\ Retry
    /\ UNCHANGED <<workloadVars, budget>>

(* The call fails on its way to the API server or on its way back.         *)
WriteFails ==
    /\ AtWorkload
    /\ Disturb("fault")
    /\ \/ Accepted(getVolumesMounts(worker.debugger.spec))
       \/ UNCHANGED workloadVars
    /\ Retry

(* The second read of the ConfigMap fails: the pass goes on all the same.  *)
MountsFail ==
    /\ AtWorkload
    /\ Disturb("fault")
    /\ worker.debugger.spec.configMap
    /\ Accepted(FALSE)
    /\ worker' = [worker EXCEPT !.pc = "status"]
    /\ UNCHANGED queued

UpdateDebuggerWithoutVersion ==
    /\ worker.pc = "status"
    /\ Done
    /\ IF cache = None \/ debugger = None \/ ~isChanged(cache)
       THEN UNCHANGED objectVars
       ELSE Write([debugger EXCEPT !.rev = rev + 1,
                                   !.status = Recorded(cache.spec)])
    /\ UNCHANGED <<cache, inputVars, workloadVars, seen, budget>>

(* UpdateDebugger reads the Debugger anew; its write is refused if the     *)
(* Debugger has moved on.                                                  *)
UpdateDebugger ==
    /\ worker.pc = "status"
    /\ IF cache = None \/ ~isChanged(cache)
       THEN Done /\ UNCHANGED objectVars
       ELSE IF debugger = None \/ debugger.rev # cache.rev
       THEN Retry /\ UNCHANGED objectVars
       ELSE /\ Done
            /\ Write([debugger EXCEPT !.rev = rev + 1,
                                      !.status = Recorded(cache.spec)])
    /\ UNCHANGED <<cache, inputVars, workloadVars, seen, budget>>

StatusFails ==
    /\ Disturb("fault")
    /\ worker.pc = "status"
    /\ cache # None /\ isChanged(cache)
    /\ Retry
    /\ UNCHANGED <<objectVars, cache, inputVars, workloadVars, seen>>

(* The controller restarts: caches and queue are built anew.               *)
Restart ==
    /\ Disturb("crash")
    /\ worker' = Idle
    /\ cache' = debugger
    /\ watch' = <<>>
    /\ seen' = {k \in Kinds : workload[k] # None}
    /\ pending' = {}
    /\ queued' = (debugger # None \/ "daemonset" \in seen')
    /\ UNCHANGED <<rev, debugger, inputVars, workload>>

-----------------------------------------------------------------------------
Init ==
    /\ \E s \in Specs : debugger = NewDebugger(1, s)
    /\ rev = 1
    /\ watch = <<debugger>>
    /\ cache = None
    /\ configMap \in ConfigMapStates
    /\ pinger \in PingerStates
    /\ workload = [k \in Kinds |-> None]
    /\ seen = {}
    /\ pending = {}
    /\ queued = FALSE
    /\ worker = Idle
    /\ budget = Budget

User ==
    \/ \E s \in Specs : EditDebugger(s) \/ RecreateDebugger(s)
    \/ DeleteDebugger
    \/ \E state \in ConfigMapStates : ChangeConfigMap(state)
    \/ \E state \in PingerStates : ChangePinger(state)
    \/ \E k \in Kinds : DeleteWorkload(k)

Worker ==
    \/ FetchStops \/ FetchRetries \/ Fetch
    \/ WriteWorkload \/ WriteRefused
    \/ UpdateDebugger

Next ==
    \/ User \/ Worker
    \/ Deliver \/ Resync
    \/ \E k \in Kinds : DeliverWorkload(k) \/ CollectGarbage(k)
    \/ WriteFails \/ MountsFail \/ StatusFails \/ Restart

(* The informers, the resync timer, the worker and the garbage collector   *)
(* keep running; users and failures promise nothing.                       *)
Spec ==
    /\ Init /\ [][Next]_vars
    /\ WF_vars(Deliver) /\ WF_vars(Resync) /\ WF_vars(Worker)
    /\ \A k \in Kinds : WF_vars(DeliverWorkload(k)) /\ WF_vars(CollectGarbage(k))

-----------------------------------------------------------------------------
(* Properties.                                                             *)

(* Each variable is of its type, and a pass that is under way has the      *)
(* Debugger it began with.                                                 *)
TypeOK ==
    /\ rev \in Nat
    /\ debugger \in DebuggerType \cup {None} /\ cache \in DebuggerType \cup {None}
    /\ watch \in Seq(DebuggerType \cup {None})
    /\ configMap \in ConfigMapStates /\ pinger \in PingerStates
    /\ workload \in [Kinds -> WorkloadType \cup {None}]
    /\ seen \subseteq Kinds /\ pending \subseteq Kinds
    /\ queued \in BOOLEAN
    /\ worker \in WorkerType /\ (worker.pc = "idle" <=> worker = Idle)
    /\ budget \in 0..Budget

Deployable ==
    debugger # None /\ validateDebugger(debugger.spec) /\ InputsReady(debugger.spec)

(* A new status describes the spec stored with it: what UpdateDebugger     *)
(* read from a stale cache never overwrites the status of a later spec.    *)
RecordedFromCurrentSpec ==
    [][debugger # None /\ debugger' # None /\ debugger'.uid = debugger.uid
         /\ debugger'.status # debugger.status
         => debugger'.status = Recorded(debugger'.spec)]_debugger

(* A Debugger deployed as a DaemonSet is recorded in the end, whatever     *)
(* fails on the way and however late its ConfigMap and Pinger become       *)
(* usable.  The DaemonSet itself may be missing by then, see               *)
(* DeployedWhenRecorded.                                                   *)
DaemonsetConverges ==
    <>[](Deployable /\ debugger.spec.kind = "daemonset"
           => debugger.status = Recorded(debugger.spec))

(* A controller with nothing left to do has recorded a Debugger that can   *)
(* be deployed: whatever fails or restarts in the middle of a pass leaves  *)
(* something that brings the Debugger back to the worker.  A ConfigMap or  *)
(* a Pinger that becomes usable does not; it takes a resync.               *)
RecordedWhenSettled ==
    worker = Idle /\ ~queued /\ watch = <<>>
      => (Deployable => debugger.status = Recorded(debugger.spec))

(* A Debugger recorded as up to date has a workload of its kind: the       *)
(* status is written last.  It need not when its kind was edited, or the   *)
(* Debugger deleted and created again, between the two reads of a pass.    *)
DeployedWhenRecorded ==
    debugger # None /\ debugger.status = Recorded(debugger.spec)
      => workload[debugger.spec.kind] # None

(* A Debugger that is gone ends up with no workload, even one created by a *)
(* pass that was still working from the deleted Debugger: every workload   *)
(* has its Debugger as owner.                                              *)
NothingLeftBehind ==
    <>[](debugger = None => \A k \in Kinds : workload[k] = None)

(* A deployed Debugger that is recorded as up to date has its ConfigMap    *)
(* mounted (debugger_types.go: "mount configMap to debugger pod as a       *)
(* script"), whatever happened to the ConfigMap while it was deployed.     *)
ScriptsMounted ==
    Deployable /\ debugger.status = Recorded(debugger.spec)
        => LET w == workload[debugger.spec.kind] IN
           w # None => w.spec # debugger.spec \/ w.mounted

(* Switching the pinger off stops it in the end (debugger_types.go:        *)
(* "disable to stop pinger pod").                                          *)
PingerStops ==
    <>[](Deployable /\ ~debugger.spec.enablePinger
           => \A k \in Kinds : workload[k] # None => ~workload[k].spec.enablePinger)
=============================================================================

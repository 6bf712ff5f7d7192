------------------------------- MODULE VpnGw -------------------------------
(***************************************************************************)
(* The VpnGw controller (src/internal/controller/vpngw_controller.go): one *)
(* gateway object, the StatefulSet or DaemonSet made from it, the pods     *)
(* that run its servers and the IPsec connections loaded into those pods.  *)
(*                                                                         *)
(* The controller has one worker and gateways do not share state, so one   *)
(* gateway is modelled and its work queue is a Boolean.  The worker writes *)
(* to the API server and reads from informer caches.  A cache that nobody  *)
(* but the worker observes is read in the same step as the action the read *)
(* decides on: reading it earlier is the same as delivering its last event *)
(* later.  The gateway itself is read twice in a pass, and what happens in *)
(* between matters, so its events are explicit (gwWatch, gwCache).         *)
(***************************************************************************)
EXTENDS Naturals, FiniteSets, Sequences

CONSTANTS
    Specs,         \* the specs a user may give the gateway, see SpecType
    Conns,         \* IpsecConn objects
    Pods,          \* names of pods
    None,          \* "no such object"
    Disturbances,  \* what else may happen in this instance, see Disturb
    Budget         \* bound on edits and disturbances

VARIABLES
    rev,       \* resource version of the gateway's last write
    gw,        \* the gateway in the API server, or None
    gwWatch,   \* versions of it the informer has yet to deliver, oldest first
    gwCache,   \* the informer's copy
    ka,        \* the KeepAlived object the gateway names, as the cache has it
    conns,     \* the labelled IpsecConns, as the cache has them
    workload,  \* the workload of each kind in the API server, or None
    seen,      \* the kinds of workload the cache holds
    owned,     \* is an event of an owned workload pending?
    pods,      \* the pods
    podSeen,   \* the pods with an IPsec server that the cache holds
    queued,    \* is the gateway in the work queue?
    worker,    \* the worker's place in the handler and its locals
    budget,    \* edits and disturbances left
    hist       \* history that only the properties read, see Marks

gwVars == <<rev, gw, gwWatch>>
clusterVars == <<workload, seen, owned, pods, podSeen>>
vars == <<gwVars, gwCache, ka, conns, clusterVars, queued, worker, budget, hist>>

-----------------------------------------------------------------------------
(* The objects.                                                            *)

Kinds == {"statefulset", "static"}

(* A spec by what the controller does with its fields: `res` stands for    *)
(* those it always copies to the status (CPU, Memory, QoSBandwidth,        *)
(* Replicas, Selector, Tolerations, Affinity), sslCfg for SslVpnCipher,    *)
(* SslVpnProto, SslVpnSubnetCidr and SslVpnImage, ipsecImage for           *)
(* IPSecVpnImage, aux for those it never compares (SslVpnAuth, secrets,    *)
(* PSK), conns for IPSecConnections set by the user.  Unset is the empty   *)
(* string; SslVpnProto has a default, so sslCfg is never Unset in a spec.  *)
Unset == "unset"
Values == {"v1", "v2", "v3"}
SpecType == [kind : Kinds, keepalived : BOOLEAN, res : Values,
             ssl : BOOLEAN, sslCfg : Values, ipsec : BOOLEAN,
             ipsecImage : Values \cup {Unset}, aux : Values,
             conns : SUBSET Conns]

StatusType == [keepalived : BOOLEAN, res : Values \cup {Unset},
               ssl : BOOLEAN, sslCfg : Values \cup {Unset}, ipsec : BOOLEAN,
               ipsecImage : Values \cup {Unset}, conns : SUBSET Conns]

EmptyStatus == [keepalived |-> FALSE, res |-> Unset, ssl |-> FALSE,
                sslCfg |-> Unset, ipsec |-> FALSE, ipsecImage |-> Unset,
                conns |-> {}]

GwType == [uid : Nat, rev : Nat, spec : Specs, status : StatusType]

(* 0 stands for no router ID, 1 for any that the allocator may choose.     *)
RouterIDs == 0..1
KaType == [state : {"missing", "invalid", "valid"}, routerID : RouterIDs]

(* A workload is the gateway it belongs to and the spec and router ID it   *)
(* was made from.                                                          *)
WorkloadType == [owner : Nat, spec : Specs, routerID : RouterIDs]

(* A pod: the kind of its workload, the spec in its template, whether it   *)
(* is in phase Pending ("pending") or Running with its container restarted *)
(* ("down") or ready ("up"), and the connections in the configuration of   *)
(* its IPsec server.                                                       *)
PodType == [kind : Kinds, spec : Specs, state : {"pending", "down", "up"},
            loaded : SUBSET Conns]

(* The handler's locals: gw is the copy the pass works from, conns the     *)
(* names of the connections and cmd those in the refresh command, pods the *)
(* pods to run it in, todo those still to come, allRunning the absence of  *)
(* podNotRunErr.                                                           *)
WorkerType == [pc : {"idle", "workload", "connections", "exec", "status"},
               gw : GwType \cup {None}, routerID : RouterIDs,
               conns : SUBSET Conns, cmd : SUBSET Conns,
               pods : SUBSET Pods, todo : SUBSET Pods, allRunning : BOOLEAN]

Idle == [pc |-> "idle", gw |-> None, routerID |-> 0, conns |-> {}, cmd |-> {},
         pods |-> {}, todo |-> {}, allRunning |-> TRUE]

ASSUME ConstantsAssumption ==
    /\ Specs \subseteq SpecType
    /\ Budget \in Nat

(* What stands for no object is not an object.                             *)
ASSUME NoneAssumption == None \notin GwType \cup WorkloadType \cup PodType

(* SyncStateError puts the key back into the queue.                        *)
RetryKeepingLocals == worker' = [worker EXCEPT !.pc = "idle"] /\ queued' = TRUE

Retry == worker' = Idle /\ queued' = TRUE
Done == worker' = Idle /\ UNCHANGED queued

-----------------------------------------------------------------------------
(* The functions of the controller.                                        *)

(* Operators named "...But...", "...Without..." and the like are slips a    *)
(* maintainer could make in the definition below them; each property is     *)
(* known to notice one.                                                     *)

validateVpnGw(s) == s.ssl \/ s.ipsec

IsChangedButRes(g) ==
    \/ g.spec.keepalived /\ ~g.status.keepalived
    \/ g.spec.ssl # g.status.ssl \/ g.spec.sslCfg # g.status.sslCfg
    \/ g.spec.ipsec # g.status.ipsec \/ g.spec.ipsecImage # g.status.ipsecImage
    \/ g.spec.conns # {}

(* isChanged as the workload functions call it, with no connections.       *)
isChanged(g) ==
    \/ g.spec.keepalived /\ ~g.status.keepalived
    \/ g.spec.res # g.status.res
    \/ g.spec.ssl # g.status.ssl
    \/ g.spec.sslCfg # g.status.sslCfg
    \/ g.spec.ipsec # g.status.ipsec
    \/ g.spec.ipsecImage # g.status.ipsecImage
    \/ g.spec.conns # {}

(* The status UpdateVpnGW computes: the configuration of a server is       *)
(* copied only when that server is switched on or off, the connections     *)
(* only once the status already says that IPsec is on.                     *)
RecordsConnsOnce(g, cs) == g.status.ipsec /\ cs # {} /\ g.status.conns = {}

RecordsConns(g, cs) == g.status.ipsec /\ cs # {} /\ g.spec.conns # cs

NewStatus(g, cs) ==
    [keepalived |-> g.status.keepalived \/ g.spec.keepalived,
     res        |-> g.spec.res,
     ssl        |-> g.spec.ssl,
     sslCfg     |-> IF g.spec.ssl # g.status.ssl
                    THEN g.spec.sslCfg ELSE g.status.sslCfg,
     ipsec      |-> g.spec.ipsec,
     ipsecImage |-> IF g.spec.ipsec # g.status.ipsec
                    THEN g.spec.ipsecImage ELSE g.status.ipsecImage,
     conns      |-> IF RecordsConns(g, cs) THEN cs ELSE g.status.conns]

StatusChanged(g, cs) == NewStatus(g, cs) # g.status \/ RecordsConns(g, cs)

(* statefulSetForVpnGw and daemonsetForVpnGw.  The former reads fields of  *)
(* the KeepAlived without a check that there is one, and panics.           *)
NoOwner == 0

WorkloadWithoutOwner(g, routerID) ==
    [owner |-> NoOwner, spec |-> g.spec, routerID |-> routerID]

WorkloadFor(g, routerID) ==
    [owner |-> g.uid, spec |-> g.spec, routerID |-> routerID]

Panics(s) == s.kind = "statefulset" /\ ~s.keepalived

(* The flags are labels in the workload's selector, which is immutable.    *)
labelsForVpnGw(s) == <<s.ssl, s.ipsec>>

(* A labelled connection passes validateIPSecConns ("good"), fails it      *)
(* ("bad"), or passes and adds nothing to the command ("mute": an auth     *)
(* that is neither "pubkey" nor "psk").                                    *)
ConnStates == {"absent", "good", "bad", "mute"}
Listed == {c \in Conns : conns[c] # "absent"}
Good == {c \in Conns : conns[c] = "good"}

ConnsValid == Good # {} /\ \A c \in Conns : conns[c] # "bad"

(* The pods that run an IPsec server; the handler lists those of the cache *)
(* it has.  It reads their phase as well: an old phase makes it retry, or  *)
(* run the command in a pod that is not running, which ends in a retry.    *)
IPsecPods == {p \in Pods : pods[p] # None /\ pods[p].spec.ipsec}

getVpnGwPodNames == podSeen

Running(names) == \A p \in names : pods[p] # None => pods[p].state # "pending"

(* A history of what the handler cannot make up for: "hurried", a user     *)
(* wrote the gateway before it was at rest (see AtRest); "skewed", a       *)
(* pass recorded another spec than the one it deployed; "replaced", the    *)
(* KeepAlived was replaced since the last pass began; "missed", the last   *)
(* list of the pods lacked one.                                            *)
Marks == {"hurried", "skewed", "replaced", "missed"}
Mark(m, set) == hist' = IF set THEN hist \cup {m} ELSE hist \ {m}

-----------------------------------------------------------------------------
(* Users of the API server, and the bounded disturbances.                  *)

Settled == worker = Idle /\ ~queued /\ gwWatch = <<>> /\ ~owned

Disturb(what) ==
    /\ what \in Disturbances
    /\ budget > 0
    /\ budget' = budget - 1

WriteGw(g) ==
    /\ rev' = rev + 1
    /\ gw' = g
    /\ gwWatch' = Append(gwWatch, g)

(* A gateway is at rest if the controller has applied all there is; not    *)
(* while its KeepAlived is missing or invalid.                             *)
AtRest ==
    /\ Settled
    /\ gw # None /\ gw.spec.keepalived
          => ka.state = "valid" /\ "replaced" \notin hist

UserWrites(g) ==
    /\ WriteGw(g)
    /\ hist' = IF ~AtRest THEN hist \cup {"hurried"}
               ELSE IF gw = None THEN hist \ {"hurried", "skewed"}
               ELSE hist

NewGw(uid, s) == [uid |-> uid, rev |-> uid, spec |-> s, status |-> EmptyStatus]

EditGw(s) ==
    /\ gw # None /\ s # gw.spec
    /\ Disturb("edit")
    /\ UserWrites([gw EXCEPT !.rev = rev + 1, !.spec = s])
    /\ UNCHANGED <<gwCache, ka, conns, clusterVars, queued, worker>>

DeleteGw ==
    /\ gw # None
    /\ Disturb("delete")
    /\ UserWrites(None)
    /\ UNCHANGED <<gwCache, ka, conns, clusterVars, queued, worker>>

RecreateGw(s) ==
    /\ gw = None
    /\ Disturb("delete")
    /\ UserWrites(NewGw(rev + 1, s))
    /\ UNCHANGED <<gwCache, ka, conns, clusterVars, queued, worker>>

(* The KeepAlived gets its router ID, or is replaced by a user.            *)
AssignRouterID ==
    /\ ka.state = "valid" /\ ka.routerID = 0
    /\ ka' = [ka EXCEPT !.routerID = 1]
    /\ UNCHANGED <<gwVars, gwCache, conns, clusterVars, queued, worker, budget, hist>>

ReplaceKeepAlived(state) ==
    /\ Disturb("keepalived")
    /\ ka' = [state |-> state, routerID |-> 0]
    /\ Mark("replaced", TRUE)
    /\ UNCHANGED <<gwVars, gwCache, conns, clusterVars, queued, worker>>

(* An IpsecConn is labelled, edited, relabelled or deleted: the gateway's  *)
(* controller gets no event, none of them has it as an owner.              *)
ChangeConn(c, state) ==
    /\ Disturb("conn")
    /\ conns[c] # state
    /\ conns' = [conns EXCEPT ![c] = state]
    /\ UNCHANGED <<gwVars, gwCache, ka, clusterVars, queued, worker, hist>>

-----------------------------------------------------------------------------
(* The informers.                                                          *)

DeliverGw ==
    /\ gwWatch # <<>>
    /\ gwCache' = Head(gwWatch)
    /\ gwWatch' = Tail(gwWatch)
    /\ queued' = TRUE
    /\ UNCHANGED <<rev, gw, ka, conns, clusterVars, worker, budget, hist>>

(* Owns(StatefulSet) and Owns(DaemonSet): an event of a workload enqueues  *)
(* the gateway.  Its status follows the pods, so theirs do as well.        *)
DeliverOwned ==
    /\ owned
    /\ owned' = FALSE
    /\ seen' = {k \in Kinds : workload[k] # None}
    /\ queued' = TRUE
    /\ UNCHANGED <<gwVars, gwCache, ka, conns, workload, pods, podSeen, worker, budget, hist>>

(* The pods are not owned by the gateway: their events update the cache.   *)
DeliverPods ==
    /\ podSeen' = IPsecPods /\ podSeen' # podSeen
    /\ UNCHANGED <<gwVars, gwCache, ka, conns, workload, seen, owned, pods,
                   queued, worker, budget, hist>>

(* The manager's periodic resync.                                          *)
Resync ==
    /\ gwCache # None
    /\ ~queued /\ queued' = TRUE
    /\ UNCHANGED <<gwVars, gwCache, ka, conns, clusterVars, worker, budget, hist>>

-----------------------------------------------------------------------------
(* Kubernetes: garbage collection, the workload controllers, the kubelet.  *)

Remove(k) ==
    /\ workload[k] # None
    /\ workload' = [workload EXCEPT ![k] = None]
    /\ owned' = TRUE
    /\ UNCHANGED <<gwVars, gwCache, ka, conns, seen, pods, podSeen, queued, worker, hist>>

CollectGarbage(k) ==
    /\ workload[k] # None
    /\ workload[k].owner # NoOwner
    /\ gw # None => workload[k].owner # gw.uid
    /\ Remove(k)
    /\ UNCHANGED budget

DeleteWorkload(k) == Disturb("workload") /\ Remove(k)

SetPod(p, pod) ==
    /\ pods' = [pods EXCEPT ![p] = pod]
    /\ owned' = TRUE
    /\ UNCHANGED <<gwVars, gwCache, ka, conns, workload, seen, podSeen,
                   queued, worker, hist>>

CreatePod(p, k) ==
    /\ pods[p] = None /\ workload[k] # None
    /\ SetPod(p, [kind |-> k, spec |-> workload[k].spec, state |-> "pending",
                  loaded |-> {}])
    /\ UNCHANGED budget

StartPod(p) ==
    /\ pods[p] # None /\ pods[p].state # "up"
    /\ SetPod(p, [pods[p] EXCEPT !.state = "up"])
    /\ UNCHANGED budget

(* The workload is gone, or its template changed and the pod is replaced.  *)
StopPod(p) ==
    /\ pods[p] # None
    /\ LET w == workload[pods[p].kind] IN w # None => w.spec # pods[p].spec
    /\ SetPod(p, None)
    /\ UNCHANGED budget

(* The container restarts.  A StatefulSet's pod keeps its configuration in *)
(* the container; the DaemonSet's pod writes it to a directory of the node.*)
RestartPod(p) ==
    /\ Disturb("pod")
    /\ pods[p] # None /\ pods[p].state = "up"
    /\ SetPod(p, [pods[p] EXCEPT !.state = "down",
                    !.loaded = IF pods[p].kind = "static" THEN @ ELSE {}])

-----------------------------------------------------------------------------
(* The worker: handleAddOrUpdateVpnGw.                                     *)

(* Reconcile takes the key and reads the gateway and its KeepAlived.       *)
TakeKey ==
    /\ worker = Idle /\ queued
    /\ Mark("replaced", FALSE)
    /\ UNCHANGED <<gwVars, gwCache, ka, conns, clusterVars, budget>>

NeedsKa == gwCache.spec.keepalived

(* The gateway is gone, or it or its KeepAlived is invalid: no retry.      *)
FetchStops ==
    /\ TakeKey
    /\ gwCache # None => \/ ~validateVpnGw(gwCache.spec)
                         \/ NeedsKa /\ ka.state = "invalid"
    /\ queued' = FALSE
    /\ UNCHANGED worker

(* The KeepAlived is missing or has no router ID: the key stays queued.    *)
FetchRetries ==
    /\ TakeKey
    /\ gwCache # None /\ validateVpnGw(gwCache.spec)
    /\ NeedsKa /\ ka.state # "invalid" /\ ka.routerID = 0
    /\ Retry

FetchWithoutRouterID ==
    /\ TakeKey
    /\ gwCache # None /\ validateVpnGw(gwCache.spec)
    /\ NeedsKa => ka.state = "valid"
    /\ queued' = FALSE
    /\ worker' = [Idle EXCEPT !.pc = "workload", !.gw = gwCache,
                    !.routerID = IF NeedsKa THEN ka.routerID ELSE 0]

Fetch ==
    /\ TakeKey
    /\ gwCache # None /\ validateVpnGw(gwCache.spec)
    /\ NeedsKa => ka.state = "valid" /\ ka.routerID # 0
    /\ queued' = FALSE
    /\ worker' = [Idle EXCEPT !.pc = "workload", !.gw = gwCache,
                    !.routerID = IF NeedsKa THEN ka.routerID ELSE 0]

(* handleAddOrUpdateVpnStatefulset and handleAddOrUpdateVpnDaemonset: what *)
(* they do depends on whether the cache holds the workload and on          *)
(* isChanged.                                                              *)
Kind == worker.gw.spec.kind
ToCreateIfChanged == Kind \notin seen /\ isChanged(worker.gw)
ToCreate == Kind \notin seen
ToUpdate == Kind \in seen /\ isChanged(worker.gw)
AtWorkload ==
    /\ worker.pc = "workload"
    /\ UNCHANGED <<gwVars, gwCache, ka, conns, seen, pods, podSeen, hist>>

AfterWorkload ==
    /\ worker' = [worker EXCEPT
                    !.pc = IF worker.gw.spec.ipsec THEN "connections" ELSE "status"]
    /\ UNCHANGED queued

(* The API server accepts the create or the update.  An update replaces    *)
(* the whole workload, whatever its version.                               *)
Accepted ==
    /\ ~Panics(worker.gw.spec)
    /\ \/ ToCreate /\ workload[Kind] = None
       \/ /\ ToUpdate /\ workload[Kind] # None
          /\ labelsForVpnGw(workload[Kind].spec) = labelsForVpnGw(worker.gw.spec)
    /\ workload' = [workload EXCEPT ![Kind] = WorkloadFor(worker.gw, worker.routerID)]
    /\ owned' = (owned \/ workload' # workload)

WriteWorkload ==
    /\ AtWorkload
    /\ Accepted
    /\ AfterWorkload
    /\ UNCHANGED budget

(* The workload already exists or is gone although the cache says          *)
(* otherwise, its selector would change, or the handler panics (which      *)
(* controller-runtime turns into an error).                                *)
WriteRefused ==
    /\ AtWorkload
    /\ \/ Panics(worker.gw.spec) /\ (ToCreate \/ ToUpdate)
       \/ ToCreate /\ workload[Kind] # None
       \/ ToUpdate /\ workload[Kind] = None
       \/ /\ ToUpdate /\ workload[Kind] # None
          /\ labelsForVpnGw(workload[Kind].spec) # labelsForVpnGw(worker.gw.spec)
    /\ Retry
    /\ UNCHANGED <<workload, owned, budget>>

WorkloadUnchanged ==
    /\ AtWorkload
    /\ ~ToCreate /\ ~ToUpdate
    /\ AfterWorkload
    /\ UNCHANGED <<workload, owned, budget>>

(* The call fails on its way to the API server or on its way back.         *)
WriteFails ==
    /\ AtWorkload
    /\ Disturb("fault")
    /\ ToCreate \/ ToUpdate
    /\ Accepted \/ UNCHANGED <<workload, owned>>
    /\ Retry

RefreshConnsOfAllReplicas ==
    /\ worker.pc = "connections"
    /\ IF ConnsValid /\ getVpnGwPodNames = Pods
       THEN /\ worker' = [worker EXCEPT
                 !.pc = "exec", !.conns = Listed, !.cmd = Good,
                 !.pods = getVpnGwPodNames, !.todo = getVpnGwPodNames,
                 !.allRunning = Running(getVpnGwPodNames)]
            /\ UNCHANGED queued
       ELSE Retry
    /\ Mark("missed", ~(IPsecPods \subseteq getVpnGwPodNames))
    /\ UNCHANGED <<gwVars, gwCache, ka, conns, clusterVars, budget>>

(* The labelled connections are listed and validated, the pods listed.     *)
RefreshConns ==
    /\ worker.pc = "connections"
    /\ IF ConnsValid /\ getVpnGwPodNames # {}
       THEN /\ worker' = [worker EXCEPT
                 !.pc = "exec", !.conns = Listed, !.cmd = Good,
                 !.pods = getVpnGwPodNames, !.todo = getVpnGwPodNames,
                 !.allRunning = Running(getVpnGwPodNames)]
            /\ UNCHANGED queued
       ELSE Retry
    /\ Mark("missed", ~(IPsecPods \subseteq getVpnGwPodNames))
    /\ UNCHANGED <<gwVars, gwCache, ka, conns, clusterVars, budget>>

(* The refresh command runs in the pods one after the other; the first     *)
(* failure ends the pass.                                                  *)
Exec(p) ==
    /\ worker.pc = "exec" /\ p \in worker.todo
    /\ IF pods[p] # None /\ pods[p].state = "up"
       THEN /\ pods' = [pods EXCEPT ![p].loaded = worker.cmd]
            /\ worker' = [worker EXCEPT !.todo = @ \ {p}]
            /\ UNCHANGED queued
       ELSE Retry /\ UNCHANGED pods
    /\ UNCHANGED <<gwVars, gwCache, ka, conns, workload, seen, owned, podSeen,
                   budget, hist>>

ExecFailsWithoutRetry(p) ==
    /\ Disturb("fault")
    /\ worker.pc = "exec" /\ p \in worker.todo
    /\ Done
    /\ UNCHANGED <<gwVars, gwCache, ka, conns, clusterVars, hist>>

ExecFailsAndGoesOn(p) ==
    /\ Disturb("fault")
    /\ worker.pc = "exec" /\ p \in worker.todo
    /\ worker' = [worker EXCEPT !.todo = @ \ {p}]
    /\ UNCHANGED <<gwVars, gwCache, ka, conns, clusterVars, queued, hist>>

(* The command fails, before or after it wrote the configuration.          *)
ExecFails(p) ==
    /\ Disturb("fault")
    /\ worker.pc = "exec" /\ p \in worker.todo
    /\ \/ /\ pods[p] # None
          /\ pods' = [pods EXCEPT ![p].loaded = worker.cmd]
       \/ UNCHANGED pods
    /\ Retry
    /\ UNCHANGED <<gwVars, gwCache, ka, conns, workload, seen, owned, podSeen, hist>>

(* Every pod has run the command; a pod that was not running when the pods *)
(* were listed still fails the pass.                                       *)
ExecDone ==
    /\ worker.pc = "exec" /\ worker.todo = {}
    /\ IF worker.allRunning
       THEN worker' = [worker EXCEPT !.pc = "status"] /\ UNCHANGED queued
       ELSE Retry
    /\ UNCHANGED <<gwVars, gwCache, ka, conns, clusterVars, budget, hist>>

(* The spec that is recorded is not the one that was deployed.             *)
MarkSkewed ==
    hist' = IF gw' # gw /\ gwCache.spec # worker.gw.spec
            THEN hist \cup {"skewed"} ELSE hist

UpdateVpnGWWithoutVersion ==
    /\ worker.pc = "status"
    /\ Done
    /\ IF gwCache = None \/ gw = None \/ ~StatusChanged(gwCache, worker.conns)
       THEN UNCHANGED gwVars
       ELSE WriteGw([gw EXCEPT !.rev = rev + 1,
                       !.status = NewStatus(gwCache, worker.conns)])
    /\ MarkSkewed
    /\ UNCHANGED <<gwCache, ka, conns, clusterVars, budget>>

(* UpdateVpnGW reads the gateway anew and copies the spec it finds to the  *)
(* status.  The write is refused if the gateway has moved on; one that     *)
(* changes nothing makes no new version.                                   *)
UpdateVpnGW ==
    /\ worker.pc = "status"
    /\ IF gwCache = None \/ ~StatusChanged(gwCache, worker.conns)
       THEN Done /\ UNCHANGED gwVars
       ELSE IF gw = None \/ gw.rev # gwCache.rev
       THEN Retry /\ UNCHANGED gwVars
       ELSE /\ Done
            /\ LET status == NewStatus(gwCache, worker.conns) IN
               IF status = gw.status
               THEN UNCHANGED gwVars
               ELSE WriteGw([gw EXCEPT !.rev = rev + 1, !.status = status])
    /\ MarkSkewed
    /\ UNCHANGED <<gwCache, ka, conns, clusterVars, budget>>

StatusFails ==
    /\ Disturb("fault")
    /\ worker.pc = "status"
    /\ gwCache # None /\ StatusChanged(gwCache, worker.conns)
    /\ Retry
    /\ UNCHANGED <<gwVars, gwCache, ka, conns, clusterVars, hist>>

(* The controller restarts: caches and queue are built anew.               *)
Restart ==
    /\ Disturb("crash")
    /\ worker' = Idle
    /\ gwCache' = gw
    /\ gwWatch' = <<>>
    /\ seen' = {k \in Kinds : workload[k] # None}
    /\ owned' = FALSE
    /\ queued' = (gw # None \/ seen' # {})
    /\ podSeen' = IPsecPods
    /\ UNCHANGED <<rev, gw, ka, conns, workload, pods, hist>>

-----------------------------------------------------------------------------
Init ==
    /\ \E s \in Specs : gw = NewGw(1, s)
    /\ rev = 1
    /\ gwWatch = <<gw>>
    /\ gwCache = None
    /\ ka = [state |-> "valid", routerID |-> 0]
    /\ conns \in [Conns -> {"absent", "good"}]
    /\ workload = [k \in Kinds |-> None]
    /\ seen = {}
    /\ owned = FALSE
    /\ pods = [p \in Pods |-> None] /\ podSeen = {}
    /\ queued = FALSE
    /\ worker = Idle
    /\ budget = Budget
    /\ hist = {}

User ==
    \/ \E s \in Specs : EditGw(s) \/ RecreateGw(s)
    \/ DeleteGw
    \/ \E state \in {"missing", "invalid", "valid"} : ReplaceKeepAlived(state)
    \/ \E c \in Conns, state \in ConnStates : ChangeConn(c, state)
    \/ \E k \in Kinds : DeleteWorkload(k)

Informer == DeliverGw \/ DeliverOwned \/ DeliverPods

Kubernetes ==
    \/ \E k \in Kinds : CollectGarbage(k)
    \/ \E p \in Pods : StartPod(p) \/ StopPod(p) \/ \E k \in Kinds : CreatePod(p, k)

Worker ==
    \/ FetchStops \/ FetchRetries \/ Fetch
    \/ WriteWorkload \/ WriteRefused \/ WorkloadUnchanged
    \/ RefreshConns \/ (\E p \in Pods : Exec(p)) \/ ExecDone
    \/ UpdateVpnGW

Failure ==
    \/ WriteFails \/ StatusFails \/ Restart
    \/ \E p \in Pods : ExecFails(p) \/ RestartPod(p)

Next ==
    User \/ AssignRouterID \/ Informer \/ Resync \/ Kubernetes \/ Worker \/ Failure

Safe == Init /\ [][Next]_vars

(* The informers, the resync timer, the worker, Kubernetes and the router  *)
(* ID allocator keep running; users and failures promise nothing.          *)
Fairness ==
    /\ WF_vars(DeliverGw) /\ WF_vars(DeliverOwned) /\ WF_vars(DeliverPods)
    /\ WF_vars(Resync)
    /\ WF_vars(Worker)
    /\ WF_vars(AssignRouterID)
    /\ \A k \in Kinds : WF_vars(CollectGarbage(k))
    /\ \A p \in Pods : WF_vars(StartPod(p)) /\ WF_vars(StopPod(p))

Spec == Safe /\ Fairness

-----------------------------------------------------------------------------
(* Properties.                                                             *)

(* Each variable is of its type; a connection set in a pod or in the       *)
(* worker names IpsecConns only, and no local survives a pass.             *)
TypeOK ==
    /\ rev \in Nat
    /\ gw \in GwType \cup {None} /\ gwCache \in GwType \cup {None}
    /\ gwWatch \in Seq(GwType \cup {None})
    /\ ka \in KaType
    /\ conns \in [Conns -> ConnStates]
    /\ workload \in [Kinds -> WorkloadType \cup {None}]
    /\ seen \subseteq Kinds
    /\ owned \in BOOLEAN /\ queued \in BOOLEAN
    /\ pods \in [Pods -> PodType \cup {None}] /\ podSeen \subseteq Pods
    /\ hist \subseteq Marks
    /\ worker \in WorkerType /\ (worker.pc = "idle" <=> worker = Idle)
    /\ budget \in 0..Budget

(* No workload is ever deployed with the router ID 0: the handler waits    *)
(* for the KeepAlived to get one, and it is lost neither by a restart of   *)
(* the controller nor when the KeepAlived is replaced.                     *)
RouterIDReady ==
    \A k \in Kinds : workload[k] # None /\ workload[k].spec.keepalived
                        => workload[k].routerID # 0

(* A new status describes the spec stored with it: what UpdateVpnGW read   *)
(* from a stale cache never overwrites the status of a later spec.         *)
StatusFromCurrentSpec ==
    [][gw # None /\ gw' # None /\ gw'.status # gw.status /\ gw'.uid = gw.uid
         => gw'.status.res = gw'.spec.res]_gw

(* The gateway can be deployed as it stands.                               *)
Deployable ==
    /\ gw # None
    /\ validateVpnGw(gw.spec) /\ ~Panics(gw.spec)
    /\ gw.spec.keepalived => ka.state = "valid"

Applied ==
    workload[gw.spec.kind] # None /\ workload[gw.spec.kind].spec = gw.spec

(* Users who wait for the controller to come to rest before they edit get  *)
(* the workload of the new spec.  This does not hold: UpdateVpnGW reads    *)
(* the gateway anew and records a spec that the pass did not deploy.       *)
EditsApplied ==
    Settled /\ Deployable /\ hist \cap {"hurried", "replaced"} = {} => Applied

(* Unless that happens they do get it, whatever fails on the way, and even *)
(* if a field goes back and forth: the second Get is the only way to lose  *)
(* an edit of a user who waits.                                            *)
AppliedWhenSettled ==
    Settled /\ Deployable /\ hist \cap {"hurried", "skewed", "replaced"} = {}
        => Applied

(* When the controller has nothing left to do, there is a workload of the  *)
(* kind the spec asks for, whatever was edited, recreated or deleted, and  *)
(* whatever failed, during the passes before; the KeepAlived, of which the *)
(* controller gets no event, has been there since the last of them began.  *)
DeployedWhenSettled ==
    Settled /\ Deployable /\ "replaced" \notin hist
        => workload[gw.spec.kind] # None

(* When the controller has nothing left to do, the gateway runs as the one *)
(* kind of workload its spec asks for (vpngw_types.go: "statefulset means  *)
(* use statefulset pod", "static means use static pod").                   *)
OneWorkload ==
    Settled /\ Deployable
        => \A k \in Kinds : workload[k] # None => k = gw.spec.kind

(* A deployable gateway ends up with its workload, whoever deletes it and  *)
(* whatever fails: the handler looks for the workload in every pass before *)
(* it looks for changes.                                                   *)
WorkloadRestored ==
    <>[](Deployable => workload[gw.spec.kind] # None)

(* A gateway that is gone ends up with no workload, even one created by a  *)
(* pass that was still working from the deleted gateway: every workload    *)
(* has its gateway as owner.                                               *)
NothingLeftBehind ==
    <>[](gw = None => \A k \in Kinds : workload[k] = None)

(* The pods that run the IPsec server of the current gateway.              *)
Serving == {p \in IPsecPods : pods[p].state = "up"}

IPsecOn == Deployable /\ gw.spec.ipsec

(* The last pass had the KeepAlived of now and all the pods.               *)
WellInformed == hist \cap {"replaced", "missed"} = {}

(* When the controller has nothing left to do, the pods agree on the IPsec *)
(* connections, whichever of them restarted and whatever failed between    *)
(* two of the refresh commands, if the cache had all pods when the last    *)
(* pass listed them.                                                       *)
PodsAgree ==
    Settled /\ IPsecOn /\ WellInformed
        => \A p, q \in Serving : pods[p].loaded = pods[q].loaded

(* When the controller has nothing left to do, the connections in the pods *)
(* are recorded in the status, although the pass that first loads them     *)
(* does not record them.                                                   *)
StatusNamesLoaded ==
    Settled /\ IPsecOn /\ WellInformed
        => \A p \in Serving : /\ pods[p].loaded # {}
                              /\ pods[p].loaded \subseteq gw.status.conns

(* Until the status is written, no pod of the pass has the connections of  *)
(* an earlier one: it has those of the command, or none because it         *)
(* restarted since.                                                        *)
LoadedBeforeRecorded ==
    worker.pc = "status" =>
        \A p \in worker.pods : pods[p] # None => pods[p].loaded \in {worker.cmd, {}}

(* Every change of the connections reaches every pod in the end, if only   *)
(* with the next resync, as long as the connections left are valid.        *)
ConnsRefreshed ==
    <>[](IPsecOn /\ ConnsValid => \A p \in Serving : pods[p].loaded = Good)

(* When the controller has nothing left to do, no pod serves a connection  *)
(* that is gone (ipsecconn_controller.go:127: an owner reference makes a   *)
(* deleted connection trigger the gateway's controller).                   *)
DeletedConnsUnloaded ==
    Settled /\ IPsecOn =>
        \A p \in Serving, c \in Conns :
            conns[c] = "absent" => c \notin pods[p].loaded
=============================================================================

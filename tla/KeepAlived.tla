----------------------------- MODULE KeepAlived -----------------------------
(***************************************************************************)
(* The KeepAlived controller: the allocator of VRRP router IDs             *)
(* (src/internal/controller/keepalived_controller.go) for the KeepAlived   *)
(* objects of one namespace, between the API server it writes to and the   *)
(* informer cache it reads from.                                           *)
(*                                                                         *)
(* The API server holds the objects; every write appends an event to       *)
(* `watch`; the informer applies the events to `cache` in order and adds   *)
(* the object's key to the work queue.  One worker takes keys off the      *)
(* queue.  A reconciliation is three steps, because another actor may act  *)
(* between any two of them: Get, List, Update.                             *)
(***************************************************************************)
EXTENDS Naturals, FiniteSets, Sequences

CONSTANTS
    KeepAliveds,        \* names of the objects of one namespace
    TwoVIPs,            \* those with two VIPs
    MaxID,              \* the largest router ID, 255 in the code
    StatusSubresource,  \* does the CRD declare the status subresource?
    MaxRev,             \* bound: users stop writing at this resource version
    MaxFaults           \* bound on failed API calls and controller restarts

ASSUME VIPsAssumption == TwoVIPs \subseteq KeepAliveds
ASSUME MaxIDAssumption == MaxID \in Nat \ {0}
ASSUME BoundsAssumption == MaxRev \in Nat /\ MaxFaults \in Nat
ASSUME FlagsAssumption == StatusSubresource \in BOOLEAN

VARIABLES
    rev,     \* resource version of the last write (etcd's revision)
    api,     \* the objects in the API server
    watch,   \* the events the informer has yet to apply, oldest first
    cache,   \* the informer's copy of api, which Get and List read
    queue,   \* the controller's work queue: a set, the queue merges duplicates
    worker,  \* the worker's place in the handler and its locals
    faults,  \* failures so far
    elders   \* history: for each object, those that have had their router ID
             \* since before it was created; read by properties only

vars == <<rev, api, watch, cache, queue, worker, faults, elders>>

IDs == 1..MaxID

(* An object is its resource version and Status.RouterID (0 until one is   *)
(* assigned); the version 0 stands for "there is no such object".          *)
Object == [rev : Nat, routerID : 0..MaxID]
Event == [ka : KeepAliveds, obj : Object]
NoObject == [rev |-> 0, routerID |-> 0]
Exists(o) == o.rev # 0

Idle == [pc |-> "idle"]
Worker == [pc : {"list"}, ka : KeepAliveds, obj : Object]
            \cup [pc : {"update"}, ka : KeepAliveds, obj : Object, id : IDs]
            \cup {Idle}

(* The VRRP router IDs in use on behalf of an object: a gateway's container*)
(* runs a second VRRP instance, with the next ID, for a second VIP.        *)
VRIDs(k) ==
    IF api[k].routerID = 0 THEN {}
    ELSE api[k].routerID..(api[k].routerID + (IF k \in TwoVIPs THEN 1 ELSE 0))

RouterIDs(objects) == {objects[k].routerID : k \in KeepAliveds} \ {0}

(***************************************************************************)
(* findNextAvailableID: the least ID not in use, if there is one.          *)
(* FreeFromZero, FreeShifted and the operators named after an action that  *)
(* follows them are slips a maintainer could make in the definition below  *)
(* them; each property is known to notice one.                             *)
(***************************************************************************)
FreeFromZero(used) == (0..MaxID) \ used

FreeShifted(used) == {i \in IDs : i - 1 \notin used}

Free(used) == IDs \ used

findNextAvailableID(used) ==
    CHOOSE i \in Free(used) : \A j \in Free(used) : i <= j

-----------------------------------------------------------------------------
(* The API server and its users.                                           *)

Write(k, o) ==
    /\ rev' = rev + 1
    /\ api' = [api EXCEPT ![k] = o]
    /\ watch' = Append(watch, [ka |-> k, obj |-> o])

CreateKeepAlived(k) ==
    /\ rev < MaxRev
    /\ ~Exists(api[k])
    /\ Write(k, [rev |-> rev + 1, routerID |-> 0])
    /\ elders' = [elders EXCEPT ![k] = {m \in KeepAliveds : api[m].routerID # 0}]
    /\ UNCHANGED <<cache, queue, worker, faults>>

(* A user's change of the spec: a new version, the status is kept.         *)
EditSpec(k) ==
    /\ rev < MaxRev
    /\ Exists(api[k])
    /\ Write(k, [rev |-> rev + 1, routerID |-> api[k].routerID])
    /\ UNCHANGED <<cache, queue, worker, faults, elders>>

DeleteKeepAlived(k) ==
    /\ rev < MaxRev
    /\ Exists(api[k])
    /\ Write(k, NoObject)
    /\ elders' = [m \in KeepAliveds |-> IF m = k THEN {} ELSE elders[m] \ {k}]
    /\ UNCHANGED <<cache, queue, worker, faults>>

-----------------------------------------------------------------------------
(* The informer.                                                           *)

(* It applies the oldest event and enqueues the object's key.              *)
Deliver ==
    /\ watch # <<>>
    /\ cache' = [cache EXCEPT ![Head(watch).ka] = Head(watch).obj]
    /\ queue' = queue \cup {Head(watch).ka}
    /\ watch' = Tail(watch)
    /\ UNCHANGED <<rev, api, worker, faults, elders>>

(* The manager's periodic resync enqueues every cached object.             *)
Resync ==
    /\ queue' = queue \cup {k \in KeepAliveds : Exists(cache[k])}
    /\ UNCHANGED <<rev, api, watch, cache, worker, faults, elders>>

-----------------------------------------------------------------------------
(* The worker.                                                             *)

(* Reconcile takes a key; the handler reads the object and returns at once *)
(* when it is gone or already has a router ID.                             *)
Get(k) ==
    /\ worker = Idle
    /\ k \in queue
    /\ queue' = queue \ {k}
    /\ worker' = IF Exists(cache[k]) /\ cache[k].routerID = 0
                 THEN [pc |-> "list", ka |-> k, obj |-> cache[k]]
                 ELSE Idle
    /\ UNCHANGED <<rev, api, watch, cache, faults, elders>>

ListBelowMaxID ==
    /\ worker.pc = "list"
    /\ LET used == RouterIDs(cache) IN
       worker' = IF Free(used) \subseteq {MaxID}
                 THEN Idle
                 ELSE [pc |-> "update", ka |-> worker.ka, obj |-> worker.obj,
                       id |-> findNextAvailableID(used)]
    /\ UNCHANGED <<rev, api, watch, cache, queue, faults, elders>>

(* setRouterID lists the namespace from the cache as it is by now, which   *)
(* may lack events up to the ID this controller stored last, and chooses   *)
(* an ID; when all are taken the handler gives up without a retry.         *)
List ==
    /\ worker.pc = "list"
    /\ LET used == RouterIDs(cache) IN
       worker' = IF Free(used) = {}
                 THEN Idle
                 ELSE [pc |-> "update", ka |-> worker.ka, obj |-> worker.obj,
                       id |-> findNextAvailableID(used)]
    /\ UNCHANGED <<rev, api, watch, cache, queue, faults, elders>>

UpdateWithoutVersion ==
    /\ worker.pc = "update"
    /\ worker' = Idle
    /\ IF Exists(api[worker.ka]) /\ ~StatusSubresource
       THEN Write(worker.ka, [rev |-> rev + 1, routerID |-> worker.id])
       ELSE UNCHANGED <<rev, api, watch>>
    /\ UNCHANGED <<cache, queue, faults, elders>>

(* r.Update carries the version it was computed from and is refused when   *)
(* the object has moved on or is gone.  Otherwise the server stores what   *)
(* the endpoint covers: with a status subresource the main endpoint drops  *)
(* the status, so nothing changes and no event is sent.  Every outcome     *)
(* ends the reconciliation without a retry.                                *)
Update ==
    /\ worker.pc = "update"
    /\ worker' = Idle
    /\ IF api[worker.ka].rev = worker.obj.rev /\ ~StatusSubresource
       THEN Write(worker.ka, [rev |-> rev + 1, routerID |-> worker.id])
       ELSE UNCHANGED <<rev, api, watch>>
    /\ UNCHANGED <<cache, queue, faults, elders>>

(* The call fails before the server applies it; again there is no retry.   *)
UpdateFails ==
    /\ worker.pc = "update"
    /\ faults < MaxFaults
    /\ faults' = faults + 1
    /\ worker' = Idle
    /\ UNCHANGED <<rev, api, watch, cache, queue, elders>>

(* The controller restarts: it loses the worker and the queue, lists the   *)
(* objects anew and enqueues them all.                                     *)
Restart ==
    /\ faults < MaxFaults
    /\ faults' = faults + 1
    /\ worker' = Idle
    /\ cache' = api
    /\ watch' = <<>>
    /\ queue' = {k \in KeepAliveds : Exists(api[k])}
    /\ UNCHANGED <<rev, api, elders>>

-----------------------------------------------------------------------------
Init ==
    /\ rev = 0
    /\ api = [k \in KeepAliveds |-> NoObject]
    /\ watch = <<>>
    /\ cache = api
    /\ queue = {}
    /\ worker = Idle
    /\ faults = 0
    /\ elders = [k \in KeepAliveds |-> {}]

User == \E k \in KeepAliveds :
            CreateKeepAlived(k) \/ EditSpec(k) \/ DeleteKeepAlived(k)

Reconcile == (\E k \in KeepAliveds : Get(k)) \/ List \/ Update

Next == User \/ Deliver \/ Resync \/ Reconcile \/ UpdateFails \/ Restart

Safe == Init /\ [][Next]_vars

(* The informer, the resync timer and the worker keep running; the worker  *)
(* serves every key of its queue.  Nothing is asked of users, of failures  *)
(* or of restarts.                                                         *)
Fairness ==
    /\ WF_vars(Deliver)
    /\ WF_vars(Resync)
    /\ WF_vars(List \/ Update)
    /\ \A k \in KeepAliveds : SF_vars(Get(k))

Spec == Safe /\ Fairness

-----------------------------------------------------------------------------
(* Properties.                                                             *)

(* Each variable is of its type: in particular every router ID is one of   *)
(* 0..MaxID, the values findNextAvailableID can return.                    *)
TypeOK ==
    /\ rev \in Nat
    /\ api \in [KeepAliveds -> Object]
    /\ watch \in Seq(Event)
    /\ cache \in [KeepAliveds -> Object]
    /\ queue \subseteq KeepAliveds
    /\ worker \in Worker
    /\ faults \in Nat
    /\ elders \in [KeepAliveds -> SUBSET KeepAliveds]

(* A router ID, once stored, stays with its object until the object is     *)
(* deleted: no reconciliation that began before the ID was stored, however *)
(* old the copy it works on, may replace it (handleAddOrUpdateKeepAlived's *)
(* early return together with the version check of r.Update).              *)
WriteOnce ==
    [][\A k \in KeepAliveds :
        Exists(api[k]) /\ api[k].routerID # 0 /\ Exists(api'[k])
            => api'[k].routerID = api[k].routerID]_api

(* No two objects share a router ID (dist/keepalived-setup/README.md: no   *)
(* two IDs may collide).  It does not hold: the List of setRouterID reads  *)
(* a cache that may lack the ID the worker stored last, and nothing waits  *)
(* for it or compares the IDs later.                                       *)
UniqueIDs ==
    \A j, k \in KeepAliveds :
        j # k /\ api[j].routerID # 0 => api[j].routerID # api[k].routerID

(* No two objects have a VRRP router ID in common, that of a second VIP    *)
(* included: the ID is all that tells two VRRP groups of a network apart   *)
(* (dist/keepalived-setup/README.md: no two IDs of a subnet may collide).  *)
NoSharedVRID ==
    \A j, k \in KeepAliveds : j # k => VRIDs(j) \cap VRIDs(k) = {}

(* Seen from its users the controller is the abstract allocator: whatever  *)
(* the informer, the worker, failures and restarts do between a List and   *)
(* an Update, what becomes of the stored objects is that an object is      *)
(* added, removed, or given once an ID that no object had when this one    *)
(* was created (handleAddOrUpdateKeepAlived as a whole).  Only objects     *)
(* that wait for an ID at the same time can clash.                         *)
Allocation == INSTANCE Allocator WITH
    Names <- KeepAliveds,
    objects <- {k \in KeepAliveds : Exists(api[k])},
    id <- [k \in KeepAliveds |-> api[k].routerID]

ImplementsAllocator == Allocation!Spec

(* Whatever fails, an object ends up with a router ID, or is gone, or      *)
(* waits because every ID is in use: a reconciliation that gives up        *)
(* without a retry is made good by a later event or resync.                *)
EventuallyAssigned ==
    \A k \in KeepAliveds :
        <>[](\/ ~Exists(api[k])
             \/ api[k].routerID # 0
             \/ Free(RouterIDs(api)) = {})
=============================================================================

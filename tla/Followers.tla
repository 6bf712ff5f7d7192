------------------------------ MODULE Followers ------------------------------
(***************************************************************************)
(* The two controllers that keep a copy of a field beside the spec:        *)
(*   - IpsecConn (src/internal/controller/ipsecconn_controller.go) copies  *)
(*     spec.vpnGw to a label, by which a gateway finds its connections;    *)
(*   - Pinger (src/internal/controller/pinger_controller.go) copies the    *)
(*     spec to the status.                                                 *)
(* They run in one process, each with an informer, a queue and a worker,   *)
(* and differ in how they write.  The label is patched with the difference *)
(* of a cached copy, whatever the server holds by then; the status is      *)
(* updated, which the server refuses when the object has moved on.         *)
(*                                                                         *)
(* A spec is the one value that is copied.  The other labels of a          *)
(* connection, which the patch removes, are left out: no code reads them.  *)
(***************************************************************************)
EXTENDS Naturals, Sequences

CONSTANTS
    Conns,      \* names of IpsecConns
    Pingers,    \* names of Pingers
    Values,     \* what a spec may say: the name of a gateway, or a ping task
    None,       \* no label, an empty status
    MaxRev,     \* bound: users stop writing at this resource version
    MaxFaults   \* bound on failed API calls and controller restarts

ASSUME NamesAssumption == Conns \cap Pingers = {}
ASSUME NoneAssumption == None \notin Values
ASSUME BoundsAssumption == MaxRev \in Nat /\ MaxFaults \in Nat

VARIABLES
    rev,     \* resource version of the last write
    api,     \* the objects in the API server
    watch,   \* for each kind the events its informer has yet to apply
    cache,   \* the informers' copies of api
    queue,   \* the keys in the work queues of the two controllers
    worker,  \* for each kind its worker: idle, or the object it works from
    faults   \* failures so far

vars == <<rev, api, watch, cache, queue, worker, faults>>

Objects == Conns \cup Pingers
Kinds == {"IpsecConn", "Pinger"}
Kind(k) == IF k \in Conns THEN "IpsecConn" ELSE "Pinger"

NoObject == [rev |-> 0, spec |-> None, copy |-> None, deleting |-> FALSE]
Object == [rev : Nat \ {0}, spec : Values, copy : Values \cup {None},
           deleting : BOOLEAN]
Exists(o) == o.rev # 0

Event == [key : Objects, obj : Object \cup {NoObject}]

Idle == [pc |-> "idle"]
Worker == [pc : {"write"}, key : Objects, obj : Object] \cup {Idle}

(* What VpnGw's controller lists for a gateway, and what names it.         *)
Listed(g) == {c \in Conns : Exists(cache[c]) /\ cache[c].copy = g}
Named(g) == {c \in Conns : Exists(api[c]) /\ api[c].spec = g}

-----------------------------------------------------------------------------
(* The API server and its users.                                           *)

Notify(k, o) ==
    /\ rev' = rev + 1
    /\ api' = [api EXCEPT ![k] = o]
    /\ watch' = [watch EXCEPT ![Kind(k)] = Append(@, [key |-> k, obj |-> o])]

Store(k, o) == Notify(k, [o EXCEPT !.rev = rev + 1])

Users == /\ rev < MaxRev
         /\ UNCHANGED <<cache, queue, worker, faults>>

Create(k, v) ==
    /\ Users
    /\ ~Exists(api[k])
    /\ Store(k, [NoObject EXCEPT !.spec = v])

EditSpec(k, v) ==
    /\ Users
    /\ Exists(api[k])
    /\ api[k].spec # v
    /\ Store(k, [api[k] EXCEPT !.spec = v])

(* A user sets or removes the label by hand.                               *)
EditLabel(c, v) ==
    /\ Users
    /\ Exists(api[c])
    /\ api[c].copy # v
    /\ Store(c, [api[c] EXCEPT !.copy = v])

Delete(k) ==
    /\ Users
    /\ Exists(api[k])
    /\ Notify(k, NoObject)

(* Deletion in the foreground marks the object; it goes later.  Only the   *)
(* handler of a Pinger looks at the mark.                                  *)
MarkDeleted(p) ==
    /\ Users
    /\ Exists(api[p])
    /\ ~api[p].deleting
    /\ Store(p, [api[p] EXCEPT !.deleting = TRUE])

FinishDeletion(p) ==
    /\ api[p].deleting
    /\ Notify(p, NoObject)
    /\ UNCHANGED <<cache, queue, worker, faults>>

-----------------------------------------------------------------------------
(* The informers.                                                          *)

Deliver(kind) ==
    /\ watch[kind] # <<>>
    /\ LET e == Head(watch[kind]) IN
       /\ cache' = [cache EXCEPT ![e.key] = e.obj]
       /\ queue' = queue \cup {e.key}
    /\ watch' = [watch EXCEPT ![kind] = Tail(@)]
    /\ UNCHANGED <<rev, api, worker, faults>>

Resync ==
    /\ queue' = queue \cup {k \in Objects : Exists(cache[k])}
    /\ UNCHANGED <<rev, api, watch, cache, worker, faults>>

-----------------------------------------------------------------------------
(* The workers.  LabelledOnce, IsChangedOnce and the operators named after *)
(* an action that follows them are slips a maintainer could make.          *)

(* Take begins a pass: the worker of k's kind works from o, or is done.    *)
Take(k, o, goOn) ==
    /\ worker[Kind(k)] = Idle
    /\ k \in queue
    /\ queue' = queue \ {k}
    /\ worker' = [worker EXCEPT ![Kind(k)] =
                     IF goOn THEN [pc |-> "write", key |-> k, obj |-> o] ELSE Idle]
    /\ UNCHANGED <<rev, api, watch, cache, faults>>

(* EndPass ends it; a returned error puts the key back into the queue.     *)
Retry(kind) ==
    /\ worker' = [worker EXCEPT ![kind] = Idle]
    /\ queue' = queue \cup {worker[kind].key}
    /\ UNCHANGED cache

Done(kind) ==
    /\ worker' = [worker EXCEPT ![kind] = Idle]
    /\ UNCHANGED <<cache, queue>>

Fault(kind) ==
    /\ worker[kind] # Idle
    /\ faults < MaxFaults
    /\ faults' = faults + 1

TakeUnlabelled(c) ==
    Take(c, cache[c], Exists(cache[c]) /\ cache[c].copy = None)

(* The handler of a connection goes on unless the connection is gone.  Its *)
(* validation never stops it: it reports what is wrong and returns nil.    *)
TakeConn(c) == Take(c, cache[c], Exists(cache[c]))

(* The patch is the difference between the labels of the copy and the one  *)
(* label the spec asks for: none when they agree.  The server applies it   *)
(* to whatever object has the name by now, and a patch which changes       *)
(* nothing there makes no new version.                                     *)
ApplyAsUpsert(w) ==
    IF w.obj.copy # w.obj.spec /\ api[w.key].copy # w.obj.spec
    THEN Store(w.key, [api[w.key] EXCEPT !.copy = w.obj.spec])
    ELSE UNCHANGED <<rev, api, watch>>

ApplyPatch(w) ==
    IF /\ Exists(api[w.key])
       /\ w.obj.copy # w.obj.spec
       /\ api[w.key].copy # w.obj.spec
    THEN Store(w.key, [api[w.key] EXCEPT !.copy = w.obj.spec])
    ELSE UNCHANGED <<rev, api, watch>>

(* r.Patch: a connection that is gone is an error, and tried again.        *)
Patch ==
    /\ worker["IpsecConn"] # Idle
    /\ ApplyPatch(worker["IpsecConn"])
    /\ IF Exists(api[worker["IpsecConn"].key])
       THEN Done("IpsecConn") ELSE Retry("IpsecConn")
    /\ UNCHANGED faults

PatchFailsForGood ==
    /\ Fault("IpsecConn")
    /\ Done("IpsecConn")
    /\ UNCHANGED <<rev, api, watch>> \/ ApplyPatch(worker["IpsecConn"])

(* The call fails, before or after the server has applied the patch.       *)
PatchFails ==
    /\ Fault("IpsecConn")
    /\ Retry("IpsecConn")
    /\ UNCHANGED <<rev, api, watch>> \/ ApplyPatch(worker["IpsecConn"])

IsChangedOnce(o) == ~o.deleting /\ o.copy = None

isChanged(o) == ~o.deleting /\ o.copy # o.spec

TakePinger(p) == Take(p, cache[p], Exists(cache[p]) /\ isChanged(cache[p]))

(* Status().Update stores the status if the copy is of the stored version. *)
Current(w) == api[w.key].rev = w.obj.rev

ApplyUpdate(w) ==
    IF Current(w)
    THEN Store(w.key, [api[w.key] EXCEPT !.copy = w.obj.spec])
    ELSE UNCHANGED <<rev, api, watch>>

UpdateWithoutVersion ==
    /\ worker["Pinger"] # Idle
    /\ LET w == worker["Pinger"] IN
       IF Exists(api[w.key])
       THEN Store(w.key, [api[w.key] EXCEPT !.copy = w.obj.spec])
       ELSE UNCHANGED <<rev, api, watch>>
    /\ Done("Pinger")
    /\ UNCHANGED faults

updatePinger ==
    /\ worker["Pinger"] # Idle
    /\ ApplyUpdate(worker["Pinger"])
    /\ IF Current(worker["Pinger"]) THEN Done("Pinger") ELSE Retry("Pinger")
    /\ UNCHANGED faults

UpdateFails ==
    /\ Fault("Pinger")
    /\ Retry("Pinger")
    /\ UNCHANGED <<rev, api, watch>> \/ ApplyUpdate(worker["Pinger"])

(* The process restarts: the informers list anew and enqueue what exists.  *)
Restart ==
    /\ faults < MaxFaults
    /\ faults' = faults + 1
    /\ worker' = [kind \in Kinds |-> Idle]
    /\ cache' = api
    /\ watch' = [kind \in Kinds |-> <<>>]
    /\ queue' = {k \in Objects : Exists(api[k])}
    /\ UNCHANGED <<rev, api>>

-----------------------------------------------------------------------------
Init ==
    /\ rev = 0
    /\ api = [k \in Objects |-> NoObject]
    /\ watch = [kind \in Kinds |-> <<>>]
    /\ cache = api
    /\ queue = {}
    /\ worker = [kind \in Kinds |-> Idle]
    /\ faults = 0

User ==
    \/ \E k \in Objects, v \in Values : Create(k, v) \/ EditSpec(k, v)
    \/ \E c \in Conns, v \in Values \cup {None} : EditLabel(c, v)
    \/ \E k \in Objects : Delete(k)
    \/ \E p \in Pingers : MarkDeleted(p)

Reconcile ==
    \/ \E c \in Conns : TakeConn(c)
    \/ \E p \in Pingers : TakePinger(p)
    \/ Patch \/ updatePinger

Next ==
    \/ User
    \/ \E p \in Pingers : FinishDeletion(p)
    \/ \E kind \in Kinds : Deliver(kind)
    \/ Resync
    \/ Reconcile
    \/ PatchFails \/ UpdateFails \/ Restart

Safe == Init /\ [][Next]_vars

(* The informers and the workers keep running, and a worker serves every   *)
(* key of its queue.  Nothing is asked of the resync, which comes every    *)
(* ten hours: convergence must not wait for it.                            *)
Fairness ==
    /\ \A kind \in Kinds : WF_vars(Deliver(kind))
    /\ \A c \in Conns : SF_vars(TakeConn(c))
    /\ \A p \in Pingers : SF_vars(TakePinger(p))
    /\ WF_vars(Patch)
    /\ WF_vars(updatePinger)

Spec == Safe /\ Fairness

-----------------------------------------------------------------------------
(* Properties.                                                             *)

(* Each variable is of its type: in particular a patch never makes an      *)
(* object out of nothing but a label.                                      *)
TypeOK ==
    /\ rev \in Nat
    /\ api \in [Objects -> Object \cup {NoObject}]
    /\ watch \in [Kinds -> Seq(Event)]
    /\ cache \in [Objects -> Object \cup {NoObject}]
    /\ queue \subseteq Objects
    /\ worker \in [Kinds -> Worker]
    /\ faults \in Nat

Follows(k) ==
    \/ ~Exists(api[k])
    \/ api[k].copy = api[k].spec
    \/ k \in Pingers /\ api[k].deleting

Pending(k) == \E n \in 1..Len(watch[Kind(k)]) : watch[Kind(k)][n].key = k

InHand(k) == worker[Kind(k)] # Idle /\ worker[Kind(k)].key = k

(* When nothing more is to be done about an object (no event, not queued,  *)
(* not in a worker's hands), its label or status is that of its spec,      *)
(* although labels are patched from old copies, users relabel connections, *)
(* names are reused and calls fail after they took effect                  *)
(* (handleAddOrUpdateIpsecConnection, handleAddOrUpdatePinger).            *)
FollowsWhenSettled ==
    \A k \in Objects :
        ~Pending(k) /\ k \notin queue /\ ~InHand(k) => Follows(k)

(* The status of a Pinger only ever changes to that of the spec it is      *)
(* stored with: updatePinger works from a cached copy, and an older one is *)
(* refused.                                                                *)
StatusFromCurrentSpec ==
    [][\A p \in Pingers :
        Exists(api[p]) /\ Exists(api'[p]) /\ api'[p].copy # api[p].copy
            => api'[p].copy = api'[p].spec]_api

(* Without help of the resync every gateway ends up listing exactly the    *)
(* connections that name it (VpnGw's getIpsecConnections, by the label).   *)
ListedConverges == \A g \in Values : <>[](Listed(g) = Named(g))

(* Without help of the resync every Pinger ends up with its spec in its    *)
(* status, unless it is being deleted.                                     *)
StatusConverges == \A p \in Pingers : <>[]Follows(p)
=============================================================================

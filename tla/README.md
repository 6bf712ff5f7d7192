# A formal model of kube-combo

kube-combo is a Kubernetes operator. It deploys VPN gateways (OpenVPN and
strongSwan, with keepalived for a virtual address), the IPsec connections they
serve, and debug and ping pods. Its core logic is five reconcilers that share
one API server and one set of informer caches, and that run concurrently with
users, the kubelet, the garbage collector, failures and restarts; and two
daemons that run inside the debug and ping pods. This directory specifies the
reconcilers and the daemons in TLA+, checks them with TLC and proves the central
facts about each of them with TLAPS. Paths are relative to `src/`.

## Inventory

| component | state it keeps | operations | interacts with |
|---|---|---|---|
| KeepAlived controller, `internal/controller/keepalived_controller.go` | `Status.RouterID` of each KeepAlived | Get, List, choose the least free ID of 1..255, `r.Update` | VpnGw controller reads the ID; the keepalived container uses it |
| VpnGw controller, `vpngw_controller.go` | the StatefulSet or DaemonSet of a gateway, its status, the configuration in its pods | fetch and validate the gateway and its KeepAlived; create or update the workload; list and validate IpsecConns; run the refresh command in every pod; write the status | KeepAlived, IpsecConn, workloads (`Owns`), pods (exec) |
| IpsecConn controller, `ipsecconn_controller.go` | the label of an IpsecConn that names its gateway | patch the label | VpnGw controller lists by label |
| Debugger controller, `debugger_controller.go` | the pod or DaemonSet of a Debugger, its status | validate it, its ConfigMaps and its Pinger; create or update the workload; write the status | ConfigMap, Pinger, workloads |
| Pinger controller, `pinger_controller.go` | the status of a Pinger, a copy of its spec | compare, `Status().Update` | Debugger controller reads the Pinger |
| keepalived, strongSwan and OpenVPN containers, `dist/*-setup` | configuration files, for the static mode also a directory of the node | configure at start, refresh connections | the VpnGw controller's exec |
| pinger daemon, `internal/pinger` | protocols of its pod, what failed in this check and since it started, metrics | ask for its pod (five times), check every target of every enabled list, tick, exit with an error, stop on a signal | API server (its pod, the peers, the nodes), the network, the runtime that restarts it |
| debugger daemon, `internal/debugger`, with `dist/debugger-setup/debugger-start.sh` and `dist/scripts` | the job of a task file, the script under way and its ten second timer | register, run the script of each task, report a failure, terminate, next file | scripts, which post their own results, and an HTTP inspection service |
| metrics, webhooks, wiring, scripts, charts | | | |

What the controller process gives the reconcilers (`cmd/controller/controller.go`):
one worker per controller; reads from informer caches; `Update` and
`Status().Update` refused when the resource version has moved on; workloads
written without a version; a returned error (`SyncStateError`) or a panic puts
the key back into the queue; `SyncStateErrorNoRetry` and success do not; every
object is enqueued again by the periodic resync and after a restart. All CRDs
declare the status subresource. Owner references are set on the StatefulSet, the
DaemonSets and the debugger's pod, and on nothing else.

What is hard, and what makes each part correct:

- *Stale reads.* The allocator chooses from a cached list; a gateway is read
  twice in a pass; decisions compare the spec with the **status**, not with the
  workload. Correct: no two objects share an ID, an ID is never replaced, a status
  describes the spec it is stored with, a settled gateway runs its current spec.
  The first and the last do not hold as they stand (see *Disagreements*); the models
  say exactly when they do.
- *Partial failure and crashes* between the workload, the pods and the status.
  Correct: the next pass repairs whatever the last one left; two pods of a
  gateway do not serve different connections.
- *Deletion and recreation* while a pass works from the deleted object. Correct:
  nothing is left behind, nothing of the old object reaches the new one.
- *Missing triggers.* Nothing watches IpsecConns for a gateway, ConfigMaps or
  Pingers for a Debugger, and some errors are not retried. Correct: events or the
  resync make up for it in the end.
- *Writes whose effect is not what the reader saw.* A label is patched with a
  difference computed from a cached copy; a call fails after it took effect.
  Correct: label and status follow the spec once the controllers are done.
- *Timers, processes and lost posts* in the daemons: a script is killed while
  its curl is under way, a post is refused or its answer lost, the container
  restarts. Correct: the service hears of every task, in time; a failed probe is
  not masked by a later success and surfaces as an exit code.

`PROJECT.json` lists every component with its status, and under `hazards` each
place in the code where one of these bites.

## Modules

| module | models | state and actions |
|---|---|---|
| `KeepAlived` | all KeepAliveds of a namespace, the API server, the informer, the queue and the worker of the allocator | `api` and `cache` hold version and router ID of each object, `watch` the events between them. `Get`, `List`, `Update` are the three steps of a reconciliation; `UpdateFails` and `Restart` are failures; `CreateKeepAlived`, `EditSpec`, `DeleteKeepAlived` the users; `Deliver`, `Resync` the informer. `Get` and `List` read `cache` as it is, however far it lags. `elders` is history: for each object, those that had their ID when it was created |
| `VpnGw` | one gateway with its workloads, pods and IPsec connections | `gw`, `gwWatch`, `gwCache` are the stored gateway, its pending events and the cached copy; `workload`, `seen`, `owned` the workloads, their presence in the cache and their pending event; `podSeen` the pods the cache holds; `worker` the handler's place and locals. `Fetch*`, `WriteWorkload`/`WriteRefused`/`WorkloadUnchanged`, `RefreshConns`, `Exec`, `ExecDone`, `UpdateVpnGW` are the handler in order. `hist` is history, see below |
| `Debugger` | one Debugger with its pod or DaemonSet, the ConfigMap and the Pinger it names | as `VpnGw`; `Fetch*` checks the inputs, `WriteWorkload`/`WriteRefused` the workload (whose volumes come from a second read of the ConfigMap), `UpdateDebugger` the status |
| `Allocator` | what the allocator promises: a partial assignment of IDs to the objects that exist, which changes only by creating, deleting and assigning, once per object and never an ID of its elders. It does not promise that all IDs differ, because the code does not achieve that | `objects`, `id`, `elders`; `Add`, `Remove`, `Assign`. `KeepAlived` implements it (`ImplementsAllocator`) |
| `Followers` | IpsecConn and Pinger controllers: several objects of each kind, two informers, two workers | `api`, `watch`, `cache`, `queue`, `worker`. `TakeConn`/`Patch`/`PatchFails` and `TakePinger`/`updatePinger`/`UpdateFails` are the passes; `Create`, `EditSpec`, `EditLabel`, `MarkDeleted`, `Delete` the users |
| `DebugTask` | a debugger container: start script, daemon, timer, the script of the task at hand and the command it is running, the service | `daemon` (where it is, its file, the lists left), `proc`, `expired`, `service`. `StartDebugger`, `Register`, `RunTask`, `TaskEnds`, `ReportFailure`, `Terminate` are the daemon; `Timeout` the timer; `CheckEnds`, `ScriptGoesOn`, `CurlEnds` the scripts; `Restart` |
| `Inspection` | what a container promises the service: a job is registered with the number of its tasks, heard of, and terminated when nothing is left to hear; only a post that goes wrong excuses a task that is missed or a call out of turn | `phase`, `count`, `heard`, `missed`, `trouble`; `Register`, `Hear`, `Miss`, `Terminate`, `GoWrong`. `DebugTask` implements it (`ImplementsInspection`) |
| `PingerDaemon` | a pinger container, the network, the API server and the runtime | `pc`, `phase`, `left`, `bad`, `errHappens`, `code`. `GetSelf`, `BeginPhase`, `Probe`, `EndPhase`, `EndCheck`, `Tick`, `Stop` are the daemon; `Flip`, `Relist`, `FlipAPI`, `Assign`, `Kill`, `Signal`, `Restart` its surroundings |
| `MCKeepAlived`, `MCVpnGw`, `MCDebugger`, `MCFollowers`, `MCDebugTask`, `MCPingerDaemon` | | instances for TLC |
| `KeepAlivedProofs`, `VpnGwProofs`, `VpnGwSettledProofs`, `DebuggerProofs`, `FollowersProofs`, `DebugTaskProofs`, `PingerDaemonProofs` | | the proofs |
| `Events` | | lemmas on a sequence of pending events that grows at its end and is delivered at its head |

How they fit together: `VpnGw` takes router IDs as `KeepAlived` hands them out
(none, then one, none again after a recreation) and lists connections by the
label that `Followers` maintains; `Debugger` sees a Pinger object that is
missing, invalid or valid; the containers it deploys run `DebugTask` and
`PingerDaemon`. The modules are composed at these interfaces only, because
nothing else is shared.

A gateway's work queue is a Boolean, because gateways share no state and each
controller has one worker. A value that nobody but the worker observes is read
in the step of the decision made from it: an earlier read would be the same as a
later delivery of its last event. Where two reads of one object occur in a pass
(the gateway, the Debugger) its events are explicit.

The worker takes a key whenever there is one, whatever events are pending: a pass may
begin on any copy that the cache has held. `getVpnGwPodNames` lists the pods of the cache
(`podSeen`), which may lack a new pod or hold one that is gone; their phase is the present
one, because an old phase can only make the pass fail and be repeated.

`hist` marks what a pass cannot make up for, and only properties read it: a user wrote the
gateway before it was at rest (`hurried`), a pass recorded a spec other than the one it
deployed (`skewed`), the KeepAlived was replaced since the last pass began (`replaced`), the
last list of the pods lacked one (`missed`). At rest (`AtRest`) means that the
controller has nothing left to do and the KeepAlived, if one is needed, is valid. A gateway
that is created again at rest has a clean history.

Specs are abstracted to what the handlers do with their fields: `res` is copied
to the status in every pass and compared by `isChanged`, `sslCfg` and
`ipsecImage` are copied only when a server is switched on or off, `aux` is never
compared. In `VpnGw` a router ID is 0 (none) or 1 (some). A ConfigMap is missing,
empty or filled; a workload of a Debugger has its volumes or none; a Pinger missing, invalid or valid; a connection good, bad,
"mute" (passes validation and adds nothing to the refresh command) or absent. A pod
is pending, down or up with a set of loaded connections. In `Followers` a spec
is the one value that is copied. In `DebugTask` a script is a sequence of commands, ended
by a crash or by a post; a report is its task and its sender. In `PingerDaemon` a
probe finds its target up or down; packets and latencies are left out.

## Runs

| run | question | instance |
|---|---|---|
| `ka_any` | with any cache lag: IDs are never replaced, the controller implements `Allocator`, and every object gets an ID | 3 objects, 2 IDs, 4 user writes, 1 failure |
| `ka_clash` | *violated*: no two objects share an ID | 2 objects, 2 IDs |
| `ka_status` | *violated*: with the shipped CRD no ID is ever stored | 1 object |
| `gw_any` | edits, deletion, KeepAlived changes and failures, at rest or at any point of a pass: what a settled gateway runs, and what its status says | 6 specs, 3 disturbances |
| `gw_conns` | connections in pods and status | 2 pods, 2 connections, 2 disturbances |
| `gw_overlap` | *violated*: an edit made at rest is applied | 2 specs, 1 edit |
| `dbg_any` | edits, deletion, inputs and failures at any point | 5 specs, 2 disturbances |
| `dbg_volumes` | *violated*: a ConfigMap missing for a moment leaves a Debugger without volumes for good | 1 spec, 2 changes of the ConfigMap |
| `followers` | labels and statuses follow their specs, and gateways list the right connections, without help of the resync | 1 connection, 1 Pinger, 2 values, 4 writes of users and controllers, 1 failure |
| `task_jobs` | the service hears of every task, of the registered number and in time; the container implements `Inspection`; only an unanswered post or a command without end holds the jobs | 3 files (one broken), 2 posts that go wrong, 1 restart |
| `pinger` | no failure is masked; a lasting one surfaces; the daemon recovers and stops | 6 configurations, 7 addresses, 2 disturbances |
| `pinger_ports` | *violated*: nothing fails but what is configured or listed | as `pinger` |

*Bounds.* `MaxRev` stops users, not the controller, so every pass runs to its
end. Two IDs for three objects make the pool run out and an ID return to it.
`Budget` counts the edits and disturbances together. Every hazard found in the
code needs at most two of them in one pass or in two consecutive ones (an edit and a
crash, a restart of a pod and a failed command), and after a disturbance the
handler converges within two or three passes, so a third or fourth starts from
a state already seen. Two pods and two connections are the least that can disagree.
`gw_conns` starts with two valid connections and leaves out `crash`: a restart brings the
caches up to date and takes up no place that a failed command does not. The specs of `gw_any`
are a gateway, the same with other settings, with the other server switched on, of the other
kind without a KeepAlived, one that is invalid, and one whose handler panics; any two that
can be deployed differ in a field the status always follows (`EditsAreSeen`), as
`AppliedWhenSettled` needs.
In `followers` the two kinds share nothing but the version counter, and four
versions are enough to create an object, edit it, relabel it by hand, delete and
recreate it while a pass works from an old copy; the proofs cover more objects.
`task_jobs` has a file with two categories (in them an unknown name, a task whose script
posts, one that is silent and one without a script), a file with one task, and one that does not decode; two faults suffice to lose the script's own
post and the daemon's fallback. `pinger` has a target in every list and both
protocols; a failure and a recovery, in any phase, are two disturbances (three
were also run: 606,435 states, no error). `ka_clash` uses symmetry of the objects; runs with liveness use none.

*Deadlock* is checked except in `gw_any` and `dbg_any`, where a gateway or
Debugger may be gone for good, in `task_jobs`, where the container sleeps when
its files are done, and in `pinger` and `pinger_ports`, where a job or a pod's pinger has exited for
good.

*Fairness.* Weak fairness of the informers, the resync, the worker's steps, the
garbage collector, the kubelet's starting and stopping of pods, and the router
ID allocator: all of them are loops of running processes. `ka_any` needs strong fairness
of `Get(k)`: the queue is first in, first out, and a key in it cannot be
overtaken for ever. `followers` asks the same of `TakeConn` and `TakePinger`, and
nothing of the resync, which comes every ten hours. In `task_jobs` only the daemon's own steps and its
timer are fair: nothing says that a script or a command it runs ends, or that a post is
answered, because the code has no timeout on the commands, on curl or on its HTTP client, and no
`WaitDelay`. `JobsEnd` therefore says that the container gets through its files, or is held for
good by an unanswered post or by a command that outlives its killed script, and by nothing else. In `pinger` the process runs
and is restarted where the workload says so, and `Stop` is strongly fair since Go's `select`
chooses at random between the signal and the tick. Users and failures have none; failures are bounded,
because liveness says nothing of a system that fails for ever.

*The status subresource.* With the CRD as shipped, `r.Update` drops the status and
no router ID is ever stored (`ka_status`), so `ka_any` and `ka_clash` set
`StatusSubresource` to FALSE: they show what the allocator does once its write
is stored. `VpnGw` makes the same assumption (`AssignRouterID`).

*Slips.* Operators such as `FreeShifted` or `UpdateVpnGWWithoutVersion`, defined
before the definition they vary, are plausible mistakes. For every property of a
passing run, `PROJECT.json` (`mutants`) names one which makes that run fail.

## Disagreements of the code with what is said of it

The `findings` of `PROJECT.json` quote the lines. Of the violated runs,

- `ka_clash` shows that the allocator gives one ID to two objects that wait at the same time:
  its `List` (`keepalived_controller.go:139`) reads the informer's cache, which may lack the ID it stored
  a moment ago. `ka_any` and the proofs show that this is the only way: an object never gets
  the ID of one that had it when the object was created.
- `gw_overlap` shows that an edit made at rest can be lost: before its event arrives a resync
  or an event of a workload starts a pass on the old copy, which has nothing to do; the event
  arrives; the second Get (`vpngw_controller.go:296`) reads the new spec and records it. An edit made
  during a pass is lost in the same way. `gw_any` shows, and the proofs for any instance, that
  for users who edit at rest this second Get is the only way.
- `pinger_ports` shows that a pinger with TCP targets only, or UDP targets only, fails in every
  check: `strings.SplitSeq` yields one empty target of the other list (`internal/pinger/ping.go:291`), although
  `api/v1/pinger_types.go:44` and `:48` mark both lists optional. One that exits on
  errors never recovers; `Recovers` says that this target is all that keeps it from it.
- `ka_status` and `dbg_volumes` are described by their findings.

Beyond these, the same modules show the following, with the instance that does:

- `AppliedWhenSettled` fails with `Specs <- SslCfgSpecs`: the SSL
  settings are copied to the status only when the server is toggled, so taking
  back an edit is "no change" (`vpngw_controller.go:328`).
- It fails with `Specs <- AuxSpecs`: `isChanged` does not compare those fields.
- It fails without the condition on `hurried`, with `Specs <- ResSpecs`: an edit that is taken back
  before the controller is at rest, with a crash between the writes of the workload and of the
  status, leaves the workload of the edit. While a KeepAlived is missing or invalid, an edit
  and its reversal likewise go unseen.
- `OneWorkload` fails with `Specs <- KindSpecs`: the old type's workload is not removed.
- `NoSharedVRID` of `KeepAlived` fails with an object in `TwoVIPs`: its second VIP uses
  its ID + 1 (`dist/keepalived-setup/configure.sh:35`), which another object may have.
- `DeletedConnsUnloaded` of `VpnGw` fails: a deleted connection is reported to no gateway
  and, if it is the last one, never unloaded.
- `PodsAgree` and `StatusNamesLoaded` fail without `WellInformed` until the
  next resync: an invalid KeepAlived ends the pass before the refresh without a retry
  (`FetchStops`), and a valid one that replaces it is reported to no gateway, since `Owns(KeepAlived)`
  (`vpngw_controller.go:153`) needs owner references that nobody sets; and a pod that the cached
  list lacks is not refreshed.
- `DeployedWhenRecorded` of `Debugger` fails with `"delete"` in `Disturbances`: a Debugger
  that is deleted and created again during a pass is recorded by that pass, whose DaemonSet
  belongs to the old one, is collected and never made again, since a recorded Debugger is
  left alone (`debugger_controller.go:197`). The same happens when a user deletes the
  workload (`"workload"`), and when the kind is edited between the two reads of a pass.
- `RecordedWhenSettled` of `Debugger` fails with `"input"` until the next resync: nothing
  watches ConfigMaps and Pingers.
- `PingerStops` of `Debugger` fails when `EnablePinger` of a running pod is switched
  off: the update of a pod is refused in every pass.

Reading the daemons' code also showed, outside the models or excluded by name in
the properties:

- *Two reports for one task*: when the timer beats a script that has just
  posted, the daemon reports false beside the script's own report;
  `internal/debugger/task.go:206` speaks of one status per item. `AccountedFor` asks for
  at least one.
- *Silent scripts*: some scripts under `dist/scripts/network-configuration` are stubs,
  and `network-port-packet-loss-detection.sh` and one path of
  `disk_ssd_interface_mode.sh` exit with 0 and no post. The registered
  number counts their tasks, of which the service never hears. `Silent` names them,
  `AccountedFor` and `CountMatches` exclude them.
- `CPU_Detection.sh`, which the task map names, is not in `dist/scripts/cpu`
  (`NoScript`): the daemon reports the task as failed every time.
- `disk_performance.sh` runs fio for ten seconds, as long as the timer allows.
- A report the service refuses with an error status counts as delivered
  (`PostJSONString`), and the daemon does not repeat its own: `lost` holds those tasks.
- A job-mode pinger exits with 0 whatever it found. The message of `config.go`
  after five tries speaks of three.
- The gauge of a failed DNS lookup is overwritten as healthy
  (`internal/pinger/ping.go:316-321`), and the loss of a node ping that fails is never
  counted, since the function returns first.
- `pinger-start.sh` is PID 1 and does not forward SIGTERM. `Signal` is a signal
  that reaches the process.

Properties that pass are stated for what the code can do: `AppliedWhenSettled`
for edits of fields the status always follows, made when the controller is at rest and not
recorded by a pass that did not deploy them,
`ConnsRefreshed` while at least one connection is left (the last one is never
unloaded: the handler ends before the refresh), `DaemonsetConverges` for what is
recorded and not for the DaemonSet itself (see `DeployedWhenRecorded` above).

## Proofs

All theorems hold for every value of the constants, from the assumptions the
modules declare; the objects, addresses and files need not be finite in number.

`KeepAlivedProofs`:

- `TypeCorrect`: `Safe => []TypeOK`. The allocator's value is an ID because the
  least element of a non-empty set of naturals exists (`LeastElement`,
  `FindNextIsFree`).
- `WriteOnceHolds`: `Safe => WriteOnce`. Not inductive alone. `VersionInv`
  (`VersionsHold`) says that every copy of an object, in the cache, in a pending event or in the
  worker's hands, has an older version than the stored object or agrees with
  it. The version check of `Update` admits only a copy that agrees, and the handler went on only because
  that copy had no ID.
- `NoClashWithElders`: `Safe => []DiffersFromElders`, with any lag: an object never has the ID of an
  object that had its own when the first was created. It needs `ReplayInv` (`ReplayHolds`):
  applying the pending events to the cache gives the stored objects. `EldersInv` (`EldersHold`)
  follows the elders through the informer: events arrive in order, so wherever the stored version
  of an object is in the cache, its elders' IDs are there too; a worker whose copy is of that
  version sees them when it lists. A worker with an older copy is refused by the
  version check.
- `ImplementsTheAllocator`: `Safe => ImplementsAllocator`, with no assumption. Every step maps to a
  step of `Allocator` or a stutter. The only step that is not immediate is a successful `Update`, whose
  ID is none of the elders' by `EldersInv`, whose object still exists and has none by the version
  check, and objects that are gone have no ID (`GoneInv`). That all IDs differ is false
  (`ka_clash`), so neither `Allocator` nor a theorem says it.

`FollowersProofs`:

- `FollowsWhenSettledHolds`: `Safe => []FollowsWhenSettled`. Inductive with
  `CacheInv` (the last pending event of an object brings its stored state, and the
  cache has it if there is none) and `WorkInv` (a worker's copy is the stored object, or
  the key is queued or has a pending event). So a pass that finds nothing to do, or ends
  without an error, has either seen the stored object, or left something that
  brings it back.
- `StatusFromCurrentSpecHolds`: `Safe => StatusFromCurrentSpec`, from `VersionInv`: a copy
  with the version of the stored object is that object. `NotifyWrites` shows once what any
  write does to all this; each action is then an instance of "a write" with "the pass
  begins, ends or is repeated".

`DebugTaskProofs`:

- `AccountedForHolds`: `Safe => []AccountedFor`. `AccountInv` says that every task of
  the file at hand is accounted for or still to come in the list or the categories left,
  and that a script leaves 0 behind only if its task is accounted for; `PlaceInv` that
  the daemon is at a task of its file and that no script or command lives except while it
  waits.
- `NoLateReportHolds`: `Safe => NoLateReport`, from `RegisteredInv`: as long as no post went
  wrong the service knows the job the daemon is at.
- `CountMatchesHolds`: `Safe => []CountMatches`. `CountIsNumberOfTasks` shows, by a
  bijection, that `CountValidTasks` is the number of tasks the loop of `StartDebugger` comes to;
  `CountInv` that every job was registered with this number and, with no post gone wrong, no
  task is lost; `AllAccounted` that nothing is left to do at `Terminate`. It rests on
  `TasksAssumption`, a file names a task at most once: the code counts and runs a name again
  each time it occurs, and the service cannot tell its reports apart.
- `ImplementsTheInspection`: `Safe => ImplementsInspection`, with `heard` mapped to the tasks of
  the reports, `missed` to `lost` and `trouble` to `faults > 0`. A script's post and the daemon's are both `Hear` or
  `Miss`, a restart is a stutter, and `Terminate` is allowed because nothing is left by
  `AccountInv`.

`PingerDaemonProofs`: `FailureNotMaskedHolds` from `MaskInv` (a failure is remembered
by the check and, once that is over, by the process), `OnlyEmptyTargetIsMadeUp` from `RealInv`
(what is still to be probed is configured, listed, or the empty target of a port list): for every configuration
the alarm of `pinger_ports` is the only false one.

`DebuggerProofs`: `RecordedFromCurrentSpecHolds`, `Spec => RecordedFromCurrentSpec`, again
because a copy with the version of the stored Debugger, in the cache, in a pending
event or in the worker's hands, is that Debugger (`ObjectInv`).

`VpnGwProofs`:

- `RouterIDReadyHolds`: `Safe => []RouterIDReady`. The pass remembers the ID it read
  (`PassInv`: a pass for a spec with keepalived has an ID other than 0), so what happens to the
  KeepAlived afterwards cannot take it from the workload.
- `StatusFromCurrentSpecHolds`: `Safe => StatusFromCurrentSpec`. `GwInv` says of the cached copy
  and of every pending event that it is older than the stored gateway or
  equal to it; so the second read of the pass is either refused or current.
- `LoadedBeforeRecordedHolds`: `Safe => []LoadedBeforeRecorded`, from `Ran`: a listed pod the
  pass is done with has the connections of the command or has restarted.

`VpnGwSettledProofs`, about a gateway with nothing left to do. *Quiet* means that nothing
will make the worker begin again: no key queued, no event of the gateway or of a workload.
Where a property excludes a history (`replaced`, `missed`), *Disagreements* says why. All four rest on `LastEvent`: the last pending event brings the stored gateway, and
the cache has it if there is none.

- `PodsAgreeHolds`: `Safe => []PodsAgree`. `AgreeInv`: when all is quiet, the worker is idle and
  the pods agree, or its pass works on the stored gateway, no pod came, went or
  restarted since it listed them, they were all listed unless the list is marked `missed`, and those already served have the connections of the
  command. Every failure, crash and pod event ends the quiet, and only a pass that
  reached every pod restores it.
- `StatusNamesLoadedHolds`: `Safe => []StatusNamesLoaded` if no spec lists connections
  itself. A quiet pass that ends without a write has found its connections in the status.
- `DeployedWhenSettledHolds`: `Safe => []DeployedWhenSettled`, for edits at any point of a pass,
  deletion and recreation. `DeployedInv`: the cache is right about every workload without
  a pending event (`SeenInv`), and a quiet pass that is past the workload has left one of its
  gateway's kind.
- `AppliedWhenSettledHolds`: `Safe => []AppliedWhenSettled` if any two specs that can be deployed and
  agree in `res` and in which servers are on are the same spec (`EditsAreSeen`). Passes may begin on
  any stale copy. `AppliedInv` joins these facts: a controller at rest has recorded the stored spec
  (`RestMatches`); and as long as nobody hurried and no pass recorded what it did not deploy (`Calm`),
  at most one write is on its way to the cache, and a copy from before it has the same status and had
  recorded its spec, or has the same spec and is now recorded (`Pipeline`, `Older`); a workload whose spec the
  status matches was made from that spec or from the stored one (`StatusInv`); and a pass
  works from such a copy and, if its spec is the stored one, leaves a workload of it
  (`BusyInv`). So a pass over an old copy has nothing to do or makes the workload that its status already
  claims, and only the record of a spec it did not deploy, which `skewed` marks, breaks the chain.
  Without `EditsAreSeen` it is false: an edit in a field the status does not follow is
  recorded as applied.

  All four cover what the runs do not: any number of pods, connections, specs and
  disturbances.

`DebuggerProofs`, besides `RecordedFromCurrentSpecHolds`:

- `RecordedWhenSettledHolds`: `Spec => []RecordedWhenSettled` if ConfigMap and Pinger stay as they
  are. `SettledInv` is `LastEvent` again, and that a worker at rest has found the stored Debugger
  unchanged: every other way out of a pass queues the key or leaves an event.
- `ScriptsMountedHolds`: `Spec => []ScriptsMounted` if the inputs stay and no call fails. The run
  `dbg_volumes` shows that it is false otherwise; the theorem, that nothing else breaks it: no edit,
  deletion, recreation, refused write or restart. `MountedInv` carries the first read of the ConfigMap
  to the second.
- `DeployedWhenRecordedHolds`: `Spec => []DeployedWhenRecorded` if all specs are of one kind and neither
  the Debugger nor its workload is deleted. `DeployedInv`: there is only the first Debugger, every
  workload is its own and so never collected, and a pass at the status has left one.

  The three were checked with TLC on instances of three or four disturbances before they were
  proved. `WorkloadStep`, `PassStep` and `ObjectStep` say once what any step does to the
  workloads, to the pass and to the Debugger.

Each of these modules but `VpnGwSettledProofs` also proves `TypeCorrect`.

Only model-checked: liveness, that is every property with `<>` or `~>`
(`EventuallyAssigned`, `WorkloadRestored`, `NothingLeftBehind`, `ConnsRefreshed`, `DaemonsetConverges`,
`ListedConverges`, `StatusConverges`, `JobsEnd`, `FailureSurfaces`, `Recovers`, `StopEnds`). Every invariant
and every action property of a passing run is a theorem, under the assumptions named above.

## Not modelled

Webhooks (off by default and accepting everything), metrics (no decision reads
them), process wiring, charts and manifests, what the host check scripts
inspect, VRRP and OpenVPN's and strongSwan's own behaviour, and the static mode
of the VPN containers, in which they run from a cache directory of the node.
`PROJECT.json` says why for each. A KeepAlived is a version and an ID in
`KeepAlived`, and its other fields are validated in `VpnGw` only.

## Plan

Done, in the order of importance: `KeepAlived`, `VpnGw`, `Debugger`; `Followers`; `DebugTask`;
`PingerDaemon`; the abstract `Allocator` and `Inspection` and the proofs that `KeepAlived` and
`DebugTask` implement them; proofs for all six, which cover every invariant and action property that
is checked. Left:

1. An abstract deployment that `Debugger` and `VpnGw` implement: a gateway or Debugger, its
   workload and its status, without cache, queue, events or worker.
2. `StaticPod`: node cache, container configuration and refresh of the static mode.
   The static pod copies the cache file by file when it starts, while the
   DaemonSet's pod may be replacing it, and does not read it again.

Runs stay small (two or three objects, one or two failures); each asks one
question of its module, and properties of one instance share a run.

---------------------------- MODULE PingerDaemon ----------------------------
(***************************************************************************)
(* The pinger container (src/internal/pinger, src/cmd/pinger): the daemon  *)
(* asks the API server for the IPs of its own pod, then checks in rounds   *)
(* all that its configuration names, one target after another, while       *)
(* targets come and go and the API server fails.  A failure stays with the *)
(* process until the next tick of the timer makes it exit, which is how a  *)
(* user gets to know of it.                                                *)
(*                                                                         *)
(* A probe is one step that finds its target reachable or not; packets,    *)
(* latencies and the Prometheus metrics are left out.  Targets of a list   *)
(* are probed in any order.                                                *)
(***************************************************************************)
EXTENDS Naturals, Sequences

CONSTANTS
    Addresses,  \* what may be probed
    Pods,       \* those that are the peers' addresses
    Nodes,      \* those that are internal addresses of nodes
    Family,     \* the protocol of each address
    Empty,      \* the empty string, which is nobody's address
    API,        \* the API server, which may fail as a target may
    Configs,    \* the configurations to look at
    Budget      \* bound on what happens to the network, the API server and the process

ASSUME AddressesAssumption ==
    /\ Pods \cup Nodes \subseteq Addresses
    /\ Empty \notin Addresses /\ API \notin Addresses /\ API # Empty
    /\ Family \in [Addresses -> {"IPv4", "IPv6"}]
ASSUME ConfigsAssumption ==
    Configs \subseteq
        [mode : {"server", "job"}, exitCode : Nat,
         restart : BOOLEAN,   \* a DaemonSet restarts the container, a pod does not
         ping : SUBSET Addresses, tcp : SUBSET Addresses,
         udp : SUBSET Addresses, dns : SUBSET Addresses,
         peers : BOOLEAN,     \* the name of the peers' DaemonSet is given
         nodes : BOOLEAN]     \* nodes are checked
ASSUME BudgetAssumption == Budget \in Nat

VARIABLES
    config,      \* the configuration of the container
    up,          \* the addresses that answer
    listed,      \* the peers and nodes the API server lists
    apiUp,       \* the API server answers
    assigned,    \* the protocols of the pod's IPs, none before it has any
    stopped,     \* the process has been told to stop
    pc,          \* where the daemon is
    tries,       \* how often it asked for its pod
    protocols,   \* the protocols it found
    phase,       \* the phase of the check it is at
    left,        \* the targets of the phase still to be probed
    bad,         \* something failed in this check
    errHappens,  \* something failed in a check of this process
    failed,      \* what failed since the process started (history)
    code,        \* the exit code
    budget       \* what may still happen

network == <<up, listed, apiUp, assigned, stopped>>
daemon == <<pc, tries, protocols, phase, left, bad, errHappens, failed, code>>
vars == <<config, network, daemon, budget>>

Phases == <<"ping", "ports", "pods", "nodes", "dns">>
Done == Len(Phases) + 1
MaxTries == 5

(* strings.SplitSeq makes one empty target of an empty list.               *)
Split(S) == IF S = {} THEN {Empty} ELSE S

(* The phases of a check that are switched on.                             *)
EnabledAlways(p) == TRUE

Enabled(p) == CASE p = "ping" -> config.ping # {}
                [] p = "ports" -> config.tcp # {} \/ config.udp # {}
                [] p = "pods" -> config.peers
                [] p = "nodes" -> config.nodes
                [] p = "dns" -> config.dns # {}

(* Addresses of protocols the pod lacks are passed over.                   *)
Reached(S) == {t \in S : t # Empty /\ Family[t] \in protocols}

TargetsOf(p) == CASE p = "ping" -> Reached(Split(config.ping))
                  [] p = "ports" -> Split(config.tcp) \cup Split(config.udp)
                  [] p = "pods" -> Reached(listed \cap Pods)
                  [] p = "nodes" -> Reached(listed \cap Nodes)
                  [] p = "dns" -> Split(config.dns)

AsksAPI(p) == p \in {"pods", "nodes"}

-----------------------------------------------------------------------------
(* The daemon.  EnabledAlways, GetSelfForever, ProbeForgetting,            *)
(* TickWithoutExit and StopWhenQuiet are slips a maintainer could make.    *)

Exit(c) == /\ pc' = "exited"
           /\ code' = c
           /\ UNCHANGED <<protocols, phase, left, bad, errHappens, failed>>

Undisturbed == UNCHANGED <<config, network, budget>>

GetSelfForever(ready) ==
    /\ pc = "start"
    /\ tries' = tries + 1
    /\ IF ~apiUp \/ (assigned = {} /\ ready) THEN Exit(1)
       ELSE IF assigned # {}
       THEN /\ protocols' = assigned
            /\ pc' = "list"
            /\ UNCHANGED <<phase, left, bad, errHappens, failed, code>>
       ELSE UNCHANGED <<pc, protocols, phase, left, bad, errHappens, failed, code>>
    /\ Undisturbed

(* ParseFlags asks for the pod up to five times, three seconds apart.  A   *)
(* ready container of a pod without IPs is given up at once.               *)
GetSelf(ready) ==
    /\ pc = "start"
    /\ tries' = tries + 1
    /\ IF ~apiUp THEN Exit(1)
       ELSE IF assigned # {}
       THEN /\ protocols' = assigned
            /\ pc' = "list"
            /\ UNCHANGED <<phase, left, bad, errHappens, failed, code>>
       ELSE IF ready \/ tries + 1 = MaxTries THEN Exit(1)
       ELSE UNCHANGED <<pc, protocols, phase, left, bad, errHappens, failed, code>>
    /\ Undisturbed

(* A phase begins: its targets are read once.                              *)
BeginPhase ==
    /\ pc = "list"
    /\ phase # Done
    /\ LET p == Phases[phase] IN
       IF ~Enabled(p)
       THEN /\ phase' = phase + 1
            /\ UNCHANGED <<pc, left, bad, failed>>
       ELSE IF AsksAPI(p) /\ ~apiUp
       THEN /\ phase' = phase + 1
            /\ bad' = TRUE
            /\ failed' = failed \cup {API}
            /\ UNCHANGED <<pc, left>>
       ELSE /\ pc' = "probe"
            /\ left' = TargetsOf(p)
            /\ UNCHANGED <<phase, bad, failed>>
    /\ UNCHANGED <<tries, protocols, errHappens, code>>
    /\ Undisturbed

ProbeForgetting(t) ==
    /\ pc = "probe"
    /\ t \in left
    /\ left' = left \ {t}
    /\ bad' = (t \notin up)
    /\ failed' = IF t \in up THEN failed ELSE failed \cup {t}
    /\ UNCHANGED <<pc, tries, protocols, phase, errHappens, code>>
    /\ Undisturbed

Probe(t) ==
    /\ pc = "probe"
    /\ t \in left
    /\ left' = left \ {t}
    /\ IF t \in up
       THEN UNCHANGED <<bad, failed>>
       ELSE /\ bad' = TRUE
            /\ failed' = failed \cup {t}
    /\ UNCHANGED <<pc, tries, protocols, phase, errHappens, code>>
    /\ Undisturbed

EndPhase ==
    /\ pc = "probe"
    /\ left = {}
    /\ pc' = "list"
    /\ phase' = phase + 1
    /\ UNCHANGED <<tries, protocols, left, bad, errHappens, failed, code>>
    /\ Undisturbed

(* The check is over: a job ends with 0 whatever it found, a server waits. *)
EndCheck ==
    /\ pc = "list"
    /\ phase = Done
    /\ errHappens' = (errHappens \/ bad)
    /\ IF config.mode = "server"
       THEN pc' = "select" /\ UNCHANGED code
       ELSE pc' = "exited" /\ code' = 0
    /\ UNCHANGED <<tries, protocols, phase, left, bad, failed>>
    /\ Undisturbed

CheckAgain ==
    /\ pc' = "list"
    /\ phase' = 1
    /\ bad' = FALSE
    /\ UNCHANGED <<tries, protocols, left, errHappens, failed, code>>

TickWithoutExit ==
    /\ pc = "select"
    /\ CheckAgain
    /\ Undisturbed

(* The timer fires: now the process exits with what it has gathered.       *)
Tick ==
    /\ pc = "select"
    /\ IF errHappens /\ config.exitCode # 0
       THEN Exit(config.exitCode) /\ UNCHANGED tries
       ELSE CheckAgain
    /\ Undisturbed

StopWhenQuiet ==
    /\ pc = "select"
    /\ stopped
    /\ ~errHappens
    /\ Exit(0)
    /\ UNCHANGED tries
    /\ Undisturbed

(* The select of StartPinger takes the signal or the tick, as it likes.    *)
Stop ==
    /\ pc = "select"
    /\ stopped
    /\ Exit(0)
    /\ UNCHANGED tries
    /\ Undisturbed

-----------------------------------------------------------------------------
(* The container runtime, the network and the API server.                  *)

Fresh ==
    /\ pc' = "start"
    /\ tries' = 0
    /\ protocols' = {}
    /\ phase' = 1
    /\ left' = {}
    /\ bad' = FALSE
    /\ errHappens' = FALSE
    /\ failed' = {}
    /\ code' = 0

Restart ==
    /\ pc = "exited"
    /\ config.restart
    /\ ~stopped
    /\ Fresh
    /\ Undisturbed

(* The pod's sandbox gets its IPs.                                         *)
Assign(P) ==
    /\ assigned = {}
    /\ assigned' = P
    /\ UNCHANGED <<config, up, listed, apiUp, stopped, daemon, budget>>

Spend == /\ budget > 0
         /\ budget' = budget - 1
         /\ UNCHANGED <<config, assigned>>

Flip(t) ==
    /\ Spend
    /\ up' = IF t \in up THEN up \ {t} ELSE up \cup {t}
    /\ UNCHANGED <<listed, apiUp, stopped, daemon>>

(* A peer or a node joins or leaves.                                       *)
Relist(t) ==
    /\ Spend
    /\ listed' = IF t \in listed THEN listed \ {t} ELSE listed \cup {t}
    /\ UNCHANGED <<up, apiUp, stopped, daemon>>

FlipAPI ==
    /\ Spend
    /\ apiUp' = ~apiUp
    /\ UNCHANGED <<up, listed, stopped, daemon>>

Signal ==
    /\ Spend
    /\ ~stopped
    /\ pc # "exited"
    /\ stopped' = TRUE
    /\ UNCHANGED <<up, listed, apiUp, daemon>>

(* The process dies and is started again.                                  *)
Kill ==
    /\ Spend
    /\ pc # "exited"
    /\ config.restart
    /\ ~stopped
    /\ Fresh
    /\ UNCHANGED network

-----------------------------------------------------------------------------
Init ==
    /\ config \in Configs
    /\ up = Addresses
    /\ listed = Pods \cup Nodes
    /\ apiUp = TRUE
    /\ assigned = {}
    /\ stopped = FALSE
    /\ pc = "start"
    /\ tries = 0
    /\ protocols = {}
    /\ phase = 1
    /\ left = {}
    /\ bad = FALSE
    /\ errHappens = FALSE
    /\ failed = {}
    /\ code = 0
    /\ budget = Budget

StartPinger ==
    \/ \E ready \in BOOLEAN : GetSelf(ready)
    \/ BeginPhase
    \/ \E t \in Addresses \cup {Empty} : Probe(t)
    \/ EndPhase \/ EndCheck \/ Tick \/ Stop

Environment ==
    \/ \E P \in {{"IPv4"}, {"IPv4", "IPv6"}} : Assign(P)
    \/ \E t \in Addresses : Flip(t)
    \/ \E t \in Pods \cup Nodes : Relist(t)
    \/ FlipAPI \/ Signal \/ Kill

Next == StartPinger \/ Restart \/ Environment

(* The process runs, its timer fires, and a container that exited is       *)
(* restarted if it may be.  A select that finds the signal again and again *)
(* takes it in the end: Go chooses at random.                              *)
Fairness ==
    /\ WF_vars(StartPinger)
    /\ WF_vars(Restart)
    /\ SF_vars(Stop)

Spec == Init /\ [][Next]_vars /\ Fairness

-----------------------------------------------------------------------------
(* Properties.                                                             *)

(* Each variable is of its type: in particular the daemon asks for its pod *)
(* five times at most, and works with the protocols the pod has.           *)
TypeOK ==
    /\ config \in Configs
    /\ up \subseteq Addresses
    /\ listed \subseteq Pods \cup Nodes
    /\ apiUp \in BOOLEAN /\ stopped \in BOOLEAN
    /\ assigned \subseteq {"IPv4", "IPv6"}
    /\ protocols \in {{}, assigned}
    /\ pc \in {"start", "list", "probe", "select", "exited"}
    /\ tries \in 0..MaxTries
    /\ phase \in 1..Done
    /\ left \subseteq Addresses \cup {Empty}
    /\ bad \in BOOLEAN /\ errHappens \in BOOLEAN
    /\ failed \subseteq Addresses \cup {Empty, API}
    /\ code \in Nat
    /\ budget \in 0..Budget

(* No failure is masked by a later success: when the server waits for its  *)
(* timer, whatever failed since it started, in any phase of any check, is  *)
(* remembered (check, StartPinger).                                        *)
FailureNotMasked == pc = "select" /\ failed # {} => errHappens

(* What is configured or listed and may be checked.                        *)
Named == config.ping \cup config.tcp \cup config.udp \cup config.dns \cup Pods \cup Nodes

(* No false alarm: what failed is the API server or an address that is     *)
(* configured, or was a peer or a node.  It does not hold: of an empty     *)
(* port list beside one that is not, checkAccessTargetIPPorts makes one    *)
(* empty target.                                                           *)
ErrorsAreReal == failed \subseteq Named \cup {API}

(* The target the ports phase makes up when one of its two lists is empty. *)
MadeUp == IF (config.tcp = {}) <=> (config.udp = {}) THEN {} ELSE {Empty}

Watched == config.mode = "server" /\ config.exitCode # 0 /\ config.restart

Checked(t) ==
    \/ t \in config.tcp \cup config.udp \cup config.dns
    \/ /\ Family[t] \in assigned
       /\ \/ t \in config.ping
          \/ config.peers /\ t \in listed \cap Pods
          \/ config.nodes /\ t \in listed \cap Nodes

(* A target that stays down makes a server that is restarted exit with an  *)
(* error again and again: that is how a user can see it (StartPinger).     *)
FailureSurfaces ==
    \A t \in Addresses :
        <>[](Watched /\ ~stopped /\ t \notin up /\ Checked(t))
            => []<>(pc = "exited" /\ code # 0)

Healthy == up = Addresses /\ apiUp /\ assigned # {} /\ ~stopped

(* Once all is well for good the server ends up with nothing on its mind   *)
(* but the target made up of an empty port list, whatever it has seen      *)
(* before; one that makes up none runs on and is not restarted any more    *)
(* (while a process whose exit code is 0 would keep an error for ever).    *)
Recovers ==
    <>[](Watched /\ Healthy)
        => <>[]/\ failed \subseteq MadeUp
               /\ errHappens => failed # {}
               /\ MadeUp = {} => pc \notin {"start", "exited"}

(* A process that is told to stop ends, in the midst of failures too.      *)
StopEnds == stopped ~> pc = "exited"
=============================================================================

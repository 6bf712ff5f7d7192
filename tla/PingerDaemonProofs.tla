-------------------------- MODULE PingerDaemonProofs --------------------------
(***************************************************************************)
(* Proofs about PingerDaemon: for any addresses and configurations and     *)
(* any number of disturbances, no failure is masked by a later success,    *)
(* and the only one made up is that of the target of an empty port list.   *)
(***************************************************************************)
EXTENDS PingerDaemon, TLAPS

(* A process that asks for its pod may ask again, and one that probes has  *)
(* not had all phases.                                                     *)
PlaceInv ==
    /\ pc = "start" => tries < MaxTries
    /\ pc = "probe" => phase # Done

(* Between the failure and the end of its check the check remembers, and   *)
(* from then on the process.                                               *)
MaskInv ==
    /\ failed # {} => errHappens \/ bad
    /\ pc = "select" => (bad => errHappens)

(* Only what has a name is probed and fails, or is made up.                *)
RealInv == /\ left \subseteq Named \cup MadeUp
           /\ failed \subseteq Named \cup MadeUp \cup {API}

Inv == TypeOK /\ PlaceInv /\ MaskInv /\ RealInv

-----------------------------------------------------------------------------
LEMMA PhasesAreFive ==
    /\ Len(Phases) = 5 /\ Done = 6
    /\ \A n \in 1..5 : Phases[n] \in {"ping", "ports", "pods", "nodes", "dns"}
BY DEF Phases, Done

(* The targets of a phase are addresses or Empty.                          *)
LEMMA TargetsTyped ==
    ASSUME TypeOK, NEW p \in {"ping", "ports", "pods", "nodes", "dns"}
    PROVE  TargetsOf(p) \subseteq Addresses \cup {Empty}
<1>1. config \in [mode : {"server", "job"}, exitCode : Nat, restart : BOOLEAN,
                  ping : SUBSET Addresses, tcp : SUBSET Addresses,
                  udp : SUBSET Addresses, dns : SUBSET Addresses,
                  peers : BOOLEAN, nodes : BOOLEAN]
  BY ConfigsAssumption DEF TypeOK
<1>2. Pods \cup Nodes \subseteq Addresses
  BY AddressesAssumption
<1> QED
  BY <1>1, <1>2 DEF TargetsOf, Reached, Split, TypeOK

(* Those of a phase that is switched on have names, or are the made-up one.*)
LEMMA TargetsReal ==
    ASSUME TypeOK, NEW p \in {"ping", "ports", "pods", "nodes", "dns"}, Enabled(p)
    PROVE  TargetsOf(p) \subseteq Named \cup MadeUp
BY DEF TargetsOf, Enabled, MadeUp, Reached, Split, Named, TypeOK

LEMMA InitInv == Init => Inv
<1> SUFFICES ASSUME Init PROVE Inv
  OBVIOUS
<1>1. phase \in 1..Done /\ tries \in 0..MaxTries /\ budget \in 0..Budget /\ code \in Nat
  BY PhasesAreFive, BudgetAssumption DEF Init, MaxTries
<1>2. TypeOK
  BY <1>1, AddressesAssumption DEF Init, TypeOK
<1> QED
  BY <1>2 DEF Init, Inv, PlaceInv, MaskInv, RealInv, MaxTries

(* The names depend on the configuration only.                             *)
LEMMA RealStays ==
    ASSUME UNCHANGED config
    PROVE  Named' = Named /\ MadeUp' = MadeUp
BY DEF Named, MadeUp

LEMMA GetSelfInv ==
    ASSUME Inv, NEW ready \in BOOLEAN, GetSelf(ready)
    PROVE  Inv'
<1>1. Named' = Named /\ MadeUp' = MadeUp
  BY RealStays DEF GetSelf, Undisturbed
<1>2. TypeOK'
  BY DEF Inv, TypeOK, PlaceInv, GetSelf, Exit, Undisturbed, network, MaxTries
<1>3. PlaceInv'
  BY DEF Inv, TypeOK, PlaceInv, GetSelf, Exit, Undisturbed, network, MaxTries
<1>4. MaskInv' /\ RealInv'
  BY <1>1 DEF Inv, MaskInv, RealInv, GetSelf, Exit
<1> QED
  BY <1>2, <1>3, <1>4 DEF Inv

LEMMA BeginPhaseInv == Inv /\ BeginPhase => Inv'
<1> SUFFICES ASSUME Inv, BeginPhase PROVE Inv'
  OBVIOUS
<1> DEFINE p == Phases[phase]
<1>1. /\ pc = "list" /\ phase # Done /\ phase \in 1..5
      /\ UNCHANGED <<config, network, budget, tries, protocols, errHappens, code>>
      /\ p \in {"ping", "ports", "pods", "nodes", "dns"}
  BY PhasesAreFive DEF BeginPhase, Undisturbed, Inv, TypeOK
<1>2. Named' = Named /\ MadeUp' = MadeUp
  BY <1>1, RealStays
<1> HIDE DEF p
<1>3. \/ /\ phase' = phase + 1
         /\ UNCHANGED <<pc, left, bad, failed>>
      \/ /\ phase' = phase + 1 /\ bad' = TRUE /\ failed' = failed \cup {API}
         /\ UNCHANGED <<pc, left>>
      \/ /\ pc' = "probe" /\ Enabled(p) /\ left' = TargetsOf(p)
         /\ UNCHANGED <<phase, bad, failed>>
  BY DEF BeginPhase, p
<1>4. TypeOK'
  <2>1. TypeOK /\ TargetsOf(p) \subseteq Addresses \cup {Empty}
    BY <1>1, TargetsTyped DEF Inv
  <2>2. phase' \in 1..Done
    BY <1>1, <1>3, <2>1, PhasesAreFive DEF TypeOK
  <2>3. UNCHANGED <<up, listed, apiUp, assigned, stopped>>
    BY <1>1 DEF network
  <2>4. /\ pc' \in {"list", "probe"} /\ bad' \in BOOLEAN
        /\ left' \subseteq Addresses \cup {Empty}
        /\ failed' \subseteq Addresses \cup {Empty, API}
    BY <1>1, <1>3, <2>1 DEF TypeOK
  <2> QED
    BY <1>1, <2>1, <2>2, <2>3, <2>4 DEF TypeOK
<1>5. PlaceInv'
  BY <1>1, <1>3 DEF PlaceInv
<1>6. MaskInv'
  BY <1>1, <1>3 DEF Inv, TypeOK, MaskInv
<1>7. RealInv'
  BY <1>1, <1>2, <1>3, TargetsReal DEF Inv, RealInv
<1> QED
  BY <1>4, <1>5, <1>6, <1>7 DEF Inv

LEMMA ProbeInv ==
    ASSUME Inv, NEW t, Probe(t)
    PROVE  Inv'
<1>1. Named' = Named /\ MadeUp' = MadeUp
  BY RealStays DEF Probe, Undisturbed
<1>2. TypeOK'
  BY DEF Inv, TypeOK, Probe, Undisturbed, network
<1>3. PlaceInv' /\ MaskInv' /\ RealInv'
  BY <1>1 DEF Inv, TypeOK, PlaceInv, MaskInv, RealInv, Probe, Done
<1> QED
  BY <1>2, <1>3 DEF Inv

LEMMA EndPhaseInv == Inv /\ EndPhase => Inv'
<1> SUFFICES ASSUME Inv, EndPhase PROVE Inv'
  OBVIOUS
<1>1. Named' = Named /\ MadeUp' = MadeUp
  BY RealStays DEF EndPhase, Undisturbed
<1>2. TypeOK'
  BY PhasesAreFive DEF Inv, TypeOK, PlaceInv, EndPhase, Undisturbed, network
<1>3. PlaceInv' /\ MaskInv' /\ RealInv'
  BY <1>1 DEF Inv, PlaceInv, MaskInv, RealInv, EndPhase
<1> QED
  BY <1>2, <1>3 DEF Inv

LEMMA EndCheckInv == Inv /\ EndCheck => Inv'
<1> SUFFICES ASSUME Inv, EndCheck PROVE Inv'
  OBVIOUS
<1>1. Named' = Named /\ MadeUp' = MadeUp
  BY RealStays DEF EndCheck, Undisturbed
<1>2. TypeOK'
  BY DEF Inv, TypeOK, EndCheck, Undisturbed, network
<1>3. PlaceInv' /\ MaskInv' /\ RealInv'
  BY <1>1 DEF Inv, PlaceInv, MaskInv, RealInv, EndCheck
<1> QED
  BY <1>2, <1>3 DEF Inv

LEMMA TickInv == Inv /\ Tick => Inv'
<1> SUFFICES ASSUME Inv, Tick PROVE Inv'
  OBVIOUS
<1>1. Named' = Named /\ MadeUp' = MadeUp
  BY RealStays DEF Tick, Undisturbed
<1>2. config.exitCode \in Nat
  BY ConfigsAssumption DEF Inv, TypeOK
<1>3. TypeOK'
  <2>1. UNCHANGED <<config, up, listed, apiUp, assigned, stopped, budget>>
    BY DEF Tick, Undisturbed, network
  <2>2. CASE Exit(config.exitCode) /\ UNCHANGED tries
    BY <1>2, <2>1, <2>2 DEF Inv, TypeOK, Exit
  <2>3. CASE CheckAgain
    <3>1. phase' \in 1..Done
      BY <2>3, PhasesAreFive DEF CheckAgain
    <3> QED
      BY <2>1, <2>3, <3>1 DEF Inv, TypeOK, CheckAgain
  <2> QED
    BY <2>2, <2>3 DEF Tick
<1>4. PlaceInv' /\ MaskInv' /\ RealInv'
  BY <1>1 DEF Inv, PlaceInv, MaskInv, RealInv, Tick, Exit, CheckAgain
<1> QED
  BY <1>3, <1>4 DEF Inv

LEMMA StopInv == Inv /\ Stop => Inv'
<1> SUFFICES ASSUME Inv, Stop PROVE Inv'
  OBVIOUS
<1>1. Named' = Named /\ MadeUp' = MadeUp
  BY RealStays DEF Stop, Undisturbed
<1>2. TypeOK'
  BY DEF Inv, TypeOK, Stop, Exit, Undisturbed, network
<1>3. PlaceInv' /\ MaskInv' /\ RealInv'
  BY <1>1 DEF Inv, PlaceInv, MaskInv, RealInv, Stop, Exit
<1> QED
  BY <1>2, <1>3 DEF Inv

(* A process starts with nothing on its mind.                              *)
LEMMA FreshInv ==
    ASSUME Inv, Fresh, UNCHANGED <<config, network>>, budget' \in 0..Budget
    PROVE  Inv'
<1>1. TypeOK'
  <2>1. phase' \in 1..Done /\ tries' \in 0..MaxTries /\ code' \in Nat
    BY PhasesAreFive DEF Fresh, MaxTries
  <2>2. UNCHANGED <<config, up, listed, apiUp, assigned, stopped>>
    BY DEF network
  <2> QED
    BY <2>1, <2>2 DEF Inv, TypeOK, Fresh
<1>2. PlaceInv' /\ MaskInv' /\ RealInv'
  BY DEF PlaceInv, MaskInv, RealInv, Fresh, MaxTries
<1> QED
  BY <1>1, <1>2 DEF Inv

(* What happens around the daemon leaves it alone.                         *)
LEMMA AroundInv ==
    ASSUME Inv, UNCHANGED <<config, daemon>>, TypeOK'
    PROVE  Inv'
<1>1. Named' = Named /\ MadeUp' = MadeUp
  BY RealStays
<1> QED
  BY <1>1 DEF Inv, PlaceInv, MaskInv, RealInv, daemon, Done

LEMMA EnvironmentInv == Inv /\ Environment => Inv'
<1> SUFFICES ASSUME Inv, Environment PROVE Inv'
  OBVIOUS
<1>1. ASSUME NEW P \in {{"IPv4"}, {"IPv4", "IPv6"}}, Assign(P)
      PROVE  Inv'
  BY <1>1, AroundInv DEF Inv, TypeOK, Assign, daemon
<1>2. ASSUME Spend PROVE budget' \in 0..Budget
  BY <1>2, BudgetAssumption DEF Spend, Inv, TypeOK
<1>3. ASSUME NEW t \in Addresses, Flip(t)
      PROVE  Inv'
  BY <1>2, <1>3, AroundInv DEF Inv, TypeOK, Flip, Spend, daemon
<1>4. ASSUME NEW t \in Pods \cup Nodes, Relist(t)
      PROVE  Inv'
  BY <1>2, <1>4, AroundInv DEF Inv, TypeOK, Relist, Spend, daemon
<1>5. CASE FlipAPI
  BY <1>2, <1>5, AroundInv DEF Inv, TypeOK, FlipAPI, Spend, daemon
<1>6. CASE Signal
  BY <1>2, <1>6, AroundInv DEF Inv, TypeOK, Signal, Spend, daemon
<1>7. CASE Kill
  BY <1>2, <1>7, FreshInv DEF Kill, Spend
<1> QED
  BY <1>1, <1>3, <1>4, <1>5, <1>6, <1>7 DEF Environment

LEMMA NextInv == Inv /\ [Next]_vars => Inv'
<1> SUFFICES ASSUME Inv, [Next]_vars PROVE Inv'
  OBVIOUS
<1>1. CASE Restart
  BY <1>1, FreshInv DEF Restart, Undisturbed, Inv, TypeOK
<1>2. CASE UNCHANGED vars
  <2>1. TypeOK'
    BY <1>2 DEF vars, network, daemon, Inv, TypeOK
  <2> QED
    BY <1>2, <2>1, AroundInv DEF vars
<1>3. CASE StartPinger
  BY <1>3, GetSelfInv, BeginPhaseInv, ProbeInv, EndPhaseInv, EndCheckInv, TickInv, StopInv
  DEF StartPinger
<1> QED
  BY <1>1, <1>2, <1>3, EnvironmentInv DEF Next

LEMMA InductiveInv == Spec => []Inv
<1>1. Init => Inv
  BY InitInv
<1>2. Inv /\ [Next]_vars => Inv'
  BY NextInv
<1> QED
  BY <1>1, <1>2, PTL DEF Spec

-----------------------------------------------------------------------------
(* The theorems.                                                           *)

(* Every variable keeps its type: ParseFlags asks five times at most.      *)
THEOREM TypeCorrect == Spec => []TypeOK
<1>1. Inv => TypeOK
  BY DEF Inv
<1> QED
  BY <1>1, InductiveInv, PTL

(* Whatever is checked and however the network, the API server and the     *)
(* process behave, a server that waits for its timer remembers every       *)
(* failure since it started (check, StartPinger).                          *)
THEOREM FailureNotMaskedHolds == Spec => []FailureNotMasked
<1>1. Inv => FailureNotMasked
  BY DEF Inv, MaskInv, FailureNotMasked
<1> QED
  BY <1>1, InductiveInv, PTL

(* Whatever the configuration, the network, the API server and restarts:   *)
(* no error is made up but that of the empty target, and that one only if  *)
(* exactly one of the port lists is empty (checkAccessTargetIPPorts).      *)
THEOREM OnlyEmptyTargetIsMadeUp ==
    Spec => [](/\ failed \subseteq Named \cup {API, Empty}
               /\ ((config.tcp = {}) <=> (config.udp = {})) => ErrorsAreReal)
<1>1. Inv => /\ failed \subseteq Named \cup {API, Empty}
             /\ ((config.tcp = {}) <=> (config.udp = {})) => ErrorsAreReal
  BY DEF Inv, RealInv, MadeUp, ErrorsAreReal
<1> QED
  BY <1>1, InductiveInv, PTL
=============================================================================

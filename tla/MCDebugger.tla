----------------------------- MODULE MCDebugger -----------------------------
(* Instances of Debugger for TLC: the specs the users of a run choose from. *)
EXTENDS Debugger

DaemonsetSpec == [kind |-> "daemonset", res |-> "v1", aux |-> "v1",
                  configMap |-> TRUE, pinger |-> TRUE, enablePinger |-> TRUE]

(* A DaemonSet and an edit of it, one whose pinger is switched off, one     *)
(* without a ConfigMap, a pod, and an invalid spec.                         *)
AnySpecs == {DaemonsetSpec,
             [DaemonsetSpec EXCEPT !.res = "v2", !.enablePinger = FALSE],
             [DaemonsetSpec EXCEPT !.configMap = FALSE],
             [DaemonsetSpec EXCEPT !.kind = "pod", !.pinger = FALSE,
                                   !.enablePinger = FALSE],
             [DaemonsetSpec EXCEPT !.pinger = FALSE]}

OneSpec == {DaemonsetSpec}

PodSpecs == {[DaemonsetSpec EXCEPT !.kind = "pod", !.enablePinger = on] :
                on \in BOOLEAN}
=============================================================================

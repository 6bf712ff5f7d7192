--------------------------- MODULE MCPingerDaemon ---------------------------
(***************************************************************************)
(* The configurations the pinger is checked with: one that checks all      *)
(* there is from a DaemonSet, one that only pings, one with TCP targets    *)
(* only, one that goes on after a failure, one in a pod and a job.         *)
(***************************************************************************)
EXTENDS PingerDaemon, TLC

CONSTANTS e4, e6, tcp, udp, dns, pod, node

MCFamily == [t \in Addresses |-> IF t = e6 THEN "IPv6" ELSE "IPv4"]

All == [mode |-> "server", exitCode |-> 1, restart |-> TRUE,
        ping |-> {e4, e6}, tcp |-> {tcp}, udp |-> {udp}, dns |-> {dns},
        peers |-> TRUE, nodes |-> TRUE]
Few == [All EXCEPT !.tcp = {}, !.udp = {}, !.dns = {}]

MCConfigs == {All, Few,
              [Few EXCEPT !.tcp = {tcp}],
              [Few EXCEPT !.exitCode = 0, !.nodes = FALSE],
              [Few EXCEPT !.restart = FALSE, !.peers = FALSE],
              [Few EXCEPT !.mode = "job", !.ping = {}]}
=============================================================================

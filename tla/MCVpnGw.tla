------------------------------ MODULE MCVpnGw ------------------------------
(* Instances of VpnGw for TLC: the specs the users of a run choose from.    *)
EXTENDS VpnGw

Ssl == [kind |-> "statefulset", keepalived |-> TRUE, res |-> "v1",
        ssl |-> TRUE, sslCfg |-> "v1", ipsec |-> FALSE, ipsecImage |-> Unset,
        aux |-> "v1", conns |-> {}]
IPsec == [Ssl EXCEPT !.ssl = FALSE, !.ipsec = TRUE, !.ipsecImage = "v1"]

(* Both kinds, with and without a KeepAlived, a server switched on, and    *)
(* gateways that are invalid or whose handler panics.  Two of them that    *)
(* can be deployed differ in a field the controller follows.               *)
AnySpecs == {Ssl, [Ssl EXCEPT !.res = "v2", !.sslCfg = "v2"],
             [Ssl EXCEPT !.ipsec = TRUE, !.ipsecImage = "v1"],
             [Ssl EXCEPT !.kind = "static", !.keepalived = FALSE, !.res = "v3"],
             [Ssl EXCEPT !.ssl = FALSE],
             [Ssl EXCEPT !.keepalived = FALSE]}

(* Two specs that differ in one field only; but for the first they are for *)
(* trying out what the README says of edits of these fields.                *)
ResSpecs == {Ssl, [Ssl EXCEPT !.res = "v2"]}
SslCfgSpecs == {Ssl, [Ssl EXCEPT !.sslCfg = "v2"]}
AuxSpecs == {Ssl, [Ssl EXCEPT !.aux = "v2"]}
KindSpecs == {Ssl, [Ssl EXCEPT !.kind = "static"]}

IPsecSpecs == {IPsec}

(* Two connections to begin with; users have the rest of the budget.        *)
ConnsInit == Init /\ conns = [c \in Conns |-> "good"]
ConnsSpec == ConnsInit /\ [][Next]_vars /\ Fairness
============================================================================

---- MODULE MCGatewayAuth ----
(* GatewayAuth for TLC: how gateways are configured in the run. *)
EXTENDS GatewayAuth, TLC

CONSTANTS right, wrong

MCWords == {right, wrong}

Configured(source) ==
    [source |-> source, password |-> right, tls |-> 0, landing |-> "unset"]

\* One setup per source of the key, one with a landing page and its own
\* password, and three that loadConfig refuses.
MCSetups ==
    {Configured("explicit"), Configured("file"), Configured("random"),
     [Configured("file") EXCEPT !.password = wrong, !.landing = "there"],
     [Configured("file") EXCEPT !.tls = 1],
     [Configured("file") EXCEPT !.landing = "missing"],
     [Configured("random") EXCEPT !.password = None]}

Symmetry == Permutations(Gateways)
====

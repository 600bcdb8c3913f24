---------------------------- MODULE MCRouteTable ----------------------------
(* Instances of RouteTable for TLC. *)
EXTENDS RouteTable

CONSTANTS q1, q2

MCLabels == {"www", "site", "org", "clash", "127.0.0.1", "10.0.0.5",
             "home"}
Site == <<"www", "site", "org">>
Self == <<"127.0.0.1">>
Lan == <<"10.0.0.5">>
Home == <<"home">>
Clash == <<"clash">>

\* The machine has an address on the network, which a list of local addresses
\* may be too old to hold, and a name, whose lookup may fail.
MCIPs == {Self, Lan}
MCLoopback == {Self}
MCOwn == {Self, Lan, Home}
MCLists == {{Self}, {Self, Lan}}
MCAnswers == Site :> {{}} @@ Self :> {{Self}} @@ Home :> {{}, {Lan}} @@ Clash :> {{}}

MCAddrs == {[host |-> Site, port |-> 443], [host |-> Self, port |-> 8443],
            [host |-> Home, port |-> 8443]}
MCNodeAddr == "clash" :> [host |-> Clash, port |-> 7892] @@ "broken" :> [host |-> Clash, port |-> 1]

Rule(type, values, name, enable) ==
  [type |-> type, values |-> values, target |-> name, enable |-> enable]

Suffix == Rule("DomainSuffix", {<<"site", "org">>}, "clash", TRUE)
DirectIP == Rule("IP", {Self}, "Direct", TRUE)
Keyword(name) == Rule("DomainKeyword", {<<"site">>}, name, TRUE)

Default == [on |-> FALSE, port |-> 8080, httpsPort |-> 8443, ips |-> {}, nodes |-> {},
            routes |-> <<>>]

\* Through the parent; the same rule with the parent left out of the list, so
\* that it is skipped and the next one, on an address, is installed; rules that
\* are off, empty, of an unknown type or aimed at a broken node before one that
\* counts; routing off with rules prepared.
Through == [Default EXCEPT !.on = TRUE, !.ips = {Lan}, !.nodes = {"clash"},
              !.routes = <<Suffix>>]
NodeGone == [Default EXCEPT !.on = TRUE, !.routes = <<Suffix, DirectIP>>]
Mixed == [Default EXCEPT !.on = TRUE, !.nodes = {"clash", "broken"},
            !.routes = << [Suffix EXCEPT !.enable = FALSE], [Suffix EXCEPT !.values = {}],
                          [Suffix EXCEPT !.type = Unknown], Keyword("broken"), Keyword(Unknown),
                          Keyword("Direct"), Suffix >>]
Off == [Through EXCEPT !.on = FALSE]
OtherPort == [Default EXCEPT !.httpsPort = 9443]

MCContents == {Default, Through, NodeGone, Mixed, Off}
PortContents == {Default, OtherPort}
=============================================================================

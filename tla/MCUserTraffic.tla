---------------------------- MODULE MCUserTraffic ----------------------------
(* Instances of UserTraffic for TLC. *)
EXTENDS UserTraffic

CONSTANTS t, r, a, x

\* A relayed tunnel and a request of one user to one host.
MCKindOf == [s \in Sessions |-> IF s = r THEN "request" ELSE "tunnel"]
MCIPOf == [s \in Sessions |-> a]
MCHostOf == [s \in Sessions |-> x]
=============================================================================

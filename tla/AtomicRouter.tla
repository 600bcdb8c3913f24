---------------------------- MODULE AtomicRouter ----------------------------
(***************************************************************************)
(* What the router promises: there is one table, which says where each     *)
(* address goes; a reload replaces it in one step, and a request is        *)
(* decided in one step, by the table of that moment or, with routing       *)
(* switched off, in favour of the direct dialer.                           *)
(***************************************************************************)
CONSTANTS
  Reqs,     \* requests
  Addrs,    \* what they ask for
  Targets   \* the names of the dialers

VARIABLES
  table,    \* where each address goes
  wanted,   \* the address of a request
  decision  \* "none", or where it goes

vars == <<table, wanted, decision>>

Init ==
  /\ table = [a \in Addrs |-> "Direct"]
  /\ wanted \in [Reqs -> Addrs]
  /\ decision = [r \in Reqs |-> "none"]

Reload ==
  /\ table' \in [Addrs -> Targets]
  /\ UNCHANGED <<wanted, decision>>

Decide(r) ==
  /\ decision[r] = "none"
  /\ decision' = [decision EXCEPT ![r] = table[wanted[r]]]
  /\ UNCHANGED <<table, wanted>>

DecideDirect(r) ==
  /\ decision[r] = "none"
  /\ decision' = [decision EXCEPT ![r] = "Direct"]
  /\ UNCHANGED <<table, wanted>>

\* The request is over, and the next one asks for another address.
Ask(r) ==
  /\ decision[r] # "none"
  /\ decision' = [decision EXCEPT ![r] = "none"]
  /\ \E a \in Addrs : wanted' = [wanted EXCEPT ![r] = a]
  /\ UNCHANGED table

\* The process was killed: the requests are gone and the table is empty.
Restart ==
  /\ table' = [a \in Addrs |-> "Direct"]
  /\ decision' = [r \in Reqs |-> "none"]
  /\ UNCHANGED wanted

Next ==
  \/ Reload \/ Restart
  \/ \E r \in Reqs : Decide(r) \/ DecideDirect(r) \/ Ask(r)

Spec == Init /\ [][Next]_vars
=============================================================================

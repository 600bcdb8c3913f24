----------------------------- MODULE UserTraffic -----------------------------
(***************************************************************************)
(* The traffic of every user (source address) and host: counters that are  *)
(* created on demand when a session starts, shown by the panel, and        *)
(* deleted by its command cleanOfflineUsers for the users that have no     *)
(* record in the connection table.                                         *)
(*                                                                         *)
(* A relayed tunnel looks its counter up once; a request does so before it *)
(* is sent and again when the answer is there.  Objects are numbered in    *)
(* the order they are made.                                                *)
(***************************************************************************)
EXTENDS Naturals, Sequences

CONSTANTS
  Sessions,   \* sessions of the proxy
  IPs,        \* source addresses
  Hosts,      \* target hosts
  KindOf,     \* "tunnel" or "request"
  IPOf,       \* the source address of a session
  HostOf,     \* its target host
  MaxCleans   \* bound: commands of one behaviour

ASSUME SessionsAssumption ==
  /\ KindOf \in [Sessions -> {"tunnel", "request"}]
  /\ IPOf \in [Sessions -> IPs]
  /\ HostOf \in [Sessions -> Hosts]
ASSUME MaxCleansAssumption == MaxCleans \in Nat

VARIABLES
  Users,     \* GlobalUserTraffic.Users: the UserStats of an address, 0 for none
  hosts,     \* Hosts of every UserStats ever made: host -> UserHostStats, 0 for none
  stats,     \* every UserHostStats ever made
  phase,     \* where a session is
  pass,      \* its first or its second lookup
  us,        \* the UserStats the lookup has found
  up,        \* the counter that its uploads go to, 0 before the lookup
  down,      \* the counter that its downloads go to
  counted,   \* the directions in which it has transferred something
  table,     \* the sessions with a record in the connection table
  late,      \* ghost: registered while the command was collecting addresses
  clean      \* the command cleanOfflineUsers

mapVars == <<Users, hosts, stats>>
lookVars == <<pass, us, up, down>>
vars == <<mapVars, lookVars, phase, counted, table, late, clean>>

Phases == {"new", "look user", "make user", "look host", "make host", "asked",
           "serve", "ended"}

UserHostStats == [up : Nat, down : Nat]

TypeOK ==
  /\ Users \in [IPs -> 0 .. Len(hosts)]
  /\ hosts \in Seq([Hosts -> 0 .. Len(stats)])
  /\ stats \in Seq(UserHostStats)
  /\ phase \in [Sessions -> Phases]
  /\ pass \in [Sessions -> {1, 2}]
  /\ us \in [Sessions -> 0 .. Len(hosts)]
  /\ up \in [Sessions -> 0 .. Len(stats)] /\ down \in [Sessions -> 0 .. Len(stats)]
  /\ counted \in [Sessions -> SUBSET {"up", "down"}]
  /\ table \subseteq Sessions /\ late \subseteq Sessions
  /\ clean \in [step : {"idle", "range"}, keys : SUBSET Sessions,
                protected : SUBSET IPs, runs : 0 .. MaxCleans]

Init ==
  /\ Users = [i \in IPs |-> 0]
  /\ hosts = <<>>
  /\ stats = <<>>
  /\ phase = [s \in Sessions |-> "new"]
  /\ pass = [s \in Sessions |-> 1]
  /\ us = [s \in Sessions |-> 0]
  /\ up = [s \in Sessions |-> 0]
  /\ down = [s \in Sessions |-> 0]
  /\ counted = [s \in Sessions |-> {}]
  /\ table = {} /\ late = {}
  /\ clean = [step |-> "idle", keys |-> {}, protected |-> {}, runs |-> 0]

Goto(s, from, to) == phase[s] = from /\ phase' = [phase EXCEPT ![s] = to]

-----------------------------------------------------------------------------
(* The session before and after its lookups. *)

\* The record is stored first; a Range under way may or may not see it.
Register(s) ==
  /\ Goto(s, "new", "look user")
  /\ table' = table \cup {s}
  /\ clean' \in {clean} \cup (IF clean.step = "range"
                              THEN {[clean EXCEPT !.keys = @ \cup {s}]} ELSE {})
  /\ late' = IF clean.step = "range" THEN late \cup {s} ELSE late
  /\ UNCHANGED <<mapVars, lookVars, counted>>

\* RoundTrip has an answer: the response hook looks the counter up once more.
RoundTrip(s) ==
  /\ Goto(s, "asked", "look user")
  /\ pass' = [pass EXCEPT ![s] = 2]
  /\ UNCHANGED <<mapVars, us, up, down, counted, table, late, clean>>

\* Whatever ends the session; the record stays as a tombstone.
End(s) ==
  /\ Goto(s, "asked", "ended") \/ Goto(s, "serve", "ended")
  /\ UNCHANGED <<mapVars, lookVars, counted, table, late, clean>>

\* The pusher collects the tombstone, or the panel closes the connection and
\* deletes its record while the handler is still under way.
Remove(s) ==
  /\ s \in table /\ table' = table \ {s}
  /\ UNCHANGED <<mapVars, lookVars, phase, counted, late, clean>>

\* The transport reads the request body while the handler goes on.
CountUp(s) ==
  /\ up[s] # 0 /\ phase[s] # "ended" /\ "up" \notin counted[s]
  /\ counted' = [counted EXCEPT ![s] = @ \cup {"up"}]
  /\ stats' = [stats EXCEPT ![up[s]].up = @ + 1]
  /\ UNCHANGED <<Users, hosts, lookVars, phase, table, late, clean>>

CountDown(s) ==
  /\ down[s] # 0 /\ phase[s] # "ended" /\ "down" \notin counted[s]
  /\ counted' = [counted EXCEPT ![s] = @ \cup {"down"}]
  /\ stats' = [stats EXCEPT ![down[s]].down = @ + 1]
  /\ UNCHANGED <<Users, hosts, lookVars, phase, table, late, clean>>

-----------------------------------------------------------------------------
(* GetOrCreateStats: four critical sections. *)

\* The address, under the reader's lock...
LookUser(s) ==
  /\ Goto(s, "look user", IF Users[IPOf[s]] = 0 THEN "make user" ELSE "look host")
  /\ us' = [us EXCEPT ![s] = Users[IPOf[s]]]
  /\ UNCHANGED <<mapVars, pass, up, down, counted, table, late, clean>>

\* Mutant: no second look under the writer's lock.
MakeUserUnchecked(s) ==
  /\ Goto(s, "make user", "look host")
  /\ hosts' = Append(hosts, [h \in Hosts |-> 0])
  /\ Users' = [Users EXCEPT ![IPOf[s]] = Len(hosts')]
  /\ us' = [us EXCEPT ![s] = Users'[IPOf[s]]]
  /\ UNCHANGED <<stats, pass, up, down, counted, table, late, clean>>

\* ...and again under the writer's, where it is created if it is still missing.
MakeUser(s) ==
  /\ Goto(s, "make user", "look host")
  /\ IF Users[IPOf[s]] = 0
     THEN /\ hosts' = Append(hosts, [h \in Hosts |-> 0])
          /\ Users' = [Users EXCEPT ![IPOf[s]] = Len(hosts')]
     ELSE UNCHANGED <<hosts, Users>>
  /\ us' = [us EXCEPT ![s] = Users'[IPOf[s]]]
  /\ UNCHANGED <<stats, pass, up, down, counted, table, late, clean>>

\* A tunnel has one counter for both directions; a request takes its first for
\* what it uploads and its second for what it downloads.
Take(s, i) ==
  /\ up' = IF pass[s] = 1 THEN [up EXCEPT ![s] = i] ELSE up
  /\ down' = IF KindOf[s] = "tunnel" \/ pass[s] = 2 THEN [down EXCEPT ![s] = i] ELSE down

AfterLookup(s) == IF KindOf[s] = "request" /\ pass[s] = 1 THEN "asked" ELSE "serve"

\* The host, in the UserStats that was found, which may be out of the map by now.
LookHost(s) ==
  /\ phase[s] = "look host"
  /\ LET i == hosts[us[s]][HostOf[s]] IN
       IF i = 0 THEN Goto(s, "look host", "make host") /\ UNCHANGED <<up, down>>
       ELSE Goto(s, "look host", AfterLookup(s)) /\ Take(s, i)
  /\ UNCHANGED <<mapVars, pass, us, counted, table, late, clean>>

\* Mutant: the new counter is handed out without being stored.
MakeHostUnstored(s) ==
  /\ Goto(s, "make host", AfterLookup(s))
  /\ UNCHANGED <<stats, hosts>>
  /\ Take(s, Len(stats) + 1)
  /\ UNCHANGED <<Users, pass, us, counted, table, late, clean>>

\* The host under the writer's lock of that UserStats.
MakeHost(s) ==
  /\ Goto(s, "make host", AfterLookup(s))
  /\ IF hosts[us[s]][HostOf[s]] = 0
     THEN /\ stats' = Append(stats, [up |-> 0, down |-> 0])
          /\ hosts' = [hosts EXCEPT ![us[s]][HostOf[s]] = Len(stats')]
     ELSE UNCHANGED <<stats, hosts>>
  /\ Take(s, hosts'[us[s]][HostOf[s]])
  /\ UNCHANGED <<Users, pass, us, counted, table, late, clean>>

-----------------------------------------------------------------------------
(* cleanOfflineUsers. *)

\* A Range over the connection table...
CleanOfflineUsers ==
  /\ clean.step = "idle" /\ clean.runs < MaxCleans
  /\ clean' = [step |-> "range", keys |-> table, protected |-> {}, runs |-> clean.runs + 1]
  /\ UNCHANGED <<mapVars, lookVars, phase, counted, table, late>>

\* Mutant: only the connections that are still active protect their address.
ProtectActive(s) ==
  /\ s \in clean.keys
  /\ clean' = [clean EXCEPT !.keys = @ \ {s},
                 !.protected = IF s \in table /\ phase[s] # "ended"
                               THEN @ \cup {IPOf[s]} ELSE @]
  /\ UNCHANGED <<mapVars, lookVars, phase, counted, table, late>>

\* ...protects the address of every record, tombstones included...
Protect(s) ==
  /\ s \in clean.keys
  /\ clean' = [clean EXCEPT !.keys = @ \ {s},
                 !.protected = IF s \in table THEN @ \cup {IPOf[s]} ELSE @]
  /\ UNCHANGED <<mapVars, lookVars, phase, counted, table, late>>

\* ...and then, under the writer's lock, every other address is deleted.
Delete ==
  /\ clean.step = "range" /\ clean.keys = {}
  /\ Users' = [i \in IPs |-> IF i \in clean.protected THEN Users[i] ELSE 0]
  /\ clean' = [clean EXCEPT !.step = "idle", !.protected = {}]
  /\ UNCHANGED <<hosts, stats, lookVars, phase, counted, table, late>>

-----------------------------------------------------------------------------
GetOrCreateStats(s) == LookUser(s) \/ MakeUser(s) \/ LookHost(s) \/ MakeHost(s)

Session(s) ==
  \/ Register(s) \/ GetOrCreateStats(s) \/ RoundTrip(s) \/ End(s)
  \/ CountUp(s) \/ CountDown(s)

Next ==
  \/ \E s \in Sessions : Session(s) \/ Remove(s) \/ Protect(s)
  \/ CleanOfflineUsers \/ Delete

Spec == Init /\ [][Next]_vars

-----------------------------------------------------------------------------
(* Properties. *)

\* What a Snapshot shows of an address and a host: the number of its counter.
Shown(i, h) == IF Users[i] = 0 THEN 0 ELSE hosts[Users[i]][h]

\* What a listed session transfers goes to the counter that the panel shows,
\* unless the session was registered while a command was under way
\* (user_monitor.go:34-61 leaves each lock before it takes the next;
\* proxy.go:208 protects live connections and tombstones).
ListedTrafficIsShown ==
  \A s \in table \ late : \A i \in {up[s], down[s]} \ {0} : i = Shown(IPOf[s], HostOf[s])

\* The figures of an address never shrink while nobody cleans it away: two
\* sessions that create its counters at once end up with the same ones.
Figures(i, h) == IF Shown(i, h) = 0 THEN [up |-> 0, down |-> 0] ELSE stats[Shown(i, h)]

FiguresNeverShrink ==
  [][\A i \in IPs, h \in Hosts :
       Users'[i] = 0 \/ (/\ Figures(i, h)'.up >= Figures(i, h).up
                         /\ Figures(i, h)'.down >= Figures(i, h).down)]_vars
=============================================================================

----------------------------- MODULE AccessGate -----------------------------
(***************************************************************************)
(* The access gate: the request handlers that register a connection and    *)
(* ask the access controller about it, interleaved with POST /api/config,  *)
(* which replaces the configuration, reloads the controller and closes the *)
(* connections of newly blocked clients, and with the closing of a         *)
(* connection from the control panel.                                      *)
(*                                                                         *)
(* One element of Conns is one session: a request (HTTP, or WS when the    *)
(* server answers 101), on its own in MyHttpHandle or read from a          *)
(* connection that is kept; a CONNECT of MyHttpsHandle (TUNNEL when the    *)
(* bytes are relayed, MITM when they are decrypted); or the kept           *)
(* connection of myHttpHandleWithEngine (MUX), which asks nobody itself.   *)
(* The requests of a MITM or MUX session are sessions with a parent.       *)
(* Each goes through its handler once.  One element of Posters is one      *)
(* goroutine serving configuration POSTs, one after the other.             *)
(***************************************************************************)
EXTENDS Naturals, FiniteSets

CONSTANTS
  Conns,        \* sessions
  Posters,      \* goroutines that serve POST /api/config
  Clients,      \* source addresses
  Hosts,        \* target hosts
  Configs,      \* the configurations that can be posted
  Profiles,     \* what the sessions of one behaviour may turn out to be
  NoParent,     \* the parent of a session that is in no other one
  SaveCanFail   \* whether writing config.json may fail

Kinds == {"HTTP", "WS", "TUNNEL", "MITM", "MUX"}

Profile == [kind : Kinds, client : Clients, host : Hosts, parent : Conns \cup {NoParent}]

\* A session inside another one is a request of the same client's tunnel.
IsRequestOf(child, parent) ==
  /\ child.kind \in {"HTTP", "WS"} /\ parent.kind \in {"MITM", "MUX"}
  /\ child.client = parent.client

\* What the controller builds from a configuration: the blocked source
\* addresses and the hosts that some enabled rule matches.
Rules == [clients : SUBSET Clients, hosts : SUBSET Hosts]

ASSUME ConfigsAssumption == Configs \subseteq [enable : BOOLEAN, rules : Rules]
ASSUME ProfilesAssumption ==
  /\ NoParent \notin Conns
  /\ Profiles \subseteq [Conns -> Profile]
  /\ \A f \in Profiles, c \in Conns :
       f[c].parent # NoParent => IsRequestOf(f[c], f[f[c].parent])
ASSUME SaveAssumption == SaveCanFail \in BOOLEAN
ASSUME FiniteAssumption == IsFiniteSet(Conns)

VARIABLES
  profile,    \* what each session is
  cfg,        \* ConfigManager.Current
  saved,      \* config.json holds it: the POST that brought it could save it
  rules,      \* AccessController.matchers and blockedClients
  intercepts, \* InterceptCount
  phase,      \* where the handler of a session is
  table,      \* CoreHttpServer.Connections: the status of a session's record
  cut,        \* the record's OnClose ended the session's traffic
  post,       \* where a POST is
  built,      \* what ReloadFromConfig has built, outside the lock
  pending,    \* keys the Range of CloseBlockedConnections has yet to visit
  victim,     \* the session whose record a POST is closing, as a set
  panel       \* the sessions whose records the control panel is closing

connVars == <<phase, table, cut>>
postVars == <<post, built, pending, victim>>
vars == <<profile, cfg, saved, rules, intercepts, connVars, postVars, panel>>

NoRules == [clients |-> {}, hosts |-> {}]

Phases == {"new", "check", "match", "pass", "accepted", "recheck", "rematch",
           "serve", "refused", "denied", "done"}
PostPhases == {"idle", "reload", "swap", "scan", "visit", "close", "delete"}

TypeOK ==
  /\ profile \in Profiles
  /\ cfg \in [enable : BOOLEAN, rules : Rules]
  /\ saved \in BOOLEAN
  /\ rules \in Rules
  /\ intercepts \in Nat
  /\ phase \in [Conns -> Phases]
  /\ table \in [Conns -> {"none", "Active", "Closed"}]
  /\ cut \in [Conns -> BOOLEAN]
  /\ post \in [Posters -> PostPhases]
  /\ built \in [Posters -> Rules]
  /\ pending \in [Posters -> SUBSET Conns]
  /\ victim \in [Posters -> SUBSET Conns]
  /\ panel \in SUBSET Conns

Init ==
  /\ profile \in Profiles
  /\ cfg \in Configs
  /\ saved = TRUE
  /\ rules = cfg.rules
  /\ intercepts = 0
  /\ phase = [c \in Conns |-> "new"]
  /\ table = [c \in Conns |-> "none"]
  /\ cut = [c \in Conns |-> FALSE]
  /\ post = [p \in Posters |-> "idle"]
  /\ built = [p \in Posters |-> NoRules]
  /\ pending = [p \in Posters |-> {}]
  /\ victim = [p \in Posters |-> {}]
  /\ panel = {}

-----------------------------------------------------------------------------
(* The handlers. *)

Kind(c) == profile[c].kind
Client(c) == profile[c].client
Host(c) == profile[c].host
Parent(c) == profile[c].parent

\* The requests inside a session.
Inside(c) == {d \in Conns : Parent(d) = c}
Idle(c) == \A d \in Inside(c) : phase[d] \in {"new", "denied", "done"}

\* The session that holds the client's socket.
Lead(c) == IF Parent(c) = NoParent THEN c ELSE Parent(c)

Goto(c, from, to) == phase[c] = from /\ phase' = [phase EXCEPT ![c] = to]

Matches(r, c) == Client(c) \in r.clients \/ Host(c) \in r.hosts

\* Mutant: the status is spelled differently where it is written.
MarkConnectionClosedLowercase(c) ==
  table' = [table EXCEPT ![c] = IF @ = "none" THEN "none" ELSE "closed"]

\* MarkConnectionClosed: Load, then mark the record that is there.
MarkConnectionClosed(c) ==
  table' = [table EXCEPT ![c] = IF @ = "none" THEN "none" ELSE "Closed"]

\* An Active record is stored; a Range that is under way may or may not come
\* across the new key.
Store(c) ==
  /\ table' = [table EXCEPT ![c] = "Active"]
  /\ \E S \in SUBSET {p \in Posters : post[p] \in {"visit", "close", "delete"}} :
       pending' = [p \in Posters |-> IF p \in S THEN pending[p] \cup {c} ELSE pending[p]]

\* The handler stores the record before it asks any hook.  The loop of a kept
\* connection reads its requests one after the other; what the reader has in
\* its buffer is served even when the client's socket has been closed.
Register(c) ==
  /\ Kind(c) # "MUX"
  /\ Parent(c) # NoParent => phase[Parent(c)] = "serve" /\ Idle(Parent(c))
  /\ Goto(c, "new", "check")
  /\ Store(c)
  /\ UNCHANGED <<profile, cfg, saved, rules, intercepts, cut, post, built, victim, panel>>

\* With HttpMitmNoTunnel the handler takes over the client's connection and
\* stores a record for it; its requests are asked about, it is not.
OpenEngine(c) ==
  /\ Kind(c) = "MUX"
  /\ Goto(c, "new", "serve")
  /\ Store(c)
  /\ UNCHANGED <<profile, cfg, saved, rules, intercepts, cut, post, built, victim, panel>>

\* The hook reads the switch from the configuration manager...
ReadAccessEnable(c) ==
  /\ \/ Goto(c, "check", IF cfg.enable THEN "match" ELSE "pass")
     \/ Goto(c, "recheck", IF cfg.enable THEN "rematch" ELSE "serve")
  /\ UNCHANGED <<profile, cfg, saved, rules, intercepts, table, cut, postVars, panel>>

\* ...and later, under its own lock, the rules of the controller.
MatchRules(c) ==
  /\ Goto(c, "match", IF Matches(rules, c) THEN "refused" ELSE "pass")
  /\ intercepts' = IF Matches(rules, c) THEN intercepts + 1 ELSE intercepts
  /\ UNCHANGED <<profile, cfg, saved, rules, table, cut, postVars, panel>>

\* The 403 is written and the record becomes a tombstone.
Refuse(c) ==
  /\ Goto(c, "refused", "denied")
  /\ MarkConnectionClosed(c)
  /\ UNCHANGED <<profile, cfg, saved, rules, intercepts, cut, postVars, panel>>

\* A request reaches the server (or a decrypted tunnel starts): RoundTrip fails
\* when the request's context is cancelled; MyHttpsHandle does not look at the
\* outcome of the write that opens a decrypted tunnel.
Begin(c) ==
  /\ Kind(c) # "TUNNEL"
  /\ Kind(c) = "MITM" \/ ~cut[c]
  /\ Goto(c, "pass", "serve")
  /\ UNCHANGED <<profile, cfg, saved, rules, intercepts, table, cut, postVars, panel>>

\* A relayed tunnel: dialled, and "200 Connection established" written.
Accept(c) ==
  /\ Kind(c) = "TUNNEL"
  /\ ~cut[c]
  /\ Goto(c, "pass", "accepted")
  /\ UNCHANGED <<profile, cfg, saved, rules, intercepts, table, cut, postVars, panel>>

\* The dial, the write or the round trip fails.
GiveUp(c) ==
  /\ Kind(c) # "MITM"
  /\ Goto(c, "pass", "done")
  /\ MarkConnectionClosed(c)
  /\ UNCHANGED <<profile, cfg, saved, rules, intercepts, cut, postVars, panel>>

\* An accepted tunnel stores its record a second time, under the same key.
StoreTunnel(c) ==
  /\ Goto(c, "accepted", "recheck")
  /\ table' = [table EXCEPT ![c] = "Active"]
  /\ UNCHANGED <<profile, cfg, saved, rules, intercepts, cut, postVars, panel>>

\* The tunnel then runs the request hooks, for their counters: the hook may
\* count an interception, its answer is dropped and the relay starts.
RecheckTunnel(c) ==
  /\ Goto(c, "rematch", "serve")
  /\ intercepts' = IF Matches(rules, c) THEN intercepts + 1 ELSE intercepts
  /\ UNCHANGED <<profile, cfg, saved, rules, table, cut, postVars, panel>>

\* The body is delivered, or either peer leaves, or the traffic was cut; the
\* loop of a kept connection ends between two requests, whatever the last one
\* came to.
Finish(c) ==
  /\ Goto(c, "serve", "done")
  /\ Idle(c)
  /\ MarkConnectionClosed(c)
  /\ UNCHANGED <<profile, cfg, saved, rules, intercepts, cut, postVars, panel>>

\* Mutant: the pusher drops old records whatever their status.
CollectAnyRecord(c) ==
  /\ table[c] # "none"
  /\ table' = [table EXCEPT ![c] = "none"]
  /\ UNCHANGED <<profile, cfg, saved, rules, intercepts, phase, cut, postVars, panel>>

\* The connection pusher drops a tombstone whose time is over.
CollectTombstone(c) ==
  /\ table[c] = "Closed"
  /\ table' = [table EXCEPT ![c] = "none"]
  /\ UNCHANGED <<profile, cfg, saved, rules, intercepts, phase, cut, postVars, panel>>

-----------------------------------------------------------------------------
(* CloseAndRemoveConnection: Load, OnClose, Delete. *)

\* OnClose closes the client's socket of a CONNECT or of the engine's connection
\* and cancels the context of a request.  Cancelling does nothing to a body that
\* the transport has already handed over as the two-way stream of a 101 answer.
OnCloseEnds(c) == Kind(c) # "WS" \/ phase[c] # "serve"

OnClose(c) == cut' = [cut EXCEPT ![c] = @ \/ OnCloseEnds(c)]

\* The control panel closes one connection, or all those of a client; every
\* panel that is open has a goroutine of its own.
PanelClose(c) ==
  /\ c \notin panel
  /\ table[c] # "none"
  /\ OnClose(c)
  /\ panel' = panel \cup {c}
  /\ UNCHANGED <<profile, cfg, saved, rules, intercepts, phase, table, postVars>>

PanelDelete(c) ==
  /\ c \in panel
  /\ table' = [table EXCEPT ![c] = "none"]
  /\ panel' = panel \ {c}
  /\ UNCHANGED <<profile, cfg, saved, rules, intercepts, phase, cut, postVars>>

-----------------------------------------------------------------------------
(* POST /api/config. *)

PostGoto(p, from, to) == post[p] = from /\ post' = [post EXCEPT ![p] = to]

\* UpdateConfig replaces the configuration in memory, then writes the file.
UpdateConfig(p) ==
  /\ PostGoto(p, "idle", "reload")
  /\ cfg' \in Configs
  /\ saved' = TRUE
  /\ UNCHANGED <<profile, rules, intercepts, connVars, built, pending, victim, panel>>

\* The file cannot be written: the POST answers 500, Current stays replaced,
\* and neither the controller nor the connections hear of it.
UpdateConfigFails(p) ==
  /\ SaveCanFail
  /\ post[p] = "idle"
  /\ cfg' \in Configs
  /\ saved' = FALSE
  /\ UNCHANGED <<profile, rules, intercepts, connVars, postVars, panel>>

\* ReloadFromConfig copies the configuration of that moment and builds.
BuildRules(p) ==
  /\ PostGoto(p, "reload", "swap")
  /\ built' = [built EXCEPT ![p] = cfg.rules]
  /\ UNCHANGED <<profile, cfg, saved, rules, intercepts, connVars, pending, victim, panel>>

\* Mutant: a POST that sees another one in flight leaves the scan to it.
SwapRulesAndYield(p) ==
  /\ PostGoto(p, "swap", IF \E q \in Posters \ {p} : post[q] # "idle"
                         THEN "idle" ELSE "scan")
  /\ rules' = built[p]
  /\ built' = [built EXCEPT ![p] = NoRules]
  /\ UNCHANGED <<profile, cfg, saved, intercepts, connVars, pending, victim, panel>>

\* ...and installs what it built, under the lock.
SwapRules(p) ==
  /\ PostGoto(p, "swap", "scan")
  /\ rules' = built[p]
  /\ built' = [built EXCEPT ![p] = NoRules]
  /\ UNCHANGED <<profile, cfg, saved, intercepts, connVars, pending, victim, panel>>

\* CloseBlockedConnections leaves at once when access control is off.
StartScan(p) ==
  /\ PostGoto(p, "scan", IF cfg.enable THEN "visit" ELSE "idle")
  /\ pending' = [pending EXCEPT ![p] =
                   IF cfg.enable THEN {c \in Conns : table[c] # "none"} ELSE {}]
  /\ UNCHANGED <<profile, cfg, saved, rules, intercepts, connVars, built, victim, panel>>

\* Mutant: the scan passes over the records that are still Active.
VisitClosedKey(p, c) ==
  /\ post[p] = "visit" /\ c \in pending[p]
  /\ LET hit == table[c] = "Closed" /\ Client(c) \in rules.clients
     IN  /\ post' = [post EXCEPT ![p] = IF hit THEN "close" ELSE "visit"]
         /\ victim' = [victim EXCEPT ![p] = IF hit THEN {c} ELSE {}]
  /\ pending' = [pending EXCEPT ![p] = @ \ {c}]
  /\ UNCHANGED <<profile, cfg, saved, rules, intercepts, connVars, built, panel>>

\* One key of the Range: an Active record whose client the controller blocks
\* now is closed, any other is passed over.
VisitKey(p, c) ==
  /\ post[p] = "visit" /\ c \in pending[p]
  /\ LET hit == table[c] = "Active" /\ Client(c) \in rules.clients
     IN  /\ post' = [post EXCEPT ![p] = IF hit THEN "close" ELSE "visit"]
         /\ victim' = [victim EXCEPT ![p] = IF hit THEN {c} ELSE {}]
  /\ pending' = [pending EXCEPT ![p] = @ \ {c}]
  /\ UNCHANGED <<profile, cfg, saved, rules, intercepts, connVars, built, panel>>

\* The Load of CloseAndRemoveConnection and, when the record is still there,
\* its OnClose.
CloseVictim(p, c) ==
  /\ post[p] = "close" /\ c \in victim[p]
  /\ IF table[c] = "none"
     THEN /\ post' = [post EXCEPT ![p] = "visit"]
          /\ victim' = [victim EXCEPT ![p] = {}]
          /\ UNCHANGED cut
     ELSE /\ post' = [post EXCEPT ![p] = "delete"]
          /\ OnClose(c)
          /\ UNCHANGED victim
  /\ UNCHANGED <<profile, cfg, saved, rules, intercepts, phase, table, built, pending, panel>>

DeleteVictim(p, c) ==
  /\ PostGoto(p, "delete", "visit")
  /\ c \in victim[p]
  /\ table' = [table EXCEPT ![c] = "none"]
  /\ victim' = [victim EXCEPT ![p] = {}]
  /\ UNCHANGED <<profile, cfg, saved, rules, intercepts, phase, cut, built, pending, panel>>

EndScan(p) ==
  /\ PostGoto(p, "visit", "idle")
  /\ pending[p] = {}
  /\ UNCHANGED <<profile, cfg, saved, rules, intercepts, connVars, built, pending, victim, panel>>

-----------------------------------------------------------------------------
Handler(c) ==
  \/ Register(c) \/ OpenEngine(c) \/ ReadAccessEnable(c) \/ MatchRules(c) \/ Refuse(c)
  \/ Begin(c) \/ Accept(c) \/ GiveUp(c) \/ StoreTunnel(c) \/ RecheckTunnel(c) \/ Finish(c)

Panel(c) == PanelClose(c) \/ PanelDelete(c)

\* A POST that has begun: the goroutine that serves it.
Reload(p) ==
  \/ BuildRules(p) \/ SwapRules(p) \/ StartScan(p) \/ EndScan(p)
  \/ \E c \in Conns : VisitKey(p, c) \/ CloseVictim(p, c) \/ DeleteVictim(p, c)

Next ==
  \/ \E c \in Conns : Handler(c) \/ Panel(c) \/ CollectTombstone(c)
  \/ \E p \in Posters : UpdateConfig(p) \/ UpdateConfigFails(p) \/ Reload(p)

\* A POST runs to its end: nothing in it waits for a peer.  No client has to
\* connect, no server has to answer, and nobody has to post.
Spec == Init /\ [][Next]_vars /\ \A p \in Posters : WF_vars(Reload(p))

-----------------------------------------------------------------------------
(* Properties. *)

\* The record's own OnClose, or that of the tunnel a session is in, has ended its
\* traffic.
Severed(c) == cut[c] \/ cut[Lead(c)]

\* The handler carries traffic, or is past the last question it asks.
Carries(c) == phase[c] \in {"pass", "accepted", "recheck", "rematch", "serve"}

Open(c) == Carries(c) /\ ~Severed(c)

\* A WebSocket that has been answered: its own OnClose is without effect, but a
\* tunnel's closes the client's socket under it.
Answered(c) == Kind(c) = "WS" /\ phase[c] = "serve"
Severable(c) == Answered(c) => Parent(c) # NoParent

\* A session the gate was asked about: all but the engine's connection.
Asked(c) == Kind(c) # "MUX"

\* A configuration that could not be saved was answered with an error: nobody
\* was told that its rules are in force.
Banned(c) == saved /\ cfg.enable /\ Client(c) \in rules.clients

Quiet == \A p \in Posters : post[p] = "idle"

\* When no POST is in flight and the last one could be saved, nothing that the
\* gate has let through is still open for a client that the switch and the
\* controller's rules block, whatever the handler had read before the rules
\* changed: no request, no tunnel, and no request or WebSocket inside a decrypted
\* tunnel or inside the engine's connection (http.go:44-60 stores before it
\* checks, proxy.go:268-269 swaps before it scans).  A WebSocket outside a tunnel
\* is the exception that BlockedAreClosed is about.
NoBlockedSurvivor ==
  Quiet => \A c \in Conns : Asked(c) /\ Severable(c) /\ Open(c) => ~Banned(c)

\* The same without the exception ("CloseBlockedConnections closes the active
\* connections that the source address blacklist hits", actions.go:205).
BlockedAreClosed ==
  Quiet => \A c \in Conns : Asked(c) /\ Open(c) => ~Banned(c)

\* An open connection always has an Active record, its own or, for a WebSocket
\* that has been answered in a tunnel, the tunnel's: the list of the panel shows
\* it, and closing it by client or by number reaches it.  So has the tunnel.
OpenIsListed ==
  \A c \in Conns : Severable(c) /\ Open(c) =>
    /\ table[Lead(c)] = "Active"
    /\ Answered(c) \/ table[c] = "Active"

\* When no POST is in flight and the last one could be saved, the controller
\* enforces the rules of the configuration that GET /api/config shows.
RulesFollowConfig == Quiet /\ saved => rules = cfg.rules

\* A reload that blocks a client ends what the gate had let through for it, unless
\* a later configuration lets it in again, the connection ends by itself, or it
\* becomes a WebSocket outside a tunnel before the scan meets it.
Hit(c) == Asked(c) /\ Severable(c) /\ Open(c) /\ Banned(c)

Expelled == \A c \in Conns : Hit(c) ~> ~Hit(c)
=============================================================================

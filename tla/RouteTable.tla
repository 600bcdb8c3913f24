----------------------------- MODULE RouteTable -----------------------------
(***************************************************************************)
(* The routing engine on top of the configuration manager.  A POST that    *)
(* leaves routing on builds dialers and rules and installs them under the  *)
(* router's lock; a request reads the switch, then rules and dialers under *)
(* the same lock, walks the rules outside it, and dials.  The process may  *)
(* be killed and started again at any time.                                *)
(*                                                                         *)
(* A host is the sequence of its labels; so is the value of a rule, which  *)
(* for a keyword rule is a pattern that accepts the hosts containing it.   *)
(***************************************************************************)
EXTENDS ConfigStore, FiniteSets, SequencesExt

CONSTANTS
  Reqs,        \* request goroutines
  Tunnels,     \* those of them that serve a CONNECT to be relayed
  Labels,      \* what hosts are made of
  Addrs,       \* what is asked for: [host, port]
  IPs,         \* the hosts that are IP addresses
  Own,         \* the hosts that are this machine, whatever it knows of them
  Loopback,    \* those that refreshLocalIPs always lists
  LocalLists,  \* what localIPs may hold: it is up to five minutes old
  Answers,     \* what looking a host up may find; {} when the lookup fails
  NodeAddr,    \* the address of every parent proxy, by its name
  BadNodes,    \* names configured with a URL that is not an HTTP proxy's
  Unknown      \* a dialer name and a rule type that mean nothing

Hosts == Seq(Labels) \ {<<>>}
Targets == DOMAIN NodeAddr \cup {"Direct"}
Types == {"DomainSuffix", "DomainKeyword", "IP"}

RouteRules == [type : Types \cup {Unknown}, values : SUBSET Hosts,
               target : Targets \cup {Unknown}, enable : BOOLEAN]

ASSUME ContentsAssumption ==
  /\ Contents \cup {DefaultContent} \subseteq
       [on : BOOLEAN, port : Nat, httpsPort : Nat, ips : SUBSET Hosts,
        nodes : SUBSET DOMAIN NodeAddr, routes : Seq(RouteRules)]
  /\ DefaultContent.on = FALSE
  /\ DefaultContent.routes = <<>>
ASSUME ReqsAssumption ==
  /\ Tunnels \subseteq Reqs
  /\ Addrs # {} /\ Addrs \subseteq [host : Hosts, port : Nat]
  /\ \A n \in DOMAIN NodeAddr : NodeAddr[n] \in [host : Hosts, port : Nat]
  /\ Unknown \notin Targets \cup Types /\ "none" \notin Targets
ASSUME LoopAssumption ==
  /\ LocalLists # {} /\ \A l \in LocalLists : Loopback \subseteq l
  /\ \A a \in Addrs \cup {NodeAddr[n] : n \in DOMAIN NodeAddr} : Answers[a.host] # {}

VARIABLES
  listening, \* the ports the listeners were opened on
  router,    \* Router: the configurations its Rules and its Dialers are from
  phase,     \* where a request is
  wanted,    \* the address it asks for
  snap,      \* the rules and dialers it has copied
  target     \* the dialer it was given, and the address that was dialled

reqVars == <<phase, wanted, snap, target>>
vars == <<storeVars, listening, router, reqVars>>

NoTable == [rules |-> 0, dialers |-> 0]
Tables == [rules : Versions, dialers : Versions]
ReqPhases == {"new", "match", "copy", "walk", "dial", "connected", "refused"}

\* The addresses of the HTTP and the HTTPS listener.  With port 0 the system
\* picks one, which no address of Addrs has.
ListenPorts(c) == {c.port, c.httpsPort} \ {0}

TypeOK ==
  /\ StoreTypeOK
  /\ listening \subseteq Nat
  /\ router \in Tables
  /\ phase \in [Reqs -> ReqPhases]
  /\ wanted \in [Reqs -> Addrs]
  /\ snap \in [Reqs -> Tables]
  /\ target \in [Reqs -> Targets]

Init ==
  /\ StoreInit
  /\ listening = ListenPorts(DefaultContent)
  /\ router = NoTable
  /\ phase = [r \in Reqs |-> "new"]
  /\ wanted \in [Reqs -> Addrs]
  /\ snap = [r \in Reqs |-> NoTable]
  /\ target = [r \in Reqs |-> "Direct"]

-----------------------------------------------------------------------------
(* What is built from a configuration, and how a host is matched. *)

\* NewHttpProxyDialer refuses what is not the URL of an HTTP proxy.
Dialers(c) == (c.nodes \ BadNodes) \cup {"Direct"}

\* Mutant: a rule is installed without a look at its target.
UsableUnchecked(c, r) == r.enable /\ r.values # {} /\ r.type \in Types

\* A rule that is off, empty, of an unknown type or without a dialer is left out.
Usable(c, r) ==
  /\ r.enable
  /\ r.values # {}
  /\ r.type \in Types
  /\ r.target \in Dialers(c)

Rules(c) == {i \in DOMAIN c.routes : Usable(c, c.routes[i])}

DomainSuffixRule(values, h) ==
  \E s \in values : IsSuffix(s, h)

DomainKeywordRule(values, h) ==
  \E s \in values, i, j \in 1 .. Len(h) : SubSeq(h, i, j) = s

IPRule(values, h) == h \in IPs /\ h \in values

Condition(r, h) ==
  CASE r.type = "DomainSuffix"  -> DomainSuffixRule(r.values, h)
    [] r.type = "DomainKeyword" -> DomainKeywordRule(r.values, h)
    [] r.type = "IP"            -> IPRule(r.values, h)

Hits(c, h) == {i \in Rules(c) : Condition(c.routes[i], h)}

\* MatchRoute: the first rule that matches says the target; a target without a
\* dialer, like no match at all, means the default.
Route(c, d, h) ==
  IF Hits(c, h) = {} THEN "Direct"
  ELSE LET t == c.routes[CHOOSE i \in Hits(c, h) : \A j \in Hits(c, h) : i <= j].target
       IN  IF t \in Dialers(d) THEN t ELSE "Direct"

MatchRoute(s, h) == Route(Content(s.rules), Content(s.dialers), h)

\* Mutant: the port of the second listener is forgotten.
proxyListenPortsHTTP(c) == {c.port} \ {0}

\* The ports that the configuration names.
proxyListenPorts(c) == {c.port, c.httpsPort} \ {0}

\* isSelfLoop: on one of those ports, and the host, or an address that looking
\* it up has found, is in PublicIPs or in the list of local addresses.
SelfLoop(a, c, local, found) ==
  /\ a.port \in proxyListenPorts(c)
  /\ ({a.host} \cup found) \cap (c.ips \cup local) # {}

-----------------------------------------------------------------------------
(* The reload, behind UpdateConfig in the same POST. *)

storeRest == <<sent, current, file, tmp, lock, server, mine, acked, alone>>

\* Mutant: the router is reloaded only when it has nothing yet.
PostReloadsOnce(p) ==
  /\ PostGoto(p, "saved", IF Content(mine[p]).on /\ router = NoTable THEN "built" ELSE "answer")
  /\ UNCHANGED <<storeRest, listening, router, reqVars>>

\* ReloadFromConfig is called when the posted configuration leaves routing on,
\* with that configuration; it builds outside the lock.
PostReloads(p) ==
  /\ PostGoto(p, "saved", IF Content(mine[p]).on THEN "built" ELSE "answer")
  /\ UNCHANGED <<storeRest, listening, router, reqVars>>

\* The writer asks for the router's lock: no new reader gets in...
LockRouter(p) ==
  /\ PostGoto(p, "built", "swap")
  /\ UNCHANGED <<storeRest, listening, router, reqVars>>

\* ...and once readers and other writers are out, it assigns Dialers, then Rules.
SwapDialers(p) ==
  /\ \A r \in Reqs : phase[r] # "copy"
  /\ \A q \in Posters : post[q] # "swapping"
  /\ PostGoto(p, "swap", "swapping")
  /\ router' = [router EXCEPT !.dialers = mine[p]]
  /\ UNCHANGED <<storeRest, listening, reqVars>>

SwapRules(p) ==
  /\ PostGoto(p, "swapping", "answer")
  /\ router' = [router EXCEPT !.rules = mine[p]]
  /\ UNCHANGED <<storeRest, listening, reqVars>>

\* AddRouter loads the router when routing is on; the listeners are opened.
Open ==
  /\ ServerGoto("route", "up")
  /\ router' = IF Content(current).on THEN [rules |-> current, dialers |-> current]
               ELSE NoTable
  /\ listening' = ListenPorts(Content(current))
  /\ UNCHANGED <<sent, current, file, tmp, lock, post, mine, acked, alone, reqVars>>

Crash ==
  /\ StoreCrash
  /\ router' = NoTable
  /\ phase' = [r \in Reqs |-> "new"]
  /\ snap' = [r \in Reqs |-> NoTable]
  /\ target' = [r \in Reqs |-> "Direct"]
  /\ UNCHANGED <<listening, wanted>>

-----------------------------------------------------------------------------
(* A request. *)

Goto(r, from, to) ==
  server = "up" /\ phase[r] = from /\ phase' = [phase EXCEPT ![r] = to]

\* The switch is read from the configuration manager, by connectDial or by the
\* hook that chooses the RoundTripper; without it the direct dialer is used.
ReadRouteEnable(r) ==
  /\ CanGetConfig
  /\ Goto(r, "new", IF Content(current).on THEN "match" ELSE "dial")
  /\ UNCHANGED <<storeVars, listening, router, wanted, snap, target>>

\* Mutant: rules and dialers are read where they are used, without the lock.
CopyRulesUnlocked(r) ==
  /\ Goto(r, "match", "copy")
  /\ snap' = [snap EXCEPT ![r].rules = router.rules]
  /\ UNCHANGED <<storeVars, listening, router, wanted, target>>

\* MatchRoute copies what it needs under the reader's lock...
CopyRules(r) ==
  /\ \A p \in Posters : post[p] \notin {"swap", "swapping"}
  /\ Goto(r, "match", "copy")
  /\ snap' = [snap EXCEPT ![r].rules = router.rules]
  /\ UNCHANGED <<storeVars, listening, router, wanted, target>>

CopyDialers(r) ==
  /\ Goto(r, "copy", "walk")
  /\ snap' = [snap EXCEPT ![r].dialers = router.dialers]
  /\ UNCHANGED <<storeVars, listening, router, wanted, target>>

\* ...and walks the rules outside it.
Match(r) ==
  /\ Goto(r, "walk", "dial")
  /\ target' = [target EXCEPT ![r] = MatchRoute(snap[r], wanted[r].host)]
  /\ UNCHANGED <<storeVars, listening, router, wanted, snap>>

\* The address that a TCP connection is opened to.
Dialled(r) == IF target[r] = "Direct" THEN wanted[r] ELSE NodeAddr[target[r]]

\* What the check may say of an address, with the configuration of that moment,
\* a list of any age and whatever the lookup finds.
Verdicts(a) ==
  {loop \in BOOLEAN : \E local \in LocalLists, found \in Answers[a.host] :
                       loop = SelfLoop(a, Content(current), local, found)}

\* The dialer of a parent has the address that a tunnel asks for checked as well.
Loops(r, loop, asked) == loop \/ (r \in Tunnels /\ target[r] # "Direct" /\ asked)

\* The dialers look for a loop before they open a connection.
Dial(r) ==
  /\ CanGetConfig
  /\ \E loop \in Verdicts(Dialled(r)), asked \in Verdicts(wanted[r]) :
       Goto(r, "dial", IF Loops(r, loop, asked) THEN "refused" ELSE "connected")
  /\ UNCHANGED <<storeVars, listening, router, wanted, snap, target>>

\* The request is over; the goroutine serves another one.
Finish(r) ==
  /\ Goto(r, "connected", "new") \/ Goto(r, "refused", "new")
  /\ \E a \in Addrs : wanted' = [wanted EXCEPT ![r] = a]
  /\ snap' = [snap EXCEPT ![r] = NoTable]
  /\ target' = [target EXCEPT ![r] = "Direct"]
  /\ UNCHANGED <<storeVars, listening, router>>

-----------------------------------------------------------------------------
Reload(p) == PostReloads(p) \/ LockRouter(p) \/ SwapDialers(p) \/ SwapRules(p)

Poster(p) == Reload(p) \/ (StorePost(p) /\ UNCHANGED <<listening, router, reqVars>>)

Boot == Open \/ (StoreBoot /\ UNCHANGED <<listening, router, reqVars>>)

Request(r) ==
  ReadRouteEnable(r) \/ CopyRules(r) \/ CopyDialers(r) \/ Match(r) \/ Dial(r)

Next ==
  \/ \E p \in Posters, c \in Contents :
       UpdateConfig(p, c) /\ UNCHANGED <<listening, router, reqVars>>
  \/ \E p \in Posters : Poster(p)
  \/ Boot \/ Crash
  \/ \E r \in Reqs : Request(r) \/ Finish(r)

\* Nothing in a POST or in the way of a request to its dialer waits for a peer.
\* A lock is fair to a goroutine that waits for it.  Nobody has to post, a
\* request need not end, and the process need not be killed.
Spec ==
  /\ Init /\ [][Next]_vars
  /\ WF_vars(Boot)
  /\ \A p \in Posters : WF_vars(Poster(p)) /\ SF_vars(SwapDialers(p))
  /\ \A r \in Reqs : WF_vars(Request(r)) /\ SF_vars(ReadRouteEnable(r) \/ Dial(r))

-----------------------------------------------------------------------------
(* Properties. *)

\* A rule that matches always has its dialer in the same snapshot: the fallback
\* "the target does not exist -> Direct" (router.go:195) is never taken, and no
\* request leaves the machine by another way than its rule says.
TargetHasDialer ==
  \A r \in Reqs : phase[r] = "walk" =>
    LET c == Content(snap[r].rules) IN
    \A i \in Hits(c, wanted[r].host) :
      c.routes[i].target \in Dialers(Content(snap[r].dialers))

Quiet == server = "up" /\ \A p \in Posters : post[p] = "idle"

\* Once the process is up, no POST is in flight and the last save succeeded,
\* requests that are routed are routed by the configuration on the disk, unless
\* the last POST overlapped another one (proxy.go:264-266, actions.go:471-476).
RouterFollowsConfig ==
  Quiet /\ alone /\ file = current /\ Content(current).on =>
    router = [rules |-> current, dialers |-> current]

\* A lock is held by whoever is at a step that needs it and by nobody else, on
\* every way out of that step: ConfigManager.mu by the one POST or the start that
\* saves, and the router's lock by one writer, while nobody copies.  As none of
\* these steps asks for a lock, nobody waits for ever behind another one
\* (config.go:164-226, router.go:184-188, 266-271).
LocksAreHeldInTurn ==
  /\ \A p \in Posters : lock = p <=> post[p] \in {"write", "rename"}
  /\ lock = "boot" <=> server \in {"load", "write", "rename"}
  /\ \A p \in Posters : post[p] = "swapping" =>
       (\A q \in Posters \ {p} : post[q] # "swapping") /\ \A r \in Reqs : phase[r] # "copy"

\* A POST that has begun is answered, unless the process is killed, and a
\* request gets to its dialer; no lock is left taken.
NobodyIsStuck ==
  /\ \A p \in Posters : post[p] # "idle" ~> post[p] = "idle"
  /\ \A r \in Reqs : phase[r] # "new" ~> phase[r] \in {"new", "connected", "refused"}

DialledSelf(r) ==
  phase[r] = "connected" /\ Dialled(r).host \in Own /\ Dialled(r).port \in listening

\* A connection that the proxy opens is never one to its own listener
\* ("isSelfLoop checks whether the target is the proxy server itself",
\* loop_check.go:85).
NoSelfDial == \A r \in Reqs : ~DialledSelf(r)

\* The check knows a host without looking it up and whatever the age of its list:
\* a loopback address (loop_check.go:31, 50), or one that is in every PublicIPs.
Known(h) == \A c \in Contents \cup {DefaultContent} : h \in Loopback \cup c.ips

\* As long as the posted configurations leave both ports alone, a connection of
\* the proxy to either of its own listeners, through whatever rule or parent, is
\* one to an address that the check may be ignorant of.
NoKnownSelfDial ==
  (\A c \in Contents : ListenPorts(c) = ListenPorts(DefaultContent)) =>
    \A r \in Reqs : DialledSelf(r) => ~Known(Dialled(r).host)

\* The router as its users see it: one table, replaced when its rules are, and
\* read by a request when it copies them.
Whole(v, h) == Route(Content(v), Content(v), h)

Table == [a \in Addrs |-> Whole(router.rules, a.host)]

Decided(r) ==
  IF phase[r] \in {"new", "match"} THEN "none"
  ELSE IF phase[r] \in {"copy", "walk"} THEN Whole(snap[r].rules, wanted[r].host)
       ELSE target[r]

Decision == [r \in Reqs |-> Decided(r)]

Atomic == INSTANCE AtomicRouter WITH table <- Table, decision <- Decision

\* Every request is decided by one table, the one of the moment when it took
\* its snapshot, whatever reload runs meanwhile (router.go:184-188, 266-271).
AtomicRouting == Atomic!Spec
=============================================================================

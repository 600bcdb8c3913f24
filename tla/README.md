# proxy_man: a verification project

proxy_man is a forward proxy written in Go. It serves plain HTTP requests and
CONNECT tunnels, relays tunnels or decrypts them (MITM), sends them directly or
through a parent proxy by rules, refuses clients and hosts by other rules, both
reloaded while it runs, keeps a table of live connections that a web panel shows
and can close, streams logs and exchanges to that panel, counts traffic by user,
and stores the bodies of decrypted exchanges in MinIO. This directory holds TLA+
models of its concurrent core, the TLC instances that check them, and TLAPS proofs
of what matters most for every size of the instance.

Run everything from this directory, for example `tlc -config gate.cfg
MCAccessGate` and `tlapm AccessGate_proofs.tla`. Paths below are relative to `src/`.

## 1. Inventory

| Component | State it keeps | Operations | What is hard |
|---|---|---|---|
| Connection registry (`mproxy/connections.go`) | `Connections`: session -> `*ConnectionInfo` in a `sync.Map`; Status and EndTime without a lock | Store, MarkConnectionClosed, CloseAndRemoveConnection | Load, then act, then delete by key; the object may have been replaced |
| CONNECT handler (`mproxy/https.go`) | one goroutine per tunnel, client and server sockets, two records under one key when relayed | hijack, strategy, dial, second Store, hooks again, relay; or sniff, TLS, request loop | panics half way, hooks run twice, children of a closed tunnel |
| HTTP handler and engine (`mproxy/http.go`) | one record per request; with HttpMitmNoTunnel the engine keeps the client's connection, with a record of its own, and its requests | filter, RoundTrip, WebSocket, body copy, request loop | cancel versus hijack; the kept connection is never asked about |
| Access control (`mproxy/actions.go:21-258`) | matchers and blockedClients under a lock; interception counter | hooks, ReloadFromConfig, CloseBlockedConnections | switch and rules are read apart; build outside, swap inside the lock; scan against registration |
| Configuration (`mproxy/config.go`) | Current under a lock; config.json and its temporary file | GetConfig, UpdateConfig, Load, saveLocked | memory is replaced before the file is written; a process killed half way |
| Routing (`mproxy/router.go`) | rules, dialers and default under a lock | MatchRoute, ReloadFromConfig, the dialers | one snapshot of two fields; reloads that overlap |
| Self-loop check (`mproxy/loop_check.go`) | a list of local addresses, up to five minutes old; PublicIPs and both ports from the configuration | isSelfLoop, proxyListenPorts | the listeners keep the ports of the start; the list may be old, the lookup of a name may fail |
| Control API (`proxysocket/proxy.go`) | subscription of each panel | POST /api/config; closeAllConnections, closeConnection, closeUserConnections, cleanOfflineUsers | POSTs and panels run concurrently |
| Hub and pushers (`proxysocket/hub.go`) | panels, bounded channels, batches | broadcast, logs, interceptions, exchanges, traffic, users, connections and their collection | weakly consistent ranges, panels that do not read |
| Exchange capture (`mproxy/mitm_exchange.go`) | per exchange: skip, sent, error, two body captures | StartCapture, SetCaptureSkip, SetCaptureError, SendExchange | the order of the calls |
| Body capture (`myminio/minioUpload.go`) | pipe, uploader goroutine, temporary file | Read, Close, upload | three goroutines that wait for each other |
| User traffic (`mproxy/user_monitor.go`) | users by address, their counters by host | GetOrCreateStats, Snapshot, cleaning | double-checked creation against cleaning |
| Relay (`https.go:286-304, 464-494`, `mproxy/websocket.go`) | two copy goroutines | half close, close once | who ends whom |
| Request reader (`http1parser/`) | a clone of what was read | ReadRequest on a keep-alive connection | read-ahead |
| Logs, signer, TLS, static files, storage API, startup | see PROJECT.json | | |

How they interact. A handler stores a record, asks the hooks (access control
first, then the traffic monitor, `main.go:31-39`), is given a dialer by the router,
talks to the server, and marks the record when it returns. The panel and
CloseBlockedConnections find sessions through the table and call the record's
OnClose, which closes a CONNECT's client socket or cancels a request's context. The
connection pusher deletes tombstones (closed records) after a retention of a few
seconds; cleanOfflineUsers reads the table to know whose counters to keep. POST
/api/config replaces the configuration and saves it, then reloads the router, then
the access controller, and then scans the table. Handlers and hooks offer log lines,
interceptions and exchanges to channels that the hub's pushers empty into panels.

What makes each part correct:

- gate: nobody the rules block stays connected once a reload is over; the rules
  enforced are those of the saved configuration;
- registry: what carries traffic is listed as Active and can be closed; what has
  ended is collected;
- panel commands: what they set out to close is closed;
- configuration: the file is whole whenever the process dies, and what was
  acknowledged stays on it;
- routing: a request is decided by one table, that of one configuration, and the
  router follows the saved one; the proxy does not dial itself;
- hub: what a channel accepted reaches the subscribed panels, in order and once; no
  panel stops a pusher;
- relay: an end of stream is honest; sockets and goroutines end;
- user traffic: what a listed session transfers is shown;
- capture: no goroutine, pipe or file is left behind; an object that counts as
  uploaded is whole; slow or failing storage does not stop the exchange;
- reader: the handler gets the header names the client wrote.

PROJECT.json lists every component and every hazard at its line.

## 2. Modules

| Module | Models | Instance | Proofs |
|---|---|---|---|
| AccessGate | handlers, access control, POST and its scan | MCAccessGate | AccessGate_proofs |
| ConnTable | records as objects, pusher, panel commands | MCConnTable | ConnTable_proofs |
| BodyCapture | one captured exchange | itself | BodyCapture_proofs |
| ConfigStore | configuration manager and file | through RouteTable | through RouteTable_proofs |
| RouteTable | ConfigStore with router, dialers and requests | MCRouteTable | RouteTable_proofs |
| AtomicRouter | abstract: what the router promises | - | RouteTable refines it |
| PanelHub | channels, pushers, panels | MCPanelHub | PanelHub_proofs |
| LossyFifo | abstract: what a live view promises | - | PanelHub refines it |
| TunnelRelay | one relayed session, from its dial to its last close | itself | TunnelRelay_proofs |
| HonestPipe | abstract: what a relay promises its two peers | - | TunnelRelay refines it |
| UserTraffic | counters on demand against cleaning | MCUserTraffic | UserTraffic_proofs |
| RequestReader | the clone behind the buffered reader | MCRequestReader | RequestReader_proofs |

### AccessGate

`Conns` are sessions. `profile` says what each one of a behaviour is: its kind, its
client, its host and the session it is inside of. The kinds are a request (HTTP, or WS
when the server answers 101), a CONNECT that is relayed (TUNNEL) or decrypted (MITM), and
the client's connection that myHttpHandleWithEngine keeps when HttpMitmNoTunnel is set
(MUX). The requests of a MITM or MUX session are sessions with a parent: one registers
only while the parent is served and its other requests are over (Register), and the
parent ends between two requests (Finish). OpenEngine stores the record of a kept
connection and asks no hook (http.go:179-223); its requests are asked about one by one.

`phase` is the handler's program counter. The code's unsynchronised
reads are steps of their own: the hook reads the switch from the configuration
manager (ReadAccessEnable), later the rules (MatchRules). A relayed tunnel goes
through the hooks twice (https.go:369-377 and 465), with its second Store between
(StoreTunnel); the second answer is dropped (RecheckTunnel), but counts.

A POST is a sequence UpdateConfig, BuildRules, SwapRules, StartScan, then VisitKey,
CloseVictim, DeleteVictim for each key and EndScan; with `SaveCanFail` it may also
end after UpdateConfig (UpdateConfigFails), with the new configuration in memory and
neither reload nor scan. `saved` says whether the last one could be written. A
`sync.Map` Range is weakly consistent: it visits the keys it started with and may or
may not see one stored meanwhile (Store adds the key to any subset of the Ranges in
progress), and it looks at the value when it comes to the key.
CloseAndRemoveConnection is Load, OnClose and Delete as separate steps. `Posters` are
goroutines of the control server. CollectTombstone is the pusher, without its clock.

`cut` says that the record's OnClose has ended the session's traffic. For a WebSocket
that has been answered it does not: the context it cancels no longer governs the two-way
body of a 101 (OnCloseEnds). Inside a tunnel such a WebSocket still falls with the
client's socket, so a session is `Severed` by its own OnClose or by that of its `Lead`,
the session that holds the socket. Two exceptions have names. `Severable` leaves out an
answered WebSocket outside a tunnel; BlockedAreClosed is the property without it, and
gate_websocket shows that it fails. `Asked` leaves out the kept connection itself, which
nobody asks the gate about: a client that connects after the scan that blocked it gets a
403 for every request, on a connection that stays open and Active.

### ConnTable

The same table at the level of objects. `profile` says what the sessions of a behaviour
are: a request, a relayed or a decrypted tunnel, the client, the tunnel a request is
inside of, and whether the client came in over TLS. The engine's kept connection does to
the table what a decrypted tunnel does, and is that kind here. A relayed tunnel stores a
second object under its key, so `status` and `age` belong to objects (`Objects` = 1, 2)
and the table points to one. Marking is two writes (MarkStatus, then Stamp or
PanelStamps). `age` counts the pusher's rounds since EndTime; a record without EndTime
has the age `Zero`, above any retention, as `now.Sub(time.Time{})` is. The pusher judges
a record in VisitRecord and deletes by key in DeleteExpired. The commands of one panel
run one after the other: Command names the records wanted and the last one, PanelCloses
calls OnClose, and then either PanelDeletes or PanelMarks and PanelStamps. A TLS
client's tunnel panics at its second Store.

`swept` in the panel's record is not state of the code: it remembers what a command
set out to close, for SweepIsComplete.

### BodyCapture

One exchange: the handler (`pc`), the transport's goroutine that reads the request
body and the uploader of each body. A body is a number of chunks. bodyCaptReader.Read
is two steps, reading from the peer and writing to the pipe, because the write blocks
until the uploader takes it. Close is two steps, closing the pipe and waiting for the
uploader. The uploader follows uploadToMinIO: stream a known length, or fill a
temporary file first; then the deferred close of the pipe and of doneCh. net/http's
transport is modelled from how it is used: RoundTrip may return while the request
body is still being read, and the transport closes a body it has read. A round trip
that failed ends unreported, and only SendExchange reports.

### ConfigStore and RouteTable

ConfigStore has the state of the configuration manager and the steps on it: a POST's
UpdateConfig, the write of the temporary file in two steps (`Torn`, then whole), the
rename, failures of either, and the start of the process (Load, LoadFails, the write
back, its failure). A configuration is the number of the POST that brought it, and
`sent` keeps what each of them says, so memory (`current`), disk (`file`, `tmp`) and
router hold numbers. `lock` is `ConfigManager.mu`. StoreCrash may come between any two
steps; the disk survives it.

RouteTable EXTENDS it with the router and the requests. A POST that leaves routing on
goes PostReloads, LockRouter, SwapDialers, SwapRules: the write lock of the router is
"swap" (waiting: no new reader) and "swapping" (held). A request reads the switch
(ReadRouteEnable), copies rules and dialers under the read lock (CopyRules,
CopyDialers), walks the rules outside it (Match) and dials (Dial), where the loop check
asks the configuration of the moment. What the machine is and what the check knows of it
are apart. `Own` are the hosts that are this machine and `listening` the ports its two
listeners were opened on (ListenPorts); both are the truth, and only properties look at
`Own`. The check (SelfLoop) has the two ports that the configuration names now
(proxyListenPorts), its PublicIPs (`ips`), any list of `LocalLists`, which stands for a
cache of any age and always holds `Loopback`, and what a lookup finds, one of `Answers`,
which may be nothing. `Verdicts` are the answers it may then give. What a
configuration's rules and dialers are (Usable, Dialers), and what they say of a host
(DomainSuffixRule, DomainKeywordRule, IPRule, MatchRoute), are operators on sequences of
labels.

AtomicRouter is the promise: one table, replaced in one step, and each request decided
in one step by the table of that moment, or directly. The mapping takes the decision at
the moment when the rules are copied, although the target is only known two steps
later: `Decided(r)` computes it from the snapshot.

### PanelHub

Streams are topics with a channel: logs, interceptions, exchanges. Messages are
numbered as they are offered; Offer drops what does not fit. A pusher collects
(Receive, Tick), then ranges over the panels: VisitPanel reads the subscription and the
level of one and makes what it is to get (`message`), Lock takes the panel's writeMu,
and the write succeeds or fails (WriteDone, WriteFails); after the last panel EndSend
empties the batch. A panel that changes its subscription while a message for it is on
its way still gets that one. A panel comes, subscribes, stops reading, leaves; ReadFails
is its message loop's deferred Delete. Log batches are filtered by the panel's level
(For, with Kept, a filter written as a recursive function). The interception count goes
up before the message is offered (CountIntercept) and is read when a batch is sent
(BeginSend). `offered`, `dropped`, `since`, `shown` and `total` are ghosts.
LossyFifo is the abstract view: for every stream a screen shows some of the messages,
each once and in order.

### TunnelRelay

One session: an accepted CONNECT from the dial (direct, or through a parent with its
answers) to the last Close, or a WebSocket inside a decrypted tunnel from its 101 on.
A copy reads one byte, writes it, and after its end does CloseWrite on the other
socket and CloseRead on its own, in this order, as copyAndClose does; `pc` is the
handler and then the goroutine that waits for both (CopiesOver). `socket` has a
reading and a writing half. The peers send, end their direction, stop reading or
disappear; the panel closes the client's socket.

HonestPipe is the promise: what a peer is given is what the other one sent, in order,
nothing follows an end of the stream, and the end is told only when the other one has
ended and everything has arrived, until somebody breaks the pipe. `Broken` says what
counts as breaking it: a dial that failed or whose answer could not be written, a peer that
disappeared, a panel that closed the session; a WebSocket, which closes both ways when
one has ended, promises no more than a broken tunnel.

### UserTraffic

Users, UserHostStats and their counters are objects numbered as they are made.
GetOrCreateStats is four critical sections (LookUser, MakeUser, LookHost, MakeHost); a
request looks up twice, before its round trip and after it. cleanOfflineUsers ranges over
the connection table (Protect, for each key) and deletes every other address in one
step (Delete). `late` is a ghost: sessions that registered while the command was
collecting addresses, which it may not have seen.

### RequestReader

A connection is a sequence of lines (and pieces of one), each with the name before its
colon. `fed` is what the TeeReader has put into the clone, `read` what the buffer has
handed on, `taken` what was taken out of the clone. ReadRequest parses a head, TakeNames
searches the clone for the names, ReadBody is the handler. Http1ExtractHeaders gives the
names by their place among the lines (HeaderLines), since for two spellings of one name
the first one that is found wins.

### Proof modules

Each EXTENDS its component and TLAPS; see section 5. No module uses RECURSIVE operators.

## 3. Runs

| Run | Instance | What it shows |
|---|---|---|
| gate | two sessions: the engine's kept connection, or a decrypted tunnel, with a WebSocket inside; a WebSocket or a relayed tunnel beside the engine's connection of another client; three configurations; two posters; the file may not be writable | TypeOK, NoBlockedSurvivor, OpenIsListed, Expelled |
| table | a request and a relayed tunnel, or a decrypted tunnel and a request inside it; retention of one round | TypeOK, OpenIsListed, SweepIsComplete, Reclaimed |
| capture | bodies of up to two chunks or unknown length | TypeOK, NothingLeftBehind, UploadIsWholeRead, SkippedIsNotReported, NoCircularWait, BodyGoesOn, CloseReturns |
| control | two posters, two POSTs, five configurations, a tunnel, crashes; loopback, a LAN address that a list may lack, a name whose lookup may fail; two ports | TypeOK, FileIsWhole, AckedIsDurable, TargetHasDialer, RouterFollowsConfig, NoKnownSelfDial, LocksAreHeldInTurn, AtomicRouting, NobodyIsStuck |
| panels | logs and interceptions, channels of one place, batches of two, one panel | TypeOK, AcceptedAreShown, CountCoversList, SendingEnds, GoneAreRemoved, InOrder |
| tunnel | tunnel or WebSocket, two bytes from each peer | TypeOK, EofMeansAll, PipeIsHonest, TunnelEnds, WebSocketEnds, CutIsHeard |
| users | a relayed tunnel and a request of one user, two clean-ups | TypeOK, ListedTrafficIsShown, FiguresNeverShrink |
| gate_websocket | a WebSocket outside a tunnel, one poster | violates BlockedAreClosed |
| gate_stale_swap | a request, two posters | violates RulesFollowConfig |
| table_tls | a tunnel of a TLS client | violates Reclaimed |
| control_loop | one POST that changes the HTTPS port; the machine has its loopback address only | violates NoSelfDial |
| reader_body | a POST with a body of three lines, and a second request | violates NamesAreOriginal |

NoCircularWait and LocksAreHeldInTurn are what the liveness properties next to them rest
on, stated of single states so that they can be proved: a handler that waits for an
uploader has closed the pipe that one reads, a chunk handed to an open pipe has somebody
who takes it, and a lock is held only by somebody at a step that asks for no other.

The violated ones are disagreements between the code and its own comments; the
findings in PROJECT.json quote both:

- a reload that blocks a client takes its WebSocket over plain HTTP off the list and does
  not close it, where CloseBlockedConnections is to close the active connections of a
  blocked source (actions.go:205);
- two overlapping POSTs can install the older access rules last;
- CONNECT through the HTTPS listener dies on a nil counter and leaves its record;
- after a POST that changes the port the loop check guards the new port, and the proxy
  dials its own listener on the old one;
- behind a request with a body, the reader takes that body for the head of the next
  request and its header names lose their spelling.

Section 5 has a theorem for each of the five that says where it stops: at WebSockets
outside a tunnel (GateHolds), with one poster (OnePostKeepsRules), for every record but
that of a relay over TLS (ReturnedAreTombstones), while no configuration moves a port
and for addresses the check cannot miss (NoKnownLoop), and behind a request without a
body (NamesAreKeptBehindNoBody).

### Bounds

Sessions do not interact except through the table, the rules, the counters and a common
parent; so one session of each kind, against every reader of the table, shows every
pair, and two or three together the triples with a reload. Each session goes through its
handler once: session numbers are never reused. Three configurations (off, on and
blocking a host, on and blocking a client) contain every change of the switch and of the
block list that matters to one client, a blocked host, and a host that is not. Two
sessions put a request inside a kept connection, and another client's connection beside
one that is blocked. `intercepts` is not bounded by a constant: a session counts at most
twice.

`MaxChunks = 2` has a body with a first and a last chunk, cut short in between;
`MaxBytes = 2` does the same for a relay. `Retention = 1` distinguishes young, due and
zero ages; `age` stops at `Old`, as nothing looks further.

`MaxPosts = 2` lets one POST overlap another and follow it, with a crash or a failed
save anywhere; the routing contents are chosen so that rule lists and dialer lists of
different reloads disagree (a target without its node), with rules that are skipped for
each of the four reasons. The machine has the three kinds of address that the loop check
may tell apart: always on its list, only on a new list or in some PublicIPs, and only
through a lookup; one listener's port is asked for, and a mutant that forgets it is
caught. `Offers` of three log messages against a channel of one and a batch of two gives
a dropped message, a batch that is full and one that the ticker sends; one interception
is enough to compare it with its count. One panel shares its writeMu between two
pushers. `MaxCleans = 2` puts a clean-up before and during a session's second lookup;
the two sessions of one user and host are the ones that share counters (a third one
gives more than ten million states, and the theorems hold for any number).

CHECK_DEADLOCK is off in four instances: where bounds or finished sessions really end
the behaviour (panels, tunnel, users, reader_body). No symmetry is used.

### Fairness

- AccessGate: a goroutine that serves a POST runs to its end (`WF` of Reload); it
  waits for no peer. No handler is assumed to end and nobody has to post.
- ConnTable: the pusher's ticker runs for ever; a panel command that has begun runs
  to its end; MarkConnectionClosed finishes. A session that was closed is *not* assumed
  to end, since a relay may still wait for the server and a request for a client that
  does not read; so Reclaimed speaks of handlers that have returned. It excuses the
  case of closeAllConnections being pressed for ever, which writes EndTime anew.
- BodyCapture: the uploader's steps, unless it waits for data nobody sends; the
  handler's closing steps; failing pipe writes. MinIO has a 30 minute deadline, so it
  answers or fails. The peers need not send or take anything.
- RouteTable: `WF` of the start, of a POST that has begun and of a request on its way to
  its dialer: none waits for a peer. `SF` where a goroutine waits for a lock that others
  take again and again (SwapDialers, and the two places where a request reads the
  configuration): Go's mutexes hand the lock to a waiter that starves.
- PanelHub: `WF` of a pusher, whose write has a deadline of two seconds, and of the
  message loop that has lost its socket; `SF` of Lock, for writeMu, which the pushers
  take from one another. No panel has to read or leave,
  nobody has to offer.
- TunnelRelay: `WF` of each copy and of the goroutine that waits for them. No peer has
  to send, to end or to read, and no parent has to answer.
- UserTraffic, RequestReader: safety only, no fairness.

## 4. Mutants

Operators whose comment begins with "Mutant:" are not models of the code. Each stands
before the definition it would replace and is a bug the code might have had (a dropped
test, a missing wait, a lock left out, a deadline not set); with it the named property
fails.

## 5. Proofs

All theorems hold for every value of the constants under the assumptions the module
states on them, and for any number of sessions, POSTs, panels or bytes.
The last column has what a theorem assumes besides; the instances satisfy it.

| Module | Theorem | Statement | Extra assumption |
|---|---|---|---|
| AccessGate_proofs | TypeCorrect | Spec => []TypeOK | - |
| | OpenAreListed | Spec => []OpenIsListed | - |
| | GateHolds | Spec => []NoBlockedSurvivor | - |
| | OnePostKeepsRules | Spec => []RulesFollowConfig | one poster |
| ConnTable_proofs | TypeCorrect | Spec => []TypeOK | - |
| | OpenAreListed | Spec => []OpenIsListed | - |
| | SweepsAreComplete | Spec => []SweepIsComplete | - |
| | ReturnedAreTombstones | Spec => []ReturnedIsTombstone (in the module) | - |
| BodyCapture_proofs | TypeCorrect | Spec => []TypeOK | - |
| | HandlerCleansUp | Spec => []NothingLeftBehind | - |
| | UploadsAreWhole | Spec => []UploadIsWholeRead | - |
| | SkippedStaysHidden | Spec => []SkippedIsNotReported | - |
| | NoCircularWaits | Spec => []NoCircularWait | - |
| RouteTable_proofs | TypeCorrect | Spec => []TypeOK | - |
| | FileStaysWhole | Spec => []FileIsWhole | - |
| | AckedStaysDurable | Spec => []AckedIsDurable | - |
| | DiskNeverGoesBack | Spec => [][NewerOnDisk]_vars (in the module) | - |
| | RulesHaveDialers | Spec => []TargetHasDialer | - |
| | LocksInTurn | Spec => []LocksAreHeldInTurn | - |
| | RoutesFollowConfig | Spec => []RouterFollowsConfig | - |
| | RoutingIsAtomic | Spec => AtomicRouting (refinement) | - |
| | NoKnownLoop | Spec => []NoKnownSelfDial | - |
| TunnelRelay_proofs | TypeCorrect | Spec => []TypeOK | - |
| | EofIsHonest | Spec => []EofMeansAll | - |
| | RelayIsHonestPipe | Spec => PipeIsHonest (refinement) | - |
| | OverIsClosed | Spec => []NothingStaysOpen (in the module) | - |
| PanelHub_proofs | TypeCorrect | Spec => []TypeOK | - |
| | CountIsCovering | Spec => []CountCoversList | "intercept_logs" is a stream |
| | ShowsInOrder | Spec => InOrder (refinement) | - |
| | NothingAcceptedIsLost | Spec => []AcceptedAreShown | - |
| UserTraffic_proofs | TypeCorrect | Spec => []TypeOK | - |
| | FiguresGrow | Spec => FiguresNeverShrink | - |
| | ListedIsShown | Spec => []ListedTrafficIsShown | - |
| RequestReader_proofs | SearchIsBodyAndHead | Spec => []SearchesBodyAndHead (in the module) | WellFormed |
| | NamesAreKeptBehindNoBody | Spec => []NamesFollowNoBody (in the module) | WellFormed |

The arguments:

- **AccessGate, listing.** OpenIsListed needs to know which phases keep the record
  Active, that a session whose record was deleted has been cut, and that whoever is about
  to delete has already cut it. For a session inside another one it needs that the parent
  is served as long as its request is under way (ParentsServe): then the record of the
  session that holds the client's socket is Active too (LeadIsListed). Together they are
  ListInv.
- **AccessGate, gate.** NoBlockedSurvivor is strengthened to BannedIsHunted, which speaks
  of every state and not only the quiet ones: when a session that was asked about is open
  for a blocked client, some POST in flight has yet to meet its Lead. That POST has not
  started its scan, or has the Lead's key still to visit, or has it in hand; closing the
  Lead cuts whatever is inside. The argument uses the two orders the code keeps: a
  handler stores its record before it reads the rules (http.go:44 and 60), and a POST
  swaps the rules before it ranges over the table (proxy.go:268-269). A POST that could
  not save turns `saved` off, and nothing is claimed until a later one turns it on, which
  then has its scan before it. The theorem is about what was asked: the engine's
  connection, and a WebSocket outside a tunnel, are outside it by name.
- **AccessGate, rules.** RulesFollowConfig for one poster: between
  UpdateConfig and SwapRules the POST is not idle, and nobody else can replace what it
  built.
- **ConnTable.** The invariant adds to OpenIsListed that second objects are fresh, that
  the panel cuts before it deletes or marks, that what the pusher is about to delete is
  not open and cannot become so, and, for SweepIsComplete, that what a command set out to
  close is still on its list, or at hand, or no longer open. Apart from it, TombstoneInv:
  what a handler has marked stays marked, since nobody writes "Active" again, and only a
  relay gets to the second Store, where one over TLS panics.
- **BodyCapture.** As long as nothing has failed the uploader took all that was read but
  the chunk in hand (TakenIsRead); nothing but its own leaving, or a closed pipe, can have
  failed before (PipesAndUploaders); a handler past its Close has an uploader that is over
  (HandlerWaits); only the last step of the handler reports (ReportIsLast). For
  NoCircularWait, PipesAreServed: an open pipe has an uploader that is not past reading
  it, and whoever waits for an uploader has closed the pipe; that a chunk never comes
  behind the length an uploader reads follows from TakenIsRead and from the bound on what
  is read of a body.
- **RouteTable, disk.** DiskInv: whoever holds the lock writes `current` (SavesCurrent),
  a start writes back what it has read (BootSavesFile), and what a POST has saved or
  acknowledged stays, since numbers only grow (SavedIsKept). A failed load keeps its
  hands off the file: that is what makes AckedIsDurable survive a start. A POST that
  renames has a newer number than the file, and a start renames what the file held, so
  the file never goes back (DiskNeverGoesBack).
- **RouteTable, locks.** MutexInv: `lock` names a poster or the start exactly while that
  one writes or renames, on every way out of a save, a kill included. LockInv: at most one POST swaps, and no request is between its
  two copies while one does (OneSwaps, ReadersApart); so a snapshot has rules and dialers
  of one configuration, and a usable rule of a configuration has its dialer there.
  FollowInv adds that a POST which met no other one is the only one, and its
  configuration the current one (PostAlone).
- **RouteTable, refinement.** Each step maps to a step of AtomicRouter or a stutter:
  SwapRules and Open to Reload, CopyRules to Decide, a ReadRouteEnable that finds routing
  off to DecideDirect, Finish to Ask, Crash to Restart. Match stutters, because by LockInv
  the walk gives what the snapshot already said.
- **RouteTable, loops.** While no configuration moves a port, the listeners are on the
  ports that the check asks about, whichever configuration it reads. A host is Known when
  it is a loopback address, which every list holds, or in every configuration's
  PublicIPs: then every verdict of the check is a loop, whatever list and lookup
  (KnownIsLoop), so such a dial is refused, and what was passed is not changed while the
  connection is open (LoopInv). Nothing is said of the machine's other addresses, and
  nothing could be: an old list or a failed lookup lets them through. That the ports stay
  is a hypothesis inside the property, because the claim is false without it
  (control_loop).
- **TunnelRelay.** Conserved: what a peer was given, what the copy holds and what waits
  add up to no more than was sent. While nobody has broken the session they add up
  exactly, and a half closed direction has ended with nothing left (Direction, RelayInv).
- **TunnelRelay, refinement.** Send and Shut map to Send and End, a Write to Deliver, a
  half close to Tell, a step that cuts, fails or loses a peer to Break, and everything
  else to a stutter. A Write may not come behind the end: that takes EndInv, a socket on
  which the end was told is not writable any more. BrokenGrows: `Broken`, though made of
  the program counters, is never taken back. OverInv, for OverIsClosed: nobody opens a
  socket again.
- **PanelHub.** CountInv: the number of the last message offered is at most the count,
  a batch on its way is covered by the figure sent with it, and the figure on the screen
  is no newer than the last one read.
- **PanelHub, order.** RoundInv: a pusher has at most one panel before it, and visits it
  once in a round. OrderInv: what a screen shows of a stream is older than the batch, as
  long as the batch has yet to come to that panel, and the batch is older than the
  channel; so appending a message keeps the screen in order. The filter keeps the order
  because what it leaves is a part of the batch, place by place.
- **PanelHub, delivery.** AcceptInv: a message that was accepted since the panel
  subscribed as it does now, and that its level lets through, is in the channel, or shown,
  or in a batch that has yet to come to it; while the batch is written to the panel it is
  in that message. A panel that closes, or leaves, is promised nothing.
- **UserTraffic.** A listed session that is not late protects its address: a command
  that is under way has it protected or still to visit, so the user it found stays in the
  map, and the counter it takes is the one shown (ListedInv). FiguresGrow: maps and
  counters only grow between clean-ups, because both creations look again under the
  writer's lock.

- **RequestReader.** PlaceInv: at the search the clone begins at the end of the head
  before and the buffer ends the head of this request, so what is taken is the body
  between and this head, whatever was read ahead (SearchIsBodyAndHead). Where no body is
  between, the lines that are read are the lines of the head, none without a name, and
  for every canonical name the first other spelling is taken, or none is there (HeaderInv,
  NamesAreKeptBehindNoBody).

Induction over data. What Kept and FlattenSeq compute for every input is proved by the
least counterexample: the least number at which a recursive function fails to satisfy the
claim exists because the natural numbers are well-founded (lemma Least, from WFMin and
NatLessThanWellFounded), and the equation of the function refutes it. No induction
theorem with an operator parameter is used.

WellFormed says that RequestReader's constants are a connection: requests with names and
pieces of a body, no name being one of the marks for lines without one. It is a
hypothesis of the two theorems and not an assumption of the module, because the only run
of that module is one that stops at a violation; the constants of MCRequestReader satisfy
it.

Only model-checked: liveness, which is out of the prover's reach (Expelled, Reclaimed,
BodyGoesOn, CloseReturns, NobodyIsStuck, SendingEnds, GoneAreRemoved, TunnelEnds,
WebSocketEnds, CutIsHeard). Every invariant and every action property or refinement that
a passing run checks has its theorem.

## 6. Not modelled, and what the models show besides

Certificates, TLS, static files, the storage API and chunked formatting have no
interleavings of their own. Addresses, URLs, patterns and headers are abstracted to the
sets that tell clients, hosts and rules apart. The first-byte sniffing of a CONNECT, the
TLS handshake of a decrypted tunnel, header rewriting and the flushing of event streams
are left out, and so is the parsing of log lines. Data races are modelled where they
decide something (Status and EndTime); the pusher's racy reads of counters are not.
Nothing in the code syncs a file, so a power failure is
outside the model. AddDialer, AddRule, ctx.Dialer, ConnectDial and Save have no caller in
this configuration of the program; the branch of https.go:482-497 for a client without
half closes cannot be reached, since the handler panics before. There is no orderly
shutdown.

The models show some things that no run is spent on, because no line of the code says
otherwise:

- the gate is never asked about the connection that the HTTP engine keeps: with
  ConnectMaintain a blocked client that connects after the scan keeps an open connection,
  listed as Active, on which its requests are refused one by one (AccessGate, OpenEngine
  and `Asked`);
- an address of the machine that is neither a loopback address nor in PublicIPs (which is
  empty unless set) can be missed by the loop check while its list is old or a lookup
  fails (RouteTable, Verdicts and `Known`);
- the pusher may see Status before EndTime and collect a record that has just closed,
  without its three seconds (ConnTable);
- a request that enters a decrypted tunnel during closeConnection survives it
  (ConnTable);
- the second record of a tunnel that was closed before it lists the tunnel again until
  its relay ends (AccessGate, ConnTable);
- after a failed save memory and file, router and controller disagree until the next
  POST (AccessGate, RouteTable);
- overlapping POSTs can leave the router with the older table, as they can the access
  rules (RouteTable; RouterFollowsConfig has `alone`);
- a POST decodes into an empty configuration, so a field it leaves out is reset;
- the request transport through a parent proxy checks only the parent for a loop, a
  tunnel through a parent its target as well (RouteTable, `Loops`);
- the error of a failed round trip is kept in an exchange that nothing sends
  (BodyCapture);
- a 200 that cannot be written leaves both sockets open, a parent's refusal that breaks
  off in its body leaves that connection open, and its answer has no deadline
  (TunnelRelay: AnswerFails, ParentBreaksOff, ParentAccepts without fairness);
- what the parent's answer brought along in its buffer is dropped, which is harmless
  while the client speaks first (TunnelRelay, MaySpeak);
- the second pass through the hooks counts interceptions that refuse nothing
  (AccessGate, RecheckTunnel);
- a session that registers while cleanOfflineUsers collects addresses may count into
  figures that are not shown (UserTraffic, `late`).

## 7. Plan

Done: every component but those of section 6, with proofs for every module, and a theorem
for every property of a passing run that is not liveness.

What could follow:

1. The first-byte sniffing and the choice of strategy of a CONNECT, with the peers of
   TunnelRelay.
2. An abstract registry that only knows open and closed sessions, which ConnTable
   implements, and the composition of ConnTable's relayed session with TunnelRelay.
3. Larger instances of PanelHub (two panels) and UserTraffic (three sessions).

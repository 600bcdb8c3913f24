----------------------------- MODULE ConnTable ------------------------------
(***************************************************************************)
(* The connection table (CoreHttpServer.Connections) over the life of its  *)
(* records: handlers that store and mark them, the control panel that      *)
(* closes connections, and the connection pusher that collects tombstones. *)
(*                                                                         *)
(* A record is an object that the table points to: a relayed tunnel stores *)
(* a second object under the key of the first, and whoever loaded the      *)
(* first one before still writes to it.  Marking writes Status and EndTime *)
(* without a lock, so the two writes are two steps.                        *)
(***************************************************************************)
EXTENDS Naturals, FiniteSets

CONSTANTS
  Sessions,     \* sessions of the proxy
  Clients,      \* source addresses
  Profiles,     \* what the sessions of one behaviour may be
  NoParent,
  Retention     \* rounds of the pusher that a tombstone outlives

\* A request (no WebSocket), an accepted CONNECT, or a decrypted one, which also
\* stands for the engine's kept connection (HTTP_MUX); its source address; the
\* tunnel a request is inside of, or NoParent; whether the client came in
\* through the HTTPS listener.
Profile == [kind : {"REQ", "RELAY", "MITM"}, client : Clients,
            parent : Sessions \cup {NoParent}, tls : BOOLEAN]

ASSUME ProfilesAssumption == /\ NoParent \notin Sessions
                             /\ Profiles \subseteq [Sessions -> Profile]
ASSUME RetentionAssumption == Retention \in Nat

\* The age of an expired tombstone, and that of a record without an EndTime:
\* the zero time is longer ago than any retention.
Old == Retention + 1
Zero == Old + 1
Objects == {1, 2}

VARIABLES
  profile,  \* what each session is
  phase,    \* where the handler of a session is
  table,    \* the object the table holds for a session, 0 for none
  status,   \* Status of each object
  age,      \* rounds of the pusher since EndTime of each object
  cut,      \* OnClose has been called
  push,     \* the pusher: keys to visit, and the key it is about to delete
  panel     \* the command of the control panel that is being carried out

vars == <<profile, phase, table, status, age, cut, push, panel>>

Phases == {"new", "running", "dialed", "relaying", "marked", "panicked", "done"}

\* Of a command: what it still has to visit, the record it is at, and (for
\* SweepIsComplete) the sessions it set out to close.
PanelSteps == {"idle", "range", "stamp", "delete"}
NoCommand == [step |-> "idle", remove |-> FALSE, wanted |-> {}, keys |-> {},
              last |-> {}, at |-> {}, swept |-> {}]

TypeOK ==
  /\ profile \in Profiles
  /\ phase \in [Sessions -> Phases]
  /\ table \in [Sessions -> {0} \cup Objects]
  /\ status \in [Sessions -> [Objects -> {"Active", "Closed"}]]
  /\ age \in [Sessions -> [Objects -> 0 .. Zero]]
  /\ cut \in [Sessions -> BOOLEAN]
  /\ push \in [active : BOOLEAN, keys : SUBSET Sessions, dead : SUBSET Sessions]
  /\ panel \in [step : PanelSteps, remove : BOOLEAN, wanted : SUBSET Sessions,
                keys : SUBSET Sessions, last : SUBSET Sessions,
                at : SUBSET (Sessions \X Objects), swept : SUBSET Sessions]

Init ==
  /\ profile \in Profiles
  /\ phase = [s \in Sessions |-> "new"]
  /\ table = [s \in Sessions |-> 0]
  /\ status = [s \in Sessions |-> [i \in Objects |-> "Active"]]
  /\ age = [s \in Sessions |-> [i \in Objects |-> Zero]]
  /\ cut = [s \in Sessions |-> FALSE]
  /\ push = [active |-> FALSE, keys |-> {}, dead |-> {}]
  /\ panel = NoCommand

Keys == {s \in Sessions : table[s] # 0}

Goto(s, from, to) == phase[s] = from /\ phase' = [phase EXCEPT ![s] = to]

\* Mutant: the status is spelled differently where it is written.
MarkStatusLowercase(s) ==
  status' = IF table[s] = 0 THEN status
            ELSE [status EXCEPT ![s][table[s]] = "closed"]

\* The first write of MarkClosed, to the object that Load returns; with no
\* record there is nothing to mark.
MarkStatus(s) ==
  status' = IF table[s] = 0 THEN status
            ELSE [status EXCEPT ![s][table[s]] = "Closed"]

-----------------------------------------------------------------------------
(* Handlers. *)

Children(s) == {k \in Sessions : profile[k].parent = s}
Running(s) == phase[s] \in {"running", "dialed", "relaying"}

\* A record is stored when the handler starts; a request inside a tunnel is
\* read by the tunnel's loop, one at a time.  Ranges under way may see it.
Register(s) ==
  /\ profile[s].parent # NoParent =>
       /\ phase[profile[s].parent] = "running"
       /\ \A k \in Children(profile[s].parent) : phase[k] \in {"new", "done"}
  /\ Goto(s, "new", "running")
  /\ table' = [table EXCEPT ![s] = 1]
  /\ push' \in {push} \cup (IF push.active THEN {[push EXCEPT !.keys = @ \cup {s}]} ELSE {})
  /\ panel' \in {panel} \cup (IF panel.step # "idle" /\ s \in panel.wanted
                              THEN {[panel EXCEPT !.keys = @ \cup {s}]} ELSE {})
  /\ UNCHANGED <<profile, status, age, cut>>

\* A CONNECT is dialled and "200 Connection established" written.
Accept(s) ==
  /\ profile[s].kind = "RELAY"
  /\ ~cut[s]
  /\ Goto(s, "running", "dialed")
  /\ UNCHANGED <<profile, table, status, age, cut, push, panel>>

\* The relay's record is stored over the first one.  The record takes the
\* address of counters that do not exist for a client connection that cannot
\* be closed in halves, which a TLS connection cannot: the handler panics.
StoreTunnel(s) ==
  /\ IF profile[s].tls
     THEN Goto(s, "dialed", "panicked") /\ UNCHANGED table
     ELSE Goto(s, "dialed", "relaying") /\ table' = [table EXCEPT ![s] = 2]
  /\ UNCHANGED <<profile, status, age, cut, push, panel>>

\* Mutant: a handler that was cut returns without marking its record.
FinishUnmarked(s) ==
  /\ \A k \in Children(s) : phase[k] \in {"new", "done"}
  /\ IF cut[s]
     THEN /\ Goto(s, "running", "done") \/ Goto(s, "relaying", "done")
          /\ UNCHANGED status
     ELSE /\ Goto(s, "running", "marked") \/ Goto(s, "relaying", "marked")
          /\ MarkStatus(s)
  /\ UNCHANGED <<profile, table, age, cut, push, panel>>

\* The session ends (delivered, refused, failed, cut, or its peers have left)
\* and marks its record: first Status...
Finish(s) ==
  /\ \A k \in Children(s) : phase[k] \in {"new", "done"}
  /\ Goto(s, "running", "marked") \/ Goto(s, "relaying", "marked")
  /\ MarkStatus(s)
  /\ UNCHANGED <<profile, table, age, cut, push, panel>>

\* ...then EndTime.  Only this handler stores under its key, so the object is
\* the one it marked, unless the record has been deleted meanwhile.
Stamp(s) ==
  /\ Goto(s, "marked", "done")
  /\ age' = IF table[s] = 0 THEN age ELSE [age EXCEPT ![s][table[s]] = 0]
  /\ UNCHANGED <<profile, table, status, cut, push, panel>>

-----------------------------------------------------------------------------
(* The connection pusher. *)

\* A round starts: it takes the time, and ranges over the table.
StartRound ==
  /\ ~push.active
  /\ age' = [s \in Sessions |-> [i \in Objects |->
               IF age[s][i] < Old THEN age[s][i] + 1 ELSE age[s][i]]]
  /\ push' = [active |-> TRUE, keys |-> Keys, dead |-> {}]
  /\ UNCHANGED <<profile, phase, table, status, cut, panel>>

\* Mutant: the pusher looks at the age only.
ExpiredByAge(s) == table[s] # 0 /\ age[s][table[s]] > Retention

Expired(s) == /\ table[s] # 0
              /\ status[s][table[s]] = "Closed"
              /\ age[s][table[s]] > Retention

VisitRecord(s) ==
  /\ push.dead = {} /\ s \in push.keys
  /\ push' = [push EXCEPT !.keys = @ \ {s}, !.dead = IF Expired(s) THEN {s} ELSE {}]
  /\ UNCHANGED <<profile, phase, table, status, age, cut, panel>>

\* The deletion is by key: it takes whatever object is there by then.
DeleteExpired(s) ==
  /\ s \in push.dead
  /\ table' = [table EXCEPT ![s] = 0]
  /\ push' = [push EXCEPT !.dead = {}]
  /\ UNCHANGED <<profile, phase, status, age, cut, panel>>

\* The rest of the round sorts and sends the list.
EndRound ==
  /\ push.active /\ push.keys = {} /\ push.dead = {}
  /\ push' = [push EXCEPT !.active = FALSE]
  /\ UNCHANGED <<profile, phase, table, status, age, cut, panel>>

Pusher ==
  \/ StartRound \/ EndRound
  \/ \E s \in Sessions : VisitRecord(s) \/ DeleteExpired(s)

-----------------------------------------------------------------------------
(* The control panel. *)

\* Mutant: the command stops after the range.
CommandRangeOnly(remove, wanted, last) ==
  /\ panel.step = "idle"
  /\ panel' = [step |-> "range", remove |-> remove, wanted |-> wanted,
               keys |-> wanted \cap Keys, last |-> {}, at |-> {},
               swept |-> (wanted \cup last) \cap Keys]
  /\ UNCHANGED <<profile, phase, table, status, age, cut, push>>

\* A command ranges over the records it wants, then turns to the last one.
Command(remove, wanted, last) ==
  /\ panel.step = "idle"
  /\ panel' = [step |-> "range", remove |-> remove, wanted |-> wanted,
               keys |-> wanted \cap Keys, last |-> last, at |-> {},
               swept |-> (wanted \cup last) \cap Keys]
  /\ UNCHANGED <<profile, phase, table, status, age, cut, push>>

CloseAllConnections == Command(FALSE, Sessions, {})

CloseUserConnections(ip) == Command(TRUE, {s \in Sessions : profile[s].client = ip}, {})

\* The children of the session first, then the session itself.  A relayed
\* tunnel's second record names the tunnel as its own parent.
CloseConnection(id) ==
  Command(TRUE, Children(id) \cup {s \in {id} : table[s] = 2}, {id})

\* OnClose of the record, when there is one.
PanelCloses(s) ==
  /\ panel.step = "range" /\ panel.at = {}
  /\ \/ s \in panel.keys
     \/ panel.keys = {} /\ s \in panel.last
  /\ cut' = [cut EXCEPT ![s] = @ \/ table[s] # 0]
  /\ panel' = [panel EXCEPT !.keys = @ \ {s},
                            !.last = IF s \in panel.keys THEN @ ELSE @ \ {s},
                            !.at = IF table[s] = 0 THEN {} ELSE {<<s, table[s]>>},
                            !.step = IF table[s] # 0 /\ panel.remove THEN "delete" ELSE "range"]
  /\ UNCHANGED <<profile, phase, table, status, age, push>>

\* closeConnection and closeUserConnections delete the record, by key.
PanelDeletes(s) ==
  /\ panel.step = "delete" /\ s \in {o[1] : o \in panel.at}
  /\ table' = [table EXCEPT ![s] = 0]
  /\ panel' = [panel EXCEPT !.step = "range", !.at = {}]
  /\ UNCHANGED <<profile, phase, status, age, cut, push>>

\* closeAllConnections marks the record that is there now...
PanelMarks(s) ==
  /\ panel.step = "range" /\ s \in {o[1] : o \in panel.at}
  /\ MarkStatus(s)
  /\ panel' = [panel EXCEPT !.step = IF table[s] = 0 THEN "range" ELSE "stamp",
                            !.at = IF table[s] = 0 THEN {} ELSE {<<s, table[s]>>}]
  /\ UNCHANGED <<profile, phase, table, age, cut, push>>

\* ...and writes its EndTime, even if it has been replaced since.
PanelStamps(s, i) ==
  /\ panel.step = "stamp" /\ <<s, i>> \in panel.at
  /\ age' = [age EXCEPT ![s][i] = 0]
  /\ panel' = [panel EXCEPT !.step = "range", !.at = {}]
  /\ UNCHANGED <<profile, phase, table, status, cut, push>>

CommandDone == panel.step = "range" /\ panel.keys = {} /\ panel.last = {} /\ panel.at = {}

EndCommand ==
  /\ CommandDone
  /\ panel' = NoCommand
  /\ UNCHANGED <<profile, phase, table, status, age, cut, push>>

\* A command that has begun: the goroutine of the panel's WebSocket.
PanelStep ==
  \/ EndCommand
  \/ \E s \in Sessions :
       \/ PanelCloses(s) \/ PanelDeletes(s) \/ PanelMarks(s)
       \/ \E i \in Objects : PanelStamps(s, i)

-----------------------------------------------------------------------------
Handler(s) == Register(s) \/ Accept(s) \/ StoreTunnel(s) \/ Finish(s) \/ Stamp(s)

Next ==
  \/ \E s \in Sessions : Handler(s)
  \/ Pusher
  \/ CloseAllConnections \/ PanelStep
  \/ \E ip \in Clients : CloseUserConnections(ip)
  \/ \E id \in Sessions : CloseConnection(id)

\* The pusher's ticker never stops, a command that has begun runs to its end,
\* and a handler that has written Status writes EndTime.  Nothing else has to
\* happen: a session that was closed from the panel may still wait for the other
\* peer, and it ends when that one lets it.
Fairness ==
  /\ WF_vars(Pusher)
  /\ WF_vars(PanelStep)
  /\ \A s \in Sessions : WF_vars(Stamp(s))

Spec == Init /\ [][Next]_vars /\ Fairness

-----------------------------------------------------------------------------
(* Properties. *)

Open(s) == Running(s) /\ ~cut[s]

\* A session that carries traffic has an Active record: the panel shows it and
\* can close it, whatever marks, deletions and second stores went on.
OpenIsListed ==
  \A s \in Sessions : Open(s) => table[s] # 0 /\ status[s][table[s]] = "Active"

\* The record of a session whose handler has returned is deleted in the end,
\* whatever was marked, deleted and stored again meanwhile, unless "close all"
\* is pressed for ever: it writes the EndTime of every tombstone anew
\* (hub.go:145-150 collects, connections.go:25-36 marks).
Returned(s) == phase[s] \in {"panicked", "done"}
ClosingAll == panel.step # "idle" /\ ~panel.remove

Reclaimed ==
  \/ []<>ClosingAll
  \/ \A s \in Sessions : Returned(s) ~> table[s] = 0

\* A command that has visited its last record has closed every session it set
\* out to close, those that were registered when it began.
SweepIsComplete == CommandDone => \A s \in panel.swept : ~Open(s)
=============================================================================

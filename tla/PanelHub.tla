------------------------------ MODULE PanelHub ------------------------------
(***************************************************************************)
(* The WebSocket hub of the control panel: messages of several streams     *)
(* (logs, interceptions, exchanges) go into bounded channels that drop     *)
(* what does not fit; one pusher per stream collects them into batches and *)
(* writes every batch to the panels that subscribe to the stream, one      *)
(* panel after the other.  A panel comes, subscribes, may stop reading and *)
(* may leave at any time; a write to it is given two seconds.              *)
(*                                                                         *)
(* Messages of a stream are numbered in the order they are offered to its  *)
(* channel.                                                                *)
(***************************************************************************)
EXTENDS Naturals, Sequences, FiniteSets, SequencesExt

CONSTANTS
  Streams,    \* "logs", "intercept_logs", "mitm_detail": the topics with a channel
  Panels,     \* control panels, one connection each
  Capacity,   \* of every channel
  Limit,      \* the length at which a pusher sends its batch, for every stream
  Offers,     \* bound: messages offered to every stream
  LevelOf,    \* the level of the log message of a given number
  Requests    \* what a panel may subscribe to: topics and the level of logs

ASSUME StreamsAssumption ==
  /\ Streams \subseteq {"logs", "intercept_logs", "mitm_detail"}
  /\ Capacity \in [Streams -> Nat \ {0}]
  /\ Limit \in [Streams -> Nat \ {0}]
  /\ Offers \in [Streams -> Nat]
ASSUME RequestsAssumption == \A q \in Requests : q.topics \subseteq Streams

VARIABLES
  intercepts, \* InterceptCount
  offered,    \* ghost: messages offered to the channel of a stream
  dropped,    \* ghost: those of them that did not fit
  chan,       \* LogChan, InterceptLogChan, GlobalExchangeChan
  batch,      \* what the pusher of a stream has collected
  pusher,     \* where it is
  figure,     \* the interceptCount in the message it is sending
  pending,    \* panels its Range has yet to visit
  target,     \* the panel it writes to, as a set
  message,    \* what it writes: the batch as that panel wants it
  clients,    \* WebSocketHub.clients
  socket,     \* the connection of a panel
  stalled,    \* panels that do not read and whose buffers are full
  topics,     \* the streams a panel subscribes to
  level,      \* its LogLevel
  since,      \* ghost: messages offered when it subscribed as it does now
  shown,      \* ghost: the messages of a stream that reached a panel
  total       \* ghost: the last interceptCount that reached it

streamVars == <<intercepts, offered, dropped, chan>>
pushVars == <<batch, pusher, figure, pending, target, message>>
panelVars == <<clients, socket, stalled, topics, level, since, shown, total>>
vars == <<streamVars, pushVars, panelVars>>

LogRank == [DEBUG |-> 0, INFO |-> 1, WARN |-> 2, ERROR |-> 3]

TypeOK ==
  /\ intercepts \in Nat
  /\ offered \in [Streams -> Nat]
  /\ \A s \in Streams : /\ dropped[s] \subseteq 1 .. offered[s]
                        /\ chan[s] \in Seq(1 .. offered[s]) /\ Len(chan[s]) <= Capacity[s]
                        /\ batch[s] \in Seq(1 .. offered[s]) /\ Len(batch[s]) <= Limit[s]
                        /\ message[s] \in Seq(1 .. offered[s])
  /\ pusher \in [Streams -> {"collect", "visit", "lock", "write"}]
  /\ figure \in Nat
  /\ pending \in [Streams -> SUBSET Panels]
  /\ target \in [Streams -> SUBSET Panels]
  /\ clients \subseteq Panels
  /\ socket \in [Panels -> {"none", "open", "closed"}]
  /\ stalled \subseteq Panels
  /\ topics \in [Panels -> SUBSET Streams]
  /\ level \in [Panels -> {"INFO"} \cup {q.level : q \in Requests}]

Init ==
  /\ intercepts = 0
  /\ offered = [s \in Streams |-> 0]
  /\ dropped = [s \in Streams |-> {}]
  /\ chan = [s \in Streams |-> <<>>]
  /\ batch = [s \in Streams |-> <<>>]
  /\ pusher = [s \in Streams |-> "collect"]
  /\ figure = 0
  /\ pending = [s \in Streams |-> {}]
  /\ target = [s \in Streams |-> {}]
  /\ message = [s \in Streams |-> <<>>]
  /\ clients = {}
  /\ socket = [c \in Panels |-> "none"]
  /\ stalled = {}
  /\ topics = [c \in Panels |-> {}]
  /\ level = [c \in Panels |-> "INFO"]
  /\ since = [c \in Panels |-> [s \in Streams |-> 0]]
  /\ shown = [c \in Panels |-> [s \in Streams |-> <<>>]]
  /\ total = [c \in Panels |-> 0]

-----------------------------------------------------------------------------
(* The producers. *)

\* pushInterceptLog counts first...
CountIntercept ==
  /\ "intercept_logs" \in Streams
  /\ intercepts < Offers["intercept_logs"]
  /\ intercepts' = intercepts + 1
  /\ UNCHANGED <<offered, dropped, chan, pushVars, panelVars>>

\* Mutant: the interception is offered before it is counted.
MayOfferEarly(s) == offered[s] < Offers[s]

\* ...and offers the message after; a log line or an exchange is just offered.
MayOffer(s) ==
  /\ offered[s] < Offers[s]
  /\ s = "intercept_logs" => offered[s] < intercepts

\* A channel that is full drops the message; the producer never waits.
Offer(s) ==
  /\ MayOffer(s)
  /\ offered' = [offered EXCEPT ![s] = @ + 1]
  /\ IF Len(chan[s]) < Capacity[s]
     THEN /\ chan' = [chan EXCEPT ![s] = Append(@, offered'[s])]
          /\ UNCHANGED dropped
     ELSE /\ dropped' = [dropped EXCEPT ![s] = @ \cup {offered'[s]}]
          /\ UNCHANGED chan
  /\ UNCHANGED <<intercepts, pushVars, panelVars>>

-----------------------------------------------------------------------------
(* The pushers. *)

Goto(s, from, to) == pusher[s] = from /\ pusher' = [pusher EXCEPT ![s] = to]

\* The message is made, with the count of interceptions of this moment, and the
\* Range over the panels begins.
BeginSend(s) ==
  /\ pending' = [pending EXCEPT ![s] = clients]
  /\ figure' = IF s = "intercept_logs" THEN intercepts ELSE figure

\* Mutant: the message that fills a batch is left out of it.
ReceiveLastLost(s) ==
  /\ chan[s] # <<>>
  /\ chan' = [chan EXCEPT ![s] = Tail(@)]
  /\ IF Len(batch[s]) + 1 < Limit[s]
     THEN /\ batch' = [batch EXCEPT ![s] = Append(@, Head(chan[s]))]
          /\ UNCHANGED <<pending, figure>> /\ Goto(s, "collect", "collect")
     ELSE BeginSend(s) /\ Goto(s, "collect", "visit") /\ UNCHANGED batch
  /\ UNCHANGED <<intercepts, offered, dropped, target, message, panelVars>>

\* Mutant: the batch is sent one message late.
ReceiveLate(s) ==
  /\ chan[s] # <<>>
  /\ chan' = [chan EXCEPT ![s] = Tail(@)]
  /\ batch' = [batch EXCEPT ![s] = Append(@, Head(chan[s]))]
  /\ IF Len(batch'[s]) > Limit[s]
     THEN BeginSend(s) /\ Goto(s, "collect", "visit")
     ELSE UNCHANGED <<pending, figure>> /\ Goto(s, "collect", "collect")
  /\ UNCHANGED <<intercepts, offered, dropped, target, message, panelVars>>

\* A message is collected; the one that fills the batch sends it.
Receive(s) ==
  /\ chan[s] # <<>>
  /\ chan' = [chan EXCEPT ![s] = Tail(@)]
  /\ batch' = [batch EXCEPT ![s] = Append(@, Head(chan[s]))]
  /\ IF Len(batch'[s]) >= Limit[s]
     THEN BeginSend(s) /\ Goto(s, "collect", "visit")
     ELSE UNCHANGED <<pending, figure>> /\ Goto(s, "collect", "collect")
  /\ UNCHANGED <<intercepts, offered, dropped, target, message, panelVars>>

\* The ticker sends what there is.
Tick(s) ==
  /\ batch[s] # <<>>
  /\ BeginSend(s)
  /\ Goto(s, "collect", "visit")
  /\ UNCHANGED <<streamVars, batch, target, message, panelVars>>

\* A level the hub does not know has no serialised batch.
Wants(c, i) ==
  LET threshold == IF level[c] = "" THEN "INFO" ELSE level[c] IN
  threshold \in DOMAIN LogRank /\ LogRank[LevelOf[i]] >= LogRank[threshold]

\* The messages of a sequence that are in T, in their order.
Kept(q, T) ==
  LET kept[k \in 0 .. Len(q)] ==
        IF k = 0 THEN <<>>
        ELSE IF q[k] \in T THEN Append(kept[k - 1], q[k]) ELSE kept[k - 1]
  IN  kept[Len(q)]

\* What a batch holds for a panel: a log batch is filtered by the panel's
\* level, any other is sent as it is.
For(c, s) ==
  IF s = "logs" THEN Kept(batch[s], {i \in 1 .. offered[s] : Wants(c, i)}) ELSE batch[s]

\* One panel of the Range: its subscription is read, and what it asks for is
\* on its way, whatever it asks for from now on.
VisitPanel(s, c) ==
  /\ pusher[s] = "visit" /\ c \in pending[s]
  /\ pending' = [pending EXCEPT ![s] = @ \ {c}]
  /\ IF s \in topics[c] /\ For(c, s) # <<>>
     THEN /\ pusher' = [pusher EXCEPT ![s] = "lock"]
          /\ target' = [target EXCEPT ![s] = {c}]
          /\ message' = [message EXCEPT ![s] = For(c, s)]
     ELSE UNCHANGED <<pusher, target, message>>
  /\ UNCHANGED <<streamVars, batch, figure, panelVars>>

Writing(c) == {s \in Streams : pusher[s] = "write" /\ c \in target[s]}

\* A write has to have the panel's writeMu.
Lock(s, c) ==
  /\ c \in target[s] /\ Goto(s, "lock", "write")
  /\ Writing(c) = {}
  /\ UNCHANGED <<streamVars, batch, figure, pending, target, message, panelVars>>

\* The write is over, one way or the other.
Written(s) ==
  /\ target' = [target EXCEPT ![s] = {}]
  /\ message' = [message EXCEPT ![s] = <<>>]

\* The message is written.
WriteDone(s, c) ==
  /\ c \in target[s] /\ Goto(s, "write", "visit")
  /\ socket[c] = "open" /\ c \notin stalled
  /\ Written(s)
  /\ shown' = [shown EXCEPT ![c][s] = @ \o message[s]]
  /\ total' = IF s = "intercept_logs" THEN [total EXCEPT ![c] = figure] ELSE total
  /\ UNCHANGED <<streamVars, batch, figure, pending, clients, socket, stalled, topics,
                 level, since>>

\* Mutant: no deadline is set.
WriteFailsOnlyWhenClosed(s, c) ==
  /\ c \in target[s] /\ Goto(s, "write", "visit")
  /\ socket[c] = "closed"
  /\ Written(s)
  /\ clients' = clients \ {c}
  /\ UNCHANGED <<streamVars, batch, figure, pending, socket, stalled, topics, level,
                 since, shown, total>>

\* The peer is gone, or has not read for two seconds: the panel is taken out
\* and its connection is closed.
WriteFails(s, c) ==
  /\ c \in target[s] /\ Goto(s, "write", "visit")
  /\ socket[c] = "closed" \/ c \in stalled
  /\ Written(s)
  /\ clients' = clients \ {c}
  /\ socket' = [socket EXCEPT ![c] = "closed"]
  /\ UNCHANGED <<streamVars, batch, figure, pending, stalled, topics, level, since,
                 shown, total>>

\* Mutant: the batch is not emptied.
EndSendKeepsBatch(s) ==
  /\ pending[s] = {}
  /\ Goto(s, "visit", "collect")
  /\ UNCHANGED <<streamVars, batch, figure, pending, target, message, panelVars>>

EndSend(s) ==
  /\ pending[s] = {}
  /\ Goto(s, "visit", "collect")
  /\ batch' = [batch EXCEPT ![s] = <<>>]
  /\ UNCHANGED <<streamVars, figure, pending, target, message, panelVars>>

-----------------------------------------------------------------------------
(* A panel and the goroutine that serves it. *)

\* Upgraded and stored, with no topic; a Range under way may or may not see it.
Connect(c) ==
  /\ socket[c] = "none"
  /\ socket' = [socket EXCEPT ![c] = "open"]
  /\ clients' = clients \cup {c}
  /\ \E S \in SUBSET {s \in Streams : pusher[s] # "collect"} :
       pending' = [s \in Streams |-> IF s \in S THEN pending[s] \cup {c} ELSE pending[s]]
  /\ UNCHANGED <<streamVars, batch, pusher, figure, target, message, stalled, topics, level,
                 since, shown, total>>

\* updateSubscription, from the message loop: topics and level.
Subscribe(c) ==
  /\ socket[c] = "open" /\ c \notin stalled
  /\ \E q \in Requests :
       /\ q # [topics |-> topics[c], level |-> level[c]]
       /\ topics' = [topics EXCEPT ![c] = q.topics]
       /\ level' = [level EXCEPT ![c] = q.level]
  /\ since' = [since EXCEPT ![c] = offered]
  /\ UNCHANGED <<streamVars, pushVars, clients, socket, stalled, shown, total>>

\* The panel stops reading, for good.
Stall(c) ==
  /\ socket[c] = "open" /\ c \notin stalled
  /\ stalled' = stalled \cup {c}
  /\ UNCHANGED <<streamVars, pushVars, clients, socket, topics, level, since, shown, total>>

\* The panel leaves; its socket fails from now on.
Leave(c) ==
  /\ socket[c] = "open"
  /\ socket' = [socket EXCEPT ![c] = "closed"]
  /\ UNCHANGED <<streamVars, pushVars, clients, stalled, topics, level, since, shown, total>>

\* Mutant: the deferred Delete is missing.
ReadFailsUnlisted(c) == socket[c] = "closed" /\ c \in clients /\ UNCHANGED vars

\* The message loop ends with an error; the deferred Delete and Close follow.
ReadFails(c) ==
  /\ socket[c] = "closed" /\ c \in clients
  /\ clients' = clients \ {c}
  /\ UNCHANGED <<streamVars, pushVars, socket, stalled, topics, level, since, shown, total>>

-----------------------------------------------------------------------------
Push(s) ==
  \/ Receive(s) \/ Tick(s) \/ EndSend(s)
  \/ \E c \in Panels :
       VisitPanel(s, c) \/ Lock(s, c) \/ WriteDone(s, c) \/ WriteFails(s, c)

Panel(c) == Connect(c) \/ Subscribe(c) \/ Stall(c) \/ Leave(c)

Next ==
  \/ CountIntercept
  \/ \E s \in Streams : Offer(s) \/ Push(s)
  \/ \E c \in Panels : Panel(c) \/ ReadFails(c)

\* A pusher and a message loop that can go on do; a goroutine that waits for a
\* panel's writeMu gets it.  Nobody has to offer, to come, to read or to leave.
Spec ==
  /\ Init /\ [][Next]_vars
  /\ \A s \in Streams : WF_vars(Push(s))
  /\ \A s \in Streams, c \in Panels : SF_vars(Lock(s, c))
  /\ \A c \in Panels : WF_vars(ReadFails(c))

-----------------------------------------------------------------------------
(* Properties. *)

\* What a stream has accepted since the panel subscribed as it does now.
Accepted(c, s) == {i \in since[c][s] + 1 .. offered[s] : i \notin dropped[s]}

\* A message is lost in the channel or not at all: what was accepted since a
\* panel subscribed is in the channel, in the batch that has yet to reach it,
\* or on its screen, as long as the panel is connected and asks for that level.
AcceptedAreShown ==
  \A c \in clients : socket[c] = "open" =>
    \A s \in topics[c] : \A i \in Accepted(c, s) :
      \/ s = "logs" /\ ~ Wants(c, i)
      \/ Contains(chan[s], i)
      \/ Contains(shown[c][s], i)
      \/ /\ Contains(batch[s], i)
         /\ pusher[s] = "collect" \/ c \in pending[s] \cup target[s]

\* The number of interceptions beside the list is never below the number of the
\* newest one in it: the count goes up before the message is offered
\* (actions.go:247-248) and is read after it was received (hub.go:312).
CountCoversList ==
  \A c \in Panels : \A i \in DOMAIN shown[c]["intercept_logs"] :
    shown[c]["intercept_logs"][i] <= total[c]

\* A pusher that has begun to send a batch gets through it, whatever the panels
\* do: a panel that does not read costs it two seconds, not its life.
SendingEnds == \A s \in Streams : pusher[s] # "collect" ~> pusher[s] = "collect"

\* A panel whose connection is gone is taken out.
GoneAreRemoved == \A c \in Panels : socket[c] = "closed" ~> c \notin clients

\* For every stream, a panel shows a part of what was offered, in order and
\* nothing twice, across batches, subscriptions and concurrent pushers.
View == INSTANCE LossyFifo WITH Screens <- Panels

InOrder == View!Spec
=============================================================================

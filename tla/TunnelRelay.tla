----------------------------- MODULE TunnelRelay -----------------------------
(***************************************************************************)
(* What happens to the two sockets of one session that is relayed byte by  *)
(* byte: an accepted CONNECT from the dial to the last Close, or a         *)
(* WebSocket from its 101 on.  Two goroutines copy, one per direction; the *)
(* peers send, end their direction, stop reading or disappear, and the     *)
(* panel closes the client's socket, in any order.                         *)
(*                                                                         *)
(* A direction is named by the side it comes from: the copy of "client"    *)
(* reads the client's socket and writes the server's.                      *)
(***************************************************************************)
EXTENDS Naturals

CONSTANT MaxBytes   \* bound: bytes that a peer sends

ASSUME MaxBytesAssumption == MaxBytes \in Nat \ {0}

Sides == {"client", "server"}
Other(x) == CHOOSE y \in Sides : y # x

VARIABLES
  mode,     \* "tunnel" or "websocket" (inside a decrypted tunnel)
  via,      \* how the server is dialled: "direct" or through a "parent"
  pc,       \* the handler, later the goroutine that waits for the copies
  copy,     \* the copy goroutine of each direction
  socket,   \* the proxy's sockets
  record,   \* the status of the session's record
  cut,      \* OnClose has been called
  sent,     \* bytes a peer has sent
  inbox,    \* those of them that the proxy has not read
  got,      \* bytes a peer was given
  fin,      \* a peer has ended its direction
  gone,     \* a peer has disappeared
  stalled,  \* a peer does not read, and its buffers are full
  eof       \* a peer was told that nothing more comes

peerVars == <<sent, fin, gone, stalled>>
vars == <<mode, via, pc, copy, socket, record, cut, inbox, got, eof, peerVars>>

\* A socket is read and written independently; Close ends both.
Open == [r |-> TRUE, w |-> TRUE]
Closed == [r |-> FALSE, w |-> FALSE]

TypeOK ==
  /\ mode \in {"tunnel", "websocket"}
  /\ via \in {"direct", "parent"}
  /\ pc \in {"dial", "ask", "failed", "answer", "relay", "close", "over"}
  /\ copy \in [Sides -> {"off", "read", "write", "shut write", "shut read", "ended"}]
  /\ socket \in [Sides -> [r : BOOLEAN, w : BOOLEAN]]
  /\ record \in {"none", "Active", "Closed"}
  /\ cut \in BOOLEAN
  /\ \A f \in {sent, inbox, got} : f \in [Sides -> 0 .. MaxBytes]
  /\ \A f \in {fin, gone, stalled, eof} : f \in [Sides -> BOOLEAN]

AllFalse == [x \in Sides |-> FALSE]
None == [x \in Sides |-> 0]

\* A WebSocket's handler has its record, its sockets and its 101 behind it.
Init ==
  /\ \/ /\ mode = "tunnel" /\ via \in {"direct", "parent"} /\ pc = "dial"
        /\ copy = [x \in Sides |-> "off"]
        /\ socket = [x \in Sides |-> IF x = "client" THEN Open ELSE Closed]
     \/ /\ mode = "websocket" /\ via = "direct" /\ pc = "relay"
        /\ copy = [x \in Sides |-> "read"]
        /\ socket = [x \in Sides |-> Open]
  /\ record = "Active"
  /\ cut = FALSE
  /\ sent = None /\ inbox = None /\ got = None
  /\ fin = AllFalse /\ gone = AllFalse /\ stalled = AllFalse /\ eof = AllFalse

Goto(from, to) == pc = from /\ pc' = to
CopyGoto(x, from, to) == copy[x] = from /\ copy' = [copy EXCEPT ![x] = to]

Close(x) == /\ socket' = [socket EXCEPT ![x] = Closed]
            /\ eof' = [eof EXCEPT ![x] = TRUE]

MarkConnectionClosed == record' = IF record = "none" THEN "none" ELSE "Closed"

-----------------------------------------------------------------------------
(* The dial. *)

DialFails ==
  /\ Goto("dial", "failed")
  /\ UNCHANGED <<mode, via, copy, socket, record, cut, inbox, got, eof, peerVars>>

\* Connected to the server, or to the parent proxy that is then asked for it.
Dial ==
  /\ Goto("dial", IF via = "direct" THEN "answer" ELSE "ask")
  /\ socket' = [socket EXCEPT !["server"] = Open]
  /\ UNCHANGED <<mode, via, copy, record, cut, inbox, got, eof, peerVars>>

\* The parent's answer is waited for without a deadline.  What its bufio.Reader
\* has read beyond it is dropped: nothing, if the server does not speak first.
ParentAccepts ==
  /\ Goto("ask", "answer")
  /\ UNCHANGED <<mode, via, copy, socket, record, cut, inbox, got, eof, peerVars>>

\* A refusal, or an answer that breaks off in its head: the connection is closed.
ParentRefuses ==
  /\ Goto("ask", "failed")
  /\ Close("server")
  /\ UNCHANGED <<mode, via, copy, record, cut, inbox, got, peerVars>>

\* A refusal that breaks off in its body: it is not.
ParentBreaksOff ==
  /\ Goto("ask", "failed")
  /\ UNCHANGED <<mode, via, copy, socket, record, cut, inbox, got, eof, peerVars>>

\* httpError answers 502 and closes the client's connection.
HttpError ==
  /\ Goto("failed", "over")
  /\ Close("client")
  /\ MarkConnectionClosed
  /\ UNCHANGED <<mode, via, copy, cut, inbox, got, peerVars>>

\* "200 Connection established" is written, the second record is stored and the
\* relay starts.
Answer ==
  /\ Goto("answer", "relay")
  /\ socket["client"].w
  /\ record' = "Active"
  /\ copy' = [x \in Sides |-> "read"]
  /\ UNCHANGED <<mode, via, socket, cut, inbox, got, eof, peerVars>>

\* It cannot be written: the handler returns and leaves both sockets alone.
AnswerFails ==
  /\ Goto("answer", "over")
  /\ ~socket["client"].w \/ gone["client"]
  /\ MarkConnectionClosed
  /\ UNCHANGED <<mode, via, copy, socket, cut, inbox, got, eof, peerVars>>

-----------------------------------------------------------------------------
(* The copies. *)

Read(x) ==
  /\ CopyGoto(x, "read", "write")
  /\ socket[x].r /\ inbox[x] > 0
  /\ inbox' = [inbox EXCEPT ![x] = @ - 1]
  /\ UNCHANGED <<mode, via, pc, socket, record, cut, got, eof, peerVars>>

\* What a copy does when io.Copy has returned: copyAndClose turns to its half
\* closes, the goroutine of a WebSocket signals the channel.
AfterCopy == IF mode = "tunnel" THEN "shut write" ELSE "ended"

\* The end of the stream, or an error: a socket that was closed, here or by a
\* peer that disappeared.
ReadEnds(x) ==
  /\ CopyGoto(x, "read", AfterCopy)
  /\ (inbox[x] = 0 /\ fin[x]) \/ gone[x] \/ ~socket[x].r
  /\ UNCHANGED <<mode, via, pc, socket, record, cut, inbox, got, eof, peerVars>>

\* Mutant: a write that was cut short starts again from the beginning.
WriteAgain(x) ==
  /\ CopyGoto(x, "write", "read") \/ CopyGoto(x, "write", "write")
  /\ socket[Other(x)].w /\ (gone[Other(x)] \/ ~stalled[Other(x)])
  /\ got' = [got EXCEPT ![Other(x)] = IF gone[Other(x)] THEN @ ELSE @ + 1]
  /\ UNCHANGED <<mode, via, pc, socket, record, cut, inbox, eof, peerVars>>

\* What is written to a peer that has disappeared may be lost without an error.
Write(x) ==
  /\ CopyGoto(x, "write", "read")
  /\ socket[Other(x)].w /\ (gone[Other(x)] \/ ~stalled[Other(x)])
  /\ got' = [got EXCEPT ![Other(x)] = IF gone[Other(x)] THEN @ ELSE @ + 1]
  /\ UNCHANGED <<mode, via, pc, socket, record, cut, inbox, eof, peerVars>>

\* Mutant: a copy that failed returns without its half closes and wg.Done.
WriteFailsEarlyReturn(x) ==
  /\ CopyGoto(x, "write", "off")
  /\ ~socket[Other(x)].w \/ gone[Other(x)]
  /\ UNCHANGED <<mode, via, pc, socket, record, cut, inbox, got, eof, peerVars>>

WriteFails(x) ==
  /\ CopyGoto(x, "write", AfterCopy)
  /\ ~socket[Other(x)].w \/ gone[Other(x)]
  /\ UNCHANGED <<mode, via, pc, socket, record, cut, inbox, got, eof, peerVars>>

\* Mutant: the destination is closed in both directions ("calling close makes
\* io.Copy fail").
CloseWriteFully(x) ==
  /\ CopyGoto(x, "shut write", "shut read")
  /\ Close(Other(x))
  /\ UNCHANGED <<mode, via, pc, record, cut, inbox, got, peerVars>>

\* Mutant: no half close ("FIN_WAIT2 gets no further message").
CloseWriteNot(x) ==
  /\ CopyGoto(x, "shut write", "shut read")
  /\ UNCHANGED <<mode, via, pc, socket, record, cut, inbox, got, eof, peerVars>>

\* dst.CloseWrite sends the FIN on...
CloseWrite(x) ==
  /\ CopyGoto(x, "shut write", "shut read")
  /\ socket' = [socket EXCEPT ![Other(x)].w = FALSE]
  /\ eof' = [eof EXCEPT ![Other(x)] = TRUE]
  /\ UNCHANGED <<mode, via, pc, record, cut, inbox, got, peerVars>>

\* ...and src.CloseRead refuses whatever is still to come.
CloseRead(x) ==
  /\ CopyGoto(x, "shut read", "ended")
  /\ socket' = [socket EXCEPT ![x].r = FALSE]
  /\ UNCHANGED <<mode, via, pc, record, cut, inbox, got, eof, peerVars>>

\* Mutant: the WebSocket relay waits for both directions.
CopiesOverBoth == \A x \in Sides : copy[x] = "ended"

\* wg.Wait of a tunnel, the first signal of a WebSocket.
CopiesOver ==
  IF mode = "tunnel" THEN \A x \in Sides : copy[x] = "ended"
                     ELSE \E x \in Sides : copy[x] = "ended"

\* A tunnel closes its client first (onClose marks the record), then the server;
\* the deferred closes of a WebSocket's handler run the other way round.
FirstClosed == IF mode = "tunnel" THEN "client" ELSE "server"

CloseFirst ==
  /\ Goto("relay", "close")
  /\ CopiesOver
  /\ MarkConnectionClosed
  /\ Close(FirstClosed)
  /\ UNCHANGED <<mode, via, copy, cut, inbox, got, peerVars>>

CloseSecond ==
  /\ Goto("close", "over")
  /\ Close(Other(FirstClosed))
  /\ UNCHANGED <<mode, via, copy, record, cut, inbox, got, peerVars>>

-----------------------------------------------------------------------------
(* The panel and the peers. *)

\* OnClose closes the client's socket, and only that; the record is deleted, or
\* marked by closeAllConnections.
PanelCloses ==
  /\ record # "none"
  /\ record' \in {"none", "Closed"}
  /\ cut' = TRUE
  /\ Close("client")
  /\ UNCHANGED <<mode, via, pc, copy, inbox, got, peerVars>>

\* The pusher collects the tombstone.
CollectTombstone ==
  /\ record = "Closed" /\ record' = "none"
  /\ UNCHANGED <<mode, via, pc, copy, socket, cut, inbox, got, eof, peerVars>>

\* The client speaks once it has its answer, the server once it is connected;
\* behind a parent it waits to be spoken to, as NewConnectDialToProxyWithHandler
\* presumes ("a TLS server will not speak until spoken to").
MaySpeak(x) ==
  IF x = "client" THEN pc \in {"relay", "close"}
  ELSE socket["server"].r /\ (via = "parent" => got["server"] > 0)

Send(x) ==
  /\ MaySpeak(x) /\ ~fin[x] /\ ~gone[x] /\ sent[x] < MaxBytes
  /\ sent' = [sent EXCEPT ![x] = @ + 1]
  /\ inbox' = [inbox EXCEPT ![x] = IF socket[x].r THEN @ + 1 ELSE @]
  /\ UNCHANGED <<mode, via, pc, copy, socket, record, cut, got, eof, fin, gone, stalled>>

Shut(x) ==
  /\ MaySpeak(x) /\ ~fin[x] /\ ~gone[x]
  /\ fin' = [fin EXCEPT ![x] = TRUE]
  /\ UNCHANGED <<mode, via, pc, copy, socket, record, cut, inbox, got, eof, sent, gone, stalled>>

Leave(x) ==
  /\ x = "client" \/ pc \notin {"dial", "ask"}
  /\ ~gone[x] /\ gone' = [gone EXCEPT ![x] = TRUE]
  /\ UNCHANGED <<mode, via, pc, copy, socket, record, cut, inbox, got, eof, sent, fin, stalled>>

StopReading(x) ==
  /\ pc = "relay" /\ ~stalled[x] /\ stalled' = [stalled EXCEPT ![x] = TRUE]
  /\ UNCHANGED <<mode, via, pc, copy, socket, record, cut, inbox, got, eof, sent, fin, gone>>

-----------------------------------------------------------------------------
Copy(x) ==
  \/ Read(x) \/ ReadEnds(x) \/ Write(x) \/ WriteFails(x)
  \/ CloseWrite(x) \/ CloseRead(x)

Relay == CloseFirst \/ CloseSecond

Peer(x) == Send(x) \/ Shut(x) \/ Leave(x) \/ StopReading(x)

Next ==
  \/ DialFails \/ Dial \/ ParentAccepts \/ ParentRefuses \/ ParentBreaksOff
  \/ HttpError \/ Answer \/ AnswerFails
  \/ Relay \/ PanelCloses \/ CollectTombstone
  \/ \E x \in Sides : Copy(x) \/ Peer(x)

\* A copy that can go on does, one that writes to a peer that has disappeared is
\* told in the end, and the goroutine that waits for the copies goes on.  No
\* peer has to send, to end or to read, and no parent has to answer.
Spec ==
  /\ Init /\ [][Next]_vars
  /\ WF_vars(Relay)
  /\ \A x \in Sides : WF_vars(Copy(x))

-----------------------------------------------------------------------------
(* Properties. *)

\* Nobody closed the session from the panel, and no peer disappeared.
Unbroken == ~cut /\ \A x \in Sides : ~gone[x]

\* A peer of a tunnel is told "nothing more comes" only when the other peer has
\* ended its direction and all that it sent has been delivered: a half close
\* does not cost the opposite direction anything (https.go:289-304).
EofMeansAll ==
  \A x \in Sides : mode = "tunnel" /\ copy["client"] # "off" /\ Unbroken /\ eof[x] =>
    fin[Other(x)] /\ got[x] = sent[Other(x)]

\* The dial has failed, the handler has given up, the panel has closed the session,
\* a peer has disappeared; a WebSocket promises no more than a broken tunnel.
Broken ==
  \/ mode = "websocket" \/ ~Unbroken
  \/ pc = "failed" \/ (pc = "over" /\ copy["client"] = "off")

Pipe == INSTANCE HonestPipe WITH Ends <- Sides, ended <- fin, told <- eof, broken <- Broken

\* Bytes are neither made up nor given twice, nothing comes behind an end of the
\* stream, and the end is not told early while nobody breaks the tunnel, from the
\* dial to the last close (https.go:289-304, 464-478).
PipeIsHonest == Pipe!Spec

\* A peer that says nothing more, and one that takes what it is given.
Ended(x) == fin[x] \/ gone[x] \/ ~socket[x].r
Takes(x) == ~stalled[x] \/ gone[x] \/ ~socket[x].w

AllClosed == pc = "over" /\ \A x \in Sides : copy[x] = "ended" /\ socket[x] = Closed

\* A relayed tunnel whose peers have both ended, or been cut off, is closed on
\* both sides, unless one of them holds up the other's last bytes
\* (https.go:464-478).
TunnelEnds ==
  (mode = "tunnel" /\ pc = "relay" /\ \A x \in Sides : Ended(x))
    ~> (AllClosed \/ \E x \in Sides : ~Takes(x))

\* A WebSocket is closed on both sides, and both its goroutines end, as soon as
\* either peer has ended (websocket.go:40-56).
WebSocketEnds ==
  (mode = "websocket" /\ \E x \in Sides : Ended(x))
    ~> (AllClosed \/ \E x \in Sides : ~Takes(x))

\* The server of a tunnel that was closed from the panel hears of it.
CutIsHeard ==
  (mode = "tunnel" /\ pc = "relay" /\ cut)
    ~> (eof["server"] \/ gone["server"] \/ stalled["server"])
=============================================================================

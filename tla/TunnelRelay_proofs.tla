------------------------- MODULE TunnelRelay_proofs -------------------------
(***************************************************************************)
(* Proofs about TunnelRelay, for any number of bytes and every order of    *)
(* what the peers, the copies and the panel do.                            *)
(***************************************************************************)
EXTENDS TunnelRelay, TLAPS

LEMMA OtherSide ==
  \A x \in Sides : Other(x) \in Sides /\ Other(x) # x /\ Other(Other(x)) = x
                   /\ Sides = {x, Other(x)}
  <1>1. Other("client") = "server" /\ Other("server") = "client"
    BY DEF Other, Sides
  <1> QED BY <1>1 DEF Sides

-----------------------------------------------------------------------------
(* Type correctness. *)

\* The byte that a copy has read and not written.
Held(x) == IF copy[x] = "write" THEN 1 ELSE 0

\* A peer is given no more than the other one has sent.
Conserved == \A x \in Sides : got[Other(x)] + inbox[x] + Held(x) <= sent[x]

TypeInv == TypeOK /\ Conserved

CopySteps == {"off", "read", "write", "shut write", "shut read", "ended"}

\* The state in parts, so that a step is compared with what it can change.
Handlers ==
  /\ mode \in {"tunnel", "websocket"} /\ via \in {"direct", "parent"}
  /\ pc \in {"dial", "ask", "failed", "answer", "relay", "close", "over"}
  /\ record \in {"none", "Active", "Closed"} /\ cut \in BOOLEAN
Copies == copy \in [Sides -> CopySteps]
Sockets == socket \in [Sides -> [r : BOOLEAN, w : BOOLEAN]] /\ eof \in [Sides -> BOOLEAN]
Counters ==
  /\ sent \in [Sides -> 0 .. MaxBytes] /\ inbox \in [Sides -> 0 .. MaxBytes]
  /\ got \in [Sides -> 0 .. MaxBytes]
Peers ==
  /\ fin \in [Sides -> BOOLEAN] /\ gone \in [Sides -> BOOLEAN] /\ stalled \in [Sides -> BOOLEAN]

LEMMA Parts == TypeOK <=> Handlers /\ Copies /\ Sockets /\ Counters /\ Peers
  BY DEF TypeOK, Handlers, Copies, CopySteps, Sockets, Counters, Peers

LEMMA TypeInit == Init => TypeInv
  <1> SUFFICES ASSUME Init PROVE TypeInv
    OBVIOUS
  <1>1. Handlers
    BY DEF Init, Handlers
  <1>2. Copies
    BY DEF Init, Copies, CopySteps
  <1>3. Sockets
    <2>1. Open \in [r : BOOLEAN, w : BOOLEAN] /\ Closed \in [r : BOOLEAN, w : BOOLEAN]
      BY DEF Open, Closed
    <2>2. socket \in [Sides -> {Open, Closed}] /\ eof \in [Sides -> BOOLEAN]
      BY DEF Init, AllFalse
    <2> QED BY <2>1, <2>2 DEF Sockets
  <1>4. Counters
    BY MaxBytesAssumption DEF Init, Counters, None
  <1>5. Peers
    BY DEF Init, Peers, AllFalse
  <1>6. Conserved
    BY OtherSide DEF Init, Conserved, Held, None
  <1> QED BY <1>1, <1>2, <1>3, <1>4, <1>5, <1>6, Parts DEF TypeInv

\* The state from its parts.
LEMMA TypeTogether ==
  ASSUME Handlers', Copies', Sockets', Counters', Peers', Conserved'
  PROVE  TypeInv'
  BY DEF TypeInv, TypeOK, Handlers, Copies, CopySteps, Sockets, Counters, Peers

\* A step that moves no byte.
LEMMA ConservedKept ==
  ASSUME TypeInv, UNCHANGED <<sent, inbox, got>>, \A x \in Sides : Held(x)' <= Held(x)
  PROVE  Counters' /\ Conserved'
  <1>1. Counters
    BY Parts DEF TypeInv
  <1>2. \A x \in Sides : Held(x) \in Nat /\ Held(x)' \in Nat
    BY DEF Held
  <1>3. Conserved'
    BY <1>1, <1>2, OtherSide, MaxBytesAssumption DEF TypeInv, Conserved, Counters
  <1> QED BY <1>1, <1>3 DEF Counters

LEMMA CloseTypes ==
  ASSUME TypeInv, NEW x \in Sides, Close(x)
  PROVE  Sockets'
  <1>1. Sockets
    BY Parts DEF TypeInv
  <1> QED BY <1>1 DEF Sockets, Close, Closed

LEMMA TypeOfHandler ==
  ASSUME TypeInv,
         \/ DialFails \/ Dial \/ ParentAccepts \/ ParentRefuses \/ ParentBreaksOff
         \/ HttpError \/ Answer \/ AnswerFails \/ Relay \/ PanelCloses \/ CollectTombstone
  PROVE  TypeInv'
  <1>1. Handlers /\ Copies /\ Sockets /\ Counters /\ Peers
    BY Parts DEF TypeInv
  <1>2. /\ "client" \in Sides /\ "server" \in Sides /\ FirstClosed \in Sides
        /\ Other(FirstClosed) \in Sides
    BY OtherSide DEF Sides, FirstClosed
  <1>3. UNCHANGED peerVars /\ UNCHANGED <<inbox, got>>
    BY DEF DialFails, Dial, ParentAccepts, ParentRefuses, ParentBreaksOff, HttpError, Answer,
       AnswerFails, Relay, CloseFirst, CloseSecond, PanelCloses, CollectTombstone
  <1>4. Handlers'
    BY <1>1 DEF Handlers, Goto, MarkConnectionClosed, DialFails, Dial, ParentAccepts,
       ParentRefuses, ParentBreaksOff, HttpError, Answer, AnswerFails, Relay, CloseFirst,
       CloseSecond, PanelCloses, CollectTombstone
  <1>5. copy' = copy \/ copy' = [x \in Sides |-> "read"]
    BY DEF DialFails, Dial, ParentAccepts, ParentRefuses, ParentBreaksOff, HttpError, Answer,
       AnswerFails, Relay, CloseFirst, CloseSecond, PanelCloses, CollectTombstone
  <1>6. Copies' /\ \A x \in Sides : Held(x)' <= Held(x)
    <2>1. CASE copy' = copy
      BY <1>1, <2>1 DEF Copies, Held
    <2>2. CASE copy' = [x \in Sides |-> "read"]
      BY <2>2 DEF Copies, CopySteps, Held
    <2> QED BY <1>5, <2>1, <2>2
  <1>7. Sockets'
    <2>1. CASE DialFails \/ ParentAccepts \/ ParentBreaksOff \/ Answer \/ AnswerFails
               \/ CollectTombstone
      BY <1>1, <2>1 DEF Sockets, DialFails, ParentAccepts, ParentBreaksOff, Answer, AnswerFails,
         CollectTombstone
    <2>2. CASE Dial
      BY <1>1, <2>2 DEF Sockets, Dial, Open
    <2>3. CASE ParentRefuses \/ HttpError \/ CloseFirst \/ CloseSecond \/ PanelCloses
      BY <1>2, <2>3, CloseTypes DEF ParentRefuses, HttpError, CloseFirst, CloseSecond, PanelCloses
    <2> QED BY <2>1, <2>2, <2>3 DEF Relay
  <1>8. Counters' /\ Conserved'
    BY <1>3, <1>6, ConservedKept DEF peerVars
  <1>9. Peers'
    BY <1>1, <1>3 DEF Peers, peerVars
  <1> QED BY <1>4, <1>6, <1>7, <1>8, <1>9, TypeTogether

LEMMA TypeOfCopy ==
  ASSUME TypeInv, NEW x \in Sides, Copy(x)
  PROVE  TypeInv'
  <1> DEFINE y == Other(x)
  <1>0. y \in Sides /\ y # x /\ Other(y) = x /\ Sides = {x, y}
    BY OtherSide
  <1>1. Handlers /\ Copies /\ Sockets /\ Counters /\ Peers
    BY Parts DEF TypeInv
  <1>2. UNCHANGED <<mode, via, pc, record, cut, sent, fin, gone, stalled>>
    BY DEF Copy, Read, ReadEnds, Write, WriteFails, CloseWrite, CloseRead, peerVars
  <1>3. Handlers' /\ Peers'
    BY <1>1, <1>2 DEF Handlers, Peers
  <1>4. /\ copy[x] # copy'[x] /\ copy'[y] = copy[y] /\ copy' \in [Sides -> CopySteps]
        /\ copy'[x] = "write" => copy[x] = "read" /\ Read(x)
    BY <1>0, <1>1 DEF Copy, Read, ReadEnds, Write, WriteFails, CloseWrite, CloseRead, CopyGoto,
       AfterCopy, Copies, CopySteps
  <1>5. Copies'
    BY <1>4 DEF Copies
  <1>6. Sockets'
    <2>1. CASE CloseWrite(x)
      BY <1>0, <1>1, <2>1 DEF CloseWrite, Sockets
    <2>2. CASE CloseRead(x)
      BY <1>1, <2>2 DEF CloseRead, Sockets
    <2>3. CASE Read(x) \/ ReadEnds(x) \/ Write(x) \/ WriteFails(x)
      BY <1>1, <2>3 DEF Read, ReadEnds, Write, WriteFails, Sockets
    <2> QED BY <2>1, <2>2, <2>3 DEF Copy
  <1>7. Held(x) \in Nat /\ Held(y) \in Nat /\ Held(y)' = Held(y)
    BY <1>4 DEF Held
  <1>8. /\ got[y] + inbox[x] + Held(x) <= sent[x] /\ got[x] + inbox[y] + Held(y) <= sent[y]
    BY <1>0 DEF TypeInv, Conserved
  <1>9. Counters' /\ Conserved'
    <2>1. CASE Read(x)
      <3>1. /\ copy[x] = "read" /\ copy'[x] = "write" /\ inbox[x] > 0
            /\ inbox' = [inbox EXCEPT ![x] = @ - 1] /\ got' = got
        BY <1>1, <2>1 DEF Read, CopyGoto, Copies
      <3>2. Held(x) = 0 /\ Held(x)' = 1 /\ inbox'[x] = inbox[x] - 1 /\ inbox'[y] = inbox[y]
        BY <1>0, <1>1, <3>1 DEF Held, Counters
      <3>3. Counters'
        BY <1>1, <1>2, <3>1, MaxBytesAssumption DEF Counters
      <3>4. \A z \in Sides : got'[Other(z)] + inbox'[z] + Held(z)' <= sent'[z]
        BY <1>0, <1>1, <1>2, <1>7, <1>8, <3>1, <3>2, MaxBytesAssumption DEF Counters
      <3> QED BY <3>3, <3>4 DEF Conserved
    <2>2. CASE Write(x)
      <3>1. /\ copy[x] = "write" /\ copy'[x] = "read" /\ inbox' = inbox
            /\ got' = [got EXCEPT ![y] = IF gone[y] THEN @ ELSE @ + 1]
        BY <1>1, <2>2 DEF Write, CopyGoto, Copies
      <3>2. Held(x) = 1 /\ Held(x)' = 0 /\ got'[x] = got[x] /\ got'[y] \in {got[y], got[y] + 1}
        BY <1>0, <1>1, <3>1 DEF Held, Counters
      <3>3. got[y] + 1 \in 0 .. MaxBytes
        BY <1>0, <1>1, <1>8, <3>2, MaxBytesAssumption DEF Counters
      <3>4. Counters'
        BY <1>0, <1>1, <1>2, <3>1, <3>3 DEF Counters
      <3>5. \A z \in Sides : got'[Other(z)] + inbox'[z] + Held(z)' <= sent'[z]
        BY <1>0, <1>1, <1>2, <1>7, <1>8, <3>1, <3>2, MaxBytesAssumption DEF Counters
      <3> QED BY <3>4, <3>5 DEF Conserved
    <2>3. CASE ReadEnds(x) \/ WriteFails(x) \/ CloseWrite(x) \/ CloseRead(x)
      <3>1. UNCHANGED <<inbox, got>> /\ copy'[x] # "write"
        BY <1>1, <2>3 DEF ReadEnds, WriteFails, CloseWrite, CloseRead, CopyGoto, AfterCopy, Copies
      <3>2. \A z \in Sides : Held(z)' <= Held(z)
        BY <1>0, <1>7, <3>1 DEF Held
      <3> QED BY <1>2, <3>1, <3>2, ConservedKept
    <2> QED BY <2>1, <2>2, <2>3 DEF Copy
  <1> QED BY <1>3, <1>5, <1>6, <1>9, TypeTogether

LEMMA TypeOfPeer ==
  ASSUME TypeInv, NEW x \in Sides, Peer(x)
  PROVE  TypeInv'
  <1>1. Handlers /\ Copies /\ Sockets /\ Counters /\ Peers
    BY Parts DEF TypeInv
  <1>2. UNCHANGED <<mode, via, pc, copy, socket, record, cut, got, eof>>
    BY DEF Peer, Send, Shut, Leave, StopReading
  <1>3. Handlers' /\ Copies' /\ Sockets'
    BY <1>1, <1>2 DEF Handlers, Copies, Sockets
  <1>4. Peers'
    BY <1>1 DEF Peer, Send, Shut, Leave, StopReading, Peers
  <1>5. \A z \in Sides : Held(z) \in Nat /\ Held(z)' = Held(z)
    BY <1>2 DEF Held
  <1>6. Counters' /\ Conserved'
    <2>1. CASE Send(x)
      <3>1. /\ sent[x] < MaxBytes /\ sent' = [sent EXCEPT ![x] = @ + 1]
            /\ inbox' = [inbox EXCEPT ![x] = IF socket[x].r THEN @ + 1 ELSE @]
        BY <2>1 DEF Send
      <3>2. got[Other(x)] + inbox[x] + Held(x) <= sent[x]
        BY DEF TypeInv, Conserved
      <3>3. inbox[x] + 1 \in 0 .. MaxBytes /\ sent[x] + 1 \in 0 .. MaxBytes
        BY <1>1, <1>5, <3>1, <3>2, OtherSide, MaxBytesAssumption DEF Counters
      <3>4. Counters'
        BY <1>1, <1>2, <3>1, <3>3 DEF Counters
      <3>5. /\ \A z \in Sides : z # x => inbox'[z] = inbox[z] /\ sent'[z] = sent[z]
            /\ inbox'[x] \in {inbox[x], inbox[x] + 1} /\ sent'[x] = sent[x] + 1
        BY <1>1, <3>1 DEF Counters
      <3>6. \A z \in Sides : got[Other(z)] + inbox[z] + Held(z) <= sent[z]
        BY DEF TypeInv, Conserved
      <3>7. \A z \in Sides : got'[Other(z)] + inbox'[z] + Held(z)' <= sent'[z]
        BY <1>1, <1>2, <1>5, <3>5, <3>6, OtherSide, MaxBytesAssumption DEF Counters
      <3> QED BY <3>4, <3>7 DEF Conserved
    <2>2. CASE Shut(x) \/ Leave(x) \/ StopReading(x)
      <3>1. UNCHANGED <<sent, inbox, got>> /\ \A z \in Sides : Held(z)' <= Held(z)
        BY <1>5, <2>2 DEF Shut, Leave, StopReading
      <3> QED BY <3>1, ConservedKept
    <2> QED BY <2>1, <2>2 DEF Peer
  <1> QED BY <1>3, <1>4, <1>6, TypeTogether

LEMMA TypeStep ==
  ASSUME TypeInv, [Next]_vars
  PROVE  TypeInv'
  <1>1. CASE UNCHANGED vars
    <2>1. TypeOK'
      BY <1>1 DEF vars, peerVars, TypeInv, TypeOK
    <2>2. Conserved'
      BY <1>1 DEF vars, peerVars, TypeInv, Conserved, Held
    <2> QED BY <2>1, <2>2 DEF TypeInv
  <1> QED BY <1>1, TypeOfHandler, TypeOfCopy, TypeOfPeer DEF Next

\* Sockets, copies and counters always have their types; in particular a peer is
\* never given more than the other one has sent.
THEOREM TypeCorrect == Spec => []TypeOK
  <1>1. TypeInv => TypeOK
    BY DEF TypeInv
  <1> QED BY <1>1, TypeInit, TypeStep, PTL DEF Spec
-----------------------------------------------------------------------------
(* A peer is told "nothing more comes" only when it has everything. *)

HalfClosed(x) == copy[x] \in {"shut read", "ended"}
Done(x) == copy[x] = "shut write" \/ HalfClosed(x)

\* A direction of a tunnel that nobody has broken.  Until it is relayed nothing
\* is closed; while it copies, both its sockets are open and no byte is missing;
\* when it is done its peer has ended and all was delivered; and whoever was
\* told the end was told by the half close of the opposite direction.
Direction(x) ==
  /\ pc \in {"dial", "ask", "answer"} =>
       copy[x] = "off" /\ ~eof[x] /\ got[x] = 0 /\ inbox[x] = sent[x]
  /\ pc \in {"dial", "ask", "answer"} /\ (x = "client" \/ pc # "dial") => socket[x] = Open
  /\ pc = "failed" => copy[x] = "off"
  /\ pc = "relay" => copy[x] # "off"
  /\ pc = "close" => copy[x] = "ended"
  /\ pc = "over" => copy[x] \in {"off", "ended"}
  /\ copy[x] = "off" <=> copy[Other(x)] = "off"
  /\ copy[x] \in {"read", "write"} =>
       socket[x].r /\ socket[Other(x)].w /\ got[Other(x)] + inbox[x] + Held(x) = sent[x]
  /\ Done(x) => fin[x] /\ got[Other(x)] = sent[x]
  /\ eof[x] /\ copy[x] # "off" => HalfClosed(Other(x))

RelayInv == mode = "tunnel" /\ Unbroken => \A x \in Sides : Direction(x)

LEMMA RelayInit == Init => RelayInv
  <1> SUFFICES ASSUME Init, mode = "tunnel", NEW x \in Sides PROVE Direction(x)
    BY DEF RelayInv
  <1> QED BY OtherSide DEF Init, Direction, Done, HalfClosed, None, AllFalse

\* What is broken stays so.
LEMMA BrokenStays ==
  ASSUME TypeInv, [Next]_vars, Unbroken'
  PROVE  Unbroken /\ UNCHANGED mode
  <1>0. gone \in [Sides -> BOOLEAN]
    BY Parts DEF TypeInv, Peers
  <1>1. CASE UNCHANGED vars
    BY <1>1 DEF vars, peerVars, Unbroken
  <1>2. CASE \/ DialFails \/ Dial \/ ParentAccepts \/ ParentRefuses \/ ParentBreaksOff
             \/ HttpError \/ Answer \/ AnswerFails \/ Relay \/ PanelCloses \/ CollectTombstone
    <2>1. UNCHANGED <<mode, gone>> /\ (cut' = cut \/ cut' = TRUE)
      BY <1>2 DEF DialFails, Dial, ParentAccepts, ParentRefuses, ParentBreaksOff, HttpError, Answer,
         AnswerFails, Relay, CloseFirst, CloseSecond, PanelCloses, CollectTombstone, peerVars
    <2>2. ~cut' /\ \A x \in Sides : ~gone'[x]
      BY DEF Unbroken
    <2>3. cut' = cut /\ gone' = gone /\ mode' = mode
      BY <2>1, <2>2
    <2>4. ~cut /\ \A x \in Sides : ~gone[x]
      BY <2>2, <2>3
    <2> QED BY <2>3, <2>4 DEF Unbroken
  <1>3. ASSUME NEW x \in Sides, Copy(x) PROVE Unbroken /\ UNCHANGED mode
    <2>1. UNCHANGED <<mode, cut, gone>>
      BY <1>3 DEF Copy, Read, ReadEnds, Write, WriteFails, CloseWrite, CloseRead, peerVars
    <2> QED BY <2>1 DEF Unbroken
  <1>4. ASSUME NEW x \in Sides, Send(x) \/ Shut(x) \/ StopReading(x)
        PROVE  Unbroken /\ UNCHANGED mode
    BY <1>4 DEF Send, Shut, StopReading, Unbroken
  <1>5. ASSUME NEW x \in Sides, Leave(x) PROVE FALSE
    BY <1>0, <1>5 DEF Leave, Unbroken
  <1> QED BY <1>1, <1>2, <1>3, <1>4, <1>5 DEF Next, Peer

\* The handler, around the relay.
LEMMA RelayOfHandler ==
  ASSUME TypeInv, mode = "tunnel", Unbroken, Unbroken', \A x \in Sides : Direction(x),
         \/ DialFails \/ Dial \/ ParentAccepts \/ ParentRefuses \/ ParentBreaksOff
         \/ HttpError \/ Answer \/ AnswerFails \/ Relay \/ PanelCloses \/ CollectTombstone,
         NEW x \in Sides
  PROVE  Direction(x)'
  <1>1. /\ Handlers /\ Copies /\ Sockets /\ Counters /\ Peers
        /\ Direction(x) /\ Direction(Other(x)) /\ Other(x) \in Sides /\ Other(Other(x)) = x
        /\ x = "client" \/ x = "server"
    BY Parts, OtherSide DEF TypeInv, Sides
  <1>2. CASE DialFails \/ ParentAccepts \/ ParentBreaksOff
    BY <1>1, <1>2 DEF DialFails, ParentAccepts, ParentBreaksOff, Goto, peerVars, Direction, Done,
       HalfClosed, Held
  <1>3. CASE Dial
    <2>1. /\ pc = "dial" /\ pc' \in {"ask", "answer"} /\ socket'["server"] = Open
          /\ x = "client" => socket'[x] = socket[x]
          /\ UNCHANGED <<copy, eof, got, inbox, sent>>
      BY <1>1, <1>3 DEF Dial, Goto, Sockets, peerVars, Sides
    <2>2. copy[x] = "off" /\ copy[Other(x)] = "off" /\ ~eof[x] /\ got[x] = 0 /\ inbox[x] = sent[x]
          /\ x = "client" => socket[x] = Open
      BY <1>1, <2>1 DEF Direction
    <2> QED BY <1>1, <2>1, <2>2 DEF Direction, Done, HalfClosed
  <1>4. CASE ParentRefuses \/ HttpError
    <2>1. /\ pc' \in {"failed", "over"} /\ UNCHANGED copy
          /\ copy[x] = "off" /\ copy[Other(x)] = "off"
      BY <1>1, <1>4 DEF ParentRefuses, HttpError, Goto, Direction
    <2> QED BY <2>1 DEF Direction, Done, HalfClosed
  <1>5. CASE Answer
    <2>1. /\ pc = "answer" /\ pc' = "relay" /\ copy'[x] = "read" /\ copy'[Other(x)] = "read"
          /\ UNCHANGED <<eof, got, inbox, sent, socket>>
      BY <1>1, <1>5 DEF Answer, Goto, peerVars
    <2>2. /\ ~eof[x] /\ got[Other(x)] = 0 /\ inbox[x] = sent[x] /\ sent[x] \in Nat
          /\ socket[x] = Open /\ socket[Other(x)] = Open
      BY <1>1, <2>1 DEF Direction, Counters
    <2>3. socket'[x].r /\ socket'[Other(x)].w /\ Held(x)' = 0
      BY <2>1, <2>2 DEF Open, Held
    <2>4. got'[Other(x)] + inbox'[x] + Held(x)' = sent'[x]
      BY <2>1, <2>2, <2>3
    <2> QED BY <2>1, <2>2, <2>3, <2>4 DEF Direction, Done, HalfClosed
  <1>6. CASE AnswerFails
    <2>1. pc' = "over" /\ UNCHANGED copy /\ copy[x] = "off" /\ copy[Other(x)] = "off"
      BY <1>1, <1>6 DEF AnswerFails, Goto, Direction
    <2> QED BY <2>1 DEF Direction, Done, HalfClosed
  <1>7. CASE Relay
    <2>1. /\ copy[x] = "ended" /\ copy[Other(x)] = "ended" /\ pc' \in {"close", "over"}
          /\ UNCHANGED <<copy, fin, got, sent>>
      BY <1>1, <1>7 DEF Relay, CloseFirst, CloseSecond, CopiesOver, Goto, peerVars, Direction
    <2> QED BY <1>1, <2>1 DEF Direction, Done, HalfClosed
  <1>8. CASE PanelCloses
    BY <1>8 DEF PanelCloses, Unbroken
  <1>9. CASE CollectTombstone
    BY <1>1, <1>9 DEF CollectTombstone, peerVars, Direction, Done, HalfClosed, Held
  <1> QED BY <1>2, <1>3, <1>4, <1>5, <1>6, <1>7, <1>8, <1>9

\* A copy: its own direction x and the opposite one, y.
LEMMA RelayOfCopy ==
  ASSUME TypeInv, mode = "tunnel", Unbroken, \A z \in Sides : Direction(z),
         NEW x \in Sides, Copy(x)
  PROVE  \A z \in Sides : Direction(z)'
  <1> DEFINE y == Other(x)
  <1>0. y \in Sides /\ y # x /\ Other(y) = x /\ Sides = {x, y}
    BY OtherSide
  <1>1. Handlers /\ Copies /\ Sockets /\ Counters /\ Peers
    BY Parts DEF TypeInv
  <1>2. Direction(x) /\ Direction(y)
    BY <1>0
  <1>3. /\ UNCHANGED <<pc, sent, fin>> /\ copy[x] \notin {"off", "ended"}
        /\ copy'[x] # "off" /\ copy'[y] = copy[y]
    BY <1>0, <1>1, <1>2 DEF Copy, Read, ReadEnds, Write, WriteFails, CloseWrite, CloseRead, CopyGoto,
       AfterCopy, Copies, CopySteps, peerVars
  <1>4. pc = "relay" /\ copy[y] # "off"
    BY <1>0, <1>1, <1>2, <1>3 DEF Direction, Handlers
  <1>5. Held(y)' = Held(y) /\ (Done(y)' <=> Done(y)) /\ (HalfClosed(y)' <=> HalfClosed(y))
    BY <1>3 DEF Held, Done, HalfClosed
  <1>6. ~gone[x] /\ ~gone[y]
    BY <1>0 DEF Unbroken
  <1>7. ASSUME copy'[x] \in {"read", "write"} =>
                 /\ socket'[x].r /\ socket'[y].w
                 /\ got'[y] + inbox'[x] + Held(x)' = sent[x],
               Done(x)' => fin[x] /\ got'[y] = sent[x],
               eof'[x] => HalfClosed(y),
               copy[y] \in {"read", "write"} => socket'[y].r /\ socket'[x].w,
               got'[x] = got[x], inbox'[y] = inbox[y],
               eof'[y] => HalfClosed(x)'
        PROVE  \A z \in Sides : Direction(z)'
    <2>1. Direction(x)'
      BY <1>0, <1>3, <1>4, <1>5, <1>7 DEF Direction
    <2>2. Direction(y)'
      BY <1>0, <1>2, <1>3, <1>4, <1>5, <1>7 DEF Direction
    <2> QED BY <1>0, <2>1, <2>2
  <1>8. CASE Read(x)
    <2>1. /\ copy[x] = "read" /\ copy'[x] = "write" /\ inbox[x] > 0 /\ inbox'[x] = inbox[x] - 1
          /\ inbox'[y] = inbox[y] /\ UNCHANGED <<got, socket, eof>>
      BY <1>0, <1>1, <1>8 DEF Read, CopyGoto, Copies, Counters
    <2>2. /\ ~Done(x)' /\ ~HalfClosed(x) /\ Held(x) = 0 /\ Held(x)' = 1
      BY <2>1 DEF Done, HalfClosed, Held
    <2>3. socket[x].r /\ socket[y].w /\ got[y] + inbox[x] + Held(x) = sent[x]
      BY <1>2, <2>1 DEF Direction
    <2>4. got'[y] + inbox'[x] + Held(x)' = sent[x]
      BY <1>0, <1>1, <2>1, <2>2, <2>3, MaxBytesAssumption DEF Counters
    <2>5. (eof[x] => HalfClosed(y)) /\ ~eof[y]
          /\ (copy[y] \in {"read", "write"} => socket[y].r /\ socket[x].w)
      BY <1>0, <1>2, <1>3, <1>4, <2>2 DEF Direction
    <2> QED BY <1>7, <2>1, <2>2, <2>3, <2>4, <2>5
  <1>9. CASE Write(x)
    <2>1. /\ copy[x] = "write" /\ copy'[x] = "read" /\ got'[y] = got[y] + 1
          /\ got'[x] = got[x] /\ UNCHANGED <<inbox, socket, eof>>
      BY <1>0, <1>1, <1>6, <1>9 DEF Write, CopyGoto, Copies, Counters
    <2>2. /\ ~Done(x)' /\ ~HalfClosed(x) /\ Held(x) = 1 /\ Held(x)' = 0
      BY <2>1 DEF Done, HalfClosed, Held
    <2>3. socket[x].r /\ socket[y].w /\ got[y] + inbox[x] + Held(x) = sent[x]
      BY <1>2, <2>1 DEF Direction
    <2>4. got'[y] + inbox'[x] + Held(x)' = sent[x]
      BY <1>0, <1>1, <2>1, <2>2, <2>3, MaxBytesAssumption DEF Counters
    <2>5. (eof[x] => HalfClosed(y)) /\ ~eof[y]
          /\ (copy[y] \in {"read", "write"} => socket[y].r /\ socket[x].w)
      BY <1>0, <1>2, <1>3, <1>4, <2>2 DEF Direction
    <2> QED BY <1>7, <2>1, <2>2, <2>3, <2>4, <2>5
  <1>10. CASE ReadEnds(x) \/ WriteFails(x)
    <2>1. /\ copy[x] \in {"read", "write"} /\ copy'[x] = "shut write"
          /\ UNCHANGED <<inbox, got, socket, eof>>
      BY <1>1, <1>10 DEF ReadEnds, WriteFails, CopyGoto, Copies, AfterCopy
    <2>2. socket[x].r /\ socket[y].w /\ got[y] + inbox[x] + Held(x) = sent[x]
      BY <1>2, <2>1 DEF Direction
    <2>3. ReadEnds(x) /\ inbox[x] = 0 /\ fin[x] /\ Held(x) = 0
      BY <1>6, <1>10, <2>2 DEF ReadEnds, WriteFails, CopyGoto, Held
    <2>4. got[y] = sent[x]
      BY <1>0, <1>1, <2>2, <2>3, MaxBytesAssumption DEF Counters
    <2>5. ~HalfClosed(x)
      BY <2>1 DEF HalfClosed
    <2>6. (eof[x] => HalfClosed(y)) /\ ~eof[y]
          /\ (copy[y] \in {"read", "write"} => socket[y].r /\ socket[x].w)
      BY <1>0, <1>2, <1>3, <1>4, <2>5 DEF Direction
    <2> QED BY <1>7, <2>1, <2>3, <2>4, <2>6
  <1>11. CASE CloseWrite(x)
    <2>1. /\ copy[x] = "shut write" /\ copy'[x] = "shut read" /\ UNCHANGED <<inbox, got>>
          /\ eof'[x] = eof[x] /\ socket'[x] = socket[x] /\ socket'[y].r = socket[y].r
      BY <1>0, <1>1, <1>11 DEF CloseWrite, CopyGoto, Copies, Sockets
    <2>2. HalfClosed(x)' /\ Done(x)
      BY <2>1 DEF HalfClosed, Done
    <2>3. fin[x] /\ got[y] = sent[x] /\ (eof[x] => HalfClosed(y))
          /\ (copy[y] \in {"read", "write"} => socket[y].r /\ socket[x].w)
      BY <1>0, <1>2, <1>3, <2>2 DEF Direction
    <2> QED BY <1>7, <2>1, <2>2, <2>3
  <1>12. CASE CloseRead(x)
    <2>1. /\ copy[x] = "shut read" /\ copy'[x] = "ended" /\ UNCHANGED <<inbox, got, eof>>
          /\ socket'[y] = socket[y] /\ socket'[x].w = socket[x].w
      BY <1>0, <1>1, <1>12 DEF CloseRead, CopyGoto, Copies, Sockets
    <2>2. HalfClosed(x)' /\ Done(x)
      BY <2>1 DEF HalfClosed, Done
    <2>3. fin[x] /\ got[y] = sent[x] /\ (eof[x] => HalfClosed(y))
          /\ (copy[y] \in {"read", "write"} => socket[y].r /\ socket[x].w)
      BY <1>0, <1>2, <1>3, <2>2 DEF Direction
    <2> QED BY <1>7, <2>1, <2>2, <2>3
  <1> QED BY <1>8, <1>9, <1>10, <1>11, <1>12 DEF Copy

\* What the peers do.
LEMMA RelayOfPeer ==
  ASSUME TypeInv, \A z \in Sides : Direction(z), NEW p \in Sides, Peer(p), NEW x \in Sides
  PROVE  Direction(x)'
  <1>1. /\ Handlers /\ Copies /\ Sockets /\ Counters /\ Peers
        /\ Direction(x) /\ Other(x) \in Sides
        /\ x = "client" \/ x = "server"
    BY Parts, OtherSide DEF TypeInv, Sides
  <1>2. UNCHANGED <<pc, copy, socket, got, eof>>
    BY DEF Peer, Send, Shut, Leave, StopReading
  <1>3. (fin[x] => fin'[x]) /\ (fin[x] => sent'[x] = sent[x])
    BY <1>1 DEF Peer, Send, Shut, Leave, StopReading, Peers, Counters
  <1>4. /\ sent[x] \in Nat /\ inbox[x] \in Nat /\ got[Other(x)] \in Nat
        /\ \/ sent'[x] = sent[x] /\ inbox'[x] = inbox[x]
           \/ /\ sent'[x] = sent[x] + 1 /\ MaySpeak(x)
              /\ inbox'[x] = IF socket[x].r THEN inbox[x] + 1 ELSE inbox[x]
    <2>1. sent[x] \in Nat /\ inbox[x] \in Nat /\ got[Other(x)] \in Nat
      BY <1>1, MaxBytesAssumption DEF Counters
    <2>2. CASE Send(p) /\ p = x
      <3>1. /\ sent' = [sent EXCEPT ![x] = @ + 1] /\ MaySpeak(x)
            /\ inbox' = [inbox EXCEPT ![x] = IF socket[x].r THEN @ + 1 ELSE @]
        BY <2>2 DEF Send
      <3> QED BY <1>1, <2>1, <3>1 DEF Counters
    <2>3. CASE Send(p) /\ p # x
      BY <1>1, <2>1, <2>3 DEF Send, Counters
    <2>4. CASE Shut(p) \/ Leave(p) \/ StopReading(p)
      BY <2>1, <2>4 DEF Shut, Leave, StopReading
    <2> QED BY <2>2, <2>3, <2>4 DEF Peer
  <1>5. pc \in {"dial", "ask", "answer"} => inbox'[x] = sent'[x]
    <2>1. pc \in {"dial", "ask", "answer"} /\ MaySpeak(x) => socket[x].r
      BY <1>1 DEF MaySpeak
    <2> QED BY <1>1, <1>4, <2>1 DEF Direction
  <1>6. Held(x) \in Nat /\ Held(x)' = Held(x)
    BY <1>2 DEF Held
  <1>7. copy[x] \in {"read", "write"} => got[Other(x)] + inbox'[x] + Held(x) = sent'[x]
    BY <1>1, <1>4, <1>6 DEF Direction
  <1> QED BY <1>1, <1>2, <1>3, <1>5, <1>6, <1>7 DEF Direction, Done, HalfClosed

LEMMA RelayStep ==
  ASSUME TypeInv, RelayInv, [Next]_vars
  PROVE  RelayInv'
  <1> SUFFICES ASSUME (mode = "tunnel" /\ Unbroken)' PROVE (\A x \in Sides : Direction(x))'
    BY DEF RelayInv
  <1>1. mode = "tunnel" /\ Unbroken /\ Unbroken' /\ \A x \in Sides : Direction(x)
    BY BrokenStays DEF RelayInv
  <1>2. CASE UNCHANGED vars
    BY <1>1, <1>2 DEF vars, peerVars, Direction, Done, HalfClosed, Held
  <1>3. CASE \/ DialFails \/ Dial \/ ParentAccepts \/ ParentRefuses \/ ParentBreaksOff
             \/ HttpError \/ Answer \/ AnswerFails \/ Relay \/ PanelCloses \/ CollectTombstone
    BY <1>1, <1>3, RelayOfHandler
  <1>4. ASSUME NEW x \in Sides, Copy(x) PROVE (\A z \in Sides : Direction(z))'
    BY <1>1, <1>4, RelayOfCopy
  <1>5. ASSUME NEW x \in Sides, Peer(x) PROVE (\A z \in Sides : Direction(z))'
    BY <1>1, <1>5, RelayOfPeer
  <1> QED BY <1>2, <1>3, <1>4, <1>5 DEF Next

\* In a tunnel that nobody has broken, a peer that reads the end of the stream
\* has everything the other one sent, however the two half closes interleave
\* with the copies.
THEOREM EofIsHonest == Spec => []EofMeansAll
  <1>1. TypeInv /\ RelayInv => EofMeansAll
    <2> SUFFICES ASSUME TypeInv, RelayInv, NEW x \in Sides, mode = "tunnel",
                        copy["client"] # "off", Unbroken, eof[x]
                 PROVE  fin[Other(x)] /\ got[x] = sent[Other(x)]
      BY DEF EofMeansAll
    <2>1. Direction(x) /\ Direction(Other(x)) /\ Direction("client") /\ Other(Other(x)) = x
      BY OtherSide DEF RelayInv, Sides
    <2>2. copy[x] # "off"
      BY <2>1, OtherSide DEF Direction, Sides
    <2>3. Done(Other(x))
      BY <2>1, <2>2 DEF Direction, Done
    <2> QED BY <2>1, <2>3 DEF Direction
  <1> QED BY <1>1, TypeInit, TypeStep, RelayInit, RelayStep, PTL DEF Spec

-----------------------------------------------------------------------------
(* The relay implements an honest pipe, from the dial to the last close. *)

BeforeRelay == {"dial", "ask", "failed", "answer"}

\* A socket on which the end was told is written no more, and nothing is copied
\* before the relay starts; the dial finds a server that was told nothing.
EndInv ==
  /\ \A x \in Sides : eof[x] => ~socket[x].w
  /\ pc = "dial" => ~eof["server"]
  /\ pc \in BeforeRelay => \A x \in Sides : copy[x] = "off"

LEMMA EndInit == Init => EndInv
  <1> SUFFICES ASSUME Init PROVE EndInv
    OBVIOUS
  <1>1. \A x \in Sides : ~eof[x]
    BY DEF Init, AllFalse
  <1>2. pc \in BeforeRelay => copy = [x \in Sides |-> "off"]
    BY DEF Init, BeforeRelay
  <1> QED BY <1>1, <1>2 DEF EndInv, Sides

\* Closing a socket tells its peer the end.
LEMMA CloseShuts ==
  ASSUME TypeInv, EndInv, NEW z \in Sides, Close(z)
  PROVE  \A x \in Sides : eof'[x] => ~socket'[x].w
  <1>1. Sockets
    BY Parts DEF TypeInv
  <1> QED BY <1>1 DEF Close, Closed, Sockets, EndInv

LEMMA EndOfHandler ==
  ASSUME TypeInv, EndInv,
         \/ DialFails \/ Dial \/ ParentAccepts \/ ParentRefuses \/ ParentBreaksOff
         \/ HttpError \/ Answer \/ AnswerFails \/ Relay \/ PanelCloses \/ CollectTombstone
  PROVE  EndInv'
  <1>1. /\ Sockets /\ Copies /\ "client" \in Sides /\ "server" \in Sides
        /\ FirstClosed \in Sides /\ Other(FirstClosed) \in Sides
    BY Parts, OtherSide DEF TypeInv, Sides, FirstClosed
  <1>2. pc' \in BeforeRelay => pc \in BeforeRelay /\ UNCHANGED copy
    BY DEF BeforeRelay, Goto, DialFails, Dial, ParentAccepts, ParentRefuses, ParentBreaksOff,
       HttpError, Answer, AnswerFails, Relay, CloseFirst, CloseSecond, PanelCloses,
       CollectTombstone
  <1>3. pc' = "dial" => pc = "dial" /\ eof'["server"] = eof["server"]
    <2>1. CASE PanelCloses
      BY <1>1, <2>1 DEF PanelCloses, Close, Sockets
    <2>2. CASE CollectTombstone
      BY <2>2 DEF CollectTombstone
    <2>3. CASE ~PanelCloses /\ ~CollectTombstone
      BY <2>3 DEF Goto, DialFails, Dial, ParentAccepts, ParentRefuses, ParentBreaksOff,
         HttpError, Answer, AnswerFails, Relay, CloseFirst, CloseSecond
    <2> QED BY <2>1, <2>2, <2>3
  <1>4. \A x \in Sides : eof'[x] => ~socket'[x].w
    <2>1. CASE DialFails \/ ParentAccepts \/ ParentBreaksOff \/ Answer \/ AnswerFails
               \/ CollectTombstone
      BY <2>1 DEF EndInv, DialFails, ParentAccepts, ParentBreaksOff, Answer, AnswerFails,
         CollectTombstone
    <2>2. CASE Dial
      <3>1. pc = "dial" /\ socket' = [socket EXCEPT !["server"] = Open] /\ eof' = eof
        BY <2>2 DEF Dial, Goto
      <3>2. \A x \in Sides : x # "server" => socket'[x] = socket[x]
        BY <1>1, <3>1 DEF Sockets
      <3> QED BY <3>1, <3>2 DEF EndInv
    <2>3. CASE ParentRefuses \/ HttpError \/ CloseFirst \/ CloseSecond \/ PanelCloses
      BY <1>1, <2>3, CloseShuts DEF ParentRefuses, HttpError, CloseFirst, CloseSecond, PanelCloses
    <2> QED BY <2>1, <2>2, <2>3 DEF Relay
  <1> QED BY <1>2, <1>3, <1>4 DEF EndInv

LEMMA EndStep ==
  ASSUME TypeInv, EndInv, [Next]_vars
  PROVE  EndInv'
  <1>1. CASE UNCHANGED vars
    BY <1>1 DEF vars, EndInv
  <1>2. CASE \/ DialFails \/ Dial \/ ParentAccepts \/ ParentRefuses \/ ParentBreaksOff
             \/ HttpError \/ Answer \/ AnswerFails \/ Relay \/ PanelCloses \/ CollectTombstone
    BY <1>2, EndOfHandler
  <1>3. ASSUME NEW x \in Sides, Copy(x) PROVE EndInv'
    <2>1. Sockets /\ Other(x) \in Sides /\ copy[x] # "off" /\ UNCHANGED pc
      BY <1>3, Parts, OtherSide DEF TypeInv, Copy, Read, ReadEnds, Write, WriteFails, CloseWrite,
         CloseRead, CopyGoto, AfterCopy
    <2>2. pc \notin BeforeRelay
      BY <2>1 DEF EndInv
    <2>3. \A z \in Sides : eof'[z] => ~socket'[z].w
      <3>1. CASE CloseWrite(x)
        BY <2>1, <3>1 DEF CloseWrite, Sockets, EndInv
      <3>2. CASE CloseRead(x)
        BY <2>1, <3>2 DEF CloseRead, Sockets, EndInv
      <3>3. CASE Read(x) \/ ReadEnds(x) \/ Write(x) \/ WriteFails(x)
        BY <3>3 DEF Read, ReadEnds, Write, WriteFails, EndInv
      <3> QED BY <1>3, <3>1, <3>2, <3>3 DEF Copy
    <2> QED BY <2>1, <2>2, <2>3 DEF EndInv, BeforeRelay
  <1>4. ASSUME NEW x \in Sides, Peer(x) PROVE EndInv'
    BY <1>4 DEF Peer, Send, Shut, Leave, StopReading, EndInv
  <1> QED BY <1>1, <1>2, <1>3, <1>4 DEF Next

\* What is broken stays broken.
LEMMA BrokenGrows ==
  ASSUME TypeInv, EndInv, [Next]_vars
  PROVE  Broken => Broken'
  <1> SUFFICES ASSUME Broken, ~Broken' PROVE FALSE
    OBVIOUS
  <1>1. Unbroken' /\ mode' # "websocket" /\ pc' # "failed" /\ ~ (pc' = "over" /\ copy'["client"] = "off")
    BY DEF Broken
  <1>2. Unbroken /\ mode' = mode
    BY <1>1, BrokenStays
  <1>3. pc \in {"failed", "over"} /\ copy["client"] = "off"
    BY <1>1, <1>2 DEF Broken, EndInv, BeforeRelay, Sides
  <1>4. copy'["client"] = "off" /\ pc' \in {"failed", "over"}
    <2>1. CASE UNCHANGED vars
      BY <1>3, <2>1 DEF vars
    <2>2. CASE \/ DialFails \/ Dial \/ ParentAccepts \/ ParentRefuses \/ ParentBreaksOff
               \/ HttpError \/ Answer \/ AnswerFails \/ Relay \/ PanelCloses \/ CollectTombstone
      BY <1>3, <2>2 DEF Goto, DialFails, Dial, ParentAccepts, ParentRefuses, ParentBreaksOff,
         HttpError, Answer, AnswerFails, Relay, CloseFirst, CloseSecond, PanelCloses,
         CollectTombstone
    <2>3. ASSUME NEW x \in Sides, Copy(x) PROVE copy'["client"] = "off" /\ pc' \in {"failed", "over"}
      <3>1. Copies
        BY Parts DEF TypeInv
      <3>2. copy[x] # "off" /\ pc' = pc
        BY <2>3 DEF Copy, Read, ReadEnds, Write, WriteFails, CloseWrite, CloseRead, CopyGoto, AfterCopy
      <3>3. \A z \in Sides : z # x => copy'[z] = copy[z]
        BY <2>3, <3>1 DEF Copies, Copy, Read, ReadEnds, Write, WriteFails, CloseWrite, CloseRead,
           CopyGoto
      <3> QED BY <1>3, <3>2, <3>3 DEF Sides
    <2>4. ASSUME NEW x \in Sides, Peer(x) PROVE copy'["client"] = "off" /\ pc' \in {"failed", "over"}
      BY <1>3, <2>4 DEF Peer, Send, Shut, Leave, StopReading
    <2> QED BY <2>1, <2>2, <2>3, <2>4 DEF Next
  <1> QED BY <1>1, <1>4

LEMMA PipeInit == Init => Pipe!Init
  BY DEF Init, Pipe!Init, None, AllFalse, Broken

\* A step that gives and tells nobody anything: at most the relay is broken.
LEMMA PipeSilent ==
  ASSUME TypeInv, Broken => Broken', UNCHANGED <<sent, fin, got, eof>>
  PROVE  [Pipe!Next]_Pipe!vars
  <1>1. CASE Broken' /\ ~Broken
    <2>1. Broken' = TRUE
      BY <1>1 DEF Broken
    <2>2. eof' = [x \in Sides |-> eof[x] \/ x \in {}]
      <3>1. eof \in [Sides -> BOOLEAN] /\ eof' = eof
        BY Parts DEF TypeInv, Sockets
      <3> QED BY <3>1
    <2>3. {} \in SUBSET Sides
      OBVIOUS
    <2>4. Pipe!Break
      BY <2>1, <2>2, <2>3 DEF Pipe!Break
    <2> QED BY <2>4 DEF Pipe!Next
  <1>2. CASE ~ (Broken' /\ ~Broken)
    <2>1. Broken' = Broken
      BY <1>2 DEF Broken
    <2> QED BY <2>1 DEF Pipe!vars
  <1> QED BY <1>1, <1>2

\* A peer is told the end.
LEMMA PipeTells ==
  ASSUME TypeInv, Broken => Broken', UNCHANGED <<sent, fin, got>>,
         NEW z \in Sides, eof' = [eof EXCEPT ![z] = TRUE],
         Broken' \/ (fin[Other(z)] /\ got[z] = sent[Other(z)])
  PROVE  [Pipe!Next]_Pipe!vars
  <1>1. CASE Broken' /\ ~Broken
    <2>1. Broken' = TRUE
      BY <1>1 DEF Broken
    <2>2. eof' = [x \in Sides |-> eof[x] \/ x \in {z}]
      <3>1. eof \in [Sides -> BOOLEAN]
        BY Parts DEF TypeInv, Sockets
      <3> QED BY <3>1
    <2>3. {z} \in SUBSET Sides
      OBVIOUS
    <2>4. Pipe!Break
      BY <2>1, <2>2, <2>3 DEF Pipe!Break
    <2> QED BY <2>4 DEF Pipe!Next
  <1>2. CASE ~ (Broken' /\ ~Broken)
    <2>1. Broken' = Broken
      BY <1>2 DEF Broken
    <2>2. Pipe!Tell(z)
      BY <2>1 DEF Pipe!Tell, Pipe!Complete, Pipe!Opposite, Other
    <2> QED BY <2>2 DEF Pipe!Next
  <1> QED BY <1>1, <1>2

LEMMA PipeStep ==
  ASSUME TypeInv, RelayInv, EndInv, [Next]_vars
  PROVE  [Pipe!Next]_Pipe!vars
  <1>1. Broken => Broken'
    BY BrokenGrows
  <1>2. Sockets /\ Counters /\ Copies
    BY Parts DEF TypeInv
  <1>3. /\ "client" \in Sides /\ "server" \in Sides /\ FirstClosed \in Sides
        /\ Other(FirstClosed) \in Sides
    BY OtherSide DEF Sides, FirstClosed
  <1>4. ~Broken => \A x \in Sides : Direction(x)
    BY DEF Broken, RelayInv, TypeInv, TypeOK
  <1>5. CASE UNCHANGED vars
    BY <1>1, <1>5, PipeSilent DEF vars, peerVars
  <1>6. CASE \/ DialFails \/ Dial \/ ParentAccepts \/ ParentBreaksOff \/ Answer \/ AnswerFails
             \/ CollectTombstone
    <2>1. UNCHANGED <<sent, fin, got, eof>>
      BY <1>6 DEF DialFails, Dial, ParentAccepts, ParentBreaksOff, Answer, AnswerFails,
         CollectTombstone, peerVars
    <2> QED BY <1>1, <2>1, PipeSilent
  <1>7. CASE ParentRefuses
    <2>1. /\ UNCHANGED <<sent, fin, got>> /\ eof' = [eof EXCEPT !["server"] = TRUE]
          /\ pc' = "failed"
      BY <1>7 DEF ParentRefuses, Close, Goto, peerVars
    <2>2. Broken'
      BY <2>1 DEF Broken
    <2> QED BY <1>1, <1>3, <2>1, <2>2, PipeTells
  <1>8. CASE HttpError
    <2>1. /\ UNCHANGED <<sent, fin, got>> /\ eof' = [eof EXCEPT !["client"] = TRUE]
          /\ pc = "failed"
      BY <1>8 DEF HttpError, Close, Goto, peerVars
    <2>2. Broken'
      BY <1>1, <2>1 DEF Broken
    <2> QED BY <1>1, <1>3, <2>1, <2>2, PipeTells
  <1>9. CASE PanelCloses
    <2>1. /\ UNCHANGED <<sent, fin, got>> /\ eof' = [eof EXCEPT !["client"] = TRUE]
          /\ cut' = TRUE
      BY <1>9 DEF PanelCloses, Close, peerVars
    <2>2. Broken'
      BY <2>1 DEF Broken, Unbroken
    <2> QED BY <1>1, <1>3, <2>1, <2>2, PipeTells
  <1>10. CASE Relay
    <2>1. PICK z \in Sides : eof' = [eof EXCEPT ![z] = TRUE]
      BY <1>3, <1>10 DEF Relay, CloseFirst, CloseSecond, Close
    <2>2. UNCHANGED <<sent, fin, got, mode, copy>>
      BY <1>10 DEF Relay, CloseFirst, CloseSecond, peerVars
    <2>3. ~Broken => fin[Other(z)] /\ got[z] = sent[Other(z)]
      <3> SUFFICES ASSUME ~Broken PROVE fin[Other(z)] /\ got[z] = sent[Other(z)]
        OBVIOUS
      <3>1. Other(z) \in Sides /\ Other(Other(z)) = z /\ Direction(Other(z))
        BY <1>4, OtherSide
      <3>2. mode = "tunnel"
        BY <1>2, Parts DEF TypeInv, TypeOK, Broken
      <3>3. copy[Other(z)] = "ended"
        <4>1. CASE CloseFirst
          BY <3>1, <3>2, <4>1 DEF CloseFirst, CopiesOver
        <4>2. CASE CloseSecond
          BY <3>1, <3>2, <4>2 DEF CloseSecond, Goto, Direction
        <4> QED BY <1>10, <4>1, <4>2 DEF Relay
      <3> QED BY <3>1, <3>3 DEF Direction, Done, HalfClosed
    <2> QED BY <1>1, <2>1, <2>2, <2>3, PipeTells
  <1>11. ASSUME NEW x \in Sides, Read(x) \/ ReadEnds(x) \/ WriteFails(x) \/ CloseRead(x)
         PROVE  [Pipe!Next]_Pipe!vars
    <2>1. UNCHANGED <<sent, fin, got, eof>>
      BY <1>11 DEF Read, ReadEnds, WriteFails, CloseRead, peerVars
    <2> QED BY <1>1, <2>1, PipeSilent
  <1>12. ASSUME NEW x \in Sides, Write(x) PROVE [Pipe!Next]_Pipe!vars
    <2> DEFINE y == Other(x)
    <2>1. y \in Sides /\ Other(y) = x
      BY OtherSide
    <2>2. /\ UNCHANGED <<sent, fin, eof, mode, pc, cut, gone>>
          /\ got' = [got EXCEPT ![y] = IF gone[y] THEN @ ELSE @ + 1]
          /\ socket[y].w /\ copy[x] = "write" /\ copy' = [copy EXCEPT ![x] = "read"]
      BY <1>12 DEF Write, CopyGoto, peerVars
    <2> HIDE DEF y
    <2>3. Broken' = Broken
      <3>1. pc = "over" => (copy'["client"] = "off" <=> copy["client"] = "off")
        BY <1>2, <1>3, <2>2 DEF Copies
      <3> QED BY <2>2, <3>1 DEF Broken, Unbroken
    <2>4. CASE gone[y]
      <3>1. got' = got
        BY <1>2, <2>1, <2>2, <2>4 DEF Counters
      <3> QED BY <1>1, <2>2, <3>1, PipeSilent
    <2>5. CASE ~gone[y]
      <3>1. got' = [got EXCEPT ![y] = @ + 1]
        BY <2>2, <2>5
      <3>2. ~eof[y]
        BY <2>1, <2>2 DEF EndInv
      <3>3. got[y] < sent[Other(y)]
        <4>1. got[Other(x)] + inbox[x] + Held(x) <= sent[x] /\ Held(x) = 1
          BY <2>2 DEF TypeInv, Conserved, Held
        <4>2. got[y] \in Nat /\ inbox[x] \in Nat /\ sent[x] \in Nat
          BY <1>2, <2>1, MaxBytesAssumption DEF Counters
        <4> QED BY <2>1, <4>1, <4>2 DEF y
      <3>4. Pipe!Deliver(y)
        BY <2>2, <2>3, <3>1, <3>2, <3>3 DEF Pipe!Deliver, Pipe!Opposite, Other
      <3> QED BY <2>1, <3>4 DEF Pipe!Next
    <2> QED BY <2>4, <2>5
  <1>13. ASSUME NEW x \in Sides, CloseWrite(x) PROVE [Pipe!Next]_Pipe!vars
    <2> DEFINE y == Other(x)
    <2>1. y \in Sides /\ Other(y) = x
      BY OtherSide
    <2>2. /\ UNCHANGED <<sent, fin, got>> /\ eof' = [eof EXCEPT ![y] = TRUE]
          /\ copy[x] = "shut write"
      BY <1>13 DEF CloseWrite, CopyGoto, peerVars
    <2>3. ~Broken => fin[x] /\ got[y] = sent[x]
      BY <1>4, <2>2 DEF Direction, Done
    <2> HIDE DEF y
    <2> QED BY <1>1, <2>1, <2>2, <2>3, PipeTells
  <1>14. ASSUME NEW x \in Sides, Send(x) \/ Shut(x) PROVE [Pipe!Next]_Pipe!vars
    <2>1. Broken' = Broken /\ UNCHANGED <<got, eof>>
      BY <1>14 DEF Send, Shut, Broken, Unbroken
    <2>2. CASE Send(x)
      BY <2>1, <2>2 DEF Send, Pipe!Send, Pipe!Next
    <2>3. CASE Shut(x)
      BY <2>1, <2>3 DEF Shut, Pipe!End, Pipe!Next
    <2> QED BY <1>14, <2>2, <2>3
  <1>15. ASSUME NEW x \in Sides, Leave(x) \/ StopReading(x) PROVE [Pipe!Next]_Pipe!vars
    <2>1. UNCHANGED <<sent, fin, got, eof>>
      BY <1>15 DEF Leave, StopReading
    <2> QED BY <1>1, <2>1, PipeSilent
  <1> QED BY <1>5, <1>6, <1>7, <1>8, <1>9, <1>10, <1>11, <1>12, <1>13, <1>14, <1>15
       DEF Next, Copy, Peer

\* A tunnel is an honest pipe from the dial to its last close, for any number of
\* bytes and any order of what peers, copies and panel do.
THEOREM RelayIsHonestPipe == Spec => PipeIsHonest
  <1> DEFINE Inv == TypeInv /\ RelayInv /\ EndInv
  <1>1. Init => Inv /\ Pipe!Init
    BY TypeInit, RelayInit, EndInit, PipeInit
  <1>2. Inv /\ [Next]_vars => Inv'
    BY TypeStep, RelayStep, EndStep
  <1>3. Inv /\ [Next]_vars => [Pipe!Next]_Pipe!vars
    BY PipeStep
  <1> QED BY <1>1, <1>2, <1>3, PTL DEF Spec, PipeIsHonest, Pipe!Spec

-----------------------------------------------------------------------------
(* What a relay leaves behind. *)

\* The goroutine that waits closes its two sockets, after the copies of a tunnel
\* have ended, and nobody opens a socket again.
OverInv ==
  /\ mode = "tunnel" /\ pc = "close" => \A x \in Sides : copy[x] = "ended"
  /\ mode = "tunnel" /\ pc = "over" => copy["client"] = "off" \/ \A x \in Sides : copy[x] = "ended"
  /\ pc = "close" => socket[FirstClosed] = Closed
  /\ pc = "over" => copy["client"] = "off" \/ \A x \in Sides : socket[x] = Closed

\* A session that was relayed and is over has closed both its sockets; neither
\* copy of a tunnel still runs then.
NothingStaysOpen ==
  pc = "over" /\ copy["client"] # "off" =>
    \A x \in Sides : socket[x] = Closed /\ (mode = "tunnel" => copy[x] = "ended")

\* A socket that was closed stays closed, whatever is closed next.
LEMMA ClosedStays ==
  ASSUME Sockets, NEW x \in Sides, socket[x] = Closed,
         \/ UNCHANGED socket
         \/ \E y \in Sides : socket' = [socket EXCEPT ![y] = Closed]
         \/ \E y \in Sides : socket' = [socket EXCEPT ![y].w = FALSE]
         \/ \E y \in Sides : socket' = [socket EXCEPT ![y].r = FALSE]
  PROVE  socket'[x] = Closed
  <1>1. [Closed EXCEPT !.w = FALSE] = Closed /\ [Closed EXCEPT !.r = FALSE] = Closed
    <2>1. Closed \in [r : BOOLEAN, w : BOOLEAN] /\ Closed.r = FALSE /\ Closed.w = FALSE
      BY DEF Closed
    <2>2. [Closed EXCEPT !.w = Closed.w] = Closed /\ [Closed EXCEPT !.r = Closed.r] = Closed
      BY <2>1
    <2> QED BY <2>1, <2>2
  <1>2. ASSUME NEW y \in Sides, NEW v, socket' = [socket EXCEPT ![y] = v], y = x => v = Closed
        PROVE  socket'[x] = Closed
    BY <1>2 DEF Sockets
  <1>3. ASSUME NEW y \in Sides, socket' = [socket EXCEPT ![y].w = FALSE]
        PROVE  socket'[x] = Closed
    <2>1. socket' = [socket EXCEPT ![y] = [socket[y] EXCEPT !.w = FALSE]]
      BY <1>3
    <2> QED BY <1>1, <1>2, <2>1
  <1>4. ASSUME NEW y \in Sides, socket' = [socket EXCEPT ![y].r = FALSE]
        PROVE  socket'[x] = Closed
    <2>1. socket' = [socket EXCEPT ![y] = [socket[y] EXCEPT !.r = FALSE]]
      BY <1>4
    <2> QED BY <1>1, <1>2, <2>1
  <1> QED BY <1>2, <1>3, <1>4

LEMMA OverStep ==
  ASSUME TypeInv, EndInv, OverInv, [Next]_vars
  PROVE  OverInv'
  <1>1. /\ Sockets /\ "client" \in Sides /\ FirstClosed \in Sides /\ Other(FirstClosed) \in Sides
        /\ Sides = {FirstClosed, Other(FirstClosed)}
    BY Parts, OtherSide DEF TypeInv, Sides, FirstClosed
  <1>2. CASE UNCHANGED vars
    BY <1>2 DEF vars, OverInv, FirstClosed
  <1>3. CASE DialFails \/ Dial \/ ParentAccepts \/ ParentRefuses \/ ParentBreaksOff \/ Answer
    BY <1>3 DEF DialFails, Dial, ParentAccepts, ParentRefuses, ParentBreaksOff, Answer, Goto, OverInv
  <1>4. CASE HttpError \/ AnswerFails
    <2>1. pc' = "over" /\ UNCHANGED copy /\ pc \in BeforeRelay
      BY <1>4 DEF HttpError, AnswerFails, Goto, BeforeRelay
    <2>2. copy'["client"] = "off"
      BY <1>1, <2>1 DEF EndInv
    <2> QED BY <2>1, <2>2 DEF OverInv
  <1>5. CASE CloseFirst
    <2>1. /\ pc' = "close" /\ UNCHANGED <<mode, copy>> /\ CopiesOver
          /\ socket' = [socket EXCEPT ![FirstClosed] = Closed]
      BY <1>5 DEF CloseFirst, Goto, Close
    <2>2. socket'[FirstClosed] = Closed /\ FirstClosed' = FirstClosed
      BY <1>1, <2>1 DEF Sockets, FirstClosed
    <2>3. mode = "tunnel" => \A x \in Sides : copy'[x] = "ended"
      BY <2>1 DEF CopiesOver
    <2> QED BY <2>1, <2>2, <2>3 DEF OverInv
  <1>6. CASE CloseSecond
    <2>1. /\ pc = "close" /\ pc' = "over" /\ UNCHANGED <<mode, copy>>
          /\ socket' = [socket EXCEPT ![Other(FirstClosed)] = Closed]
      BY <1>6 DEF CloseSecond, Goto, Close
    <2>2. socket'[FirstClosed] = Closed
      BY <1>1, <2>1, ClosedStays DEF OverInv
    <2>3. socket'[Other(FirstClosed)] = Closed
      BY <1>1, <2>1 DEF Sockets
    <2> QED BY <1>1, <2>1, <2>2, <2>3 DEF OverInv
  <1>7. CASE PanelCloses \/ CollectTombstone
    <2>1. UNCHANGED <<mode, pc, copy>>
      BY <1>7 DEF PanelCloses, CollectTombstone
    <2>2. \A x \in Sides : socket[x] = Closed => socket'[x] = Closed
      BY <1>1, <1>7, ClosedStays DEF PanelCloses, CollectTombstone, Close
    <2> QED BY <1>1, <2>1, <2>2 DEF OverInv, FirstClosed
  <1>8. ASSUME NEW x \in Sides, Copy(x) PROVE OverInv'
    <2>1. Copies /\ Other(x) \in Sides
      BY Parts, OtherSide DEF TypeInv
    <2>2. /\ UNCHANGED <<mode, pc>> /\ copy[x] \notin {"off", "ended"}
          /\ \A z \in Sides : z # x => copy'[z] = copy[z]
          /\ copy'[x] # "off"
      BY <1>8, <2>1 DEF Copies, Copy, Read, ReadEnds, Write, WriteFails, CloseWrite, CloseRead,
         CopyGoto, AfterCopy
    <2>3. \A z \in Sides : socket[z] = Closed => socket'[z] = Closed
      BY <1>1, <1>8, <2>1, ClosedStays DEF Copy, Read, ReadEnds, Write, WriteFails, CloseWrite,
         CloseRead
    <2>4. copy["client"] = "off" => copy'["client"] = "off"
      BY <1>1, <2>2
    <2> QED BY <1>1, <2>2, <2>3, <2>4 DEF OverInv, FirstClosed
  <1>9. ASSUME NEW x \in Sides, Peer(x) PROVE OverInv'
    BY <1>9 DEF Peer, Send, Shut, Leave, StopReading, OverInv, FirstClosed
  <1> QED BY <1>2, <1>3, <1>4, <1>5, <1>6, <1>7, <1>8, <1>9 DEF Next, Relay

\* Whatever peers, copies and the panel did, a relay that is over has closed both
\* sockets, and a tunnel's copies have ended before (https.go:464-478,
\* websocket.go:40-56): no half-closed socket is left behind.
THEOREM OverIsClosed == Spec => []NothingStaysOpen
  <1>1. Init => OverInv
    BY DEF Init, OverInv
  <1>2. TypeInv /\ EndInv /\ OverInv /\ [Next]_vars => OverInv'
    BY OverStep
  <1>3. OverInv => NothingStaysOpen
    BY DEF OverInv, NothingStaysOpen
  <1> QED BY <1>1, <1>2, <1>3, TypeInit, TypeStep, EndInit, EndStep, PTL DEF Spec
=============================================================================

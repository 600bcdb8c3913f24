------------------------- MODULE BodyCapture_proofs -------------------------
(***************************************************************************)
(* Proofs about BodyCapture, for bodies of every length.                   *)
(***************************************************************************)
EXTENDS BodyCapture, TLAPS

\* A chunk that was read and is being handed to the pipe.
InHand(b) == IF reader[b] = "writing" THEN 1 ELSE 0

\* The bodies the handler has not come to: nothing has been wrapped or read.
Untouched(b) ==
  /\ reader[b] = "off" /\ read[b] = 0 /\ got[b] = 0
  /\ pipe[b] = "none" /\ uploader[b] = "none"
  /\ err[b] = "none" /\ ~uploaded[b]

BodyUntouched ==
  /\ pc = "filter" => Untouched("req")
  /\ pc \in {"filter", "roundtrip", "closeReq", "waitReq", "respond"} => Untouched("resp")

\* The uploader and its pipe.  A pipe is closed for good, a write fails only on
\* a closed one, and until the uploader leaves nothing else has failed.
PipesAndUploaders ==
  \A b \in Bodies :
    /\ uploader[b] = "none" <=> pipe[b] = "none"
    /\ uploaded[b] => uploader[b] \in {"leave", "done"}
    /\ uploader[b] \in {"create", "receive"} /\ pipe[b] = "open" => err[b] = "none"
    /\ reader[b] = "writing" => Captured(b)
    /\ temp[b] => uploader[b] \in {"receive", "put"}

\* As long as nothing has failed, the uploader took what was read, but for the
\* chunk in hand.
TakenIsRead ==
  \A b \in Bodies : Captured(b) /\ err[b] = "none" => read[b] = got[b] + InHand(b)

\* The handler has waited for the uploader of a body before it goes on.
HandlerWaits ==
  /\ pc \in {"respond", "deliver", "closeResp", "waitResp", "end"} => UploadOver("req")
  /\ pc = "end" => UploadOver("resp")

\* Only the last step of the handler reports.
ReportIsLast == reported => pc = "end" /\ ~skip

\* An open pipe has an uploader at its other end, no more is read than a body's
\* length says, and who waits for an uploader has closed the pipe.
PipesAreServed ==
  /\ \A b \in Bodies : /\ pipe[b] = "open" => uploader[b] \in {"create", "receive", "leave"}
                       /\ length[b] # Unknown => read[b] <= length[b]
  /\ pc = "waitReq" => pipe["req"] # "open"
  /\ pc = "waitResp" => pipe["resp"] # "open"

Inv == /\ TypeOK /\ BodyUntouched /\ PipesAndUploaders
       /\ TakenIsRead /\ HandlerWaits /\ ReportIsLast /\ PipesAreServed

LEMMA InvInit == Init => Inv
  <1> SUFFICES ASSUME Init PROVE Inv
    OBVIOUS
  <1>1. TypeOK
    <2>1. /\ read \in [Bodies -> 0 .. MaxChunks] /\ got \in [Bodies -> 0 .. MaxChunks]
          /\ pc = "filter" /\ mitm \in BOOLEAN
          /\ length \in [Bodies -> {Unknown} \cup 0 .. MaxChunks]
      BY ChunksAssumption DEF Init
    <2>2. /\ temp \in [Bodies -> BOOLEAN] /\ uploaded \in [Bodies -> BOOLEAN]
          /\ failed \in BOOLEAN /\ skip \in BOOLEAN /\ reported \in BOOLEAN
      BY Zenon DEF Init
    <2>3. /\ reader \in [Bodies -> {"off", "reading", "writing", "over"}]
          /\ pipe \in [Bodies -> {"none", "open", "eof", "broken"}]
          /\ uploader \in [Bodies -> {"none", "create", "receive", "put", "leave", "done"}]
          /\ err \in [Bodies -> {"none", "upload", "write"}]
      BY DEF Init
    <2> QED BY <2>1, <2>2, <2>3 DEF TypeOK
  <1>2. \A b \in Bodies : Untouched(b) /\ ~temp[b]
    BY DEF Init, Untouched, Bodies
  <1>3. pc = "filter" /\ ~reported /\ "req" \in Bodies /\ "resp" \in Bodies
    BY DEF Init, Bodies
  <1>4. BodyUntouched /\ HandlerWaits /\ ReportIsLast
    BY <1>2, <1>3 DEF BodyUntouched, HandlerWaits, ReportIsLast
  <1>5. PipesAndUploaders /\ TakenIsRead
    BY <1>2 DEF Untouched, PipesAndUploaders, TakenIsRead, Captured
  <1>6. \A b \in Bodies : length[b] # Unknown => read[b] <= length[b]
    BY ChunksAssumption DEF Init, Unknown
  <1>7. PipesAreServed
    BY <1>2, <1>3, <1>6 DEF PipesAreServed, Untouched
  <1> QED BY <1>1, <1>4, <1>5, <1>7 DEF Inv

\* The steps of the handler.
LEMMA InvOfHandler ==
  ASSUME Inv, Handler
  PROVE  Inv'
  <1> USE DEF Inv, TypeOK, BodyUntouched, Untouched, PipesAndUploaders, TakenIsRead,
          HandlerWaits, ReportIsLast, PipesAreServed, Captured, UploadOver, InHand, Unknown, Bodies,
          Goto, Set, handlerVars, bodyVars
  <1> USE ChunksAssumption
  <1>1. CASE BlockRequest
    BY <1>1 DEF BlockRequest
  <1>2. CASE RoundTrip
    BY <1>2 DEF RoundTrip
  <1>3. CASE CloseRequestBody
    BY <1>3 DEF CloseRequestBody, ClosePipe
  <1>4. CASE RequestBodyClosed
    BY <1>4 DEF RequestBodyClosed
  <1>5. CASE StopDelivery
    BY <1>5 DEF StopDelivery
  <1>6. CASE CloseResponseBody
    BY <1>6 DEF CloseResponseBody, ClosePipe
  <1>7. CASE SendExchange
    BY <1>7 DEF SendExchange
  <1>8. ASSUME NEW capture \in BOOLEAN, SendRequest(capture) PROVE Inv'
    BY <1>8 DEF SendRequest, BuildBodyReader
  <1>9. ASSUME NEW capture \in BOOLEAN, NEW websocket \in BOOLEAN,
               Respond(capture, websocket)
        PROVE  Inv'
    BY <1>9 DEF Respond, BuildBodyReader
  <1> QED BY <1>1, <1>2, <1>3, <1>4, <1>5, <1>6, <1>7, <1>8, <1>9 DEF Handler

\* The steps of those who read the bodies.
LEMMA InvOfReaders ==
  ASSUME Inv,
         EndRequestBody \/ \E b \in Bodies : ReadChunk(b) \/ WriteFails(b)
  PROVE  Inv'
  <1> USE DEF Inv, TypeOK, BodyUntouched, Untouched, PipesAndUploaders, TakenIsRead,
          HandlerWaits, ReportIsLast, PipesAreServed, Captured, UploadOver, InHand, Unknown, Bodies,
          Set, handlerVars, bodyVars
  <1> USE ChunksAssumption
  <1>1. CASE EndRequestBody
    BY <1>1 DEF EndRequestBody, ClosePipe
  <1>2. ASSUME NEW b \in Bodies, ReadChunk(b) PROVE Inv'
    BY <1>2 DEF ReadChunk
  <1>3. ASSUME NEW b \in Bodies, WriteFails(b) PROVE Inv'
    BY <1>3 DEF WriteFails
  <1> QED BY <1>1, <1>2, <1>3

\* The steps of an uploader.
LEMMA InvOfUploaders ==
  ASSUME Inv, NEW b \in Bodies, Uploader(b)
  PROVE  Inv'
  <1> USE DEF Inv, TypeOK, BodyUntouched, Untouched, PipesAndUploaders, TakenIsRead,
          HandlerWaits, ReportIsLast, PipesAreServed, Captured, UploadOver, InHand, Unknown, Bodies,
          Set, handlerVars, bodyVars
  <1> USE ChunksAssumption
  <1>1. CASE CreateTemp(b)
    BY <1>1 DEF CreateTemp
  <1>2. CASE Receive(b)
    BY <1>2 DEF Receive
  <1>3. CASE TempComplete(b)
    BY <1>3 DEF TempComplete
  <1>4. CASE UploadSucceeds(b)
    BY <1>4 DEF UploadSucceeds
  <1>5. CASE UploadFails(b)
    BY <1>5 DEF UploadFails
  <1>6. CASE UploadLeaves(b)
    BY <1>6 DEF UploadLeaves
  <1> QED BY <1>1, <1>2, <1>3, <1>4, <1>5, <1>6 DEF Uploader

LEMMA InvStep == Inv /\ [Next]_vars => Inv'
  <1> SUFFICES ASSUME Inv, [Next]_vars PROVE Inv'
    OBVIOUS
  <1>1. CASE UNCHANGED vars
    BY <1>1 DEF vars, handlerVars, bodyVars, Inv, TypeOK, BodyUntouched, Untouched,
       PipesAndUploaders, TakenIsRead, HandlerWaits, ReportIsLast, PipesAreServed, Captured, UploadOver,
       InHand
  <1>2. CASE ToggleMitm
    BY <1>2 DEF ToggleMitm, handlerVars, bodyVars, Inv, TypeOK, BodyUntouched, Untouched,
       PipesAndUploaders, TakenIsRead, HandlerWaits, ReportIsLast, PipesAreServed, Captured, UploadOver,
       InHand
  <1>3. CASE Next /\ ~ToggleMitm
    BY <1>3, InvOfHandler, InvOfReaders, InvOfUploaders DEF Next
  <1> QED BY <1>1, <1>2, <1>3

LEMMA InvHolds == Spec => []Inv
  BY InvInit, InvStep, PTL DEF Spec

\* The variables of an exchange always have their types; that the uploader does
\* not take more than was read is what bounds its count.
THEOREM TypeCorrect == Spec => []TypeOK
  <1>1. Inv => TypeOK
    BY DEF Inv
  <1> QED BY <1>1, InvHolds, PTL

\* When the handler returns, by whatever way, no uploader runs and no temporary
\* file is left (minioUpload.go:182-196 waits for the uploader).
THEOREM HandlerCleansUp == Spec => []NothingLeftBehind
  <1>1. Inv => NothingLeftBehind
    BY DEF Inv, HandlerWaits, PipesAndUploaders, NothingLeftBehind, UploadOver, Bodies
  <1> QED BY <1>1, InvHolds, PTL

\* An object that counts as uploaded without an error holds every chunk that was
\* read, for bodies of every length (minioUpload.go:166-179).
THEOREM UploadsAreWhole == Spec => []UploadIsWholeRead
  <1>1. Inv => UploadIsWholeRead
    BY DEF Inv, TypeOK, PipesAndUploaders, TakenIsRead, UploadIsWholeRead, Captured, InHand,
       Unknown
  <1> QED BY <1>1, InvHolds, PTL

\* What a hook answered, and a WebSocket, is never shown in the list.
THEOREM SkippedStaysHidden == Spec => []SkippedIsNotReported
  <1>1. Inv => SkippedIsNotReported
    BY DEF Inv, ReportIsLast, SkippedIsNotReported
  <1> QED BY <1>1, InvHolds, PTL

\* Nobody waits for somebody who waits for him, for bodies of every length and
\* whatever fails in the upload (minioUpload.go:166-196).
THEOREM NoCircularWaits == Spec => []NoCircularWait
  <1>1. Inv => NoCircularWait
    <2> SUFFICES ASSUME Inv, NEW b \in Bodies
                 PROVE  /\ WaitsForUpload(b) => ~WaitsForData(b)
                        /\ reader[b] = "writing" /\ pipe[b] = "open" =>
                             \/ uploader[b] \in {"create", "leave"}
                             \/ uploader[b] = "receive" /\ (length[b] # Unknown => got[b] < length[b])
      BY DEF NoCircularWait
    <2>1. WaitsForUpload(b) => pipe[b] # "open"
      BY DEF Inv, PipesAreServed, WaitsForUpload, Bodies
    <2>2. ASSUME reader[b] = "writing", pipe[b] = "open", uploader[b] = "receive",
                 length[b] # Unknown
          PROVE  got[b] < length[b]
      <3>1. read[b] = got[b] + 1
        BY <2>2 DEF Inv, TakenIsRead, PipesAndUploaders, Captured, InHand
      <3>2. read[b] <= length[b] /\ read[b] \in Nat /\ got[b] \in Nat /\ length[b] \in Nat
        BY <2>2, ChunksAssumption DEF Inv, PipesAreServed, TypeOK
      <3> QED BY <3>1, <3>2
    <2>3. pipe[b] = "open" => uploader[b] \in {"create", "receive", "leave"}
      BY DEF Inv, PipesAreServed
    <2> QED BY <2>1, <2>2, <2>3 DEF WaitsForData
  <1> QED BY <1>1, InvHolds, PTL
=============================================================================

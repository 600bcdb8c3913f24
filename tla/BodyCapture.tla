----------------------------- MODULE BodyCapture ----------------------------
(***************************************************************************)
(* One exchange of a decrypted tunnel (or of the HTTP forwarding engine)   *)
(* whose bodies are copied to MinIO while they pass through: the handler,  *)
(* the transport's goroutine that reads the request body, and for each     *)
(* captured body an uploader fed through an io.Pipe.                       *)
(*                                                                         *)
(* A body is counted in chunks, one per Read.                              *)
(***************************************************************************)
EXTENDS Integers

CONSTANTS
  MaxChunks,     \* longest body, in chunks
  BlockRequests, \* whether a request may be answered by a hook (403)
  Websockets     \* whether a server may answer 101

ASSUME ChunksAssumption == MaxChunks \in Nat
ASSUME FlagsAssumption == BlockRequests \in BOOLEAN /\ Websockets \in BOOLEAN

Bodies == {"req", "resp"}
Unknown == -1

VARIABLES
  mitm,      \* MitmEnabled of the configuration
  pc,        \* where the handler is
  failed,    \* the round trip returned an error, kept by SetCaptureError
  skip,      \* ExchangeCapture.skipSend
  reported,  \* the exchange went into GlobalExchangeChan
  length,    \* Content-Length of each body, or Unknown
  reader,    \* who reads the body: the transport (req) or the handler (resp)
  read,      \* chunks read from the peer
  pipe,      \* the io.Pipe of each captured body
  uploader,  \* the upload goroutine of each captured body
  got,       \* chunks the uploader took from the pipe
  temp,      \* a temporary file exists
  uploaded,  \* BodyCapture.Uploaded
  err        \* BodyCapture.Error: none, of the upload, of a pipe write

handlerVars == <<pc, failed, skip, reported>>
bodyVars == <<length, reader, read, pipe, uploader, got, temp, uploaded, err>>
vars == <<mitm, handlerVars, bodyVars>>

TypeOK ==
  /\ mitm \in BOOLEAN
  /\ pc \in {"filter", "roundtrip", "closeReq", "waitReq", "respond", "deliver",
             "closeResp", "waitResp", "end"}
  /\ failed \in BOOLEAN /\ skip \in BOOLEAN /\ reported \in BOOLEAN
  /\ length \in [Bodies -> {Unknown} \cup 0 .. MaxChunks]
  /\ reader \in [Bodies -> {"off", "reading", "writing", "over"}]
  /\ read \in [Bodies -> 0 .. MaxChunks]
  /\ pipe \in [Bodies -> {"none", "open", "eof", "broken"}]
  /\ uploader \in [Bodies -> {"none", "create", "receive", "put", "leave", "done"}]
  /\ got \in [Bodies -> 0 .. MaxChunks]
  /\ temp \in [Bodies -> BOOLEAN]
  /\ uploaded \in [Bodies -> BOOLEAN]
  /\ err \in [Bodies -> {"none", "upload", "write"}]

Init ==
  /\ mitm \in BOOLEAN
  /\ pc = "filter"
  /\ failed = FALSE /\ skip = FALSE /\ reported = FALSE
  /\ length \in [Bodies -> {Unknown} \cup 0 .. MaxChunks]
  /\ reader = [b \in Bodies |-> "off"]
  /\ read = [b \in Bodies |-> 0]
  /\ pipe = [b \in Bodies |-> "none"]
  /\ uploader = [b \in Bodies |-> "none"]
  /\ got = [b \in Bodies |-> 0]
  /\ temp = [b \in Bodies |-> FALSE]
  /\ uploaded = [b \in Bodies |-> FALSE]
  /\ err = [b \in Bodies |-> "none"]

Goto(from, to) == pc = from /\ pc' = to
Set(f, b, v) == [f EXCEPT ![b] = v]
Captured(b) == pipe[b] # "none"

\* POST /api/config may turn decryption off and on at any moment.
ToggleMitm ==
  /\ mitm' = ~mitm
  /\ UNCHANGED <<handlerVars, bodyVars>>

\* BuildBodyReader: with MinIO off or for a stream type the body is only
\* counted, otherwise an upload starts that waits for the pipe.
BuildBodyReader(b, capture) ==
  /\ pipe' = Set(pipe, b, IF capture THEN "open" ELSE "none")
  /\ uploader' = Set(uploader, b, IF ~capture THEN "none"
                                  ELSE IF length[b] = Unknown THEN "create" ELSE "receive")

-----------------------------------------------------------------------------
(* The handler. *)

\* A hook answers the request itself.  Access control runs before the traffic
\* monitor, so the body has not been wrapped; the exchange is not to be sent.
BlockRequest ==
  /\ BlockRequests
  /\ Goto("filter", "respond")
  /\ skip' = TRUE
  /\ UNCHANGED <<mitm, failed, reported, bodyVars>>

\* The hooks wrap the body and the transport starts to read it.
SendRequest(capture) ==
  /\ capture => mitm
  /\ Goto("filter", "roundtrip")
  /\ BuildBodyReader("req", capture)
  /\ reader' = Set(reader, "req", "reading")
  /\ UNCHANGED <<mitm, failed, skip, reported, length, read, got, temp, uploaded, err>>

\* The round trip returns as soon as there is a response, or an error; the
\* transport may still be reading the request body.
RoundTrip ==
  /\ Goto("roundtrip", "closeReq")
  /\ failed' \in BOOLEAN
  /\ UNCHANGED <<mitm, skip, reported, bodyVars>>

\* Mutant: the writer of the pipe is not closed with the body.
ClosePipeForgotten(b) == pipe' = [pipe EXCEPT ![b] = @]

ClosePipe(b) == pipe' = [pipe EXCEPT ![b] = IF @ = "open" THEN "eof" ELSE @]

\* bodyCaptReader.Close: the pipe first, then wait for the uploader.
CloseRequestBody ==
  /\ Goto("closeReq", "waitReq")
  /\ ClosePipe("req")
  /\ UNCHANGED <<mitm, failed, skip, reported, length, reader, read, uploader, got,
                 temp, uploaded, err>>

UploadOver(b) == uploader[b] \in {"none", "done"}

\* Mutant: Close does not wait for the uploader.
RequestBodyClosedAtOnce ==
  /\ Goto("waitReq", IF failed THEN "end" ELSE "respond")
  /\ UNCHANGED <<mitm, failed, skip, reported, bodyVars>>

\* After an error the handler keeps it and returns.
RequestBodyClosed ==
  /\ UploadOver("req")
  /\ Goto("waitReq", IF failed THEN "end" ELSE "respond")
  /\ UNCHANGED <<mitm, failed, skip, reported, bodyVars>>

\* The response hooks wrap the body; then the header is looked at, and written:
\* a 101 makes the exchange one that is not to be sent.
Respond(capture, websocket) ==
  /\ capture => mitm /\ ~skip
  /\ websocket => Websockets /\ ~skip
  /\ pc = "respond"
  /\ BuildBodyReader("resp", capture)
  /\ skip' = (skip \/ websocket)
  /\ IF websocket
     THEN pc' = "closeResp" /\ length["resp"] = 0 /\ UNCHANGED reader
     ELSE \/ pc' = "deliver" /\ reader' = Set(reader, "resp", "reading")
          \/ pc' = "closeResp" /\ UNCHANGED reader
  /\ UNCHANGED <<mitm, failed, reported, length, read, got, temp, uploaded, err>>

\* The body is copied to its end, or the client does not take it.
StopDelivery ==
  /\ Goto("deliver", "closeResp")
  /\ reader["resp"] # "writing"
  /\ reader' = Set(reader, "resp", "over")
  /\ UNCHANGED <<mitm, failed, skip, reported, length, read, pipe, uploader, got, temp,
                 uploaded, err>>

CloseResponseBody ==
  /\ Goto("closeResp", "waitResp")
  /\ ClosePipe("resp")
  /\ UNCHANGED <<mitm, failed, skip, reported, length, reader, read, uploader, got,
                 temp, uploaded, err>>

\* Mutant: the mark "not to be sent" is not looked at.
SendExchangeAlways ==
  /\ UploadOver("resp")
  /\ Goto("waitResp", "end")
  /\ reported' \in {FALSE, mitm}
  /\ UNCHANGED <<mitm, failed, skip, bodyVars>>

\* The inner Close runs SendExchange, which drops what the channel cannot take.
SendExchange ==
  /\ UploadOver("resp")
  /\ Goto("waitResp", "end")
  /\ reported' \in {FALSE, mitm /\ ~skip}
  /\ UNCHANGED <<mitm, failed, skip, bodyVars>>

-----------------------------------------------------------------------------
(* The readers. *)

\* Mutant: the body is read one chunk too far.
ReadChunkTooFar(b) ==
  /\ reader[b] = "reading"
  /\ b = "resp" => pc = "deliver"
  /\ read[b] <= (IF length[b] = Unknown THEN MaxChunks ELSE length[b])
  /\ read' = Set(read, b, read[b] + 1)
  /\ reader' = Set(reader, b, IF Captured(b) THEN "writing" ELSE "reading")
  /\ UNCHANGED <<mitm, handlerVars, length, pipe, uploader, got, temp, uploaded, err>>

\* bodyCaptReader.Read: a chunk from the peer, then the pipe, which blocks until
\* the uploader takes it.
ReadChunk(b) ==
  /\ reader[b] = "reading"
  /\ b = "resp" => pc = "deliver"
  /\ read[b] < (IF length[b] = Unknown THEN MaxChunks ELSE length[b])
  /\ read' = Set(read, b, read[b] + 1)
  /\ reader' = Set(reader, b, IF Captured(b) THEN "writing" ELSE "reading")
  /\ UNCHANGED <<mitm, handlerVars, length, pipe, uploader, got, temp, uploaded, err>>

\* Mutant: the failed write is not recorded.
WriteFailsUnrecorded(b) ==
  /\ reader[b] = "writing" /\ pipe[b] \in {"eof", "broken"}
  /\ reader' = Set(reader, b, "reading")
  /\ UNCHANGED <<mitm, handlerVars, length, read, pipe, uploader, got, temp, uploaded, err>>

\* A write to a pipe closed at either end fails; the error is kept and the body
\* goes on.
WriteFails(b) ==
  /\ reader[b] = "writing" /\ pipe[b] \in {"eof", "broken"}
  /\ reader' = Set(reader, b, "reading")
  /\ err' = Set(err, b, "write")
  /\ UNCHANGED <<mitm, handlerVars, length, read, pipe, uploader, got, temp, uploaded>>

\* The peer's body ends or fails (that of the response: see StopDelivery).  The
\* transport closes what it has read, unless there was nothing to read.
EndRequestBody ==
  /\ reader["req"] = "reading"
  /\ reader' = Set(reader, "req", "over")
  /\ ClosePipe("req") \/ (read["req"] = 0 /\ UNCHANGED pipe)
  /\ UNCHANGED <<mitm, handlerVars, length, read, uploader, got, temp, uploaded, err>>

-----------------------------------------------------------------------------
(* The uploader. *)

\* A body of unknown length goes to a temporary file first.
CreateTemp(b) ==
  /\ uploader[b] = "create"
  /\ uploader' = Set(uploader, b, "receive")
  /\ temp' = Set(temp, b, TRUE)
  /\ UNCHANGED <<mitm, handlerVars, length, reader, read, pipe, got, uploaded, err>>

\* A known length is all that PutObject reads.
Receive(b) ==
  /\ uploader[b] = "receive" /\ reader[b] = "writing" /\ pipe[b] = "open"
  /\ length[b] # Unknown => got[b] < length[b]
  /\ got' = Set(got, b, got[b] + 1)
  /\ reader' = Set(reader, b, "reading")
  /\ UNCHANGED <<mitm, handlerVars, length, read, pipe, uploader, temp, uploaded, err>>

TempComplete(b) ==
  /\ uploader[b] = "receive" /\ length[b] = Unknown /\ pipe[b] = "eof"
  /\ uploader' = Set(uploader, b, "put")
  /\ UNCHANGED <<mitm, handlerVars, length, reader, read, pipe, got, temp, uploaded, err>>

\* The object is stored; the temporary file is removed on the way out.
UploadSucceeds(b) ==
  /\ \/ uploader[b] = "put"
     \/ uploader[b] = "receive" /\ length[b] # Unknown /\ got[b] = length[b]
  /\ uploader' = Set(uploader, b, "leave")
  /\ uploaded' = Set(uploaded, b, TRUE)
  /\ temp' = Set(temp, b, FALSE)
  /\ UNCHANGED <<mitm, handlerVars, length, reader, read, pipe, got, err>>

\* The disk, the store or the deadline fails, or the body was shorter than its
\* Content-Length.  The copy to the temporary file has no deadline: it fails on
\* writing a chunk, and waits for the pipe as long as it takes.
UploadFails(b) ==
  /\ \/ uploader[b] \in {"create", "put"}
     \/ uploader[b] = "receive" /\ (length[b] = Unknown => reader[b] = "writing")
  /\ uploader' = Set(uploader, b, "leave")
  /\ err' = Set(err, b, "upload")
  /\ temp' = Set(temp, b, FALSE)
  /\ UNCHANGED <<mitm, handlerVars, length, reader, read, pipe, got, uploaded>>

\* Mutant: the read end of the pipe is left open.
UploadLeavesPipeOpen(b) ==
  /\ uploader[b] = "leave"
  /\ uploader' = Set(uploader, b, "done")
  /\ UNCHANGED <<mitm, handlerVars, length, reader, read, pipe, got, temp, uploaded, err>>

\* The deferred calls: the read end is closed, then doneCh.
UploadLeaves(b) ==
  /\ uploader[b] = "leave"
  /\ uploader' = Set(uploader, b, "done")
  /\ pipe' = Set(pipe, b, "broken")
  /\ UNCHANGED <<mitm, handlerVars, length, reader, read, got, temp, uploaded, err>>

Uploader(b) ==
  \/ CreateTemp(b) \/ Receive(b) \/ TempComplete(b)
  \/ UploadSucceeds(b) \/ UploadFails(b) \/ UploadLeaves(b)

\* An uploader that still waits for data on an open pipe has nothing that makes
\* it fail: PutObject may sit in a read of the pipe, deadline or not.
WaitsForData(b) ==
  uploader[b] = "receive" /\ pipe[b] = "open" /\ reader[b] # "writing"

-----------------------------------------------------------------------------
Handler ==
  \/ BlockRequest \/ RoundTrip \/ CloseRequestBody \/ RequestBodyClosed
  \/ StopDelivery \/ CloseResponseBody \/ SendExchange
  \/ \E capture \in BOOLEAN : SendRequest(capture)
  \/ \E capture, websocket \in BOOLEAN : Respond(capture, websocket)

Next ==
  \/ ToggleMitm \/ Handler \/ EndRequestBody
  \/ \E b \in Bodies : ReadChunk(b) \/ WriteFails(b) \/ Uploader(b)

\* MinIO answers, fails, or meets the 30 minute deadline, and the local disk
\* answers; neither peer has to send or take anything.
Fairness ==
  /\ WF_vars(CloseRequestBody) /\ WF_vars(RequestBodyClosed)
  /\ WF_vars(CloseResponseBody) /\ WF_vars(SendExchange)
  /\ \A b \in Bodies : /\ WF_vars(~WaitsForData(b) /\ Uploader(b))
                       /\ WF_vars(WriteFails(b))

Spec == Init /\ [][Next]_vars /\ Fairness

-----------------------------------------------------------------------------
(* Properties. *)

\* When the handler returns, by whatever way, no uploader is left running and
\* no temporary file is left (plan1.md asks that they do not pile up).
NothingLeftBehind ==
  pc = "end" => \A b \in Bodies : UploadOver(b) /\ ~temp[b]

\* An object that counts as uploaded, without an error, holds every chunk that
\* was read, once the reader is past its write to the pipe.
UploadIsWholeRead ==
  \A b \in Bodies : uploaded[b] /\ err[b] = "none" /\ reader[b] # "writing"
    => got[b] = read[b]

\* What a hook answered, and a WebSocket, is never shown in the list.
SkippedIsNotReported == skip => ~reported

WaitsForUpload(b) == pc = IF b = "req" THEN "waitReq" ELSE "waitResp"

\* Nobody waits for somebody who waits for him: an uploader that a body's Close
\* waits for does not wait for data (minioUpload.go:182-196), and a chunk that is
\* handed to an open pipe finds an uploader that takes it or is about to leave
\* (minioUpload.go:166-179), whatever its length said.
NoCircularWait ==
  \A b \in Bodies :
    /\ WaitsForUpload(b) => ~WaitsForData(b)
    /\ reader[b] = "writing" /\ pipe[b] = "open" =>
         \/ uploader[b] \in {"create", "leave"}
         \/ uploader[b] = "receive" /\ (length[b] # Unknown => got[b] < length[b])

\* A reader that hands a chunk to the pipe gets on: a slow or failed upload
\* does not stop the body for good.
BodyGoesOn ==
  \A b \in Bodies : reader[b] = "writing" ~> reader[b] # "writing"

\* Closing a body returns: the handler and the uploader do not wait for each
\* other.
CloseReturns ==
  pc \in {"closeReq", "waitReq", "closeResp", "waitResp"} ~>
    pc \in {"respond", "end"}
=============================================================================

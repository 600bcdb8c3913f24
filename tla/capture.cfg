SPECIFICATION Spec
CONSTANTS
  MaxChunks = 2
  BlockRequests = TRUE
  Websockets = TRUE
INVARIANTS TypeOK NothingLeftBehind UploadIsWholeRead SkippedIsNotReported NoCircularWait
PROPERTIES BodyGoesOn CloseReturns

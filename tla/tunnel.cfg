SPECIFICATION Spec
CONSTANTS
  MaxBytes = 2
INVARIANTS TypeOK EofMeansAll
PROPERTIES PipeIsHonest TunnelEnds WebSocketEnds CutIsHeard
CHECK_DEADLOCK FALSE

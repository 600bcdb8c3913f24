SPECIFICATION Spec
CONSTANTS
  Streams <- MCStreams
  Panels = {c1}
  Capacity <- MCCapacity
  Limit <- MCLimit
  Offers <- MCOffers
  LevelOf <- MCLevelOf
  Requests <- MCRequests
INVARIANTS TypeOK AcceptedAreShown CountCoversList
PROPERTIES SendingEnds GoneAreRemoved InOrder
CHECK_DEADLOCK FALSE

SPECIFICATION Spec
CONSTANTS
  Requests <- MCRequests
  Canonical <- MCCanonical
INVARIANTS NamesAreOriginal
CHECK_DEADLOCK FALSE

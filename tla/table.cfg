SPECIFICATION Spec
CONSTANTS
  s1 = s1  s2 = s2
  a = a  b = b
  NoParent = NoParent
  Sessions = {s1, s2}
  Clients = {a, b}
  Profiles <- MCProfiles
  Retention = 1
INVARIANTS TypeOK OpenIsListed SweepIsComplete
PROPERTIES Reclaimed

SPECIFICATION Spec
CONSTANTS
  s1 = s1  s2 = s2
  a = a  b = b  x = x  y = y
  NoParent = NoParent
  Conns = {s1, s2}
  Clients = {a, b}
  Hosts = {x, y}
  Profiles <- MCProfiles
  Configs <- MCConfigs
  Posters = {p1, p2}
  SaveCanFail = TRUE
INVARIANTS TypeOK NoBlockedSurvivor OpenIsListed
PROPERTIES Expelled

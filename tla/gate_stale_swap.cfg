SPECIFICATION Spec
CONSTANTS
  s1 = s1  s2 = s2
  a = a  b = b  x = x  y = y
  NoParent = NoParent
  Conns = {s1}
  Clients = {a, b}
  Hosts = {x, y}
  Profiles <- PlainRequests
  Configs <- MCConfigs
  Posters = {p1, p2}
  SaveCanFail = FALSE
INVARIANTS RulesFollowConfig

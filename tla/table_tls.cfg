SPECIFICATION Spec
CONSTANTS
  s1 = s1  s2 = s2
  a = a  b = b
  NoParent = NoParent
  Sessions = {s1}
  Clients = {a, b}
  Profiles <- TLSProfiles
  Retention = 1

PROPERTIES Reclaimed

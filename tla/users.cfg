SPECIFICATION Spec
CONSTANTS
  t = t  r = r  a = a  x = x
  Sessions = {t, r}
  IPs = {a}
  Hosts = {x}
  KindOf <- MCKindOf
  IPOf <- MCIPOf
  HostOf <- MCHostOf
  MaxCleans = 2
INVARIANTS TypeOK ListedTrafficIsShown
PROPERTIES FiguresNeverShrink
CHECK_DEADLOCK FALSE

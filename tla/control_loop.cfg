SPECIFICATION Spec
CONSTANTS
  q1 = q1  q2 = q2
  Absent = Absent  Torn = Torn
  Contents <- PortContents
  DefaultContent <- Default
  Posters = {p1}
  MaxPosts = 1
  Reqs = {q1}
  Tunnels = {q1}
  Labels <- MCLabels
  Addrs <- MCAddrs
  IPs <- MCIPs
  Own <- MCLoopback
  Loopback <- MCLoopback
  LocalLists <- MCLists
  Answers <- MCAnswers
  NodeAddr <- MCNodeAddr
  BadNodes = {"broken"}
  Unknown = "unknown"
INVARIANTS NoSelfDial

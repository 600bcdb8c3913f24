SPECIFICATION Spec
CONSTANTS
  q1 = q1  q2 = q2
  Absent = Absent  Torn = Torn
  Contents <- MCContents
  DefaultContent <- Default
  Posters = {p1, p2}
  MaxPosts = 2
  Reqs = {q1}
  Tunnels = {q1}
  Labels <- MCLabels
  Addrs <- MCAddrs
  IPs <- MCIPs
  Own <- MCOwn
  Loopback <- MCLoopback
  LocalLists <- MCLists
  Answers <- MCAnswers
  NodeAddr <- MCNodeAddr
  BadNodes = {"broken"}
  Unknown = "unknown"
INVARIANTS TypeOK FileIsWhole AckedIsDurable TargetHasDialer RouterFollowsConfig NoKnownSelfDial LocksAreHeldInTurn
PROPERTIES AtomicRouting NobodyIsStuck

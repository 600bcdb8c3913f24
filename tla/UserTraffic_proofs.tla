------------------------- MODULE UserTraffic_proofs -------------------------
(***************************************************************************)
(* Proofs about UserTraffic, for every set of sessions, addresses and      *)
(* hosts and for any number of commands.                                   *)
(***************************************************************************)
EXTENDS UserTraffic, TLAPS

-----------------------------------------------------------------------------
(* Types. *)

CleanType == [step : {"idle", "range"}, keys : SUBSET Sessions,
              protected : SUBSET IPs, runs : 0 .. MaxCleans]

\* A lookup that has come to the host has found, or made, the user.
LooksIntoUser == \A s \in Sessions : phase[s] \in {"look host", "make host"} => us[s] # 0

TypeInv == TypeOK /\ LooksIntoUser

LEMMA TypeInit == Init => TypeInv
  <1> SUFFICES ASSUME Init PROVE TypeInv
    OBVIOUS
  <1>1. /\ Users \in [IPs -> 0 .. Len(hosts)]
        /\ hosts \in Seq([Hosts -> 0 .. Len(stats)])
        /\ stats \in Seq(UserHostStats)
    BY DEF Init
  <1>2. /\ us \in [Sessions -> 0 .. Len(hosts)]
        /\ up \in [Sessions -> 0 .. Len(stats)] /\ down \in [Sessions -> 0 .. Len(stats)]
    BY DEF Init
  <1>3. /\ phase \in [Sessions -> Phases]
        /\ pass \in [Sessions -> {1, 2}]
        /\ counted \in [Sessions -> SUBSET {"up", "down"}]
        /\ table \subseteq Sessions /\ late \subseteq Sessions
    BY DEF Init, Phases
  <1>4. clean \in CleanType
    BY MaxCleansAssumption DEF Init, CleanType
  <1>5. LooksIntoUser
    BY DEF Init, LooksIntoUser
  <1> QED BY <1>1, <1>2, <1>3, <1>4, <1>5 DEF TypeInv, TypeOK, CleanType

\* Numbers that stand for something.
LEMMA Numbered ==
  ASSUME NEW n \in Nat, NEW x \in 0 .. n, x # 0
  PROVE  x \in 1 .. n
  OBVIOUS

\* The elements of a sequence.
LEMMA Elements ==
  ASSUME NEW S, NEW q \in Seq(S)
  PROVE  Len(q) \in Nat /\ \A i \in 1 .. Len(q) : q[i] \in S
  OBVIOUS

\* A sequence that grows by one element keeps the others.
LEMMA Appended ==
  ASSUME NEW S, NEW q \in Seq(S), NEW e \in S
  PROVE  /\ Append(q, e) \in Seq(S)
         /\ Len(Append(q, e)) = Len(q) + 1
         /\ \A i \in 1 .. Len(q) : Append(q, e)[i] = q[i]
         /\ Append(q, e)[Len(q) + 1] = e
  OBVIOUS

\* Replacing an element keeps the length and the others.
LEMMA Replaced ==
  ASSUME NEW S, NEW q \in Seq(S), NEW i \in 1 .. Len(q), NEW e \in S
  PROVE  /\ [q EXCEPT ![i] = e] \in Seq(S)
         /\ Len([q EXCEPT ![i] = e]) = Len(q)
         /\ \A j \in 1 .. Len(q) : [q EXCEPT ![i] = e][j] = IF j = i THEN e ELSE q[j]
  OBVIOUS

\* A table of users is one of more counters, too.
LEMMA MoreCounters ==
  ASSUME NEW m \in Nat, NEW n \in Nat, m <= n, NEW q \in Seq([Hosts -> 0 .. m])
  PROVE  q \in Seq([Hosts -> 0 .. n])
  <1>1. \A i \in 1 .. Len(q) : q[i] \in [Hosts -> 0 .. n]
    <2> SUFFICES ASSUME NEW i \in 1 .. Len(q) PROVE q[i] \in [Hosts -> 0 .. n]
      OBVIOUS
    <2>1. q[i] \in [Hosts -> 0 .. m]
      OBVIOUS
    <2>2. 0 .. m \subseteq 0 .. n
      OBVIOUS
    <2> QED BY <2>1, <2>2
  <1>2. Len(q) \in Nat /\ q = [i \in 1 .. Len(q) |-> q[i]]
    OBVIOUS
  <1> QED BY <1>1, <1>2

\* The counter of a session goes up by one, in one direction.
LEMMA Counted ==
  ASSUME TypeInv, NEW i \in 1 .. Len(stats)
  PROVE  /\ [stats EXCEPT ![i].up = @ + 1] \in Seq(UserHostStats)
         /\ [stats EXCEPT ![i].down = @ + 1] \in Seq(UserHostStats)
         /\ Len([stats EXCEPT ![i].up = @ + 1]) = Len(stats)
         /\ Len([stats EXCEPT ![i].down = @ + 1]) = Len(stats)
         /\ \A j \in 1 .. Len(stats) :
              /\ [stats EXCEPT ![i].up = @ + 1][j].up >= stats[j].up
              /\ [stats EXCEPT ![i].up = @ + 1][j].down = stats[j].down
              /\ [stats EXCEPT ![i].down = @ + 1][j].up = stats[j].up
              /\ [stats EXCEPT ![i].down = @ + 1][j].down >= stats[j].down
  <1>0. stats \in Seq(UserHostStats)
    BY DEF TypeInv, TypeOK
  <1>1. stats \in Seq(UserHostStats) /\ stats[i] \in UserHostStats
    BY <1>0
  <1> DEFINE u == [stats[i] EXCEPT !.up = @ + 1]
             d == [stats[i] EXCEPT !.down = @ + 1]
  <1>2. u \in UserHostStats /\ d \in UserHostStats
    <2>1. \A c \in UserHostStats : /\ [c EXCEPT !.up = @ + 1] \in UserHostStats
                             /\ [c EXCEPT !.down = @ + 1] \in UserHostStats
      BY DEF UserHostStats
    <2> QED BY <1>1, <2>1
  <1>3. /\ [stats EXCEPT ![i].up = @ + 1] = [stats EXCEPT ![i] = u]
        /\ [stats EXCEPT ![i].down = @ + 1] = [stats EXCEPT ![i] = d]
    <2>1. [stats EXCEPT ![i].up = @ + 1] = [stats EXCEPT ![i] = u]
      BY <1>1
    <2>2. [stats EXCEPT ![i].down = @ + 1] = [stats EXCEPT ![i] = d]
      BY <1>1
    <2> QED BY <2>1, <2>2
  <1>4. /\ u.up = stats[i].up + 1 /\ u.down = stats[i].down
        /\ d.down = stats[i].down + 1 /\ d.up = stats[i].up
    BY <1>1 DEF UserHostStats
  <1>5. \A j \in 1 .. Len(stats) : stats[j].up \in Nat /\ stats[j].down \in Nat
    <2>1. \A j \in 1 .. Len(stats) : stats[j] \in UserHostStats
      BY <1>1
    <2> QED BY <2>1 DEF UserHostStats
  <1> HIDE DEF u, d
  <1>6. /\ [stats EXCEPT ![i] = u] \in Seq(UserHostStats) /\ [stats EXCEPT ![i] = d] \in Seq(UserHostStats)
        /\ Len([stats EXCEPT ![i] = u]) = Len(stats) /\ Len([stats EXCEPT ![i] = d]) = Len(stats)
    BY <1>1, <1>2, Replaced
  <1>7. \A j \in 1 .. Len(stats) :
          /\ [stats EXCEPT ![i] = u][j] = IF j = i THEN u ELSE stats[j]
          /\ [stats EXCEPT ![i] = d][j] = IF j = i THEN d ELSE stats[j]
    BY <1>1, <1>2, Replaced
  <1> QED BY <1>3, <1>4, <1>5, <1>6, <1>7, SMTT(30)

\* The steps of the command keep its type.
LEMMA CleanTypes ==
  ASSUME TypeInv, CleanOfflineUsers \/ Delete \/ \E s \in Sessions : Protect(s)
  PROVE  clean' \in CleanType
  <1>1. clean \in CleanType /\ table \in SUBSET Sessions
    BY DEF TypeInv, TypeOK, CleanType
  <1>2. CASE CleanOfflineUsers
    <2>1. clean.runs + 1 \in 0 .. MaxCleans
      BY <1>1, <1>2, MaxCleansAssumption DEF CleanOfflineUsers, CleanType
    <2> QED BY <1>1, <1>2, <2>1 DEF CleanOfflineUsers, CleanType
  <1>3. CASE Delete
    BY <1>1, <1>3 DEF Delete, CleanType
  <1>4. ASSUME NEW s \in Sessions, Protect(s) PROVE clean' \in CleanType
    <2>1. IPOf[s] \in IPs
      BY SessionsAssumption
    <2> DEFINE P == IF s \in table THEN clean.protected \cup {IPOf[s]} ELSE clean.protected
    <2>2. P \in SUBSET IPs
      BY <1>1, <2>1 DEF CleanType
    <2>3. clean' = [clean EXCEPT !.keys = @ \ {s}, !.protected = P]
      BY <1>4 DEF Protect
    <2>4. [clean EXCEPT !.keys = @ \ {s}] \in CleanType
      BY <1>1 DEF CleanType
    <2> HIDE DEF P
    <2> QED BY <1>1, <2>2, <2>3, <2>4 DEF CleanType
  <1> QED BY <1>2, <1>3, <1>4

\* Steps that leave the maps alone.
LEMMA TypeOfPlainSteps ==
  ASSUME TypeInv, NEW s \in Sessions,
         \/ Register(s) \/ RoundTrip(s) \/ End(s) \/ Remove(s) \/ LookUser(s)
         \/ CleanOfflineUsers \/ Protect(s)
  PROVE  TypeInv'
  <1> USE DEF TypeInv, TypeOK, LooksIntoUser, Goto, mapVars, lookVars, Phases
  <1>1. CASE Register(s)
    <2>1. clean' = clean \/ clean' = [clean EXCEPT !.keys = @ \cup {s}]
      BY <1>1 DEF Register
    <2>2. clean' \in CleanType
      <3>1. CASE clean' = clean
        BY <3>1 DEF CleanType
      <3>2. CASE clean' = [clean EXCEPT !.keys = @ \cup {s}]
        BY <3>2 DEF CleanType
      <3> QED BY <2>1, <3>1, <3>2
    <2> QED BY <1>1, <2>2 DEF Register, CleanType
  <1>2. CASE RoundTrip(s)
    BY <1>2 DEF RoundTrip
  <1>3. CASE End(s) \/ Remove(s)
    BY <1>3 DEF End, Remove
  <1>4. CASE LookUser(s)
    <2>1. Users[IPOf[s]] \in 0 .. Len(hosts)
      BY SessionsAssumption
    <2> QED BY <1>4, <2>1 DEF LookUser
  <1>5. CASE CleanOfflineUsers
    BY <1>5, CleanTypes DEF CleanOfflineUsers, CleanType
  <1>6. CASE Protect(s)
    BY <1>6, CleanTypes DEF Protect, CleanType
  <1> QED BY <1>1, <1>2, <1>3, <1>4, <1>5, <1>6

\* The deletion of users.
LEMMA TypeOfDelete ==
  ASSUME TypeInv, Delete
  PROVE  TypeInv'
  <1> USE DEF TypeInv, TypeOK, LooksIntoUser, lookVars
  <1>1. Users' \in [IPs -> 0 .. Len(hosts)]
    <2>0. hosts \in Seq([Hosts -> 0 .. Len(stats)]) /\ Users \in [IPs -> 0 .. Len(hosts)]
      OBVIOUS
    <2>1. Len(hosts) \in Nat /\ Users \in [IPs -> 0 .. Len(hosts)]
      BY <2>0, Elements
    <2> HIDE DEF TypeInv
    <2> QED BY <2>1 DEF Delete
  <1>2. clean' \in CleanType
    BY CleanTypes
  <1> QED BY <1>1, <1>2 DEF Delete, CleanType

\* The counting of bytes.
LEMMA TypeOfCounting ==
  ASSUME TypeInv, NEW s \in Sessions, CountUp(s) \/ CountDown(s)
  PROVE  TypeInv'
  <1> USE DEF lookVars
  <1>1. up[s] \in 0 .. Len(stats) /\ down[s] \in 0 .. Len(stats) /\ Len(stats) \in Nat
    BY DEF TypeInv, TypeOK
  <1>2. stats' \in Seq(UserHostStats) /\ Len(stats') = Len(stats)
    <2>1. CASE CountUp(s)
      <3>1. up[s] \in 1 .. Len(stats) /\ stats' = [stats EXCEPT ![up[s]].up = @ + 1]
        BY <1>1, <2>1 DEF CountUp
      <3> QED BY <3>1, Counted
    <2>2. CASE CountDown(s)
      <3>1. down[s] \in 1 .. Len(stats) /\ stats' = [stats EXCEPT ![down[s]].down = @ + 1]
        BY <1>1, <2>2 DEF CountDown
      <3> QED BY <3>1, Counted
    <2> QED BY <2>1, <2>2
  <1>3. counted' \in [Sessions -> SUBSET {"up", "down"}]
    <2>1. counted \in [Sessions -> SUBSET {"up", "down"}]
      BY DEF TypeInv, TypeOK
    <2> QED BY <2>1 DEF CountUp, CountDown
  <1>4. UNCHANGED <<Users, hosts, lookVars, phase, table, late, clean>>
    BY DEF CountUp, CountDown
  <1> QED BY <1>2, <1>3, <1>4 DEF TypeInv, TypeOK, LooksIntoUser

\* What the step that makes a user leaves.
LEMMA MakeUserMaps ==
  ASSUME TypeInv, NEW s \in Sessions, MakeUser(s)
  PROVE  /\ hosts' \in Seq([Hosts -> 0 .. Len(stats)])
         /\ Len(hosts') \in Nat /\ Len(hosts) <= Len(hosts')
         /\ \A j \in 1 .. Len(hosts) : hosts'[j] = hosts[j]
         /\ Users' \in [IPs -> 0 .. Len(hosts')]
         /\ \A i \in IPs : Users[i] # 0 => Users'[i] = Users[i]
         /\ \A i \in IPs : Users'[i] # Users[i] =>
              Users[i] = 0 /\ Users'[i] = Len(hosts') /\ hosts'[Users'[i]] = [h \in Hosts |-> 0]
         /\ us'[s] = Users'[IPOf[s]] /\ us'[s] \in 1 .. Len(hosts')
         /\ us' = [us EXCEPT ![s] = us'[s]]
  <1>1. /\ hosts \in Seq([Hosts -> 0 .. Len(stats)])
        /\ Users \in [IPs -> 0 .. Len(hosts)]
        /\ us \in [Sessions -> 0 .. Len(hosts)]
        /\ stats \in Seq(UserHostStats)
    BY DEF TypeInv, TypeOK
  <1>2. Len(stats) \in Nat /\ Len(hosts) \in Nat /\ IPOf[s] \in IPs
    BY <1>1, SessionsAssumption
  <1>3. us' = [us EXCEPT ![s] = Users'[IPOf[s]]]
    BY DEF MakeUser
  <1>4. us'[s] = Users'[IPOf[s]] /\ us' = [us EXCEPT ![s] = us'[s]]
    BY <1>1, <1>3
  <1>5. CASE Users[IPOf[s]] # 0
    <2>1. UNCHANGED <<hosts, Users>>
      BY <1>5 DEF MakeUser
    <2> QED BY <1>1, <1>2, <1>4, <1>5, <2>1
  <1>6. CASE Users[IPOf[s]] = 0
    <2> DEFINE new == [h \in Hosts |-> 0]
    <2>1. hosts' = Append(hosts, new) /\ Users' = [Users EXCEPT ![IPOf[s]] = Len(hosts')]
      BY <1>6 DEF MakeUser
    <2>2. new \in [Hosts -> 0 .. Len(stats)]
      BY <1>2
    <2>3. new = [h \in Hosts |-> 0]
      OBVIOUS
    <2> HIDE DEF new
    <2>4. /\ hosts' \in Seq([Hosts -> 0 .. Len(stats)])
          /\ Len(hosts') = Len(hosts) + 1
          /\ \A j \in 1 .. Len(hosts) : hosts'[j] = hosts[j]
          /\ hosts'[Len(hosts')] = new
      BY <1>1, <2>1, <2>2, Appended
    <2>5. /\ \A i \in IPs : Users'[i] = IF i = IPOf[s] THEN Len(hosts') ELSE Users[i]
          /\ Users' \in [IPs -> 0 .. Len(hosts')]
      BY <1>1, <1>2, <2>1, <2>4
    <2> QED BY <1>2, <1>4, <1>6, <2>3, <2>4, <2>5
  <1> QED BY <1>5, <1>6

\* A lookup of a host is one in a user that exists.
LEMMA HostFound ==
  ASSUME TypeInv, NEW s \in Sessions, phase[s] \in {"look host", "make host"}
  PROVE  /\ us[s] \in 1 .. Len(hosts) /\ HostOf[s] \in Hosts
         /\ hosts[us[s]] \in [Hosts -> 0 .. Len(stats)]
         /\ hosts[us[s]][HostOf[s]] \in 0 .. Len(stats)
         /\ Len(stats) \in Nat /\ Len(hosts) \in Nat
  <1>1. /\ hosts \in Seq([Hosts -> 0 .. Len(stats)])
        /\ us \in [Sessions -> 0 .. Len(hosts)]
        /\ stats \in Seq(UserHostStats)
        /\ us[s] # 0
    BY DEF TypeInv, TypeOK, LooksIntoUser
  <1>2. Len(stats) \in Nat /\ Len(hosts) \in Nat
    BY <1>1, Elements
  <1>3. HostOf[s] \in Hosts
    BY SessionsAssumption
  <1>4. us[s] \in 0 .. Len(hosts) /\ us[s] # 0
    BY <1>1
  <1>5. us[s] \in 1 .. Len(hosts)
    BY <1>2, <1>4, Numbered
  <1>6. hosts[us[s]] \in [Hosts -> 0 .. Len(stats)]
    BY <1>1, <1>5, Elements
  <1> QED BY <1>2, <1>3, <1>5, <1>6

\* What the step that makes the counter of a host leaves.
LEMMA MakeHostMaps ==
  ASSUME TypeInv, NEW s \in Sessions, MakeHost(s)
  PROVE  /\ stats' \in Seq(UserHostStats)
         /\ Len(stats') \in Nat /\ Len(stats) <= Len(stats')
         /\ \A j \in 1 .. Len(stats) : stats'[j] = stats[j]
         /\ hosts' \in Seq([Hosts -> 0 .. Len(stats')]) /\ Len(hosts') = Len(hosts)
         /\ \A j \in 1 .. Len(hosts), h \in Hosts :
              /\ hosts[j][h] # 0 => hosts'[j][h] = hosts[j][h]
              /\ ~(j = us[s] /\ h = HostOf[s]) => hosts'[j][h] = hosts[j][h]
         /\ hosts'[us[s]][HostOf[s]] \in 1 .. Len(stats')
         /\ Take(s, hosts'[us[s]][HostOf[s]])
  <1> DEFINE u == us[s]
             h0 == HostOf[s]
             new == [up |-> 0, down |-> 0]
  <1>1. /\ hosts \in Seq([Hosts -> 0 .. Len(stats)])
        /\ stats \in Seq(UserHostStats)
    BY DEF TypeInv, TypeOK
  <1>2. /\ u \in 1 .. Len(hosts) /\ h0 \in Hosts
        /\ hosts[u] \in [Hosts -> 0 .. Len(stats)]
        /\ hosts[u][h0] \in 0 .. Len(stats)
        /\ Len(stats) \in Nat /\ Len(hosts) \in Nat
    BY HostFound DEF MakeHost, Goto
  <1>3. Take(s, hosts'[u][h0])
    BY DEF MakeHost
  <1>4. CASE hosts[u][h0] # 0
    <2>1. UNCHANGED <<stats, hosts>>
      BY <1>4 DEF MakeHost
    <2> QED BY <1>1, <1>2, <1>3, <1>4, <2>1
  <1>5. CASE hosts[u][h0] = 0
    <2>1. stats' = Append(stats, new) /\ hosts' = [hosts EXCEPT ![u][h0] = Len(stats')]
      BY <1>5 DEF MakeHost
    <2>2. new \in UserHostStats
      BY DEF UserHostStats
    <2> HIDE DEF new
    <2>3. /\ stats' \in Seq(UserHostStats) /\ Len(stats') = Len(stats) + 1
          /\ \A j \in 1 .. Len(stats) : stats'[j] = stats[j]
      BY <1>1, <2>1, <2>2, Appended
    <2>4. hosts \in Seq([Hosts -> 0 .. Len(stats')])
      BY <1>1, <1>2, <2>3, MoreCounters
    <2> DEFINE row == [hosts[u] EXCEPT ![h0] = Len(stats')]
    <2>5. row \in [Hosts -> 0 .. Len(stats')]
      BY <1>2, <2>3
    <2>6. \A h \in Hosts : row[h] = IF h = h0 THEN Len(stats') ELSE hosts[u][h]
      BY <1>2
    <2>7. hosts' = [hosts EXCEPT ![u] = row]
      BY <2>1
    <2> HIDE DEF row
    <2>8. /\ hosts' \in Seq([Hosts -> 0 .. Len(stats')]) /\ Len(hosts') = Len(hosts)
          /\ \A j \in 1 .. Len(hosts) : hosts'[j] = IF j = u THEN row ELSE hosts[j]
      BY <1>2, <2>4, <2>5, <2>7, Replaced
    <2>9. \A j \in 1 .. Len(hosts), h \in Hosts :
              /\ hosts[j][h] # 0 => hosts'[j][h] = hosts[j][h]
              /\ ~(j = u /\ h = h0) => hosts'[j][h] = hosts[j][h]
      BY <1>5, <2>6, <2>8
    <2>10. hosts'[u][h0] = Len(stats')
      BY <1>2, <2>6, <2>8
    <2> QED BY <1>2, <1>3, <2>3, <2>8, <2>9, <2>10
  <1> QED BY <1>4, <1>5

\* What a lookup hands out.
LEMMA Taken ==
  ASSUME TypeInv, NEW s \in Sessions, NEW n \in Nat, Len(stats) <= n,
         NEW i \in 0 .. n, Take(s, i)
  PROVE  up' \in [Sessions -> 0 .. n] /\ down' \in [Sessions -> 0 .. n]
  <1>1. up \in [Sessions -> 0 .. Len(stats)] /\ down \in [Sessions -> 0 .. Len(stats)]
        /\ stats \in Seq(UserHostStats)
    BY DEF TypeInv, TypeOK
  <1>2. Len(stats) \in Nat
    BY <1>1, Elements
  <1>3. up \in [Sessions -> 0 .. n] /\ down \in [Sessions -> 0 .. n]
    BY <1>1, <1>2
  <1> QED BY <1>3 DEF Take

LEMMA TypeOfLookups ==
  ASSUME TypeInv, NEW s \in Sessions, MakeUser(s) \/ LookHost(s) \/ MakeHost(s)
  PROVE  TypeInv'
  <1>1. /\ hosts \in Seq([Hosts -> 0 .. Len(stats)]) /\ stats \in Seq(UserHostStats)
        /\ Users \in [IPs -> 0 .. Len(hosts)]
        /\ phase \in [Sessions -> Phases] /\ us \in [Sessions -> 0 .. Len(hosts)]
        /\ up \in [Sessions -> 0 .. Len(stats)] /\ down \in [Sessions -> 0 .. Len(stats)]
    BY DEF TypeInv, TypeOK
  <1>2. Len(hosts) \in Nat /\ Len(stats) \in Nat
    BY <1>1, Elements
  <1>3. AfterLookup(s) \in {"asked", "serve"}
    BY DEF AfterLookup
  <1>4. CASE MakeUser(s)
    <2>1. /\ hosts' \in Seq([Hosts -> 0 .. Len(stats)])
          /\ Users' \in [IPs -> 0 .. Len(hosts')]
          /\ us'[s] \in 1 .. Len(hosts') /\ us' = [us EXCEPT ![s] = us'[s]]
          /\ Len(hosts') \in Nat /\ Len(hosts) <= Len(hosts')
      BY <1>4, MakeUserMaps
    <2>2. us' \in [Sessions -> 0 .. Len(hosts')] /\ us'[s] # 0
          /\ \A t \in Sessions : t # s => us'[t] = us[t]
      <3>1. us \in [Sessions -> 0 .. Len(hosts')]
        BY <1>1, <1>2, <2>1
      <3> DEFINE k == us'[s]
      <3>2. k \in 0 .. Len(hosts') /\ k # 0 /\ us' = [us EXCEPT ![s] = k]
        BY <2>1
      <3> HIDE DEF k
      <3>3. \A t \in Sessions : us'[t] = IF t = s THEN k ELSE us[t]
        BY <3>1, <3>2
      <3> QED BY <3>1, <3>2, <3>3
    <2>3. phase' = [phase EXCEPT ![s] = "look host"] /\ phase' \in [Sessions -> Phases]
      BY <1>1, <1>4 DEF MakeUser, Goto, Phases
    <2>4. LooksIntoUser'
      <3>1. \A t \in Sessions : t # s => phase'[t] = phase[t]
        BY <1>1, <2>3
      <3> QED BY <2>2, <3>1 DEF TypeInv, LooksIntoUser
    <2>5. UNCHANGED <<stats, pass, up, down, counted, table, late, clean>>
      BY <1>4 DEF MakeUser
    <2>6. TypeOK'
      BY <2>1, <2>2, <2>3, <2>5 DEF TypeInv, TypeOK
    <2> QED BY <2>4, <2>6 DEF TypeInv
  <1>5. CASE LookHost(s)
    <2>1. hosts[us[s]][HostOf[s]] \in 0 .. Len(stats) /\ phase[s] = "look host"
      BY <1>5, HostFound DEF LookHost
    <2>2. up' \in [Sessions -> 0 .. Len(stats)] /\ down' \in [Sessions -> 0 .. Len(stats)]
      <3>1. CASE UNCHANGED <<up, down>>
        <4>1. up \in [Sessions -> 0 .. Len(stats)] /\ down \in [Sessions -> 0 .. Len(stats)]
          BY <1>1
        <4>2. up' = up /\ down' = down
          BY <3>1
        <4> QED BY <4>1, <4>2, Zenon
      <3>2. CASE Take(s, hosts[us[s]][HostOf[s]])
        <4> DEFINE n == Len(stats)
                   i == hosts[us[s]][HostOf[s]]
        <4>1. n \in Nat /\ Len(stats) <= n /\ i \in 0 .. n
          <5>1. \A m \in Nat : m <= m
            OBVIOUS
          <5>2. n \in Nat
            BY <1>2
          <5>3. i \in 0 .. n
            BY <2>1, Zenon
          <5> QED BY <5>1, <5>2, <5>3
        <4>2. Take(s, i)
          BY <3>2, Zenon
        <4> HIDE DEF n, i
        <4>3. up' \in [Sessions -> 0 .. n] /\ down' \in [Sessions -> 0 .. n]
          BY <4>1, <4>2, Taken
        <4> QED BY <4>3 DEF n
      <3> QED BY <1>5, <3>1, <3>2 DEF LookHost
    <2>3. \E ph \in {"make host", "asked", "serve"} : phase' = [phase EXCEPT ![s] = ph]
      BY <1>3, <1>5 DEF LookHost, Goto
    <2>4. phase' \in [Sessions -> Phases]
      BY <1>1, <2>3 DEF Phases
    <2>5. UNCHANGED <<Users, hosts, stats, pass, us, counted, table, late, clean>>
      BY <1>5 DEF LookHost, mapVars
    <2>6. us[s] # 0
      BY <2>1 DEF TypeInv, LooksIntoUser
    <2>7. LooksIntoUser'
      BY <1>1, <2>3, <2>5, <2>6 DEF TypeInv, LooksIntoUser
    <2>8. TypeOK'
      BY <2>2, <2>4, <2>5 DEF TypeInv, TypeOK
    <2> QED BY <2>7, <2>8 DEF TypeInv
  <1>6. CASE MakeHost(s)
    <2>1. /\ stats' \in Seq(UserHostStats)
          /\ Len(stats') \in Nat /\ Len(stats) <= Len(stats')
          /\ hosts' \in Seq([Hosts -> 0 .. Len(stats')]) /\ Len(hosts') = Len(hosts)
          /\ hosts'[us[s]][HostOf[s]] \in 0 .. Len(stats')
          /\ Take(s, hosts'[us[s]][HostOf[s]])
      BY <1>6, MakeHostMaps
    <2>2. up' \in [Sessions -> 0 .. Len(stats')] /\ down' \in [Sessions -> 0 .. Len(stats')]
      BY <2>1, Taken
    <2>3. phase' = [phase EXCEPT ![s] = AfterLookup(s)]
      BY <1>6 DEF MakeHost, Goto
    <2>4. phase' \in [Sessions -> Phases]
      BY <1>1, <1>3, <2>3 DEF Phases
    <2>5. UNCHANGED <<Users, pass, us, counted, table, late, clean>>
      BY <1>6 DEF MakeHost
    <2>6. LooksIntoUser'
      BY <1>1, <1>3, <2>3, <2>5 DEF TypeInv, LooksIntoUser
    <2>7. TypeOK'
      BY <2>1, <2>2, <2>4, <2>5 DEF TypeInv, TypeOK
    <2> QED BY <2>6, <2>7 DEF TypeInv
  <1> QED BY <1>4, <1>5, <1>6

LEMMA TypeStep == TypeInv /\ [Next]_vars => TypeInv'
  <1> SUFFICES ASSUME TypeInv, [Next]_vars PROVE TypeInv'
    OBVIOUS
  <1>1. CASE UNCHANGED vars
    BY <1>1 DEF vars, mapVars, lookVars, TypeInv, TypeOK, LooksIntoUser
  <1>2. ASSUME NEW s \in Sessions, Session(s) \/ Remove(s) \/ Protect(s) PROVE TypeInv'
    BY <1>2, TypeOfPlainSteps, TypeOfCounting, TypeOfLookups DEF Session, GetOrCreateStats
  <1>3. CASE CleanOfflineUsers
    BY <1>3, CleanTypes DEF CleanOfflineUsers, CleanType, mapVars, lookVars, TypeInv, TypeOK,
       LooksIntoUser
  <1>4. CASE Delete
    BY <1>4, TypeOfDelete
  <1> QED BY <1>1, <1>2, <1>3, <1>4 DEF Next

LEMMA TypeInvHolds == Spec => []TypeInv
  BY TypeInit, TypeStep, PTL DEF Spec

\* The maps, the sessions and the command always have their types: every number
\* stands for a counter that was made.
THEOREM TypeCorrect == Spec => []TypeOK
  <1>1. TypeInv => TypeOK
    BY DEF TypeInv
  <1> QED BY <1>1, TypeInvHolds, PTL

-----------------------------------------------------------------------------
(* The figures. *)

\* The counter of an address and a host, once there is one, keeps its number as
\* long as the address is not cleaned away.
LEMMA ShownStays ==
  ASSUME TypeInv, [Next]_vars, NEW i \in IPs, NEW h \in Hosts,
         Users'[i] # 0, Shown(i, h) # 0
  PROVE  Shown(i, h)' = Shown(i, h)
  <1>1. /\ hosts \in Seq([Hosts -> 0 .. Len(stats)])
        /\ Users \in [IPs -> 0 .. Len(hosts)]
    BY DEF TypeInv, TypeOK
  <1>2. Users[i] # 0 /\ Shown(i, h) = hosts[Users[i]][h]
    BY DEF Shown
  <1>3. Users[i] \in 1 .. Len(hosts) /\ Len(hosts) \in Nat
    <2>1. Len(hosts) \in Nat /\ Users[i] \in 0 .. Len(hosts)
      BY <1>1, Elements
    <2> QED BY <1>2, <2>1, Numbered
  <1>4. CASE UNCHANGED <<Users, hosts>>
    BY <1>4 DEF Shown
  <1>5. ASSUME NEW s \in Sessions, MakeUser(s) PROVE Shown(i, h)' = Shown(i, h)
    <2>1. Users'[i] = Users[i] /\ hosts'[Users[i]] = hosts[Users[i]]
      BY <1>2, <1>3, <1>5, MakeUserMaps
    <2> QED BY <2>1 DEF Shown
  <1>6. ASSUME NEW s \in Sessions, MakeHost(s) PROVE Shown(i, h)' = Shown(i, h)
    <2>1. hosts'[Users[i]][h] = hosts[Users[i]][h]
      BY <1>2, <1>3, <1>6, MakeHostMaps
    <2>2. UNCHANGED Users
      BY <1>6 DEF MakeHost
    <2> QED BY <1>2, <2>1, <2>2 DEF Shown
  <1>7. CASE Delete
    <2>1. UNCHANGED hosts /\ Users' = [j \in IPs |-> IF j \in clean.protected THEN Users[j] ELSE 0]
      BY <1>7 DEF Delete
    <2>2. Users'[i] = Users[i]
      BY <2>1
    <2> QED BY <2>1, <2>2 DEF Shown
  <1>8. \/ UNCHANGED <<Users, hosts>> \/ Delete
        \/ \E s \in Sessions : MakeUser(s) \/ MakeHost(s)
    BY DEF Next, vars, mapVars, Session, GetOrCreateStats, Register, LookUser, LookHost,
       RoundTrip, End, CountUp, CountDown, Remove, Protect, CleanOfflineUsers
  <1> QED BY <1>4, <1>5, <1>6, <1>7, <1>8

\* No counter ever goes back.
LEMMA CountersGrow ==
  ASSUME TypeInv, [Next]_vars
  PROVE  /\ Len(stats) \in Nat /\ Len(stats') \in Nat /\ Len(stats) <= Len(stats')
         /\ stats \in Seq(UserHostStats)
         /\ \A j \in 1 .. Len(stats) : stats'[j].up >= stats[j].up /\ stats'[j].down >= stats[j].down
  <1>1. stats \in Seq(UserHostStats)
        /\ up \in [Sessions -> 0 .. Len(stats)] /\ down \in [Sessions -> 0 .. Len(stats)]
    BY DEF TypeInv, TypeOK
  <1>2. Len(stats) \in Nat /\ \A j \in 1 .. Len(stats) : stats[j] \in UserHostStats
    BY <1>1, Elements
  <1>3. \A j \in 1 .. Len(stats) : stats[j].up \in Nat /\ stats[j].down \in Nat
    BY <1>2 DEF UserHostStats
  <1>4. CASE UNCHANGED stats
    BY <1>1, <1>2, <1>3, <1>4
  <1>5. ASSUME NEW s \in Sessions, CountUp(s) \/ CountDown(s)
        PROVE  /\ Len(stats') = Len(stats)
               /\ \A j \in 1 .. Len(stats) :
                    stats'[j].up >= stats[j].up /\ stats'[j].down >= stats[j].down
    <2>1. CASE CountUp(s)
      <3>1. up[s] \in 0 .. Len(stats) /\ up[s] # 0 /\ stats' = [stats EXCEPT ![up[s]].up = @ + 1]
        BY <1>1, <2>1 DEF CountUp
      <3>2. up[s] \in 1 .. Len(stats)
        BY <1>2, <3>1, Numbered
      <3>3. \A j \in 1 .. Len(stats) : stats'[j].up >= stats[j].up /\ stats'[j].down = stats[j].down
        BY <3>1, <3>2, Counted
      <3> QED BY <1>3, <3>1, <3>2, <3>3, Counted
    <2>2. CASE CountDown(s)
      <3>1. down[s] \in 0 .. Len(stats) /\ down[s] # 0
            /\ stats' = [stats EXCEPT ![down[s]].down = @ + 1]
        BY <1>1, <2>2 DEF CountDown
      <3>2. down[s] \in 1 .. Len(stats)
        BY <1>2, <3>1, Numbered
      <3>3. \A j \in 1 .. Len(stats) : stats'[j].up = stats[j].up /\ stats'[j].down >= stats[j].down
        BY <3>1, <3>2, Counted
      <3> QED BY <1>3, <3>1, <3>2, <3>3, Counted
    <2> QED BY <1>5, <2>1, <2>2
  <1>6. ASSUME NEW s \in Sessions, MakeHost(s)
        PROVE  /\ Len(stats') \in Nat /\ Len(stats) <= Len(stats')
               /\ \A j \in 1 .. Len(stats) : stats'[j] = stats[j]
    BY <1>6, MakeHostMaps
  <1>7. \/ UNCHANGED stats
        \/ \E s \in Sessions : CountUp(s) \/ CountDown(s) \/ MakeHost(s)
    BY DEF Next, vars, mapVars, Session, GetOrCreateStats, Register, LookUser, LookHost,
       MakeUser, RoundTrip, End, Remove, Protect, CleanOfflineUsers, Delete
  <1>8. ASSUME NEW s \in Sessions, CountUp(s) \/ CountDown(s) \/ MakeHost(s)
        PROVE  /\ Len(stats') \in Nat /\ Len(stats) <= Len(stats')
               /\ \A j \in 1 .. Len(stats) :
                    stats'[j].up >= stats[j].up /\ stats'[j].down >= stats[j].down
    <2>1. CASE CountUp(s) \/ CountDown(s)
      BY <1>2, <1>5, <2>1
    <2>2. CASE MakeHost(s)
      BY <1>3, <1>6, <2>2
    <2> QED BY <1>8, <2>1, <2>2
  <1> QED BY <1>1, <1>2, <1>4, <1>7, <1>8

\* Two sessions that create the counters of an address at once end up with the
\* same ones, so what is shown of it never shrinks until somebody cleans it
\* away (user_monitor.go:34-61).
THEOREM FiguresGrow == Spec => FiguresNeverShrink
  <1>1. TypeInv /\ [Next]_vars =>
          \A i \in IPs, h \in Hosts :
            Users'[i] = 0 \/ (/\ Figures(i, h)'.up >= Figures(i, h).up
                              /\ Figures(i, h)'.down >= Figures(i, h).down)
    <2> SUFFICES ASSUME TypeInv, [Next]_vars, NEW i \in IPs, NEW h \in Hosts, Users'[i] # 0
                 PROVE  /\ Figures(i, h)'.up >= Figures(i, h).up
                        /\ Figures(i, h)'.down >= Figures(i, h).down
      OBVIOUS
    <2>1. Shown(i, h) \in 0 .. Len(stats)
      <3>1. /\ hosts \in Seq([Hosts -> 0 .. Len(stats)])
            /\ Users \in [IPs -> 0 .. Len(hosts)]
        BY DEF TypeInv, TypeOK
      <3>2. Len(hosts) \in Nat /\ Len(stats) \in Nat
            /\ \A j \in 1 .. Len(hosts) : hosts[j] \in [Hosts -> 0 .. Len(stats)]
        BY <3>1, CountersGrow, Elements
      <3>3. CASE Users[i] = 0
        BY <3>2, <3>3 DEF Shown
      <3>4. CASE Users[i] # 0
        <4>1. Users[i] \in 1 .. Len(hosts)
          BY <3>1, <3>2, <3>4, Numbered
        <4>2. hosts[Users[i]] \in [Hosts -> 0 .. Len(stats)]
          BY <3>2, <4>1
        <4> QED BY <3>4, <4>2 DEF Shown
      <3> QED BY <3>3, <3>4
    <2>2. CASE Shown(i, h) # 0
      <3>1. Shown(i, h)' = Shown(i, h) /\ Shown(i, h) \in 1 .. Len(stats)
        BY <2>1, <2>2, ShownStays, CountersGrow, Numbered
      <3>2. Figures(i, h)' = stats'[Shown(i, h)] /\ Figures(i, h) = stats[Shown(i, h)]
        BY <2>2, <3>1 DEF Figures
      <3> QED BY <3>1, <3>2, CountersGrow
    <2>3. CASE Shown(i, h) = 0
      <3>1. Figures(i, h) = [up |-> 0, down |-> 0]
        BY <2>3 DEF Figures
      <3>2. Figures(i, h)' \in UserHostStats
        <4>1. TypeInv'
          BY TypeStep
        <4>2. /\ hosts' \in Seq([Hosts -> 0 .. Len(stats')])
              /\ Users' \in [IPs -> 0 .. Len(hosts')]
              /\ stats' \in Seq(UserHostStats)
          BY <4>1 DEF TypeInv, TypeOK
        <4>3. /\ Len(hosts') \in Nat /\ Len(stats') \in Nat
              /\ \A j \in 1 .. Len(hosts') : hosts'[j] \in [Hosts -> 0 .. Len(stats')]
              /\ \A j \in 1 .. Len(stats') : stats'[j] \in UserHostStats
          BY <4>2, Elements
        <4>4. Users'[i] \in 1 .. Len(hosts')
          <5>1. Users'[i] \in 0 .. Len(hosts')
            BY <4>2
          <5> QED BY <4>3, <5>1, Numbered
        <4>5. hosts'[Users'[i]][h] \in 0 .. Len(stats')
          BY <4>3, <4>4
        <4>6. CASE hosts'[Users'[i]][h] = 0
          BY <4>6 DEF Figures, Shown, UserHostStats
        <4>7. CASE hosts'[Users'[i]][h] # 0
          <5>1. hosts'[Users'[i]][h] \in 1 .. Len(stats')
            BY <4>3, <4>5, <4>7, Numbered
          <5>2. Figures(i, h)' = stats'[hosts'[Users'[i]][h]]
            BY <4>7 DEF Figures, Shown
          <5> QED BY <4>3, <5>1, <5>2
        <4> QED BY <4>6, <4>7
      <3> QED BY <3>1, <3>2 DEF UserHostStats
    <2> QED BY <2>2, <2>3
  <1> QED BY <1>1, TypeInvHolds, PTL DEF Spec, FiguresNeverShrink

-----------------------------------------------------------------------------
(* Listed sessions count where the panel looks. *)

\* A session that has not begun has no record and no counter.
NewHasNothing ==
  \A s \in Sessions : phase[s] = "new" =>
    s \notin table /\ us[s] = 0 /\ up[s] = 0 /\ down[s] = 0

\* A listed session that no command missed: its address will be protected by
\* the command under way, the user it has found is still in the map, and so is
\* the counter it was given.
ListedIsKept(s) ==
  /\ clean.step = "range" => s \in clean.keys \/ IPOf[s] \in clean.protected
  /\ us[s] # 0 => us[s] = Users[IPOf[s]]
  /\ up[s] # 0 => up[s] = Shown(IPOf[s], HostOf[s])
  /\ down[s] # 0 => down[s] = Shown(IPOf[s], HostOf[s])

ListedInv == NewHasNothing /\ \A s \in table \ late : ListedIsKept(s)

LEMMA ListedInit == Init => ListedInv
  BY DEF Init, ListedInv, NewHasNothing, ListedIsKept

\* Nobody takes the user of a listed session out of the map.
LEMMA UserStays ==
  ASSUME TypeInv, ListedInv, [Next]_vars, NEW s \in table \ late, Users[IPOf[s]] # 0
  PROVE  Users'[IPOf[s]] = Users[IPOf[s]]
  <1>1. s \in Sessions /\ IPOf[s] \in IPs
    BY SessionsAssumption DEF TypeInv, TypeOK
  <1>2. CASE UNCHANGED Users
    BY <1>2
  <1>3. ASSUME NEW t \in Sessions, MakeUser(t) PROVE Users'[IPOf[s]] = Users[IPOf[s]]
    BY <1>1, <1>3, MakeUserMaps
  <1>4. CASE Delete
    <2>1. IPOf[s] \in clean.protected
      BY <1>4 DEF Delete, ListedInv, ListedIsKept
    <2> QED BY <1>1, <1>4, <2>1 DEF Delete
  <1>5. UNCHANGED Users \/ Delete \/ \E t \in Sessions : MakeUser(t)
    BY DEF Next, vars, mapVars, Session, GetOrCreateStats, Register, LookUser, LookHost,
       MakeHost, RoundTrip, End, CountUp, CountDown, Remove, Protect, CleanOfflineUsers
  <1> QED BY <1>2, <1>3, <1>4, <1>5

\* Nor its counter.
LEMMA CounterStays ==
  ASSUME TypeInv, ListedInv, [Next]_vars, NEW s \in table \ late,
         Shown(IPOf[s], HostOf[s]) # 0
  PROVE  Shown(IPOf[s], HostOf[s])' = Shown(IPOf[s], HostOf[s])
  <1>1. IPOf[s] \in IPs /\ HostOf[s] \in Hosts
    BY SessionsAssumption DEF TypeInv, TypeOK
  <1>2. Users[IPOf[s]] # 0
    BY DEF Shown
  <1>3. Users'[IPOf[s]] # 0
    BY <1>2, UserStays
  <1> DEFINE i == IPOf[s]
             h == HostOf[s]
  <1>4. i \in IPs /\ h \in Hosts /\ Users'[i] # 0 /\ Shown(i, h) # 0
    BY <1>1, <1>3
  <1>5. Shown(i, h)' = Shown(i, h)
    BY <1>4, ShownStays
  <1> QED BY <1>5

\* The command protects what it has not yet visited, or has.
LEMMA ProtectionStays ==
  ASSUME TypeInv, ListedInv, [Next]_vars, NEW s \in table \ late,
         s \in table', clean'.step = "range"
  PROVE  s \in clean'.keys \/ IPOf[s] \in clean'.protected
  <1>1. clean \in CleanType /\ (clean.step = "range" => s \in clean.keys \/ IPOf[s] \in clean.protected)
    BY DEF TypeInv, TypeOK, CleanType, ListedInv, ListedIsKept
  <1>2. CASE UNCHANGED clean
    BY <1>1, <1>2
  <1>3. ASSUME NEW t \in Sessions, Register(t)
        PROVE  s \in clean'.keys \/ IPOf[s] \in clean'.protected
    <2>1. clean' = clean \/ clean' = [clean EXCEPT !.keys = @ \cup {t}]
      BY <1>3 DEF Register
    <2> QED BY <1>1, <2>1 DEF CleanType
  <1>4. CASE CleanOfflineUsers
    BY <1>4 DEF CleanOfflineUsers
  <1>5. ASSUME NEW t \in Sessions, Protect(t)
        PROVE  s \in clean'.keys \/ IPOf[s] \in clean'.protected
    <2>1. /\ clean'.keys = clean.keys \ {t}
          /\ clean'.protected = IF t \in table THEN clean.protected \cup {IPOf[t]}
                                ELSE clean.protected
          /\ clean'.step = clean.step
      BY <1>1, <1>5 DEF Protect, CleanType
    <2> QED BY <1>1, <2>1
  <1>6. CASE Delete
    BY <1>1, <1>6 DEF Delete, CleanType
  <1>7. \/ UNCHANGED clean \/ CleanOfflineUsers \/ Delete
        \/ \E t \in Sessions : Register(t) \/ Protect(t)
    BY DEF Next, vars, mapVars, Session, GetOrCreateStats, LookUser, LookHost, MakeUser,
       MakeHost, RoundTrip, End, CountUp, CountDown, Remove
  <1> QED BY <1>2, <1>3, <1>4, <1>5, <1>6, <1>7

\* The user that a listed session has found is the one in the map.
LEMMA FoundIsInMap ==
  ASSUME TypeInv, ListedInv, [Next]_vars, NEW s \in table \ late, us'[s] # 0
  PROVE  us'[s] = Users'[IPOf[s]]
  <1>1. s \in Sessions /\ us \in [Sessions -> 0 .. Len(hosts)]
    BY DEF TypeInv, TypeOK
  <1>2. us[s] # 0 => us[s] = Users[IPOf[s]]
    BY DEF ListedInv, ListedIsKept
  <1>3. CASE us'[s] = us[s]
    BY <1>2, <1>3, UserStays
  <1>4. CASE LookUser(s)
    BY <1>1, <1>4 DEF LookUser, mapVars
  <1>5. CASE MakeUser(s)
    BY <1>1, <1>5, MakeUserMaps
  <1>6. us'[s] = us[s] \/ LookUser(s) \/ MakeUser(s)
    <2>1. UNCHANGED us \/ \E t \in Sessions : LookUser(t) \/ MakeUser(t)
      BY DEF Next, vars, lookVars, Session, GetOrCreateStats, Register, LookHost,
         MakeHost, RoundTrip, End, CountUp, CountDown, Remove, Protect, CleanOfflineUsers, Delete
    <2>2. ASSUME NEW t \in Sessions, LookUser(t) \/ MakeUser(t), t # s
          PROVE  us'[s] = us[s]
      BY <1>1, <2>2 DEF LookUser, MakeUser
    <2> QED BY <2>1, <2>2
  <1> QED BY <1>3, <1>4, <1>5, <1>6

\* What a lookup of a listed session hands out is the counter that is shown.
LEMMA TakenIsShown ==
  ASSUME TypeInv, ListedInv, [Next]_vars, NEW s \in table \ late,
         LookHost(s) \/ MakeHost(s)
  PROVE  \/ UNCHANGED <<up, down>>
         \/ Take(s, Shown(IPOf[s], HostOf[s])')
  <1>1. s \in Sessions
    BY DEF TypeInv, TypeOK
  <1>2. us[s] # 0 /\ us[s] = Users[IPOf[s]] /\ UNCHANGED Users
    <2>1. phase[s] \in {"look host", "make host"} /\ UNCHANGED Users
      BY DEF LookHost, MakeHost, Goto, mapVars
    <2> QED BY <1>1, <2>1 DEF TypeInv, LooksIntoUser, ListedInv, ListedIsKept
  <1>3. Shown(IPOf[s], HostOf[s])' = hosts'[us[s]][HostOf[s]]
    BY <1>2 DEF Shown
  <1>4. CASE LookHost(s)
    <2>1. UNCHANGED hosts
      BY <1>4 DEF LookHost, mapVars
    <2>2. UNCHANGED <<up, down>> \/ Take(s, hosts[us[s]][HostOf[s]])
      BY <1>4 DEF LookHost
    <2>3. hosts[us[s]][HostOf[s]] = Shown(IPOf[s], HostOf[s])'
      BY <1>3, <2>1
    <2>4. CASE Take(s, hosts[us[s]][HostOf[s]])
      BY <2>3, <2>4, Zenon
    <2> QED BY <2>2, <2>4
  <1>5. CASE MakeHost(s)
    <2>1. Take(s, hosts'[us[s]][HostOf[s]])
      BY <1>5 DEF MakeHost
    <2> QED BY <1>3, <2>1, Zenon
  <1> QED BY <1>4, <1>5

LEMMA CountersAreShown ==
  ASSUME TypeInv, ListedInv, [Next]_vars, NEW s \in table \ late
  PROVE  /\ up'[s] # 0 => up'[s] = Shown(IPOf[s], HostOf[s])'
         /\ down'[s] # 0 => down'[s] = Shown(IPOf[s], HostOf[s])'
  <1>1. /\ s \in Sessions
        /\ up \in [Sessions -> 0 .. Len(stats)] /\ down \in [Sessions -> 0 .. Len(stats)]
    BY DEF TypeInv, TypeOK
  <1>2. /\ up[s] # 0 => up[s] = Shown(IPOf[s], HostOf[s])'
        /\ down[s] # 0 => down[s] = Shown(IPOf[s], HostOf[s])'
    <2>1. /\ up[s] # 0 => up[s] = Shown(IPOf[s], HostOf[s])
          /\ down[s] # 0 => down[s] = Shown(IPOf[s], HostOf[s])
      BY DEF ListedInv, ListedIsKept
    <2> QED BY <2>1, CounterStays
  <1>3. CASE up'[s] = up[s] /\ down'[s] = down[s]
    BY <1>2, <1>3
  <1>4. CASE LookHost(s) \/ MakeHost(s)
    <2>1. CASE UNCHANGED <<up, down>>
      BY <1>3, <2>1
    <2>2. CASE Take(s, Shown(IPOf[s], HostOf[s])')
      <3> DEFINE i == Shown(IPOf[s], HostOf[s])'
      <3>1. /\ up' = [up EXCEPT ![s] = i] \/ up' = up
            /\ down' = [down EXCEPT ![s] = i] \/ down' = down
        BY <2>2 DEF Take
      <3> HIDE DEF i
      <3>2. (up'[s] = i \/ up'[s] = up[s]) /\ (down'[s] = i \/ down'[s] = down[s])
        BY <1>1, <3>1
      <3>3. (up'[s] # 0 => up'[s] = i) /\ (down'[s] # 0 => down'[s] = i)
        BY <1>2, <3>2 DEF i
      <3> QED BY <3>3 DEF i
    <2> QED BY <1>4, <2>1, <2>2, TakenIsShown
  <1>5. (up'[s] = up[s] /\ down'[s] = down[s]) \/ LookHost(s) \/ MakeHost(s)
    <2>1. UNCHANGED <<up, down>> \/ \E t \in Sessions : LookHost(t) \/ MakeHost(t)
      BY DEF Next, vars, lookVars, Session, GetOrCreateStats, Register, LookUser, MakeUser,
         RoundTrip, End, CountUp, CountDown, Remove, Protect, CleanOfflineUsers, Delete
    <2>2. ASSUME NEW t \in Sessions, LookHost(t) \/ MakeHost(t), t # s
          PROVE  up'[s] = up[s] /\ down'[s] = down[s]
      BY <1>1, <2>2 DEF LookHost, MakeHost, Take
    <2> QED BY <2>1, <2>2
  <1> QED BY <1>3, <1>4, <1>5

LEMMA NewStays ==
  ASSUME TypeInv, ListedInv, [Next]_vars
  PROVE  NewHasNothing'
  <1> SUFFICES ASSUME NEW s \in Sessions, phase'[s] = "new"
               PROVE  s \notin table' /\ us'[s] = 0 /\ up'[s] = 0 /\ down'[s] = 0
    BY DEF NewHasNothing
  <1>1. /\ phase \in [Sessions -> Phases] /\ us \in [Sessions -> 0 .. Len(hosts)]
        /\ up \in [Sessions -> 0 .. Len(stats)] /\ down \in [Sessions -> 0 .. Len(stats)]
    BY DEF TypeInv, TypeOK
  <1>2. ASSUME NEW t \in Sessions, Session(t) \/ Remove(t) \/ Protect(t)
        PROVE  /\ phase[s] = "new"
               /\ s \in table' => s \in table
               /\ us'[s] = us[s] /\ up'[s] = up[s] /\ down'[s] = down[s]
    <2>1. CASE Register(t) \/ RoundTrip(t) \/ End(t)
      BY <1>1, <2>1 DEF Register, RoundTrip, End, Goto, lookVars
    <2>2. CASE Remove(t) \/ Protect(t) \/ CountUp(t) \/ CountDown(t)
      BY <1>1, <2>2 DEF Remove, Protect, CountUp, CountDown, lookVars
    <2>3. CASE LookUser(t) \/ MakeUser(t)
      BY <1>1, <2>3 DEF LookUser, MakeUser, Goto
    <2>4. CASE LookHost(t) \/ MakeHost(t)
      BY <1>1, <2>4 DEF LookHost, MakeHost, Goto, Take, AfterLookup
    <2> QED BY <1>2, <2>1, <2>2, <2>3, <2>4 DEF Session, GetOrCreateStats
  <1>3. CASE CleanOfflineUsers \/ Delete \/ UNCHANGED vars
    BY <1>3 DEF CleanOfflineUsers, Delete, vars, lookVars, ListedInv, NewHasNothing
  <1>4. phase[s] = "new" => s \notin table /\ us[s] = 0 /\ up[s] = 0 /\ down[s] = 0
    BY DEF ListedInv, NewHasNothing
  <1> QED BY <1>2, <1>3, <1>4 DEF Next

LEMMA ListedStep ==
  ASSUME TypeInv, ListedInv, [Next]_vars
  PROVE  ListedInv'
  <1> SUFFICES ASSUME NEW s \in table' \ late' PROVE ListedIsKept(s)'
    BY NewStays DEF ListedInv
  <1>1. CASE s \in table \ late
    BY <1>1, FoundIsInMap, CountersAreShown, ProtectionStays DEF ListedIsKept
  <1>2. CASE s \notin table \ late
    <2>1. s \in Sessions /\ Register(s) /\ late' = late
      <3>1. late \subseteq late'
        BY DEF Next, vars, Session, GetOrCreateStats, Register, LookUser, MakeUser, LookHost,
           MakeHost, RoundTrip, End, CountUp, CountDown, Remove, Protect, CleanOfflineUsers,
           Delete
      <3>2. s \in table' /\ s \notin table
        BY <1>2, <3>1
      <3>3. table' \subseteq table \/ \E t \in Sessions : Register(t)
        BY DEF Next, vars, Session, GetOrCreateStats, LookUser, MakeUser, LookHost,
           MakeHost, RoundTrip, End, CountUp, CountDown, Remove, Protect, CleanOfflineUsers,
           Delete
      <3>4. PICK t \in Sessions : Register(t)
        BY <3>2, <3>3
      <3>5. t = s
        BY <3>2, <3>4 DEF Register
      <3>6. late' = late
        BY <3>4, <3>5 DEF Register
      <3> QED BY <3>4, <3>5, <3>6
    <2>2. s \in Sessions /\ phase[s] = "new" /\ UNCHANGED <<us, up, down>>
      BY <2>1 DEF Register, Goto, lookVars
    <2>3. us'[s] = 0 /\ up'[s] = 0 /\ down'[s] = 0
      BY <2>2 DEF ListedInv, NewHasNothing
    <2>4. clean.step # "range"
      BY <2>1 DEF Register
    <2>5. clean' = clean
      BY <2>1, <2>4 DEF Register
    <2> QED BY <2>3, <2>4, <2>5 DEF ListedIsKept
  <1> QED BY <1>1, <1>2

\* What a listed session transfers goes to the counter that the panel shows,
\* however lookups, deletions and commands interleave, if it was registered
\* while no command was under way (user_monitor.go:34-61, proxy.go:206-217).
THEOREM ListedIsShown == Spec => []ListedTrafficIsShown
  <1>1. Init => TypeInv /\ ListedInv
    BY TypeInit, ListedInit
  <1>2. TypeInv /\ ListedInv /\ [Next]_vars => (TypeInv /\ ListedInv)'
    BY TypeStep, ListedStep
  <1>3. TypeInv /\ ListedInv => ListedTrafficIsShown
    BY DEF ListedInv, ListedIsKept, ListedTrafficIsShown
  <1> QED BY <1>1, <1>2, <1>3, PTL DEF Spec
=============================================================================

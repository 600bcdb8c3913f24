-------------------------- MODULE AccessGate_proofs --------------------------
(***************************************************************************)
(* Proofs about AccessGate, for every set of sessions, clients, hosts and  *)
(* configurations and for any number of concurrent POSTs.                  *)
(***************************************************************************)
EXTENDS AccessGate, TLAPS

-----------------------------------------------------------------------------
(* Type correctness. *)

LEMMA TypeInit == Init => TypeOK
  BY ConfigsAssumption DEF Init, TypeOK, Rules, NoRules, Phases, PostPhases

\* Every step of the handlers, the panel and the pusher keeps the types.
LEMMA TypeOfHandlers ==
  ASSUME TypeOK, NEW c \in Conns,
         Handler(c) \/ Panel(c) \/ CollectTombstone(c)
  PROVE  TypeOK'
  <1> USE DEF TypeOK, Phases, Goto, connVars, postVars
  <1>1. CASE Register(c) \/ OpenEngine(c)
    BY <1>1 DEF Register, OpenEngine, Store
  <1>2. CASE ReadAccessEnable(c) \/ Begin(c) \/ Accept(c)
    BY <1>2 DEF ReadAccessEnable, Begin, Accept
  <1>3. CASE MatchRules(c) \/ RecheckTunnel(c)
    BY <1>3 DEF MatchRules, RecheckTunnel
  <1>4. CASE Refuse(c) \/ GiveUp(c) \/ Finish(c)
    BY <1>4 DEF Refuse, GiveUp, Finish, MarkConnectionClosed
  <1>5. CASE StoreTunnel(c) \/ CollectTombstone(c)
    BY <1>5 DEF StoreTunnel, CollectTombstone
  <1>6. CASE PanelClose(c)
    BY <1>6 DEF PanelClose, OnClose, OnCloseEnds
  <1>7. CASE PanelDelete(c)
    BY <1>7 DEF PanelDelete
  <1> QED BY <1>1, <1>2, <1>3, <1>4, <1>5, <1>6, <1>7 DEF Handler, Panel

\* Every step of a POST keeps the types.
LEMMA TypeOfPosts ==
  ASSUME TypeOK, NEW p \in Posters,
         UpdateConfig(p) \/ UpdateConfigFails(p) \/ Reload(p)
  PROVE  TypeOK'
  <1> USE DEF TypeOK, PostPhases, PostGoto, connVars, postVars
  <1>1. CASE UpdateConfig(p) \/ UpdateConfigFails(p)
    BY <1>1, ConfigsAssumption DEF UpdateConfig, UpdateConfigFails
  <1>2. CASE BuildRules(p) \/ SwapRules(p)
    <2>1. NoRules \in Rules
      BY DEF NoRules, Rules
    <2> QED BY <1>2, <2>1 DEF BuildRules, SwapRules
  <1>3. CASE StartScan(p) \/ EndScan(p)
    BY <1>3 DEF StartScan, EndScan
  <1>4. ASSUME NEW c \in Conns, VisitKey(p, c) PROVE TypeOK'
    BY <1>4 DEF VisitKey
  <1>5. ASSUME NEW c \in Conns, CloseVictim(p, c) PROVE TypeOK'
    BY <1>5 DEF CloseVictim, OnClose, OnCloseEnds
  <1>6. ASSUME NEW c \in Conns, DeleteVictim(p, c) PROVE TypeOK'
    BY <1>6 DEF DeleteVictim
  <1> QED BY <1>1, <1>2, <1>3, <1>4, <1>5, <1>6 DEF Reload

LEMMA TypeStep == TypeOK /\ [Next]_vars => TypeOK'
  <1> SUFFICES ASSUME TypeOK, [Next]_vars PROVE TypeOK'
    OBVIOUS
  <1>1. CASE UNCHANGED vars
    BY <1>1 DEF vars, connVars, postVars, TypeOK
  <1>2. CASE Next
    BY <1>2, TypeOfHandlers, TypeOfPosts DEF Next
  <1> QED BY <1>1, <1>2

\* The variables of the gate always have their types.
THEOREM TypeCorrect == Spec => []TypeOK
  BY TypeInit, TypeStep, PTL DEF Spec

-----------------------------------------------------------------------------
(* What the sessions are does not change. *)

LEMMA ProfileStep == [Next]_vars => profile' = profile
  BY DEF Next, vars, Handler, Panel, Reload, Register, OpenEngine, ReadAccessEnable, MatchRules,
     Refuse, Begin, Accept, GiveUp, StoreTunnel, RecheckTunnel, Finish, PanelClose, PanelDelete,
     CollectTombstone, UpdateConfig, UpdateConfigFails, BuildRules, SwapRules, StartScan,
     EndScan, VisitKey, CloseVictim, DeleteVictim

\* The session that holds the socket is one, is the same client's, and is no
\* WebSocket when it holds the socket for another one.
LEMMA LeadFacts ==
  ASSUME TypeOK, NEW c \in Conns
  PROVE  /\ Lead(c) \in Conns /\ Client(Lead(c)) = Client(c)
         /\ Parent(c) = NoParent => Lead(c) = c
         /\ Parent(c) # NoParent => Lead(c) = Parent(c) /\ Kind(Lead(c)) \in {"MITM", "MUX"}
         /\ Severable(c) => ~Answered(Lead(c))
  <1>1. profile[c] \in Profile /\ profile \in Profiles
    BY ProfilesAssumption DEF TypeOK
  <1>2. Parent(c) \in Conns \cup {NoParent}
    BY <1>1 DEF Profile, Parent
  <1>3. CASE Parent(c) = NoParent
    BY <1>3 DEF Lead, Severable
  <1>4. CASE Parent(c) # NoParent
    <2>1. IsRequestOf(profile[c], profile[Parent(c)])
      BY <1>1, <1>4, ProfilesAssumption DEF Parent
    <2>2. Lead(c) = Parent(c) /\ Lead(c) \in Conns
      BY <1>2, <1>4 DEF Lead
    <2>3. Kind(Lead(c)) \in {"MITM", "MUX"} /\ Client(Lead(c)) = Client(c)
      BY <2>1, <2>2 DEF IsRequestOf, Kind, Client
    <2> QED BY <1>4, <2>2, <2>3 DEF Answered
  <1> QED BY <1>3, <1>4

\* A step does not change who holds the socket of a session.
LEMMA SameProfile ==
  ASSUME profile' = profile, NEW c
  PROVE  /\ Kind(c)' = Kind(c) /\ Client(c)' = Client(c) /\ Parent(c)' = Parent(c)
         /\ Lead(c)' = Lead(c) /\ (Asked(c)' <=> Asked(c))
  BY DEF Kind, Client, Parent, Lead, Asked

-----------------------------------------------------------------------------
(* A request is in a tunnel that is served. *)

Under(c) == phase[c] \notin {"new", "denied", "done"}

ParentsServe == \A c \in Conns : Parent(c) # NoParent /\ Under(c) => phase[Parent(c)] = "serve"

LEMMA ParentsOfHandlers ==
  ASSUME TypeOK, ParentsServe, profile' = profile, NEW c \in Conns, Handler(c)
  PROVE  ParentsServe'
  <1> SUFFICES ASSUME NEW d \in Conns, Parent(d) # NoParent, Under(d)'
               PROVE  phase'[Parent(d)] = "serve"
    BY SameProfile DEF ParentsServe
  <1>1. Parent(d) \in Conns
    BY LeadFacts
  <1>2. \A e \in Conns : e # c => phase'[e] = phase[e]
    BY DEF TypeOK, Handler, Goto, Register, OpenEngine, ReadAccessEnable, MatchRules, Refuse,
       Begin, Accept, GiveUp, StoreTunnel, RecheckTunnel, Finish
  <1>3. phase[c] = "serve" => Idle(c)
    BY DEF Handler, Goto, Register, OpenEngine, ReadAccessEnable, MatchRules, Refuse,
       Begin, Accept, GiveUp, StoreTunnel, RecheckTunnel, Finish
  <1>4. CASE d # c
    <2>1. Under(d)
      BY <1>2, <1>4 DEF Under
    <2>2. phase[Parent(d)] = "serve"
      BY <2>1 DEF ParentsServe
    <2>3. Parent(d) # c
      BY <1>3, <2>1, <2>2 DEF Idle, Inside, Under
    <2> QED BY <1>1, <1>2, <2>2, <2>3
  <1>5. CASE d = c
    <2>1. Parent(d) # d
      BY LeadFacts, ProfilesAssumption, <1>1 DEF TypeOK, IsRequestOf, Parent
    <2>2. Kind(d) # "MUX"
      BY ProfilesAssumption, <1>1 DEF TypeOK, IsRequestOf, Parent, Kind
    <2>3. Under(d) \/ Register(d)
      BY <1>5, <2>2 DEF Under, TypeOK, Handler, Goto, Register, OpenEngine, ReadAccessEnable,
         MatchRules, Refuse, Begin, Accept, GiveUp, StoreTunnel, RecheckTunnel, Finish
    <2>4. phase[Parent(d)] = "serve"
      BY <2>3 DEF ParentsServe, Register
    <2> QED BY <1>1, <1>2, <1>5, <2>1, <2>4
  <1> QED BY <1>4, <1>5

LEMMA ParentsStep ==
  ASSUME TypeOK, ParentsServe, [Next]_vars
  PROVE  ParentsServe'
  <1>1. profile' = profile
    BY ProfileStep
  <1>2. CASE \E c \in Conns : Handler(c)
    BY <1>1, <1>2, ParentsOfHandlers
  <1>3. CASE UNCHANGED phase
    BY <1>1, <1>3 DEF ParentsServe, Under, Parent
  <1>4. (\E c \in Conns : Handler(c)) \/ UNCHANGED phase
    BY DEF Next, vars, connVars, Panel, PanelClose, PanelDelete, CollectTombstone, Reload,
       UpdateConfig, UpdateConfigFails, BuildRules, SwapRules, StartScan, EndScan, VisitKey,
       CloseVictim, DeleteVictim
  <1> QED BY <1>2, <1>3, <1>4

-----------------------------------------------------------------------------
(* Open connections are listed. *)

\* A session that is registered and not yet refused or finished.
Live(c) == phase[c] \in {"check", "match"} \/ Carries(c)

\* The record of a live session is Active until OnClose has cut the session:
\* the strengthening of OpenIsListed to the steps before the decision.
LiveIsListed ==
  \A c \in Conns : ~Answered(c) /\ Live(c) /\ ~cut[c] => table[c] = "Active"

\* A POST closes one record at a time, and a record is deleted only after its
\* OnClose; until its handler is done, the session is then cut.
DeletesAreCut ==
  /\ \A p \in Posters : \A c, d \in victim[p] : c = d
  /\ \A c \in panel : ~Answered(c) /\ phase[c] # "done" => cut[c]
  /\ \A p \in Posters : post[p] = "delete" =>
       \A c \in victim[p] : ~Answered(c) /\ phase[c] # "done" => cut[c]

ListInv == TypeOK /\ ParentsServe /\ LiveIsListed /\ DeletesAreCut

LEMMA ListInit == Init => ListInv
  BY TypeInit DEF Init, ListInv, ParentsServe, Under, LiveIsListed, DeletesAreCut, Live, Carries

LEMMA ListOfHandlers ==
  ASSUME ListInv, NEW c \in Conns,
         Handler(c) \/ Panel(c) \/ CollectTombstone(c)
  PROVE  LiveIsListed' /\ DeletesAreCut'
  <1> USE DEF ListInv, TypeOK, LiveIsListed, DeletesAreCut, Live, Carries,
              Answered, Kind, Phases, Goto, connVars, postVars
  <1>1. CASE Register(c) \/ OpenEngine(c)
    BY <1>1 DEF Register, OpenEngine, Store
  <1>2. CASE ReadAccessEnable(c) \/ Begin(c) \/ Accept(c)
    BY <1>2 DEF ReadAccessEnable, Begin, Accept
  <1>3. CASE MatchRules(c) \/ RecheckTunnel(c)
    BY <1>3 DEF MatchRules, RecheckTunnel
  <1>4. CASE Refuse(c) \/ GiveUp(c) \/ Finish(c)
    BY <1>4 DEF Refuse, GiveUp, Finish, MarkConnectionClosed
  <1>5. CASE StoreTunnel(c) \/ CollectTombstone(c)
    BY <1>5 DEF StoreTunnel, CollectTombstone
  <1>6. CASE PanelClose(c)
    BY <1>6 DEF PanelClose, OnClose, OnCloseEnds
  <1>7. CASE PanelDelete(c)
    BY <1>7 DEF PanelDelete
  <1> QED BY <1>1, <1>2, <1>3, <1>4, <1>5, <1>6, <1>7 DEF Handler, Panel

\* A POST that finds the record closes the session, and nothing else.
LEMMA ClosingCuts ==
  ASSUME TypeOK, NEW p \in Posters, NEW c \in Conns,
         CloseVictim(p, c), table[c] # "none"
  PROVE  /\ UNCHANGED <<profile, phase, table, victim, panel>>
         /\ \A d \in Conns : cut[d] => cut'[d]
         /\ ~Answered(c) => cut'[c]
         /\ \A q \in Posters : q # p => post'[q] = post[q]
  <1>1. UNCHANGED <<profile, phase, table, victim, panel>>
    BY DEF CloseVictim
  <1>2. /\ OnClose(c)
        /\ post' = [post EXCEPT ![p] = "delete"]
    BY DEF CloseVictim
  <1>3. \A d \in Conns : cut[d] => cut'[d]
    BY <1>2 DEF OnClose, TypeOK
  <1>4. ~Answered(c) => cut'[c]
    BY <1>2 DEF OnClose, OnCloseEnds, Answered, Kind, TypeOK
  <1>5. \A q \in Posters : q # p => post'[q] = post[q]
    BY <1>2 DEF TypeOK
  <1> QED BY <1>1, <1>3, <1>4, <1>5

LEMMA ListOfPosts ==
  ASSUME ListInv, NEW p \in Posters,
         UpdateConfig(p) \/ UpdateConfigFails(p) \/ Reload(p)
  PROVE  LiveIsListed' /\ DeletesAreCut'
  <1> USE DEF ListInv, TypeOK, LiveIsListed, DeletesAreCut, Live, Carries,
              Answered, Kind, PostPhases, PostGoto, connVars, postVars
  <1>1. CASE UpdateConfig(p) \/ UpdateConfigFails(p)
    BY <1>1 DEF UpdateConfig, UpdateConfigFails
  <1>2. CASE BuildRules(p) \/ SwapRules(p)
    BY <1>2 DEF BuildRules, SwapRules
  <1>3. CASE StartScan(p) \/ EndScan(p)
    BY <1>3 DEF StartScan, EndScan
  <1>4. ASSUME NEW c \in Conns, VisitKey(p, c) PROVE LiveIsListed' /\ DeletesAreCut'
    BY <1>4 DEF VisitKey
  <1>5. ASSUME NEW c \in Conns, CloseVictim(p, c) PROVE LiveIsListed' /\ DeletesAreCut'
    <2>1. CASE table[c] = "none"
      <3>1. UNCHANGED <<profile, phase, table, cut, panel>>
        BY <1>5, <2>1 DEF CloseVictim
      <3>2. /\ victim' = [victim EXCEPT ![p] = {}]
            /\ post' = [post EXCEPT ![p] = "visit"]
        BY <1>5, <2>1 DEF CloseVictim
      <3>3. LiveIsListed'
        BY <3>1
      <3>4. DeletesAreCut'
        BY <3>1, <3>2
      <3> QED BY <3>3, <3>4
    <2>2. CASE table[c] # "none"
      <3>1. /\ UNCHANGED <<profile, phase, table, victim, panel>>
            /\ \A d \in Conns : cut[d] => cut'[d]
            /\ ~Answered(c) => cut'[c]
        BY <1>5, <2>2, ClosingCuts DEF ListInv
      <3>2. LiveIsListed'
        BY <3>1
      <3>3. \A q \in Posters : q # p => post'[q] = post[q]
        BY <1>5, <2>2, ClosingCuts DEF ListInv
      <3>4. \A d \in victim[p] : d = c
        BY <1>5 DEF CloseVictim
      <3>5. DeletesAreCut'
        BY <3>1, <3>3, <3>4
      <3> QED BY <3>2, <3>5
    <2> QED BY <2>1, <2>2
  <1>6. ASSUME NEW c \in Conns, DeleteVictim(p, c) PROVE LiveIsListed' /\ DeletesAreCut'
    BY <1>6 DEF DeleteVictim
  <1> QED BY <1>1, <1>2, <1>3, <1>4, <1>5, <1>6 DEF Reload

LEMMA ListStep == ListInv /\ [Next]_vars => ListInv'
  <1> SUFFICES ASSUME ListInv, [Next]_vars PROVE ListInv'
    OBVIOUS
  <1>1. TypeOK' /\ ParentsServe'
    BY TypeStep, ParentsStep DEF ListInv
  <1>2. CASE UNCHANGED vars
    BY <1>1, <1>2 DEF vars, connVars, postVars, ListInv, LiveIsListed,
                      DeletesAreCut, Live, Carries, Answered, Kind
  <1>3. CASE Next
    BY <1>1, <1>3, ListOfHandlers, ListOfPosts DEF Next, ListInv
  <1> QED BY <1>2, <1>3

LEMMA ListInvariant == Spec => []ListInv
  BY ListInit, ListStep, PTL DEF Spec

\* What ListInv says of open connections: an answered WebSocket in a tunnel is
\* listed by the tunnel, which is served.
LEMMA LeadIsListed ==
  ASSUME ListInv, NEW c \in Conns, Severable(c), Open(c)
  PROVE  /\ Lead(c) \in Conns /\ table[Lead(c)] = "Active"
         /\ ~Answered(Lead(c)) /\ ~cut[Lead(c)] /\ phase[Lead(c)] # "done"
         /\ Answered(c) \/ table[c] = "Active"
  <1> USE DEF ListInv
  <1>1. Lead(c) \in Conns /\ ~Answered(Lead(c)) /\ ~cut[c] /\ ~cut[Lead(c)] /\ Carries(c)
    BY LeadFacts DEF Open, Severed
  <1>2. Carries(Lead(c))
    <2>1. CASE Parent(c) = NoParent
      BY <1>1, <2>1, LeadFacts
    <2>2. CASE Parent(c) # NoParent
      BY <1>1, <2>2, LeadFacts DEF ParentsServe, Under, Carries
    <2> QED BY <2>1, <2>2
  <1>3. table[Lead(c)] = "Active" /\ (Answered(c) \/ table[c] = "Active")
    BY <1>1, <1>2 DEF LiveIsListed, Live
  <1> QED BY <1>1, <1>2, <1>3 DEF Carries

\* An open connection that OnClose can end always has an Active record, and so
\* has the tunnel it is in.
THEOREM OpenAreListed == Spec => []OpenIsListed
  <1>1. ListInv => OpenIsListed
    BY LeadIsListed DEF OpenIsListed
  <1> QED BY <1>1, ListInvariant, PTL

-----------------------------------------------------------------------------
(* Nothing that was let through survives the block of its client. *)

\* The scan of this POST has yet to meet the session.
WillMeet(p, c) ==
  \/ post[p] \in {"reload", "swap", "scan"}
  \/ post[p] \in {"visit", "close", "delete"} /\ c \in pending[p]
  \/ post[p] = "close" /\ c \in victim[p]

\* While the rules ban the client of an open connection, some POST in flight has
\* yet to meet the session that holds its socket: NoBlockedSurvivor for the steps
\* of a POST.
BannedIsHunted ==
  \A c \in Conns : Hit(c) => \E p \in Posters : WillMeet(p, Lead(c))

GateInv == ListInv /\ BannedIsHunted

LEMMA GateInit == Init => GateInv
  BY ListInit DEF Init, GateInv, BannedIsHunted, Hit, Open, Carries

\* A step that leaves a session open finds it open and lets its rules be.
LEMMA StillOpen ==
  ASSUME TypeOK, NEW c \in Conns, Handler(c) \/ Panel(c) \/ CollectTombstone(c),
         NEW d \in Conns, Hit(d)'
  PROVE  Hit(d)
  <1> USE DEF TypeOK
  <1>1. UNCHANGED <<profile, cfg, saved, rules>>
    BY DEF Handler, Panel, Register, OpenEngine, ReadAccessEnable, MatchRules, Refuse, Begin,
       Accept, GiveUp, StoreTunnel, RecheckTunnel, Finish, PanelClose, PanelDelete,
       CollectTombstone
  <1>2. Asked(d) /\ Banned(d) /\ Lead(d)' = Lead(d) /\ Lead(d) \in Conns
    BY <1>1, SameProfile, LeadFacts DEF Banned, Hit
  <1>3. ~Severed(d)
    <2>1. \A e \in Conns : cut[e] => cut'[e]
      BY DEF Handler, Panel, Register, OpenEngine, ReadAccessEnable, MatchRules, Refuse, Begin,
         Accept, GiveUp, StoreTunnel, RecheckTunnel, Finish, PanelClose, PanelDelete,
         CollectTombstone, OnClose, connVars
    <2> QED BY <1>2, <2>1 DEF Hit, Open, Severed
  <1>4. Carries(d) /\ Severable(d)
    <2> USE <1>1, <1>2 DEF Hit, Open, Carries, Severable, Answered, Goto, Kind, Parent, Client,
            Asked, Banned
    <2>1. CASE Register(c) \/ OpenEngine(c)
      BY <2>1 DEF Register, OpenEngine
    <2>2. CASE ReadAccessEnable(c)
      BY <2>2 DEF ReadAccessEnable
    <2>3. CASE MatchRules(c)
      BY <2>3 DEF MatchRules, Matches
    <2>4. CASE Refuse(c) \/ GiveUp(c) \/ Finish(c) \/ StoreTunnel(c) \/ RecheckTunnel(c)
      BY <2>4 DEF Refuse, GiveUp, Finish, StoreTunnel, RecheckTunnel
    <2>5. CASE Begin(c) \/ Accept(c)
      BY <2>5 DEF Begin, Accept
    <2>6. CASE Panel(c) \/ CollectTombstone(c)
      BY <2>6 DEF Panel, PanelClose, PanelDelete, CollectTombstone
    <2> QED BY <2>1, <2>2, <2>3, <2>4, <2>5, <2>6 DEF Handler
  <1> QED BY <1>2, <1>3, <1>4 DEF Hit, Open

LEMMA GateOfHandlers ==
  ASSUME GateInv, NEW c \in Conns,
         Handler(c) \/ Panel(c) \/ CollectTombstone(c)
  PROVE  BannedIsHunted'
  <1> USE DEF GateInv, ListInv, TypeOK
  <1>1. UNCHANGED <<profile, post, victim>>
    BY DEF Handler, Panel, Register, OpenEngine, ReadAccessEnable, MatchRules, Refuse, Begin,
       Accept, GiveUp, StoreTunnel, RecheckTunnel, Finish, PanelClose, PanelDelete,
       CollectTombstone, postVars
  <1>2. \A p \in Posters : pending[p] \subseteq pending'[p]
    <2>1. CASE Register(c) \/ OpenEngine(c)
      BY <2>1 DEF Register, OpenEngine, Store
    <2>2. CASE ~Register(c) /\ ~OpenEngine(c)
      BY <2>2 DEF Handler, Panel, ReadAccessEnable, MatchRules, Refuse, Begin, Accept,
         GiveUp, StoreTunnel, RecheckTunnel, Finish, PanelClose, PanelDelete,
         CollectTombstone, postVars
    <2> QED BY <2>1, <2>2
  <1>3. ASSUME NEW d \in Conns, Hit(d)'
        PROVE  \E p \in Posters : WillMeet(p, Lead(d))'
    <2>1. PICK p \in Posters : WillMeet(p, Lead(d))
      BY <1>3, StillOpen DEF BannedIsHunted
    <2>2. Lead(d)' = Lead(d)
      BY <1>1, SameProfile
    <2>3. WillMeet(p, Lead(d))'
      BY <1>1, <1>2, <2>1, <2>2 DEF WillMeet
    <2> QED BY <2>3
  <1> QED BY <1>3 DEF BannedIsHunted

\* The steps of a POST before its scan: the POST itself will meet everybody.
LEMMA GateBeforeScan ==
  ASSUME GateInv, NEW p \in Posters,
         UpdateConfig(p) \/ BuildRules(p) \/ SwapRules(p)
  PROVE  BannedIsHunted'
  <1>1. post'[p] \in {"reload", "swap", "scan"}
    BY DEF GateInv, ListInv, TypeOK, UpdateConfig, BuildRules, SwapRules, PostGoto
  <1> QED BY <1>1 DEF BannedIsHunted, WillMeet

\* The steps of a POST's scan change no rule and open nothing.
LEMMA ScanKeepsHits ==
  ASSUME TypeOK, NEW p \in Posters,
         Reload(p), ~BuildRules(p), ~SwapRules(p), NEW d \in Conns, Hit(d)'
  PROVE  Hit(d) /\ Lead(d)' = Lead(d)
  <1>1. UNCHANGED <<profile, cfg, saved, rules, phase>>
    BY DEF Reload, StartScan, EndScan, VisitKey, CloseVictim, DeleteVictim, connVars
  <1>2. \A e \in Conns : cut[e] => cut'[e]
    BY DEF TypeOK, Reload, StartScan, EndScan, VisitKey, CloseVictim, DeleteVictim, OnClose,
       connVars
  <1>3. Lead(d)' = Lead(d) /\ Lead(d) \in Conns
    BY <1>1, SameProfile, LeadFacts
  <1>4. Asked(d) /\ Severable(d) /\ Carries(d) /\ Banned(d)
    BY <1>1 DEF Hit, Asked, Severable, Answered, Open, Carries, Banned, Kind, Parent, Client
  <1>5. ~Severed(d)
    BY <1>2, <1>3 DEF Hit, Open, Severed
  <1> QED BY <1>3, <1>4, <1>5 DEF Hit, Open

\* The steps of a POST's scan: whoever it meets it cuts.
LEMMA GateOfScan ==
  ASSUME GateInv, NEW p \in Posters, Reload(p), ~BuildRules(p), ~SwapRules(p)
  PROVE  BannedIsHunted'
  <1> USE DEF GateInv, ListInv, TypeOK, PostPhases
  <1> SUFFICES ASSUME NEW d \in Conns, Hit(d)'
               PROVE  \E q \in Posters : WillMeet(q, Lead(d))'
    BY DEF BannedIsHunted
  <1> DEFINE l == Lead(d)
  <1>1. Hit(d) /\ l' = l
    BY ScanKeepsHits
  <1>2. PICK q \in Posters : WillMeet(q, l)
    BY <1>1 DEF BannedIsHunted
  <1>3. /\ l \in Conns /\ table[l] = "Active"
        /\ ~Answered(l) /\ ~cut[l] /\ phase[l] # "done"
    BY <1>1, LeadIsListed DEF Hit
  <1>4. cfg.enable /\ Client(l) \in rules.clients
    BY <1>1, LeadFacts DEF Hit, Banned
  <1>5. ~cut'[l]
    BY <1>1 DEF Hit, Open, Severed
  <1>6. CASE q # p
    <2>1. post'[q] = post[q] /\ pending'[q] = pending[q] /\ victim'[q] = victim[q]
      BY <1>6 DEF Reload, StartScan, EndScan, VisitKey, CloseVictim, DeleteVictim, PostGoto
    <2> QED BY <1>1, <1>2, <2>1 DEF WillMeet
  <1>7. CASE q = p
    <2> HIDE DEF l
    <2>1. WillMeet(p, l)'
      <3>1. CASE StartScan(p)
        BY <1>3, <1>4, <1>1, <3>1 DEF StartScan, PostGoto, WillMeet
      <3>2. CASE EndScan(p)
        BY <1>2, <1>7, <3>2 DEF EndScan, PostGoto, WillMeet
      <3>3. ASSUME NEW c \in Conns, VisitKey(p, c) PROVE WillMeet(p, l)'
        <4>1. l \in pending[p]
          BY <1>2, <1>7, <3>3 DEF VisitKey, WillMeet
        <4>2. CASE c = l
          BY <1>1, <1>3, <1>4, <3>3, <4>2 DEF VisitKey, WillMeet
        <4>3. CASE c # l
          BY <1>1, <3>3, <4>1, <4>3 DEF VisitKey, WillMeet
        <4> QED BY <4>2, <4>3
      <3>4. ASSUME NEW c \in Conns, CloseVictim(p, c) PROVE WillMeet(p, l)'
        <4>1. c # l
          <5>1. CASE table[c] = "none"
            BY <1>3, <5>1
          <5>2. CASE table[c] # "none"
            BY <1>3, <1>5, <3>4, <5>2, ClosingCuts
          <5> QED BY <5>1, <5>2
        <4>2. l \notin victim[p]
          BY <3>4, <4>1 DEF CloseVictim, DeletesAreCut
        <4>3. l \in pending[p]
          BY <1>2, <1>7, <3>4, <4>2 DEF CloseVictim, WillMeet
        <4>4. post'[p] \in {"visit", "delete"} /\ pending'[p] = pending[p]
          BY <3>4 DEF CloseVictim
        <4> QED BY <1>1, <4>3, <4>4 DEF WillMeet
      <3>5. ASSUME NEW c \in Conns, DeleteVictim(p, c) PROVE WillMeet(p, l)'
        BY <1>1, <1>2, <1>7, <3>5 DEF DeleteVictim, PostGoto, WillMeet
      <3> QED BY <3>1, <3>2, <3>3, <3>4, <3>5 DEF Reload
    <2> QED BY <2>1 DEF l
  <1> QED BY <1>6, <1>7

LEMMA GateStep == GateInv /\ [Next]_vars => GateInv'
  <1> SUFFICES ASSUME GateInv, [Next]_vars PROVE GateInv'
    OBVIOUS
  <1>1. ListInv'
    BY ListStep DEF GateInv
  <1>2. CASE UNCHANGED vars
    BY <1>1, <1>2 DEF vars, connVars, postVars, GateInv, BannedIsHunted, WillMeet, Hit, Asked,
       Open, Banned, Carries, Severed, Severable, Answered, Lead, Kind, Parent, Client
  <1>3. CASE \E c \in Conns : Handler(c) \/ Panel(c) \/ CollectTombstone(c)
    BY <1>1, <1>3, GateOfHandlers DEF GateInv
  <1>4. ASSUME NEW p \in Posters, UpdateConfigFails(p) PROVE GateInv'
    BY <1>1, <1>4 DEF UpdateConfigFails, GateInv, BannedIsHunted, Hit, Banned
  <1>5. ASSUME NEW p \in Posters, UpdateConfig(p) \/ Reload(p) PROVE GateInv'
    BY <1>1, <1>5, GateBeforeScan, GateOfScan DEF GateInv
  <1> QED BY <1>2, <1>3, <1>4, <1>5 DEF Next

\* Whenever no POST is in flight and the last one could be saved, nothing that the
\* gate was asked about and let through is open for a blocked client, for any
\* number of POSTs that ran at once, saved or not: requests, relayed and decrypted
\* tunnels, and the requests and WebSockets inside a decrypted tunnel or the
\* engine's connection.  Severable leaves out the WebSocket outside a tunnel, and
\* Asked the engine's connection itself.
THEOREM GateHolds == Spec => []NoBlockedSurvivor
  <1>1. GateInv => NoBlockedSurvivor
    BY DEF GateInv, BannedIsHunted, NoBlockedSurvivor, Hit, Quiet, WillMeet
  <1> QED BY <1>1, GateStep, GateInit, PTL DEF Spec

-----------------------------------------------------------------------------
(* One POST at a time keeps the rules and the configuration together. *)

\* What a POST has built is the configuration's, and it is installed once the
\* POST is past the swap.
ReloadInv ==
  /\ \A p \in Posters : post[p] = "swap" => built[p] = cfg.rules
  /\ saved /\ (\A p \in Posters : post[p] \notin {"reload", "swap"}) => rules = cfg.rules

\* With at most one goroutine serving POSTs, the controller enforces the
\* configuration whenever no POST is in flight and the last one was saved.
THEOREM OnePostKeepsRules ==
  ASSUME \A p, q \in Posters : p = q
  PROVE  Spec => []RulesFollowConfig
  <1>1. Init => ReloadInv
    BY DEF Init, ReloadInv
  <1>2. TypeOK /\ ReloadInv /\ [Next]_vars => ReloadInv'
    <2> SUFFICES ASSUME TypeOK, ReloadInv, [Next]_vars PROVE ReloadInv'
      OBVIOUS
    <2> USE DEF ReloadInv, TypeOK, connVars, postVars
    <2>1. CASE UNCHANGED vars
      BY <2>1 DEF vars
    <2>2. ASSUME NEW c \in Conns, Handler(c) \/ Panel(c) \/ CollectTombstone(c)
          PROVE  ReloadInv'
      BY <2>2 DEF Handler, Panel, Register, OpenEngine, ReadAccessEnable, MatchRules, Refuse,
         Begin, Accept, GiveUp, StoreTunnel, RecheckTunnel, Finish, PanelClose,
         PanelDelete, CollectTombstone
    <2>3. ASSUME NEW p \in Posters,
                 UpdateConfig(p) \/ UpdateConfigFails(p) \/ Reload(p)
          PROVE  ReloadInv'
      BY <2>3 DEF Reload, UpdateConfig, UpdateConfigFails, BuildRules, SwapRules,
         StartScan, EndScan, VisitKey, CloseVictim, DeleteVictim, PostGoto
    <2> QED BY <2>1, <2>2, <2>3 DEF Next
  <1>3. ReloadInv => RulesFollowConfig
    BY DEF ReloadInv, RulesFollowConfig, Quiet
  <1> QED BY <1>1, <1>2, <1>3, TypeCorrect, PTL DEF Spec
=============================================================================

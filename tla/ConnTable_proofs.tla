-------------------------- MODULE ConnTable_proofs --------------------------
(***************************************************************************)
(* Proofs about ConnTable, for every set of sessions and clients, every    *)
(* shape of the sessions and every retention.                              *)
(***************************************************************************)
EXTENDS ConnTable, TLAPS

-----------------------------------------------------------------------------
(* Type correctness. *)

PushType == [active : BOOLEAN, keys : SUBSET Sessions, dead : SUBSET Sessions]

PanelType ==
  [step : PanelSteps, remove : BOOLEAN, wanted : SUBSET Sessions,
   keys : SUBSET Sessions, last : SUBSET Sessions,
   at : SUBSET (Sessions \X Objects), swept : SUBSET Sessions]

LEMMA TypeInit == Init => TypeOK
  BY RetentionAssumption DEF Init, TypeOK, Phases, PanelSteps, NoCommand, Zero, Old, Objects

\* A round or a command under way sees the new record or does not.
LEMMA RegisterSeen ==
  ASSUME NEW s \in Sessions, Register(s)
  PROVE  /\ push' = push \/ push' = [push EXCEPT !.keys = @ \cup {s}]
         /\ panel' = panel \/ panel' = [panel EXCEPT !.keys = @ \cup {s}]
  <1>1. push' \in {push} \cup (IF push.active THEN {[push EXCEPT !.keys = @ \cup {s}]} ELSE {})
    BY DEF Register
  <1>2. panel' \in {panel} \cup (IF panel.step # "idle" /\ s \in panel.wanted
                              THEN {[panel EXCEPT !.keys = @ \cup {s}]} ELSE {})
    BY DEF Register
  <1>3. push' = push \/ push' = [push EXCEPT !.keys = @ \cup {s}]
    <2>1. CASE push.active
      BY <1>1, <2>1
    <2>2. CASE ~push.active
      BY <1>1, <2>2
    <2> QED BY <2>1, <2>2
  <1>4. panel' = panel \/ panel' = [panel EXCEPT !.keys = @ \cup {s}]
    <2>1. CASE panel.step # "idle" /\ s \in panel.wanted
      BY <1>2, <2>1
    <2>2. CASE ~(panel.step # "idle" /\ s \in panel.wanted)
      BY <1>2, <2>2
    <2> QED BY <2>1, <2>2
  <1> QED BY <1>3, <1>4

\* The steps of a handler keep the types.
LEMMA TypeOfHandlers ==
  ASSUME TypeOK, NEW s \in Sessions, Handler(s)
  PROVE  TypeOK'
  <1> USE DEF TypeOK, Phases, Goto
  <1>1. CASE Register(s)
    <2>1. push' \in PushType
      <3>1. CASE push' = push
        BY <3>1 DEF PushType
      <3>2. CASE push' = [push EXCEPT !.keys = @ \cup {s}]
        BY <3>2 DEF PushType
      <3> QED BY <1>1, <3>1, <3>2, RegisterSeen
    <2>2. panel' \in PanelType
      <3>1. CASE panel' = panel
        BY <3>1 DEF PanelType
      <3>2. CASE panel' = [panel EXCEPT !.keys = @ \cup {s}]
        BY <3>2 DEF PanelType
      <3> QED BY <1>1, <3>1, <3>2, RegisterSeen
    <2>3. table' \in [Sessions -> {0} \cup Objects] /\ phase' \in [Sessions -> Phases]
      BY <1>1 DEF Register, Objects
    <2> QED BY <1>1, <2>1, <2>2, <2>3 DEF Register, PushType, PanelType
  <1>2. CASE Accept(s) \/ StoreTunnel(s)
    BY <1>2 DEF Accept, StoreTunnel, Objects
  <1>3. CASE Finish(s)
    BY <1>3 DEF Finish, MarkStatus
  <1>4. CASE Stamp(s)
    BY <1>4, RetentionAssumption DEF Stamp, Zero, Old
  <1> QED BY <1>1, <1>2, <1>3, <1>4 DEF Handler

\* The steps of the pusher keep the types.
LEMMA TypeOfPusher == TypeOK /\ Pusher => TypeOK'
  <1> SUFFICES ASSUME TypeOK, Pusher PROVE TypeOK'
    OBVIOUS
  <1> USE DEF TypeOK
  <1>1. CASE StartRound
    BY <1>1, RetentionAssumption DEF StartRound, Keys, Zero, Old
  <1>2. CASE EndRound
    BY <1>2 DEF EndRound
  <1>3. ASSUME NEW s \in Sessions, VisitRecord(s) PROVE TypeOK'
    <2>1. \E dead \in SUBSET Sessions :
            push' = [push EXCEPT !.keys = @ \ {s}, !.dead = dead]
      BY <1>3 DEF VisitRecord
    <2>2. push' \in PushType
      BY <2>1 DEF PushType
    <2> QED BY <1>3, <2>2 DEF VisitRecord, PushType
  <1>4. ASSUME NEW s \in Sessions, DeleteExpired(s) PROVE TypeOK'
    <2>1. push' \in PushType
      BY <1>4 DEF DeleteExpired, PushType
    <2>2. table' \in [Sessions -> {0} \cup Objects]
      BY <1>4 DEF DeleteExpired
    <2> QED BY <1>4, <2>1, <2>2 DEF DeleteExpired, PushType
  <1> QED BY <1>1, <1>2, <1>3, <1>4 DEF Pusher

\* The beginning of a command keeps the types.
LEMMA TypeOfCommand ==
  ASSUME TypeOK, NEW remove \in BOOLEAN, NEW wanted \in SUBSET Sessions,
         NEW last \in SUBSET Sessions, Command(remove, wanted, last)
  PROVE  TypeOK'
  BY DEF TypeOK, Command, Keys, PanelSteps

\* The steps of a command keep the types.
LEMMA TypeOfPanel == TypeOK /\ PanelStep => TypeOK'
  <1> SUFFICES ASSUME TypeOK, PanelStep PROVE TypeOK'
    OBVIOUS
  <1> USE DEF TypeOK, PanelSteps
  <1>1. CASE EndCommand
    BY <1>1 DEF EndCommand, NoCommand
  <1>2. ASSUME NEW s \in Sessions, PanelCloses(s) PROVE TypeOK'
    <2>1. \E last \in SUBSET Sessions, at \in SUBSET (Sessions \X Objects),
             step \in {"range", "delete"} :
            panel' = [panel EXCEPT !.keys = @ \ {s}, !.last = last, !.at = at, !.step = step]
      <3> DEFINE last == IF s \in panel.keys THEN panel.last ELSE panel.last \ {s}
                 at == IF table[s] = 0 THEN {} ELSE {<<s, table[s]>>}
                 step == IF table[s] # 0 /\ panel.remove THEN "delete" ELSE "range"
      <3>1. last \in SUBSET Sessions
        BY DEF PanelType
      <3>2. at \in SUBSET (Sessions \X Objects)
        BY DEF Objects
      <3>3. panel' = [panel EXCEPT !.keys = @ \ {s}, !.last = last, !.at = at, !.step = step]
        BY <1>2 DEF PanelCloses
      <3> QED BY <3>1, <3>2, <3>3
    <2>2. panel' \in PanelType
      <3>1. PICK last \in SUBSET Sessions, at \in SUBSET (Sessions \X Objects),
                 step \in {"range", "delete"} :
              panel' = [panel EXCEPT !.keys = @ \ {s}, !.last = last, !.at = at, !.step = step]
        BY <2>1
      <3>2. [panel EXCEPT !.keys = @ \ {s}] \in PanelType
        BY DEF PanelType
      <3> QED BY <3>1, <3>2 DEF PanelType
    <2> QED BY <1>2, <2>2 DEF PanelCloses, PanelType
  <1>3. ASSUME NEW s \in Sessions, PanelDeletes(s) PROVE TypeOK'
    <2>1. panel' \in PanelType
      BY <1>3 DEF PanelDeletes, PanelType
    <2>2. table' \in [Sessions -> {0} \cup Objects]
      BY <1>3 DEF PanelDeletes
    <2> QED BY <1>3, <2>1, <2>2 DEF PanelDeletes, PanelType
  <1>4. ASSUME NEW s \in Sessions, PanelMarks(s) PROVE TypeOK'
    <2>1. \E at \in SUBSET (Sessions \X Objects), step \in {"range", "stamp"} :
            panel' = [panel EXCEPT !.step = step, !.at = at]
      <3> DEFINE at == IF table[s] = 0 THEN {} ELSE {<<s, table[s]>>}
                 step == IF table[s] = 0 THEN "range" ELSE "stamp"
      <3>1. at \in SUBSET (Sessions \X Objects)
        BY DEF Objects
      <3>2. panel' = [panel EXCEPT !.step = step, !.at = at]
        BY <1>4 DEF PanelMarks
      <3> QED BY <3>1, <3>2
    <2>2. panel' \in PanelType
      BY <2>1 DEF PanelType
    <2>3. status' \in [Sessions -> [Objects -> {"Active", "Closed"}]]
      BY <1>4 DEF PanelMarks, MarkStatus
    <2> QED BY <1>4, <2>2, <2>3 DEF PanelMarks, PanelType
  <1>5. ASSUME NEW s \in Sessions, NEW i \in Objects, PanelStamps(s, i) PROVE TypeOK'
    <2>1. panel' \in PanelType
      BY <1>5 DEF PanelStamps, PanelType
    <2>2. age' \in [Sessions -> [Objects -> 0 .. Zero]]
      BY <1>5, RetentionAssumption DEF PanelStamps, Zero, Old
    <2> QED BY <1>5, <2>1, <2>2 DEF PanelStamps, PanelType
  <1> QED BY <1>1, <1>2, <1>3, <1>4, <1>5 DEF PanelStep

\* Every command names the records it wants by Command.
LEMMA Commands ==
  ASSUME CloseAllConnections \/ (\E ip \in Clients : CloseUserConnections(ip))
           \/ (\E id \in Sessions : CloseConnection(id))
  PROVE  \E remove \in BOOLEAN, wanted, last \in SUBSET Sessions :
           Command(remove, wanted, last)
  <1>1. CASE CloseAllConnections
    BY <1>1 DEF CloseAllConnections
  <1>2. ASSUME NEW ip \in Clients, CloseUserConnections(ip)
        PROVE  \E wanted \in SUBSET Sessions : Command(TRUE, wanted, {})
    BY <1>2 DEF CloseUserConnections
  <1>3. ASSUME NEW id \in Sessions, CloseConnection(id)
        PROVE  \E wanted, last \in SUBSET Sessions : Command(TRUE, wanted, last)
    <2>1. /\ Children(id) \cup {s \in {id} : table[s] = 2} \in SUBSET Sessions
          /\ {id} \in SUBSET Sessions
      BY DEF Children
    <2> QED BY <1>3, <2>1 DEF CloseConnection
  <1> QED BY <1>1, <1>2, <1>3

LEMMA TypeStep == TypeOK /\ [Next]_vars => TypeOK'
  <1> SUFFICES ASSUME TypeOK, [Next]_vars PROVE TypeOK'
    OBVIOUS
  <1>1. CASE UNCHANGED vars
    BY <1>1 DEF vars, TypeOK
  <1>2. CASE Next
    BY <1>2, TypeOfHandlers, TypeOfPusher, TypeOfPanel, TypeOfCommand, Commands DEF Next
  <1> QED BY <1>1, <1>2

\* The variables of the table and of those who use it always have their types.
THEOREM TypeCorrect == Spec => []TypeOK
  BY TypeInit, TypeStep, PTL DEF Spec

-----------------------------------------------------------------------------
(* Sessions that carry traffic are listed, and commands reach them. *)

\* Before its handler starts a session has no record, and no object of it has
\* been marked; until the relay starts, the second object is untouched.
FreshObjects ==
  \A s \in Sessions :
    /\ phase[s] = "new" => table[s] = 0 /\ status[s][1] = "Active"
    /\ phase[s] \in {"new", "running", "dialed"} => status[s][2] = "Active"
    /\ phase[s] \in {"running", "dialed"} => table[s] # 2

\* The record that a command is at belongs to a session it has cut: OnClose
\* comes before the mark and before the deletion.
PanelCutsFirst == \A o \in panel.at : cut[o[1]]

\* The key the pusher is about to delete, once found dead, is that of a session
\* which carries no traffic any more.
DeadStaysDead == \A s \in push.dead : phase[s] # "new" /\ ~Open(s)

\* What a command set out to close it still has to visit, or has closed.
SweepReaches ==
  \A s \in panel.swept :
    phase[s] # "new" /\ (s \in panel.keys \cup panel.last \/ ~Open(s))

Inv == /\ TypeOK /\ OpenIsListed /\ FreshObjects
       /\ PanelCutsFirst /\ DeadStaysDead /\ SweepReaches

LEMMA InvInit == Init => Inv
  BY TypeInit DEF Init, Inv, OpenIsListed, Open, Running, FreshObjects, PanelCutsFirst,
     DeadStaysDead, SweepReaches, NoCommand, Objects

\* A session that was registered never becomes open again once it is not: the
\* phases of a handler only go forward, and a cut is never taken back.
LEMMA OpenOnlyEnds ==
  ASSUME Inv, NEW s \in Sessions, Handler(s)
  PROVE  \A t \in Sessions : phase[t] # "new" => phase'[t] # "new" /\ (Open(t)' => Open(t))
  <1> USE DEF Inv, TypeOK, Open, Running, Goto
  <1>1. UNCHANGED cut
    BY DEF Handler, Register, Accept, StoreTunnel, Finish, Stamp
  <1>2. CASE Register(s)
    BY <1>1, <1>2 DEF Register
  <1>3. CASE Accept(s)
    BY <1>1, <1>3 DEF Accept
  <1>4. CASE StoreTunnel(s)
    BY <1>1, <1>4 DEF StoreTunnel
  <1>5. CASE Finish(s)
    BY <1>1, <1>5 DEF Finish
  <1>6. CASE Stamp(s)
    BY <1>1, <1>6 DEF Stamp
  <1> QED BY <1>2, <1>3, <1>4, <1>5, <1>6 DEF Handler

\* What a handler does to its own record.
LEMMA HandlerLists ==
  ASSUME Inv, NEW s \in Sessions, Handler(s)
  PROVE  OpenIsListed' /\ FreshObjects'
  <1> USE DEF Inv, TypeOK, OpenIsListed, FreshObjects, Open, Running, Goto, Objects
  <1>1. CASE Register(s)
    BY <1>1 DEF Register
  <1>2. CASE Accept(s)
    BY <1>2 DEF Accept
  <1>3. CASE StoreTunnel(s)
    BY <1>3 DEF StoreTunnel
  <1>4. CASE Finish(s)
    BY <1>4 DEF Finish, MarkStatus
  <1>5. CASE Stamp(s)
    BY <1>5 DEF Stamp
  <1> QED BY <1>1, <1>2, <1>3, <1>4, <1>5 DEF Handler

\* A handler does not touch what the pusher and a command are at, except that a
\* range may see the new record.
LEMMA HandlerKeepsRanges ==
  ASSUME Inv, NEW s \in Sessions, Handler(s)
  PROVE  /\ push'.dead = push.dead
         /\ panel'.at = panel.at /\ panel'.swept = panel.swept /\ panel'.last = panel.last
         /\ panel.keys \subseteq panel'.keys
         /\ UNCHANGED cut
  <1>1. CASE Register(s)
    BY <1>1, RegisterSeen DEF Register, Inv, TypeOK
  <1>2. CASE Accept(s) \/ StoreTunnel(s) \/ Finish(s) \/ Stamp(s)
    BY <1>2 DEF Accept, StoreTunnel, Finish, Stamp
  <1> QED BY <1>1, <1>2 DEF Handler

LEMMA InvOfHandlers ==
  ASSUME Inv, NEW s \in Sessions, Handler(s)
  PROVE  Inv'
  <1>1. TypeOK'
    BY TypeOfHandlers DEF Inv
  <1>2. OpenIsListed' /\ FreshObjects'
    BY HandlerLists
  <1>3. PanelCutsFirst'
    BY HandlerKeepsRanges DEF Inv, PanelCutsFirst
  <1>4. push.dead \subseteq Sessions /\ panel.swept \subseteq Sessions
    BY DEF Inv, TypeOK
  <1>5. DeadStaysDead'
    BY <1>4, HandlerKeepsRanges, OpenOnlyEnds DEF Inv, DeadStaysDead
  <1>6. SweepReaches'
    <2> SUFFICES ASSUME NEW t \in panel.swept
                 PROVE  phase'[t] # "new" /\ (t \in panel'.keys \cup panel'.last \/ ~Open(t)')
      BY HandlerKeepsRanges DEF SweepReaches
    <2>1. phase[t] # "new" /\ (t \in panel.keys \cup panel.last \/ ~Open(t))
      BY DEF Inv, SweepReaches
    <2>2. phase'[t] # "new" /\ (Open(t)' => Open(t))
      BY <1>4, <2>1, OpenOnlyEnds
    <2> QED BY <2>1, <2>2, HandlerKeepsRanges
  <1> QED BY <1>1, <1>2, <1>3, <1>5, <1>6 DEF Inv

LEMMA InvOfPusher ==
  ASSUME Inv, Pusher
  PROVE  Inv'
  <1>1. TypeOK'
    BY TypeOfPusher DEF Inv
  <1> USE DEF Inv, TypeOK, OpenIsListed, FreshObjects, Open, Running, PanelCutsFirst,
              DeadStaysDead, SweepReaches
  <1>2. CASE StartRound
    BY <1>1, <1>2 DEF StartRound
  <1>3. CASE EndRound
    BY <1>1, <1>3 DEF EndRound
  <1>4. ASSUME NEW s \in Sessions, VisitRecord(s) PROVE Inv'
    <2>1. \A t \in push'.dead : t = s /\ Expired(s)
      BY <1>4 DEF VisitRecord
    <2>2. Expired(s) => phase[s] # "new" /\ ~Open(s)
      BY DEF Expired
    <2>3. DeadStaysDead'
      BY <1>4, <2>1, <2>2 DEF VisitRecord
    <2> QED BY <1>1, <1>4, <2>3 DEF VisitRecord
  <1>5. ASSUME NEW s \in Sessions, DeleteExpired(s) PROVE Inv'
    <2>1. /\ \A t \in Sessions : t # s => table'[t] = table[t]
          /\ table'[s] = 0
          /\ ~Open(s)
          /\ UNCHANGED <<profile, phase, status, age, cut, panel>>
          /\ push'.dead = {}
      BY <1>5 DEF DeleteExpired
    <2>2. OpenIsListed'
      BY <2>1
    <2>3. FreshObjects'
      BY <2>1
    <2>4. PanelCutsFirst' /\ DeadStaysDead' /\ SweepReaches'
      BY <2>1
    <2> QED BY <1>1, <2>2, <2>3, <2>4
  <1> QED BY <1>2, <1>3, <1>4, <1>5 DEF Pusher

\* A new command: what it wants and has a record is in its keys, or comes last.
LEMMA InvOfCommand ==
  ASSUME Inv, NEW remove \in BOOLEAN, NEW wanted \in SUBSET Sessions,
         NEW last \in SUBSET Sessions, Command(remove, wanted, last)
  PROVE  Inv'
  <1>1. TypeOK'
    BY TypeOfCommand DEF Inv
  <1> USE DEF Inv, TypeOK, OpenIsListed, FreshObjects, Open, Running, PanelCutsFirst,
              DeadStaysDead, SweepReaches
  <1>2. /\ panel'.at = {}
        /\ panel'.swept = (wanted \cup last) \cap Keys
        /\ panel'.keys = wanted \cap Keys
        /\ panel'.last = last
        /\ UNCHANGED <<profile, phase, table, status, age, cut, push>>
    BY DEF Command
  <1>3. SweepReaches'
    BY <1>2 DEF Keys
  <1> QED BY <1>1, <1>2, <1>3

LEMMA InvOfPanel ==
  ASSUME Inv, PanelStep
  PROVE  Inv'
  <1>1. TypeOK'
    BY TypeOfPanel DEF Inv
  <1> USE DEF Inv, TypeOK, OpenIsListed, FreshObjects, Open, Running, PanelCutsFirst,
              DeadStaysDead, SweepReaches
  <1>2. CASE EndCommand
    BY <1>1, <1>2 DEF EndCommand, NoCommand
  <1>3. ASSUME NEW s \in Sessions, PanelCloses(s) PROVE Inv'
    <2>1. /\ UNCHANGED <<profile, phase, table, status, age, push>>
          /\ \A t \in Sessions : cut[t] => cut'[t]
          /\ table[s] # 0 => cut'[s]
      <3> HIDE DEF TypeOK
      <3>1. /\ UNCHANGED <<profile, phase, table, status, age, push>>
            /\ cut' = [cut EXCEPT ![s] = @ \/ table[s] # 0]
        BY <1>3 DEF PanelCloses
      <3>2. cut \in [Sessions -> BOOLEAN]
        BY DEF TypeOK
      <3>3. \A t \in Sessions : cut'[t] = IF t = s THEN cut[t] \/ table[s] # 0 ELSE cut[t]
        BY <3>1, <3>2
      <3>4. \A t \in Sessions : cut[t] => cut'[t]
        BY <3>3
      <3> QED BY <3>1, <3>3, <3>4
    <2>2. /\ panel'.swept = panel.swept
          /\ \A o \in panel'.at : o[1] = s /\ table[s] # 0
          /\ \A t \in Sessions : t # s /\ t \in panel.keys \cup panel.last
                                   => t \in panel'.keys \cup panel'.last
      <3>1. /\ panel'.swept = panel.swept
            /\ panel'.at = IF table[s] = 0 THEN {} ELSE {<<s, table[s]>>}
            /\ panel'.keys = panel.keys \ {s}
            /\ panel'.last = IF s \in panel.keys THEN panel.last ELSE panel.last \ {s}
        BY <1>3 DEF PanelCloses
      <3> QED BY <3>1
    <2>3. OpenIsListed' /\ FreshObjects' /\ DeadStaysDead'
      BY <2>1
    <2>4. PanelCutsFirst'
      BY <2>1, <2>2
    <2>5. ~Open(s)'
      BY <2>1
    <2>6. SweepReaches'
      BY <2>1, <2>2, <2>5
    <2> QED BY <1>1, <2>3, <2>4, <2>6
  <1>4. ASSUME NEW s \in Sessions, PanelDeletes(s) PROVE Inv'
    <2>1. /\ \A t \in Sessions : t # s => table'[t] = table[t]
          /\ table'[s] = 0
          /\ UNCHANGED <<profile, phase, status, age, cut, push>>
          /\ cut[s]
      BY <1>4 DEF PanelDeletes
    <2>2. /\ panel'.at = {} /\ panel'.swept = panel.swept
          /\ panel'.keys = panel.keys /\ panel'.last = panel.last
      BY <1>4 DEF PanelDeletes
    <2>3. OpenIsListed'
      BY <2>1
    <2>4. FreshObjects'
      BY <2>1
    <2>5. PanelCutsFirst' /\ DeadStaysDead' /\ SweepReaches'
      BY <2>1, <2>2
    <2> QED BY <1>1, <2>3, <2>4, <2>5
  <1>5. ASSUME NEW s \in Sessions, PanelMarks(s) PROVE Inv'
    <2>1. /\ \A t \in Sessions : t # s => status'[t] = status[t]
          /\ table[s] = 0 => status' = status
          /\ table[s] # 0 => status'[s] = [status[s] EXCEPT ![table[s]] = "Closed"]
          /\ UNCHANGED <<profile, phase, table, age, cut, push>>
          /\ cut[s]
      BY <1>5 DEF PanelMarks, MarkStatus
    <2>2. /\ \A o \in panel'.at : o[1] = s
          /\ panel'.swept = panel.swept
          /\ panel'.keys = panel.keys /\ panel'.last = panel.last
      BY <1>5 DEF PanelMarks
    <2>3. OpenIsListed'
      BY <2>1
    <2>4. FreshObjects'
      BY <2>1 DEF Objects
    <2>5. PanelCutsFirst' /\ DeadStaysDead' /\ SweepReaches'
      BY <2>1, <2>2
    <2> QED BY <1>1, <2>3, <2>4, <2>5
  <1>6. ASSUME NEW s \in Sessions, NEW i \in Objects, PanelStamps(s, i) PROVE Inv'
    <2>1. /\ panel'.at = {} /\ panel'.swept = panel.swept
          /\ panel'.keys = panel.keys /\ panel'.last = panel.last
          /\ UNCHANGED <<profile, phase, table, status, cut, push>>
      BY <1>6 DEF PanelStamps
    <2> QED BY <1>1, <2>1
  <1> QED BY <1>2, <1>3, <1>4, <1>5, <1>6 DEF PanelStep

LEMMA InvStep == Inv /\ [Next]_vars => Inv'
  <1> SUFFICES ASSUME Inv, [Next]_vars PROVE Inv'
    OBVIOUS
  <1>1. CASE UNCHANGED vars
    <2>1. TypeOK'
      BY <1>1, TypeStep DEF Inv
    <2> QED BY <1>1, <2>1 DEF vars, Inv, OpenIsListed, Open, Running, FreshObjects,
         PanelCutsFirst, DeadStaysDead, SweepReaches
  <1>2. CASE Next
    BY <1>2, InvOfHandlers, InvOfPusher, InvOfCommand, InvOfPanel, Commands DEF Next
  <1> QED BY <1>1, <1>2

LEMMA InvHolds == Spec => []Inv
  BY InvInit, InvStep, PTL DEF Spec

\* A session that carries traffic has an Active record, for every number of
\* sessions, whatever the pusher deletes by key and the panel marks without a
\* lock (hub.go:145-150, connections.go:25-36).
THEOREM OpenAreListed == Spec => []OpenIsListed
  <1>1. Inv => OpenIsListed
    BY DEF Inv
  <1> QED BY <1>1, InvHolds, PTL

\* A command of the panel has closed every session that had a record when it
\* began, however many sessions start, end and are collected while it ranges
\* over the table (proxy.go:168-205).
THEOREM SweepsAreComplete == Spec => []SweepIsComplete
  <1>1. Inv => SweepIsComplete
    BY DEF Inv, SweepReaches, SweepIsComplete, CommandDone
  <1> QED BY <1>1, InvHolds, PTL

-----------------------------------------------------------------------------
(* The records of handlers that have returned. *)

\* A session whose handler panics when it stores the relay's record.
Panics(s) == profile[s].kind = "RELAY" /\ profile[s].tls

\* What a handler has marked is a tombstone, and only a relay over TLS panics.
TombstoneInv ==
  \A s \in Sessions :
    /\ phase[s] \in {"marked", "done"} /\ table[s] # 0 => status[s][table[s]] = "Closed"
    /\ phase[s] \in {"dialed", "relaying"} => profile[s].kind = "RELAY"
    /\ phase[s] = "panicked" => Panics(s)

\* A record that a handler leaves behind is a tombstone, which the pusher
\* collects, unless the handler panicked.
ReturnedIsTombstone ==
  \A s \in Sessions : Returned(s) /\ table[s] # 0 =>
    status[s][table[s]] = "Closed" \/ Panics(s)

LEMMA TombstoneOfHandlers ==
  ASSUME TypeOK, TombstoneInv, NEW t \in Sessions, Handler(t)
  PROVE  TombstoneInv'
  <1> USE DEF TypeOK, TombstoneInv, Panics, Goto, Objects
  <1>1. CASE Register(t)
    BY <1>1 DEF Register
  <1>2. CASE Accept(t)
    BY <1>2 DEF Accept
  <1>3. CASE StoreTunnel(t)
    BY <1>3 DEF StoreTunnel
  <1>4. CASE Finish(t)
    BY <1>4 DEF Finish, MarkStatus
  <1>5. CASE Stamp(t)
    BY <1>5 DEF Stamp
  <1> QED BY <1>1, <1>2, <1>3, <1>4, <1>5 DEF Handler

\* Nobody else makes a record Active, or stores one.
LEMMA TombstoneOfOthers ==
  ASSUME TypeOK, TombstoneInv, UNCHANGED <<profile, phase>>,
         UNCHANGED status \/ \E t \in Sessions : MarkStatus(t) /\ UNCHANGED table,
         UNCHANGED table \/ \E t \in Sessions : table' = [table EXCEPT ![t] = 0] /\ UNCHANGED status
  PROVE  TombstoneInv'
  BY DEF TypeOK, TombstoneInv, Panics, MarkStatus, Objects

LEMMA TombstoneStep ==
  ASSUME TypeOK, TombstoneInv, [Next]_vars
  PROVE  TombstoneInv'
  <1>1. CASE UNCHANGED vars
    BY <1>1, TombstoneOfOthers DEF vars
  <1>2. ASSUME NEW s \in Sessions, Handler(s) PROVE TombstoneInv'
    BY <1>2, TombstoneOfHandlers
  <1>3. CASE Pusher
    <2>1. UNCHANGED <<profile, phase, status>>
      BY <1>3 DEF Pusher, StartRound, EndRound, VisitRecord, DeleteExpired
    <2>2. UNCHANGED table \/ \E t \in Sessions : table' = [table EXCEPT ![t] = 0]
      BY <1>3 DEF Pusher, StartRound, EndRound, VisitRecord, DeleteExpired
    <2> QED BY <2>1, <2>2, TombstoneOfOthers
  <1>4. CASE PanelStep
    <2>1. UNCHANGED <<profile, phase>>
      BY <1>4 DEF PanelStep, EndCommand, PanelCloses, PanelDeletes, PanelMarks, PanelStamps
    <2>2. \/ UNCHANGED <<table, status>>
          \/ \E t \in Sessions : table' = [table EXCEPT ![t] = 0] /\ UNCHANGED status
          \/ \E t \in Sessions : MarkStatus(t) /\ UNCHANGED table
      BY <1>4 DEF PanelStep, EndCommand, PanelCloses, PanelDeletes, PanelMarks, PanelStamps
    <2> QED BY <2>1, <2>2, TombstoneOfOthers
  <1>5. CASE \/ CloseAllConnections
             \/ \E ip \in Clients : CloseUserConnections(ip)
             \/ \E id \in Sessions : CloseConnection(id)
    <2>1. UNCHANGED <<profile, phase, table, status>>
      BY <1>5 DEF CloseAllConnections, CloseUserConnections, CloseConnection, Command
    <2> QED BY <2>1, TombstoneOfOthers
  <1> QED BY <1>1, <1>2, <1>3, <1>4, <1>5 DEF Next

\* The record of a handler that has returned can be collected, through every
\* mark, deletion and second store, except that of a relay whose client came in
\* over TLS: the leak that run table_tls shows is confined to those
\* (https.go:401-447, connections.go:25-36).
THEOREM ReturnedAreTombstones == Spec => []ReturnedIsTombstone
  <1>1. Init => TombstoneInv
    BY DEF Init, TombstoneInv
  <1>2. TombstoneInv => ReturnedIsTombstone
    BY DEF TombstoneInv, ReturnedIsTombstone, Returned
  <1> QED BY <1>1, <1>2, TypeInit, TypeStep, TombstoneStep, PTL DEF Spec
=============================================================================

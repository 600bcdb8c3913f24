-------------------------- MODULE RouteTable_proofs -------------------------
(***************************************************************************)
(* Proofs about the configuration manager and the routing engine, for      *)
(* every set of configurations, of goroutines that post and of requests,   *)
(* any number of POSTs and any number of crashes.                          *)
(***************************************************************************)
EXTENDS RouteTable, TLAPS

-----------------------------------------------------------------------------
(* Type correctness. *)

\* A configuration that was named before a POST still says the same after it.
LEMMA SentGrows ==
  ASSUME StoreTypeOK, NEW c \in Contents, sent' = Append(sent, c)
  PROVE  /\ sent' \in Seq(Contents) /\ Len(sent') = Len(sent) + 1 /\ Len(sent) \in Nat
         /\ Versions \subseteq Versions' /\ Len(sent') \in Versions' /\ 0 \in Versions'
         /\ \A v \in Versions : Content(v)' = Content(v)
  <1>1. sent \in Seq(Contents)
    BY DEF StoreTypeOK
  <1>2. /\ sent' \in Seq(Contents) /\ Len(sent') = Len(sent) + 1 /\ Len(sent) \in Nat
        /\ \A i \in 1 .. Len(sent) : sent'[i] = sent[i]
    BY <1>1
  <1> QED BY <1>2 DEF Versions, Content

LEMMA TypeInit == Init => TypeOK
  <1> SUFFICES ASSUME Init PROVE TypeOK
    OBVIOUS
  <1>1. 0 \in Versions /\ sent \in Seq(Contents) /\ Len(sent) <= MaxPosts
    BY MaxPostsAssumption DEF Init, StoreInit, Versions
  <1>2. StoreTypeOK
    BY <1>1 DEF Init, StoreInit, StoreTypeOK
  <1>3. NoTable \in Tables
    BY <1>1 DEF NoTable, Tables
  <1>4. "Direct" \in Targets
    BY DEF Targets
  <1>5. ListenPorts(DefaultContent) \subseteq Nat
    BY ContentsAssumption DEF ListenPorts
  <1> QED BY <1>2, <1>3, <1>4, <1>5 DEF Init, TypeOK, ReqPhases

\* The steps of the configuration manager keep its types.
LEMMA StoreTypes ==
  ASSUME StoreTypeOK,
         \/ \E p \in Posters, c \in Contents : UpdateConfig(p, c)
         \/ \E p \in Posters : StorePost(p)
         \/ StoreBoot \/ StoreCrash
  PROVE  StoreTypeOK' /\ Versions \subseteq Versions'
         /\ \A v \in Versions : Content(v)' = Content(v)
  <1>0. 0 \in Versions /\ Len(sent) \in Nat
    BY DEF StoreTypeOK, Versions
  <1>1. ASSUME NEW p \in Posters, NEW c \in Contents, UpdateConfig(p, c)
        PROVE  StoreTypeOK' /\ Versions \subseteq Versions'
               /\ \A v \in Versions : Content(v)' = Content(v)
    <2>1. /\ sent' \in Seq(Contents) /\ Len(sent') = Len(sent) + 1
          /\ Versions \subseteq Versions' /\ Len(sent') \in Versions'
          /\ \A v \in Versions : Content(v)' = Content(v)
      BY <1>1, SentGrows DEF UpdateConfig
    <2>2. Len(sent') <= MaxPosts
      BY <1>0, <1>1, <2>1, MaxPostsAssumption DEF UpdateConfig
    <2>3. /\ current' \in Versions' /\ file' = file /\ tmp' = Torn /\ lock' = p
          /\ mine' = [mine EXCEPT ![p] = Len(sent')] /\ server' = server /\ acked' = acked
          /\ alone' \in BOOLEAN /\ post' = [post EXCEPT ![p] = "write"]
      BY <1>1, <2>1 DEF UpdateConfig, BeginWrite, PostGoto
    <2>4. mine' \in [Posters -> Versions'] /\ acked' \in Versions'
      BY <2>1, <2>3 DEF StoreTypeOK
    <2>5. post' \in [Posters -> {"idle", "write", "rename", "saved", "built", "swap",
                           "swapping", "answer"}]
      BY <2>3 DEF StoreTypeOK
    <2>6. file' \in Versions' \cup {Absent, Torn}
      BY <2>1, <2>3 DEF StoreTypeOK
    <2> QED BY <2>1, <2>2, <2>3, <2>4, <2>5, <2>6 DEF StoreTypeOK
  <1>2. ASSUME UNCHANGED sent
        PROVE  /\ Versions' = Versions
               /\ \A v \in Versions : Content(v)' = Content(v)
    BY <1>2 DEF Versions, Content
  <1>3. ASSUME NEW p \in Posters, StorePost(p)
        PROVE  StoreTypeOK' /\ UNCHANGED sent
    <2>1. UNCHANGED sent
      BY <1>3 DEF StorePost, PostWrites, PostRenames, PostFails, PostAnswers
    <2>2. CASE PostWrites(p) \/ PostRenames(p)
      BY <1>2, <2>1, <2>2 DEF PostWrites, PostRenames, FinishWrite, Rename, PostGoto, StoreTypeOK
    <2>3. CASE PostFails(p) \/ PostAnswers(p)
      BY <1>2, <2>1, <2>3 DEF PostFails, PostAnswers, PostGoto, StoreTypeOK
    <2> QED BY <1>3, <2>1, <2>2, <2>3 DEF StorePost
  <1>4. ASSUME StoreBoot
        PROVE  StoreTypeOK' /\ UNCHANGED sent
    <2>1. UNCHANGED sent
      BY <1>4 DEF StoreBoot, Start, Load, LoadFails, BootWrites, BootRenames, BootSaveFails
    <2>2. CASE Start \/ LoadFails \/ BootSaveFails
      BY <1>0, <1>2, <2>1, <2>2 DEF Start, LoadFails, BootSaveFails, ServerGoto, StoreTypeOK
    <2>3. CASE Load \/ BootWrites \/ BootRenames
      BY <1>0, <1>2, <2>1, <2>3 DEF Load, BootWrites, BootRenames, BeginWrite, FinishWrite,
         Rename, ServerGoto, StoreTypeOK
    <2> QED BY <1>4, <2>1, <2>2, <2>3 DEF StoreBoot
  <1>5. ASSUME StoreCrash
        PROVE  StoreTypeOK' /\ UNCHANGED sent
    BY <1>2, <1>5 DEF StoreCrash, StoreTypeOK
  <1> QED BY <1>1, <1>2, <1>3, <1>4, <1>5

\* What is built from a configuration has only targets that mean something.
LEMMA ContentTypes ==
  ASSUME StoreTypeOK, NEW v \in Versions
  PROVE  /\ Content(v) \in Contents \cup {DefaultContent}
         /\ Content(v).nodes \subseteq DOMAIN NodeAddr
         /\ ListenPorts(Content(v)) \subseteq Nat
  <1>1. Content(v) \in Contents \cup {DefaultContent}
    <2>1. sent \in Seq(Contents)
      BY DEF StoreTypeOK
    <2> QED BY <2>1 DEF Versions, Content
  <1>2. Content(v) \in [on : BOOLEAN, port : Nat, httpsPort : Nat, ips : SUBSET Hosts,
                        nodes : SUBSET DOMAIN NodeAddr, routes : Seq(RouteRules)]
    BY <1>1, ContentsAssumption
  <1> QED BY <1>1, <1>2 DEF ListenPorts

LEMMA RouteIsTarget ==
  ASSUME NEW c, NEW d, NEW h, d.nodes \subseteq DOMAIN NodeAddr
  PROVE  Route(c, d, h) \in Targets
  BY DEF Route, Dialers, Targets

LEMMA MatchIsTarget ==
  ASSUME StoreTypeOK, NEW s \in Tables, NEW h
  PROVE  MatchRoute(s, h) \in Targets
  <1>1. s.dialers \in Versions
    BY DEF Tables
  <1> QED BY <1>1, ContentTypes, RouteIsTarget DEF MatchRoute

\* Tables that name configurations still do when there is another one.
LEMMA TablesGrow ==
  ASSUME TypeOK, StoreTypeOK', Versions \subseteq Versions'
  PROVE  Tables \subseteq Tables'
  BY DEF Tables

\* The steps of the requests keep the types.
LEMMA TypeOfRequests ==
  ASSUME TypeOK, NEW r \in Reqs, Request(r) \/ Finish(r)
  PROVE  TypeOK'
  <1>1. StoreTypeOK' /\ UNCHANGED <<storeVars, listening, router>>
    BY DEF Request, Finish, ReadRouteEnable, CopyRules, CopyDialers, Match, Dial, TypeOK,
       StoreTypeOK, storeVars, Versions
  <1>2. Versions' = Versions /\ Tables' = Tables
    BY <1>1 DEF Versions, Tables, storeVars
  <1>3. NoTable \in Tables
    BY DEF NoTable, Tables, Versions, TypeOK, StoreTypeOK
  <1>4. /\ router \in Tables /\ phase \in [Reqs -> ReqPhases] /\ wanted \in [Reqs -> Addrs]
        /\ snap \in [Reqs -> Tables] /\ target \in [Reqs -> Targets]
        /\ listening \subseteq Nat
    BY DEF TypeOK
  <1>5. phase' \in [Reqs -> ReqPhases]
    BY <1>4 DEF Request, Finish, ReadRouteEnable, CopyRules, CopyDialers, Match, Dial, Goto,
       ReqPhases
  <1>6. wanted' \in [Reqs -> Addrs]
    BY <1>4 DEF Request, Finish, ReadRouteEnable, CopyRules, CopyDialers, Match, Dial
  <1>7. snap' \in [Reqs -> Tables]
    <2>1. CASE CopyRules(r)
      BY <1>4, <2>1 DEF CopyRules, Tables
    <2>2. CASE CopyDialers(r)
      BY <1>4, <2>2 DEF CopyDialers, Tables
    <2>3. CASE ReadRouteEnable(r) \/ Match(r) \/ Dial(r) \/ Finish(r)
      BY <1>3, <1>4, <2>3 DEF ReadRouteEnable, Match, Dial, Finish
    <2> QED BY <2>1, <2>2, <2>3 DEF Request
  <1>8. target' \in [Reqs -> Targets]
    <2>1. CASE Match(r)
      <3>1. MatchRoute(snap[r], wanted[r].host) \in Targets
        BY <1>4, MatchIsTarget DEF TypeOK
      <3> QED BY <1>4, <2>1, <3>1 DEF Match
    <2>2. CASE ReadRouteEnable(r) \/ CopyRules(r) \/ CopyDialers(r) \/ Dial(r) \/ Finish(r)
      BY <1>4, <2>2 DEF ReadRouteEnable, CopyRules, CopyDialers, Dial, Finish, Targets
    <2> QED BY <2>1, <2>2 DEF Request
  <1> QED BY <1>1, <1>2, <1>4, <1>5, <1>6, <1>7, <1>8 DEF TypeOK

\* The steps of a reload keep the types.
LEMMA TypeOfReload ==
  ASSUME TypeOK, NEW p \in Posters, Reload(p)
  PROVE  TypeOK'
  <1>1. StoreTypeOK' /\ UNCHANGED <<sent, listening, reqVars>>
    BY DEF Reload, PostReloads, LockRouter, SwapDialers, SwapRules, PostGoto, storeRest, TypeOK,
       StoreTypeOK, Versions
  <1>2. Versions' = Versions /\ Tables' = Tables
    BY <1>1 DEF Versions, Tables
  <1>3. mine[p] \in Versions /\ router \in Tables
    BY DEF TypeOK, StoreTypeOK
  <1>4. router' \in Tables
    BY <1>3 DEF Reload, PostReloads, LockRouter, SwapDialers, SwapRules, Tables
  <1> QED BY <1>1, <1>2, <1>4 DEF TypeOK, reqVars

LEMMA TypeStep ==
  ASSUME TypeOK, [Next]_vars
  PROVE  TypeOK'
  <1>1. CASE UNCHANGED vars
    BY <1>1 DEF vars, storeVars, reqVars, TypeOK, StoreTypeOK, Versions, Tables
  <1>2. ASSUME StoreTypeOK', Versions \subseteq Versions', UNCHANGED <<listening, router, reqVars>>
        PROVE  TypeOK'
    <2>1. Tables \subseteq Tables'
      BY <1>2, TablesGrow
    <2> QED BY <1>2, <2>1 DEF TypeOK, reqVars
  <1>3. ASSUME NEW p \in Posters, NEW c \in Contents, UpdateConfig(p, c),
               UNCHANGED <<listening, router, reqVars>>
        PROVE  TypeOK'
    BY <1>2, <1>3, StoreTypes DEF TypeOK
  <1>4. ASSUME NEW p \in Posters, Poster(p) PROVE TypeOK'
    BY <1>2, <1>4, StoreTypes, TypeOfReload DEF Poster, TypeOK
  <1>5. CASE StoreBoot /\ UNCHANGED <<listening, router, reqVars>>
    BY <1>2, <1>5, StoreTypes DEF TypeOK
  <1>6. CASE Open
    <2>1. StoreTypeOK' /\ UNCHANGED <<sent, reqVars>>
      BY <1>6 DEF Open, ServerGoto, TypeOK, StoreTypeOK, Versions
    <2>2. Versions' = Versions /\ Tables' = Tables
      BY <2>1 DEF Versions, Tables
    <2>3. current \in Versions /\ 0 \in Versions
      BY DEF TypeOK, StoreTypeOK, Versions
    <2>4. ListenPorts(Content(current)) \subseteq Nat
      BY <2>3, ContentTypes DEF TypeOK
    <2>5. /\ router' \in Tables
          /\ listening' \subseteq Nat
      BY <1>6, <2>3, <2>4 DEF Open, Tables, NoTable
    <2> QED BY <2>1, <2>2, <2>5 DEF TypeOK, reqVars
  <1>7. CASE Crash
    <2>1. StoreTypeOK' /\ Versions \subseteq Versions'
      BY <1>7, StoreTypes DEF Crash, TypeOK
    <2>2. NoTable \in Tables' /\ "Direct" \in Targets
      BY <2>1 DEF NoTable, Tables, Versions, Targets, StoreTypeOK
    <2> QED BY <1>7, <2>1, <2>2 DEF Crash, TypeOK, ReqPhases
  <1>8. ASSUME NEW r \in Reqs, Request(r) \/ Finish(r) PROVE TypeOK'
    BY <1>8, TypeOfRequests
  <1> QED BY <1>1, <1>3, <1>4, <1>5, <1>6, <1>7, <1>8 DEF Next, Boot

\* Memory, disk, routing table and requests always have their types: every
\* number names a configuration that was posted.
THEOREM TypeCorrect == Spec => []TypeOK
  BY TypeInit, TypeStep, PTL DEF Spec
-----------------------------------------------------------------------------
(* The disk. *)

Saving(p) == post[p] \in {"write", "rename"}
Saved(p) == post[p] \in {"saved", "built", "swap", "swapping", "answer"}

\* A POST that saves holds the lock, and Current is what it brought, the newest
\* configuration there is; the temporary file it renames holds that one.
SavesCurrent ==
  \A p \in Posters :
    /\ post[p] # "idle" => server = "up"
    /\ Saving(p) => lock = p /\ mine[p] = current /\ current = Len(sent) /\ file # current
    /\ post[p] = "rename" => tmp = current

\* A start that saves writes back what it has read, or the default when there
\* was no file.
BootSavesFile ==
  /\ server = "load" => current = 0
  /\ server \in {"write", "rename"} => current = IF file = Absent THEN 0 ELSE file
  /\ server = "rename" => tmp = current

\* What a POST in flight has saved is on the disk, or something newer is.
SavedIsKept == \A p \in Posters : Saved(p) => file \in Versions /\ file >= mine[p]

DiskInv == SavesCurrent /\ BootSavesFile /\ FileIsWhole /\ AckedIsDurable /\ SavedIsKept

LEMMA DiskInit == Init => DiskInv
  BY FilesAssumption DEF Init, StoreInit, DiskInv, SavesCurrent, BootSavesFile, SavedIsKept,
     FileIsWhole, AckedIsDurable, Saving, Saved

\* What the facts about the disk need to know of the types.
LEMMA DiskTypes ==
  ASSUME TypeOK
  PROVE  /\ Len(sent) \in Nat /\ Versions = 0 .. Len(sent)
         /\ current \in Versions /\ acked \in Versions /\ mine \in [Posters -> Versions]
         /\ file \in Versions \cup {Absent, Torn} /\ tmp \in Versions \cup {Absent, Torn}
         /\ Absent \notin Versions /\ Torn \notin Versions /\ Absent # Torn
         /\ DOMAIN post = Posters
  BY FilesAssumption DEF TypeOK, StoreTypeOK, Versions

\* A POST that begins.
LEMMA DiskOfUpdate ==
  ASSUME TypeOK, DiskInv, NEW p \in Posters, NEW c \in Contents, UpdateConfig(p, c)
  PROVE  DiskInv'
  <1>1. /\ current' = Len(sent') /\ lock' = p /\ lock = "free" /\ server = "up"
        /\ mine' = [mine EXCEPT ![p] = Len(sent')] /\ post' = [post EXCEPT ![p] = "write"]
        /\ UNCHANGED <<server, acked, file>>
    BY DEF UpdateConfig, PostGoto, BeginWrite
  <1>2. Len(sent') = Len(sent) + 1 /\ Versions \subseteq Versions'
    BY SentGrows DEF TypeOK, UpdateConfig
  <1>3. /\ \A q \in Posters : q # p => post'[q] = post[q] /\ mine'[q] = mine[q]
        /\ post'[p] = "write" /\ mine'[p] = Len(sent')
    BY <1>1, DiskTypes
  <1>4. \A q \in Posters : q # p => ~Saving(q)'
    BY <1>1, <1>3, PostersAssumption DEF DiskInv, SavesCurrent, Saving
  <1>5. file # Len(sent')
    <2>1. Len(sent') \in Nat /\ Len(sent') \notin Versions
      BY <1>2, DiskTypes
    <2> QED BY <2>1, DiskTypes, FilesAssumption
  <1>6. SavesCurrent'
    BY <1>1, <1>3, <1>4, <1>5 DEF DiskInv, SavesCurrent, Saving
  <1>7. SavedIsKept'
    BY <1>1, <1>2, <1>3 DEF DiskInv, SavedIsKept, Saved
  <1> QED BY <1>1, <1>2, <1>6, <1>7 DEF DiskInv, BootSavesFile, FileIsWhole, AckedIsDurable

\* A POST that goes on.
LEMMA DiskOfPost ==
  ASSUME TypeOK, DiskInv, NEW p \in Posters, StorePost(p) \/ Reload(p)
  PROVE  DiskInv'
  <1>1. UNCHANGED <<sent, current, server, mine>> /\ server = "up" /\ Versions' = Versions
    BY DEF StorePost, PostWrites, PostRenames, PostFails, PostAnswers, Reload, PostReloads,
       LockRouter, SwapDialers, SwapRules, PostGoto, storeRest, Versions
  <1>2. \A q \in Posters : q # p => post'[q] = post[q]
    BY DiskTypes DEF StorePost, PostWrites, PostRenames, PostFails, PostAnswers, Reload, PostReloads,
       LockRouter, SwapDialers, SwapRules, PostGoto
  <1>3. \A q \in Posters : Saving(p) /\ q # p => ~Saving(q)
    BY DEF DiskInv, SavesCurrent
  <1>4. BootSavesFile'
    BY <1>1 DEF BootSavesFile
  <1>5. CASE PostWrites(p)
    <2>1. /\ post[p] = "write" /\ post'[p] = "rename" /\ tmp' = current
          /\ UNCHANGED <<file, lock, acked>>
      BY <1>5, DiskTypes DEF PostWrites, PostGoto, FinishWrite
    <2>2. SavesCurrent'
      BY <1>1, <1>2, <1>3, <2>1 DEF DiskInv, SavesCurrent, Saving
    <2>3. SavedIsKept'
      BY <1>1, <1>2, <2>1 DEF DiskInv, SavedIsKept, Saved
    <2> QED BY <1>1, <1>4, <2>1, <2>2, <2>3 DEF DiskInv, FileIsWhole, AckedIsDurable
  <1>6. CASE PostRenames(p)
    <2>1. /\ post[p] = "rename" /\ post'[p] = "saved" /\ file' = tmp /\ UNCHANGED acked
      BY <1>6, DiskTypes DEF PostRenames, PostGoto, Rename
    <2>2. tmp = current /\ current = Len(sent)
      BY <2>1 DEF DiskInv, SavesCurrent, Saving
    <2>3. \A q \in Posters : ~Saving(q)'
      BY <1>2, <1>3, <2>1 DEF Saving
    <2>4. SavesCurrent'
      BY <1>1, <2>3 DEF SavesCurrent, DiskInv, Saving
    <2>5. SavedIsKept' /\ AckedIsDurable'
      BY <1>1, <2>1, <2>2, DiskTypes DEF SavedIsKept, AckedIsDurable
    <2>6. FileIsWhole'
      BY <2>1, <2>2, DiskTypes DEF FileIsWhole
    <2> QED BY <1>4, <2>4, <2>5, <2>6 DEF DiskInv
  <1>7. CASE PostFails(p)
    <2>1. /\ Saving(p) /\ post'[p] = "idle" /\ UNCHANGED <<file, tmp, acked>>
      BY <1>7, DiskTypes DEF PostFails, PostGoto, Saving
    <2>2. \A q \in Posters : ~Saving(q)'
      BY <1>2, <1>3, <2>1 DEF Saving
    <2>3. SavesCurrent'
      BY <1>1, <2>2 DEF SavesCurrent, DiskInv, Saving
    <2>4. SavedIsKept'
      BY <1>1, <1>2, <2>1 DEF DiskInv, SavedIsKept, Saved
    <2> QED BY <1>1, <1>4, <2>1, <2>3, <2>4 DEF DiskInv, FileIsWhole, AckedIsDurable
  <1>8. CASE PostAnswers(p)
    <2>1. /\ post[p] = "answer" /\ post'[p] = "idle" /\ UNCHANGED <<file, tmp, lock>>
          /\ acked' = IF mine[p] > acked THEN mine[p] ELSE acked
      BY <1>8, DiskTypes DEF PostAnswers, PostGoto
    <2>2. SavesCurrent'
      BY <1>1, <1>2, <2>1 DEF DiskInv, SavesCurrent, Saving
    <2>3. SavedIsKept'
      BY <1>1, <1>2, <2>1 DEF DiskInv, SavedIsKept, Saved
    <2>4. file \in Versions /\ file >= mine[p]
      BY <2>1 DEF DiskInv, SavedIsKept, Saved
    <2>5. AckedIsDurable'
      BY <1>1, <2>1, <2>4 DEF DiskInv, AckedIsDurable
    <2> QED BY <1>4, <2>1, <2>2, <2>3, <2>5 DEF DiskInv, FileIsWhole
  <1>9. CASE Reload(p)
    <2>1. Saved(p) /\ Saved(p)' /\ UNCHANGED <<file, tmp, lock, acked>>
      BY <1>9, DiskTypes DEF Reload, PostReloads, LockRouter, SwapDialers, SwapRules, PostGoto,
         storeRest, Saved
    <2>2. ~Saving(p)' /\ post'[p] # "rename"
      BY <2>1 DEF Saved, Saving
    <2>3. SavesCurrent'
      BY <1>1, <1>2, <2>1, <2>2 DEF DiskInv, SavesCurrent, Saving
    <2>4. SavedIsKept'
      BY <1>1, <1>2, <2>1 DEF DiskInv, SavedIsKept, Saved
    <2> QED BY <1>1, <1>4, <2>1, <2>3, <2>4 DEF DiskInv, FileIsWhole, AckedIsDurable
  <1> QED BY <1>5, <1>6, <1>7, <1>8, <1>9 DEF StorePost

\* The start of the process.
LEMMA DiskOfBoot ==
  ASSUME TypeOK, DiskInv, StoreBoot \/ Open
  PROVE  DiskInv'
  <1>1. /\ server # "up" /\ server' # "down" /\ UNCHANGED <<sent, post, mine, acked>>
        /\ Versions' = Versions
    BY DEF StoreBoot, Start, Load, LoadFails, BootWrites, BootRenames, BootSaveFails, Open,
       ServerGoto, Versions
  <1>2. \A p \in Posters : post[p] = "idle"
    BY <1>1 DEF DiskInv, SavesCurrent
  <1>3. SavesCurrent' /\ SavedIsKept'
    BY <1>1, <1>2 DEF SavesCurrent, SavedIsKept, Saving, Saved
  <1>4. CASE Start
    BY <1>1, <1>3, <1>4 DEF Start, ServerGoto, DiskInv, BootSavesFile, FileIsWhole, AckedIsDurable
  <1>5. CASE Load
    BY <1>1, <1>3, <1>5 DEF Load, ServerGoto, BeginWrite, DiskInv, BootSavesFile, FileIsWhole,
       AckedIsDurable
  <1>6. CASE LoadFails \/ BootSaveFails \/ Open
    BY <1>1, <1>3, <1>6 DEF LoadFails, BootSaveFails, Open, ServerGoto, DiskInv, BootSavesFile,
       FileIsWhole, AckedIsDurable
  <1>7. CASE BootWrites
    BY <1>1, <1>3, <1>7 DEF BootWrites, FinishWrite, ServerGoto, DiskInv, BootSavesFile, FileIsWhole,
       AckedIsDurable
  <1>8. CASE BootRenames
    <2>1. /\ file' = tmp /\ tmp = current /\ server' = "route"
          /\ current = IF file = Absent THEN 0 ELSE file
      BY <1>8 DEF BootRenames, Rename, ServerGoto, DiskInv, BootSavesFile
    <2>2. file' \in Versions
      BY <2>1, DiskTypes
    <2>3. acked # 0 => file \in Versions /\ file >= acked
      BY DEF DiskInv, AckedIsDurable
    <2>4. AckedIsDurable'
      BY <1>1, <2>1, <2>2, <2>3, DiskTypes DEF AckedIsDurable
    <2> QED BY <1>3, <2>1, <2>2, <2>4, DiskTypes DEF DiskInv, BootSavesFile, FileIsWhole
  <1> QED BY <1>4, <1>5, <1>6, <1>7, <1>8 DEF StoreBoot

LEMMA DiskStep ==
  ASSUME TypeOK, DiskInv, [Next]_vars
  PROVE  DiskInv'
  <1>1. ASSUME UNCHANGED storeVars PROVE DiskInv'
    BY <1>1 DEF storeVars, DiskInv, SavesCurrent, BootSavesFile, SavedIsKept, FileIsWhole,
       AckedIsDurable, Saving, Saved, Versions
  <1>2. CASE UNCHANGED vars
    BY <1>1, <1>2 DEF vars
  <1>3. ASSUME NEW p \in Posters, NEW c \in Contents, UpdateConfig(p, c) PROVE DiskInv'
    BY <1>3, DiskOfUpdate
  <1>4. ASSUME NEW p \in Posters, Poster(p) PROVE DiskInv'
    BY <1>4, DiskOfPost DEF Poster
  <1>5. CASE Boot
    BY <1>5, DiskOfBoot DEF Boot
  <1>6. CASE Crash
    <2>1. /\ server' = "down" /\ post' = [p \in Posters |-> "idle"]
          /\ UNCHANGED <<sent, current, file, tmp, mine, acked>>
      BY <1>6 DEF Crash, StoreCrash
    <2> QED BY <2>1 DEF DiskInv, SavesCurrent, BootSavesFile, SavedIsKept, FileIsWhole,
       AckedIsDurable, Saving, Saved, Versions
  <1>7. ASSUME NEW r \in Reqs, Request(r) \/ Finish(r) PROVE DiskInv'
    <2>1. UNCHANGED storeVars
      BY <1>7 DEF Request, Finish, ReadRouteEnable, CopyRules, CopyDialers, Match, Dial
    <2> QED BY <1>1, <2>1
  <1> QED BY <1>2, <1>3, <1>4, <1>5, <1>6, <1>7 DEF Next

LEMMA DiskCorrect == Spec => []DiskInv
  BY TypeInit, TypeStep, DiskInit, DiskStep, PTL DEF Spec

\* config.json is a whole configuration whenever the process is killed, however
\* often, and whatever saves fail.
THEOREM FileStaysWhole == Spec => []FileIsWhole
  <1>1. DiskInv => FileIsWhole
    BY DEF DiskInv
  <1> QED BY <1>1, DiskCorrect, PTL

\* A configuration that was acknowledged, or a newer one, is on the disk for
\* ever after.
THEOREM AckedStaysDurable == Spec => []AckedIsDurable
  <1>1. DiskInv => AckedIsDurable
    BY DEF DiskInv
  <1> QED BY <1>1, DiskCorrect, PTL

\* What is on the disk stays until something newer replaces it.
NewerOnDisk == file' = file \/ file = Absent \/ (file' \in Versions' /\ file' > file)

\* config.json never goes back to an older configuration, acknowledged or not:
\* neither a failed save, nor POSTs that overlap, nor a start after a kill at any
\* point brings one back (config.go:164-219).
THEOREM DiskNeverGoesBack == Spec => [][NewerOnDisk]_vars
  <1>1. ASSUME TypeOK, DiskInv, [Next]_vars PROVE NewerOnDisk
    <2>1. ASSUME file' = current, current \in Versions, UNCHANGED sent,
                 file # Absent => file = current \/ (file # current /\ current = Len(sent))
          PROVE  NewerOnDisk
      <3>1. SUFFICES ASSUME file # Absent, file # current PROVE file' \in Versions' /\ file' > file
        BY <2>1 DEF NewerOnDisk
      <3>2. file \in 0 .. Len(sent) /\ current = Len(sent) /\ Len(sent) \in Nat
        BY <1>1, <2>1, <3>1, DiskTypes DEF DiskInv, FileIsWhole
      <3>3. Versions' = Versions
        BY <2>1 DEF Versions
      <3> QED BY <2>1, <3>1, <3>2, <3>3
    <2>2. ASSUME NEW p \in Posters, PostRenames(p) PROVE NewerOnDisk
      <3>1. file' = tmp /\ post[p] = "rename" /\ UNCHANGED sent
        BY <2>2 DEF PostRenames, Rename, PostGoto
      <3>2. tmp = current /\ current = Len(sent) /\ file # current
        BY <1>1, <3>1 DEF DiskInv, SavesCurrent, Saving
      <3> QED BY <1>1, <2>1, <3>1, <3>2, DiskTypes
    <2>3. CASE BootRenames
      <3>1. file' = tmp /\ server = "rename" /\ UNCHANGED sent
        BY <2>3 DEF BootRenames, Rename, ServerGoto
      <3>2. tmp = current /\ current = IF file = Absent THEN 0 ELSE file
        BY <1>1, <3>1 DEF DiskInv, BootSavesFile
      <3> QED BY <1>1, <2>1, <3>1, <3>2, DiskTypes
    <2>4. CASE UNCHANGED file
      BY <2>4 DEF NewerOnDisk
    <2>5. CASE UNCHANGED vars
      BY <2>4, <2>5 DEF vars, storeVars
    <2>6. ASSUME NEW p \in Posters, NEW c \in Contents, UpdateConfig(p, c) PROVE NewerOnDisk
      BY <2>4, <2>6 DEF UpdateConfig, BeginWrite
    <2>7. ASSUME NEW p \in Posters, Poster(p), ~PostRenames(p) PROVE NewerOnDisk
      <3>1. UNCHANGED file
        BY <2>7 DEF Poster, StorePost, PostWrites, FinishWrite, PostFails, PostAnswers, Reload,
           PostReloads, LockRouter, SwapDialers, SwapRules, storeRest
      <3> QED BY <2>4, <3>1
    <2>8. CASE Boot /\ ~BootRenames
      <3>1. UNCHANGED file
        BY <2>8 DEF Boot, StoreBoot, Start, Load, LoadFails, BootWrites, BeginWrite, FinishWrite,
           BootSaveFails, Open
      <3> QED BY <2>4, <3>1
    <2>9. CASE Crash
      BY <2>4, <2>9 DEF Crash, StoreCrash
    <2>10. ASSUME NEW r \in Reqs, Request(r) \/ Finish(r) PROVE NewerOnDisk
      <3>1. UNCHANGED storeVars
        BY <2>10 DEF Request, Finish, ReadRouteEnable, CopyRules, CopyDialers, Match, Dial
      <3> QED BY <2>4, <3>1 DEF storeVars
    <2> QED BY <1>1, <2>2, <2>3, <2>5, <2>6, <2>7, <2>8, <2>9, <2>10 DEF Next
  <1> QED BY <1>1, TypeInit, TypeStep, DiskInit, DiskStep, PTL DEF Spec

-----------------------------------------------------------------------------
(* The router's lock, and what a request sees of the tables. *)

\* One writer at a time replaces the tables; while there is none, rules and
\* dialers are of one configuration.
OneSwaps ==
  /\ \A p, q \in Posters : post[p] = "swapping" /\ post[q] = "swapping" => p = q
  /\ \A p \in Posters : post[p] = "swapping" => router.dialers = mine[p]
  /\ (\A p \in Posters : post[p] # "swapping") => router.rules = router.dialers

\* No writer works while a request copies, so what it has copied goes together.
ReadersApart ==
  \A r \in Reqs :
    /\ phase[r] # "new" => server = "up"
    /\ phase[r] = "new" => target[r] = "Direct"
    /\ phase[r] = "copy" =>
         snap[r].rules = router.rules /\ \A p \in Posters : post[p] # "swapping"
    /\ phase[r] = "walk" => snap[r].rules = snap[r].dialers

LockInv == OneSwaps /\ ReadersApart

LEMMA LockInit == Init => LockInv
  BY DEF Init, StoreInit, NoTable, LockInv, OneSwaps, ReadersApart

LEMMA LockTypes ==
  ASSUME TypeOK
  PROVE  /\ DOMAIN post = Posters /\ mine \in [Posters -> Versions] /\ router \in Tables
         /\ DOMAIN phase = Reqs /\ DOMAIN target = Reqs /\ DOMAIN wanted = Reqs
         /\ snap \in [Reqs -> Tables]
  BY DEF TypeOK, StoreTypeOK

\* A step of a POST that leaves the tables alone.
LEMMA LockOfOthers ==
  ASSUME TypeOK, LockInv, NEW p \in Posters, UNCHANGED <<server, router, reqVars>>,
         \A q \in Posters : q # p => post'[q] = post[q] /\ mine'[q] = mine[q],
         post[p] # "swapping", post'[p] # "swapping"
  PROVE  LockInv'
  BY DEF LockInv, OneSwaps, ReadersApart, reqVars

LEMMA LockOfPost ==
  ASSUME TypeOK, LockInv, NEW p \in Posters, Poster(p)
  PROVE  LockInv'
  <1>1. /\ UNCHANGED <<server, mine, reqVars>> /\ server = "up"
        /\ \A q \in Posters : q # p => post'[q] = post[q]
    BY LockTypes DEF Poster, Reload, PostReloads, LockRouter, SwapDialers, SwapRules, StorePost,
       PostWrites, PostRenames, PostFails, PostAnswers, PostGoto, storeRest
  <1>2. CASE ~ (SwapDialers(p) \/ SwapRules(p))
    <2>1. /\ UNCHANGED router /\ post[p] # "swapping" /\ post'[p] # "swapping"
      BY <1>2, LockTypes DEF Poster, Reload, PostReloads, LockRouter, StorePost,
         PostWrites, PostRenames, PostFails, PostAnswers, PostGoto
    <2> QED BY <1>1, <2>1, LockOfOthers
  <1>3. CASE SwapDialers(p)
    <2>1. /\ \A q \in Posters : post[q] # "swapping"
          /\ \A r \in Reqs : phase[r] # "copy"
          /\ post'[p] = "swapping" /\ router' = [router EXCEPT !.dialers = mine[p]]
      BY <1>3, LockTypes DEF SwapDialers, PostGoto
    <2>2. router'.dialers = mine[p]
      BY <2>1, LockTypes DEF Tables
    <2>3. OneSwaps'
      BY <1>1, <2>1, <2>2 DEF OneSwaps
    <2>4. ReadersApart'
      BY <1>1, <2>1 DEF LockInv, ReadersApart, reqVars
    <2> QED BY <2>3, <2>4 DEF LockInv
  <1>4. CASE SwapRules(p)
    <2>1. /\ post[p] = "swapping" /\ post'[p] = "answer"
          /\ router' = [router EXCEPT !.rules = mine[p]]
      BY <1>4, LockTypes DEF SwapRules, PostGoto
    <2>2. router'.rules = mine[p] /\ router'.dialers = router.dialers
      BY <2>1, LockTypes DEF Tables
    <2>3. \A q \in Posters : post'[q] # "swapping"
      BY <1>1, <2>1 DEF LockInv, OneSwaps
    <2>4. OneSwaps'
      BY <2>1, <2>2, <2>3 DEF LockInv, OneSwaps
    <2>5. \A r \in Reqs : phase[r] # "copy"
      BY <2>1 DEF LockInv, ReadersApart
    <2>6. ReadersApart'
      BY <1>1, <2>5 DEF LockInv, ReadersApart, reqVars
    <2> QED BY <2>4, <2>6 DEF LockInv
  <1> QED BY <1>2, <1>3, <1>4

LEMMA LockOfRequest ==
  ASSUME TypeOK, LockInv, NEW r \in Reqs, Request(r) \/ Finish(r)
  PROVE  LockInv'
  <1>1. UNCHANGED <<server, post, mine, router>> /\ server = "up"
    BY DEF Request, Finish, ReadRouteEnable, CopyRules, CopyDialers, Match, Dial, Goto,
       CanGetConfig, storeVars
  <1>2. OneSwaps'
    BY <1>1 DEF LockInv, OneSwaps
  <1> SUFFICES ReadersApart'
    BY <1>2 DEF LockInv
  <1>3. \A s \in Reqs : s # r => phase'[s] = phase[s] /\ snap'[s] = snap[s] /\ target'[s] = target[s]
    BY LockTypes DEF Request, Finish, ReadRouteEnable, CopyRules, CopyDialers, Match, Dial, Goto
  <1>4. ASSUME \/ phase'[r] = "new" /\ target'[r] = "Direct"
               \/ phase'[r] \in {"match", "dial", "connected", "refused"}
               \/ /\ phase'[r] = "copy" /\ snap'[r].rules = router.rules
                  /\ \A p \in Posters : post[p] # "swapping"
               \/ phase'[r] = "walk" /\ snap'[r].rules = snap'[r].dialers
        PROVE  ReadersApart'
    <2> SUFFICES ASSUME NEW s \in Reqs
                 PROVE  (/\ phase[s] # "new" => server = "up"
                         /\ phase[s] = "new" => target[s] = "Direct"
                         /\ phase[s] = "copy" =>
                              snap[s].rules = router.rules /\ \A p \in Posters : post[p] # "swapping"
                         /\ phase[s] = "walk" => snap[s].rules = snap[s].dialers)'
      BY DEF ReadersApart
    <2>1. CASE s = r
      BY <1>1, <1>4, <2>1
    <2>2. CASE s # r
      BY <1>1, <1>3, <2>2 DEF LockInv, ReadersApart
    <2> QED BY <2>1, <2>2
  <1>5. CASE ReadRouteEnable(r) \/ Match(r) \/ Dial(r)
    BY <1>4, <1>5, LockTypes DEF ReadRouteEnable, Match, Dial, Goto
  <1>6. CASE CopyRules(r)
    BY <1>4, <1>6, LockTypes DEF CopyRules, Goto, Tables
  <1>7. CASE CopyDialers(r)
    <2>1. snap[r].rules = router.rules /\ router.rules = router.dialers
      BY <1>7 DEF CopyDialers, Goto, LockInv, OneSwaps, ReadersApart
    <2>2. snap'[r].rules = snap'[r].dialers
      BY <1>7, <2>1, LockTypes DEF CopyDialers, Tables
    <2> QED BY <1>4, <1>7, <2>2, LockTypes DEF CopyDialers, Goto
  <1>8. CASE Finish(r)
    BY <1>4, <1>8, LockTypes DEF Finish, Goto
  <1> QED BY <1>5, <1>6, <1>7, <1>8 DEF Request

LEMMA LockStep ==
  ASSUME TypeOK, DiskInv, LockInv, [Next]_vars
  PROVE  LockInv'
  <1>1. CASE UNCHANGED vars
    BY <1>1 DEF vars, storeVars, reqVars, LockInv, OneSwaps, ReadersApart
  <1>2. ASSUME NEW p \in Posters, NEW c \in Contents, UpdateConfig(p, c),
               UNCHANGED <<listening, router, reqVars>>
        PROVE  LockInv'
    <2>1. /\ UNCHANGED server /\ post[p] = "idle" /\ post'[p] = "write"
          /\ \A q \in Posters : q # p => post'[q] = post[q] /\ mine'[q] = mine[q]
      BY <1>2, LockTypes DEF UpdateConfig, PostGoto
    <2>2. post[p] # "swapping" /\ post'[p] # "swapping"
      BY <2>1
    <2> QED BY <1>2, <2>1, <2>2, LockOfOthers
  <1>3. ASSUME NEW p \in Posters, Poster(p) PROVE LockInv'
    BY <1>3, LockOfPost
  <1>4. CASE StoreBoot /\ UNCHANGED <<listening, router, reqVars>>
    <2>1. server # "up" /\ UNCHANGED <<post, mine>>
      BY <1>4 DEF StoreBoot, Start, Load, LoadFails, BootWrites, BootRenames, BootSaveFails,
         ServerGoto
    <2>2. OneSwaps'
      BY <1>4, <2>1 DEF LockInv, OneSwaps
    <2>3. \A r \in Reqs : phase[r] = "new"
      BY <2>1 DEF LockInv, ReadersApart
    <2>4. ReadersApart'
      BY <1>4, <2>3 DEF LockInv, ReadersApart, reqVars
    <2> QED BY <2>2, <2>4 DEF LockInv
  <1>5. CASE Open
    <2>1. /\ server # "up" /\ server' = "up" /\ UNCHANGED <<post, mine, reqVars>>
          /\ router'.rules = router'.dialers
      BY <1>5 DEF Open, ServerGoto, NoTable
    <2>2. \A p \in Posters : post'[p] = "idle"
      BY <2>1 DEF DiskInv, SavesCurrent
    <2>3. OneSwaps'
      BY <2>1, <2>2 DEF OneSwaps
    <2>4. \A r \in Reqs : phase[r] = "new"
      BY <2>1 DEF LockInv, ReadersApart
    <2>5. ReadersApart'
      BY <2>1, <2>4 DEF LockInv, ReadersApart, reqVars
    <2> QED BY <2>3, <2>5 DEF LockInv
  <1>6. CASE Crash
    <2>1. /\ \A p \in Posters : post'[p] = "idle"
          /\ \A r \in Reqs : phase'[r] = "new" /\ target'[r] = "Direct"
          /\ router'.rules = router'.dialers
      BY <1>6 DEF Crash, StoreCrash, NoTable
    <2>2. OneSwaps'
      BY <2>1 DEF OneSwaps
    <2>3. ReadersApart'
      BY <2>1 DEF ReadersApart
    <2> QED BY <2>2, <2>3 DEF LockInv
  <1>7. ASSUME NEW r \in Reqs, Request(r) \/ Finish(r) PROVE LockInv'
    BY <1>7, LockOfRequest
  <1> QED BY <1>1, <1>2, <1>3, <1>4, <1>5, <1>6, <1>7 DEF Next, Boot

LEMMA LockCorrect == Spec => []LockInv
  BY TypeInit, TypeStep, DiskInit, DiskStep, LockInit, LockStep, PTL DEF Spec

\* ConfigManager.mu, too, is held by whoever needs it, and by nobody else.
MutexInv ==
  /\ \A p \in Posters : lock = p <=> Saving(p)
  /\ lock = "boot" <=> server \in {"load", "write", "rename"}

LEMMA MutexInit == Init => MutexInv
  BY PostersAssumption DEF Init, StoreInit, MutexInv, Saving

LEMMA MutexStep ==
  ASSUME TypeOK, DiskInv, MutexInv, [Next]_vars
  PROVE  MutexInv'
  <1>1. ASSUME UNCHANGED <<lock, server, post>> PROVE MutexInv'
    BY <1>1 DEF MutexInv, Saving
  <1>2. CASE UNCHANGED vars
    BY <1>1, <1>2 DEF vars, storeVars
  <1>3. ASSUME NEW p \in Posters, NEW c \in Contents, UpdateConfig(p, c) PROVE MutexInv'
    <2>1. /\ lock = "free" /\ lock' = p /\ UNCHANGED server /\ post'[p] = "write"
          /\ \A q \in Posters : q # p => post'[q] = post[q]
      BY <1>3, DiskTypes DEF UpdateConfig, PostGoto
    <2> QED BY <2>1, PostersAssumption DEF MutexInv, Saving
  <1>4. ASSUME NEW p \in Posters, Poster(p) PROVE MutexInv'
    <2>1. UNCHANGED server /\ \A q \in Posters : q # p => post'[q] = post[q]
      BY <1>4, DiskTypes DEF Poster, StorePost, PostWrites, PostRenames, PostFails, PostAnswers,
         Reload, PostReloads, LockRouter, SwapDialers, SwapRules, PostGoto, storeRest
    <2>2. CASE PostWrites(p)
      BY <2>1, <2>2, DiskTypes DEF PostWrites, PostGoto, MutexInv, Saving
    <2>3. CASE PostRenames(p) \/ PostFails(p)
      <3>1. lock = p /\ lock' = "free" /\ post'[p] \notin {"write", "rename"}
        BY <2>3, DiskTypes DEF PostRenames, PostFails, PostGoto, MutexInv, Saving
      <3> QED BY <2>1, <3>1, PostersAssumption DEF MutexInv, Saving
    <2>4. CASE PostAnswers(p) \/ Reload(p)
      <3>1. UNCHANGED lock /\ ~Saving(p) /\ ~Saving(p)'
        BY <2>4, DiskTypes DEF PostAnswers, Reload, PostReloads, LockRouter, SwapDialers, SwapRules,
           PostGoto, storeRest, Saving
      <3> QED BY <2>1, <3>1 DEF MutexInv, Saving
    <2> QED BY <1>4, <2>2, <2>3, <2>4 DEF Poster, StorePost
  <1>5. CASE Boot
    <2>1. server # "up" /\ UNCHANGED post
      BY <1>5 DEF Boot, StoreBoot, Start, Load, LoadFails, BootWrites, BootRenames, BootSaveFails,
         Open, ServerGoto
    <2>2. \A p \in Posters : ~Saving(p) /\ lock # p
      BY <2>1 DEF DiskInv, SavesCurrent, MutexInv, Saving
    <2>3. \/ lock' = "boot" /\ server' \in {"load", "write", "rename"}
          \/ lock' = "free" /\ server' \in {"route", "up"}
      <3>1. lock \in {"free", "boot"}
        BY <2>2 DEF TypeOK, StoreTypeOK
      <3> QED BY <1>5, <3>1 DEF Boot, StoreBoot, Start, Load, LoadFails, BootWrites, BootRenames,
         BootSaveFails, Open, ServerGoto, MutexInv
    <2> QED BY <2>1, <2>2, <2>3, PostersAssumption DEF MutexInv, Saving
  <1>6. CASE Crash
    BY <1>6, PostersAssumption DEF Crash, StoreCrash, MutexInv, Saving
  <1>7. ASSUME NEW r \in Reqs, Request(r) \/ Finish(r) PROVE MutexInv'
    <2>1. UNCHANGED storeVars
      BY <1>7 DEF Request, Finish, ReadRouteEnable, CopyRules, CopyDialers, Match, Dial
    <2> QED BY <1>1, <2>1 DEF storeVars
  <1> QED BY <1>2, <1>3, <1>4, <1>5, <1>6, <1>7 DEF Next

\* Either lock is held by whoever is at a step that needs it and by nobody else,
\* through failed saves, kills and starts, for any number of POSTs and requests
\* (config.go:164-226, router.go:184-188, 266-271).
THEOREM LocksInTurn == Spec => []LocksAreHeldInTurn
  <1>1. Spec => []MutexInv
    BY TypeInit, TypeStep, DiskInit, DiskStep, MutexInit, MutexStep, PTL DEF Spec
  <1>2. MutexInv /\ LockInv => LocksAreHeldInTurn
    BY DEF MutexInv, LockInv, OneSwaps, ReadersApart, LocksAreHeldInTurn, Saving
  <1> QED BY <1>1, <1>2, LockCorrect, PTL

\* The rules and the dialers that a request copied are of one configuration,
\* and a rule is installed only with its dialer: the fallback of MatchRoute for
\* a target without a dialer is dead code.
THEOREM RulesHaveDialers == Spec => []TargetHasDialer
  <1>1. LockInv => TargetHasDialer
    BY DEF LockInv, ReadersApart, TargetHasDialer, Hits, Rules, Usable
  <1> QED BY <1>1, LockCorrect, PTL

-----------------------------------------------------------------------------
(* The router follows the configuration. *)

\* While the POSTs do not overlap there is one at most, what it brought is
\* Current, and the tables are its own before it answers.
PostAlone ==
  alone => \A p \in Posters : post[p] # "idle" =>
    /\ mine[p] = current
    /\ \A q \in Posters : post[q] # "idle" => p = q
    /\ post[p] = "answer" /\ Content(current).on =>
         router = [rules |-> current, dialers |-> current]

FollowInv == PostAlone /\ RouterFollowsConfig

LEMMA FollowInit == Init => FollowInv
  BY DEF Init, StoreInit, FollowInv, PostAlone, RouterFollowsConfig, Quiet

LEMMA FollowOfPost ==
  ASSUME TypeOK, DiskInv, LockInv, FollowInv, NEW p \in Posters, Poster(p)
  PROVE  FollowInv'
  <1>1. /\ UNCHANGED <<sent, current, server, mine, alone>>
        /\ \A q \in Posters : q # p => post'[q] = post[q]
        /\ post[p] # "idle"
    BY LockTypes DEF Poster, Reload, PostReloads, LockRouter, SwapDialers, SwapRules, StorePost,
       PostWrites, PostRenames, PostFails, PostAnswers, PostGoto, storeRest
  <1>2. SUFFICES ASSUME alone PROVE FollowInv'
    BY <1>1 DEF FollowInv, PostAlone, RouterFollowsConfig
  <1>3. mine[p] = current /\ \A q \in Posters : q # p => post[q] = "idle" /\ post'[q] = "idle"
    BY <1>1, <1>2 DEF FollowInv, PostAlone
  <1>4. Content(current)' = Content(current)
    BY <1>1 DEF Content
  <1>5. ASSUME post'[p] # "idle",
               post'[p] = "answer" /\ Content(current).on =>
                 router' = [rules |-> current, dialers |-> current]
        PROVE  FollowInv'
    BY <1>1, <1>3, <1>4, <1>5 DEF FollowInv, PostAlone, RouterFollowsConfig, Quiet
  <1>6. CASE Reload(p) /\ ~SwapRules(p)
    BY <1>3, <1>5, <1>6, LockTypes DEF Reload, PostReloads, LockRouter, SwapDialers, PostGoto
  <1>7. CASE SwapRules(p)
    <2>1. post'[p] = "answer" /\ router' = [router EXCEPT !.rules = current]
      BY <1>3, <1>7, LockTypes DEF SwapRules, PostGoto
    <2>2. router.dialers = current
      BY <1>3, <1>7 DEF SwapRules, PostGoto, LockInv, OneSwaps
    <2>3. router' = [rules |-> current, dialers |-> current]
      BY <2>1, <2>2, LockTypes DEF Tables
    <2> QED BY <1>5, <2>1, <2>3
  <1>8. CASE (PostWrites(p) \/ PostRenames(p)) /\ UNCHANGED <<listening, router, reqVars>>
    BY <1>5, <1>8, LockTypes DEF PostWrites, PostRenames, PostGoto
  <1>9. CASE (PostFails(p) \/ PostAnswers(p)) /\ UNCHANGED <<listening, router, reqVars>>
    <2>1. post'[p] = "idle" /\ UNCHANGED <<file, router>>
      BY <1>9, LockTypes DEF PostFails, PostAnswers, PostGoto
    <2>2. PostAlone'
      BY <1>3, <2>1 DEF PostAlone
    <2>3. CASE PostFails(p)
      <3>1. file # current
        BY <2>3 DEF PostFails, PostGoto, DiskInv, SavesCurrent, Saving
      <3> QED BY <1>1, <2>1, <2>2, <3>1 DEF FollowInv, RouterFollowsConfig
    <2>4. CASE PostAnswers(p)
      <3>1. Content(current).on => router = [rules |-> current, dialers |-> current]
        BY <1>2, <2>4 DEF PostAnswers, PostGoto, FollowInv, PostAlone
      <3> QED BY <1>1, <1>4, <2>1, <2>2, <3>1 DEF FollowInv, RouterFollowsConfig
    <2> QED BY <1>9, <2>3, <2>4
  <1> QED BY <1>6, <1>7, <1>8, <1>9 DEF Poster, StorePost

LEMMA FollowStep ==
  ASSUME TypeOK, DiskInv, LockInv, FollowInv, [Next]_vars
  PROVE  FollowInv'
  <1>1. ASSUME UNCHANGED <<storeVars, router>> PROVE FollowInv'
    BY <1>1 DEF storeVars, FollowInv, PostAlone, RouterFollowsConfig, Quiet, Content
  <1>2. CASE UNCHANGED vars
    BY <1>1, <1>2 DEF vars
  <1>3. ASSUME NEW p \in Posters, NEW c \in Contents, UpdateConfig(p, c), UNCHANGED router
        PROVE  FollowInv'
    <2>1. /\ post' = [post EXCEPT ![p] = "write"]
          /\ current' = Len(sent') /\ mine' = [mine EXCEPT ![p] = Len(sent')]
          /\ alone' => \A q \in Posters \ {p} : post[q] = "idle"
      BY <1>3 DEF UpdateConfig, PostGoto
    <2>2. /\ post'[p] = "write" /\ mine'[p] = current'
          /\ alone' => \A q \in Posters : q # p => post'[q] = "idle"
      BY <2>1, LockTypes
    <2> QED BY <2>2 DEF FollowInv, PostAlone, RouterFollowsConfig, Quiet
  <1>4. ASSUME NEW p \in Posters, Poster(p) PROVE FollowInv'
    BY <1>4, FollowOfPost
  <1>5. CASE StoreBoot \/ Open
    <2>1. /\ server # "up" /\ UNCHANGED <<sent, post>>
      BY <1>5 DEF StoreBoot, Start, Load, LoadFails, BootWrites, BootRenames, BootSaveFails, Open,
         ServerGoto
    <2>2. \A p \in Posters : post'[p] = "idle"
      BY <2>1 DEF DiskInv, SavesCurrent
    <2>3. PostAlone'
      BY <2>2 DEF PostAlone
    <2>4. CASE StoreBoot
      <3>1. server' # "up"
        BY <2>4 DEF StoreBoot, Start, Load, LoadFails, BootWrites, BootRenames, BootSaveFails,
           ServerGoto
      <3> QED BY <2>3, <3>1 DEF FollowInv, RouterFollowsConfig, Quiet
    <2>5. CASE Open
      <3>1. /\ current' = current /\ Content(current)' = Content(current)
            /\ Content(current).on => router' = [rules |-> current, dialers |-> current]
        BY <2>5 DEF Open, Content
      <3> QED BY <2>3, <3>1 DEF FollowInv, RouterFollowsConfig
    <2> QED BY <1>5, <2>4, <2>5
  <1>6. CASE Crash
    <2>1. server' = "down" /\ \A p \in Posters : post'[p] = "idle"
      BY <1>6 DEF Crash, StoreCrash
    <2> QED BY <2>1 DEF FollowInv, PostAlone, RouterFollowsConfig, Quiet
  <1>7. ASSUME NEW r \in Reqs, Request(r) \/ Finish(r) PROVE FollowInv'
    <2>1. UNCHANGED <<storeVars, router>>
      BY <1>7 DEF Request, Finish, ReadRouteEnable, CopyRules, CopyDialers, Match, Dial
    <2> QED BY <1>1, <2>1
  <1> QED BY <1>2, <1>3, <1>4, <1>5, <1>6, <1>7 DEF Next, Boot

\* When nobody posts and the last save went through, requests are routed by the
\* configuration on the disk, unless the last POST overlapped another one.
THEOREM RoutesFollowConfig == Spec => []RouterFollowsConfig
  <1>1. Spec => []FollowInv
    BY TypeInit, TypeStep, DiskInit, DiskStep, LockInit, LockStep, FollowInit, FollowStep, PTL
    DEF Spec
  <1>2. FollowInv => RouterFollowsConfig
    BY DEF FollowInv
  <1> QED BY <1>1, <1>2, PTL
-----------------------------------------------------------------------------
(* The router implements AtomicRouter. *)

LEMMA WholeIsTarget ==
  ASSUME StoreTypeOK, NEW v \in Versions, NEW h
  PROVE  Whole(v, h) \in Targets
  BY ContentTypes, RouteIsTarget DEF Whole

\* The default configuration routes nothing, and so does a router without rules.
LEMMA EmptyIsDirect ==
  ASSUME NEW h
  PROVE  Whole(0, h) = "Direct"
  BY ContentsAssumption DEF Whole, Route, Hits, Rules, Content

LEMMA DecisionsAreTargets ==
  ASSUME TypeOK, NEW r \in Reqs
  PROVE  /\ phase[r] \in {"new", "match"} => Decided(r) = "none"
         /\ phase[r] \notin {"new", "match"} => Decided(r) \in Targets /\ Decided(r) # "none"
  <1>1. target[r] \in Targets /\ snap[r].rules \in Versions
    BY DEF TypeOK, Tables
  <1>2. Whole(snap[r].rules, wanted[r].host) \in Targets
    BY <1>1, WholeIsTarget DEF TypeOK
  <1> QED BY <1>1, <1>2, ReqsAssumption DEF Decided

LEMMA RefineInit == Init => Atomic!Init
  <1> SUFFICES ASSUME Init PROVE Atomic!Init
    OBVIOUS
  <1>1. Table = [a \in Addrs |-> "Direct"]
    BY EmptyIsDirect DEF Init, NoTable, Table
  <1>2. Decision = [r \in Reqs |-> "none"]
    BY DEF Init, Decision, Decided
  <1> QED BY <1>1, <1>2 DEF Init, Atomic!Init

\* What the old configurations say does not change, so neither do the table and
\* the decisions.
LEMMA RefineSame ==
  ASSUME TypeOK, \A v \in Versions : Content(v)' = Content(v),
         router'.rules = router.rules, UNCHANGED reqVars
  PROVE  UNCHANGED Atomic!vars
  <1>1. router.rules \in Versions /\ \A r \in Reqs : snap[r].rules \in Versions
    BY DEF TypeOK, Tables
  <1>2. \A v \in Versions : \A h : Whole(v, h)' = Whole(v, h)
    BY DEF Whole
  <1>3. Table' = Table
    BY <1>1, <1>2 DEF Table
  <1>4. Decision' = Decision
    BY <1>1, <1>2 DEF Decision, Decided, reqVars
  <1> QED BY <1>3, <1>4 DEF Atomic!vars, reqVars

\* A new table, for requests that keep their decisions.
LEMMA RefineReload ==
  ASSUME TypeOK, TypeOK', UNCHANGED <<sent, reqVars>>
  PROVE  Atomic!Reload
  <1>1. Table' \in [Addrs -> Targets]
    <2>1. router'.rules \in Versions
      BY DEF TypeOK, Tables, Versions
    <2>2. \A h : Whole(router.rules, h)' = Whole(router'.rules, h)
      BY DEF Whole, Content
    <2> QED BY <2>1, <2>2, WholeIsTarget DEF TypeOK, Table
  <1>2. Decision' = Decision
    BY DEF Decision, Decided, Whole, Content, reqVars
  <1> QED BY <1>1, <1>2 DEF Atomic!Reload, reqVars

LEMMA RefineRequest ==
  ASSUME TypeOK, TypeOK', LockInv, NEW r \in Reqs, Request(r)
  PROVE  [Atomic!Next]_(Atomic!vars)
  <1>1. UNCHANGED <<sent, router, wanted>>
    BY DEF Request, ReadRouteEnable, CopyRules, CopyDialers, Match, Dial, storeVars
  <1>2. Table' = Table /\ \A v, h : Whole(v, h)' = Whole(v, h)
    BY <1>1 DEF Table, Whole, Content
  <1>3. \A s \in Reqs : s # r => phase'[s] = phase[s] /\ snap'[s] = snap[s] /\ target'[s] = target[s]
    BY LockTypes DEF Request, ReadRouteEnable, CopyRules, CopyDialers, Match, Dial, Goto
  <1>4. \A s \in Reqs : s # r => Decided(s)' = Decided(s)
    BY <1>1, <1>2, <1>3 DEF Decided
  <1>5. Decision' = [Decision EXCEPT ![r] = Decided(r)']
    BY <1>4 DEF Decision
  <1>6. ASSUME Decided(r)' = Decided(r) PROVE UNCHANGED Atomic!vars
    BY <1>1, <1>2, <1>5, <1>6 DEF Decision, Atomic!vars
  <1>7. ASSUME phase[r] \in {"new", "match"},
               Decided(r)' = Table[wanted[r]] \/ Decided(r)' = "Direct"
        PROVE  Atomic!Next
    <2>1. Decision[r] = "none"
      BY <1>7, DecisionsAreTargets DEF Decision
    <2>2. Atomic!Decide(r) \/ Atomic!DecideDirect(r)
      BY <1>1, <1>2, <1>5, <1>7, <2>1 DEF Atomic!Decide, Atomic!DecideDirect
    <2> QED BY <2>2 DEF Atomic!Next
  <1>8. CASE ReadRouteEnable(r)
    <2>1. phase[r] = "new" /\ phase'[r] \in {"match", "dial"} /\ target'[r] = target[r]
      BY <1>8, LockTypes DEF ReadRouteEnable, Goto
    <2>2. target[r] = "Direct"
      BY <2>1 DEF LockInv, ReadersApart
    <2>3. Decided(r)' = Decided(r) \/ Decided(r)' = "Direct"
      BY <2>1, <2>2 DEF Decided
    <2> QED BY <1>6, <1>7, <2>1, <2>3
  <1>9. CASE CopyRules(r)
    <2>1. phase[r] = "match" /\ phase'[r] = "copy" /\ snap'[r].rules = router.rules
      BY <1>9, LockTypes DEF CopyRules, Goto, Tables
    <2>2. wanted[r] \in Addrs
      BY DEF TypeOK
    <2>3. Decided(r)' = Table[wanted[r]]
      BY <1>1, <1>2, <2>1, <2>2 DEF Decided, Table
    <2> QED BY <1>7, <2>1, <2>3
  <1>10. CASE CopyDialers(r)
    <2>1. phase[r] = "copy" /\ phase'[r] = "walk" /\ snap'[r].rules = snap[r].rules
      BY <1>10, LockTypes DEF CopyDialers, Goto, Tables
    <2> QED BY <1>1, <1>2, <1>6, <2>1 DEF Decided
  <1>11. CASE Match(r)
    <2>1. /\ phase[r] = "walk" /\ phase'[r] = "dial"
          /\ target'[r] = MatchRoute(snap[r], wanted[r].host)
      BY <1>11, LockTypes DEF Match, Goto
    <2>2. snap[r].rules = snap[r].dialers
      BY <2>1 DEF LockInv, ReadersApart
    <2>3. Decided(r) = Whole(snap[r].rules, wanted[r].host) /\ Decided(r)' = target'[r]
      BY <2>1 DEF Decided
    <2> QED BY <1>6, <2>1, <2>2, <2>3 DEF MatchRoute, Whole
  <1>12. CASE Dial(r)
    <2>1. phase[r] = "dial" /\ phase'[r] \in {"refused", "connected"} /\ target'[r] = target[r]
      BY <1>12, LockTypes DEF Dial, Goto
    <2> QED BY <1>6, <2>1 DEF Decided
  <1> QED BY <1>8, <1>9, <1>10, <1>11, <1>12 DEF Request

LEMMA RefineFinish ==
  ASSUME TypeOK, NEW r \in Reqs, Finish(r)
  PROVE  Atomic!Next
  <1>1. /\ UNCHANGED <<sent, router>> /\ phase[r] \in {"connected", "refused"} /\ phase'[r] = "new"
        /\ \E a \in Addrs : wanted' = [wanted EXCEPT ![r] = a]
    BY LockTypes DEF Finish, Goto, storeVars
  <1>2. Table' = Table /\ \A v, h : Whole(v, h)' = Whole(v, h)
    BY <1>1 DEF Table, Whole, Content
  <1>3. \A s \in Reqs : s # r => /\ phase'[s] = phase[s] /\ snap'[s] = snap[s]
                                 /\ target'[s] = target[s] /\ wanted'[s] = wanted[s]
    BY LockTypes DEF Finish, Goto
  <1>4. \A s \in Reqs : s # r => Decided(s)' = Decided(s)
    BY <1>2, <1>3 DEF Decided
  <1>5. Decided(r)' = "none" /\ Decision[r] # "none"
    BY <1>1, DecisionsAreTargets DEF Decided, Decision
  <1>6. Decision' = [Decision EXCEPT ![r] = "none"]
    BY <1>4, <1>5 DEF Decision
  <1>7. Atomic!Ask(r)
    BY <1>1, <1>2, <1>5, <1>6 DEF Atomic!Ask
  <1> QED BY <1>7 DEF Atomic!Next

LEMMA RefineStep ==
  ASSUME TypeOK, TypeOK', LockInv, [Next]_vars
  PROVE  [Atomic!Next]_(Atomic!vars)
  <1>1. CASE UNCHANGED vars
    <2>1. UNCHANGED <<sent, router, reqVars>>
      BY <1>1 DEF vars, storeVars
    <2> QED BY <2>1, RefineSame DEF Content
  <1>2. ASSUME NEW p \in Posters, NEW c \in Contents, UpdateConfig(p, c),
               UNCHANGED <<listening, router, reqVars>>
        PROVE  UNCHANGED Atomic!vars
    BY <1>2, StoreTypes, RefineSame DEF TypeOK
  <1>3. ASSUME NEW p \in Posters, Poster(p)
        PROVE  [Atomic!Next]_(Atomic!vars)
    <2>1. UNCHANGED <<sent, reqVars>>
      BY <1>3 DEF Poster, Reload, PostReloads, LockRouter, SwapDialers, SwapRules, StorePost,
         PostWrites, PostRenames, PostFails, PostAnswers, storeRest
    <2>2. Atomic!Reload
      BY <2>1, RefineReload
    <2> QED BY <2>2 DEF Atomic!Next
  <1>4. CASE Boot
    <2>1. UNCHANGED <<sent, reqVars>>
      BY <1>4 DEF Boot, Open, StoreBoot, Start, Load, LoadFails, BootWrites, BootRenames,
         BootSaveFails
    <2>2. Atomic!Reload
      BY <2>1, RefineReload
    <2> QED BY <2>2 DEF Atomic!Next
  <1>5. CASE Crash
    <2>1. /\ router' = NoTable /\ UNCHANGED wanted
          /\ phase' = [r \in Reqs |-> "new"]
      BY <1>5 DEF Crash
    <2>2. \A h : Whole(0, h)' = "Direct"
      BY EmptyIsDirect DEF Whole, Content
    <2>3. Table' = [a \in Addrs |-> "Direct"]
      BY <2>1, <2>2 DEF NoTable, Table
    <2>4. Decision' = [r \in Reqs |-> "none"]
      BY <2>1 DEF Decision, Decided
    <2> QED BY <2>1, <2>3, <2>4 DEF Atomic!Restart, Atomic!Next
  <1>6. ASSUME NEW r \in Reqs, Request(r) \/ Finish(r)
        PROVE  [Atomic!Next]_(Atomic!vars)
    BY <1>6, RefineRequest, RefineFinish
  <1> QED BY <1>1, <1>2, <1>3, <1>4, <1>5, <1>6 DEF Next

\* Rules and dialers, built outside the lock, swapped one after the other and
\* copied one after the other, behave like one table that is replaced and read
\* in one step.
THEOREM RoutingIsAtomic == Spec => AtomicRouting
  <1>1. Spec => [][Atomic!Next]_(Atomic!vars)
    BY TypeInit, TypeStep, DiskInit, DiskStep, LockInit, LockStep, RefineStep, PTL DEF Spec
  <1>2. Spec => Atomic!Init
    BY RefineInit, PTL DEF Spec
  <1> QED BY <1>1, <1>2, PTL DEF AtomicRouting, Atomic!Spec

-----------------------------------------------------------------------------
(* Loops. *)

\* No configuration moves a listener.
SamePorts == \A c \in Contents : ListenPorts(c) = ListenPorts(DefaultContent)

\* What a loop check has passed stays as it is while the connection is open.
LoopInv ==
  /\ listening = ListenPorts(DefaultContent)
  /\ \A r \in Reqs : DialledSelf(r) => ~Known(Dialled(r).host)

\* A known host on a listener's port is a loop, whatever the age of the list and
\* whatever the lookup finds.
LEMMA KnownIsLoop ==
  ASSUME NEW c \in Contents \cup {DefaultContent}, NEW a, Known(a.host), a.port \in ListenPorts(c),
         NEW local \in LocalLists, NEW found
  PROVE  SelfLoop(a, c, local, found)
  <1>1. a.host \in c.ips \cup local
    BY LoopAssumption DEF Known
  <1> QED BY <1>1 DEF SelfLoop, ListenPorts, proxyListenPorts

\* A connection that has just been dialled.
LEMMA DialIsKept ==
  ASSUME TypeOK, SamePorts, listening = ListenPorts(DefaultContent), NEW r \in Reqs, Dial(r)
  PROVE  DialledSelf(r)' => ~Known(Dialled(r).host)'
  <1>1. SUFFICES ASSUME DialledSelf(r)', Known(Dialled(r).host)
                 PROVE  FALSE
    BY DEF Dial, Dialled, Known
  <1> DEFINE c == Content(current)
  <1>2. c \in Contents \cup {DefaultContent} /\ ListenPorts(c) = listening
    BY ContentTypes DEF TypeOK, StoreTypeOK, SamePorts
  <1>3. Dialled(r)' = Dialled(r) /\ listening' = listening
    BY DEF Dial, Dialled
  <1>4. Dialled(r).port \in ListenPorts(c)
    BY <1>1, <1>2, <1>3 DEF DialledSelf
  <1>5. \A loop \in Verdicts(Dialled(r)) : loop = TRUE
    <2>1. ASSUME NEW local \in LocalLists, NEW found \in Answers[Dialled(r).host]
          PROVE  SelfLoop(Dialled(r), c, local, found) = TRUE
      <3>1. SelfLoop(Dialled(r), c, local, found)
        BY <1>1, <1>2, <1>4, KnownIsLoop
      <3> QED BY <3>1 DEF SelfLoop
    <2> QED BY <2>1 DEF Verdicts
  <1>6. phase'[r] = "refused"
    BY <1>5 DEF Dial, Loops, Goto, TypeOK
  <1> QED BY <1>1, <1>6 DEF DialledSelf

LEMMA LoopStep ==
  ASSUME SamePorts, TypeOK, LoopInv, [Next]_vars
  PROVE  LoopInv'
  <1>1. ListenPorts(Content(current)) = ListenPorts(DefaultContent)
    BY ContentTypes DEF TypeOK, StoreTypeOK, SamePorts
  <1>2. listening' = ListenPorts(DefaultContent)
    BY <1>1 DEF LoopInv, Next, vars, Poster, Reload, PostReloads, LockRouter, SwapDialers, SwapRules,
       Boot, Open, Crash, Request, ReadRouteEnable, CopyRules, CopyDialers, Match, Dial, Finish
  <1>3. ASSUME NEW r \in Reqs, DialledSelf(r)'
        PROVE  ~Known(Dialled(r).host)'
    <2>1. CASE phase[r] = "connected" /\ UNCHANGED <<wanted[r], target[r]>>
      BY <1>2, <1>3, <2>1 DEF LoopInv, DialledSelf, Dialled, Known
    <2>2. CASE Dial(r)
      BY <1>3, <2>2, DialIsKept DEF LoopInv
    <2>3. CASE UNCHANGED reqVars
      BY <1>3, <2>1, <2>3 DEF reqVars, DialledSelf
    <2>4. CASE Crash
      BY <1>3, <2>4 DEF Crash, DialledSelf
    <2>5. ASSUME NEW q \in Reqs, Request(q) \/ Finish(q), ~ (q = r /\ Dial(q))
          PROVE  phase[r] = "connected" /\ UNCHANGED <<wanted[r], target[r]>>
      <3>1. phase'[r] = "connected"
        BY <1>3 DEF DialledSelf
      <3>2. CASE q = r
        BY <2>5, <3>1, <3>2, LockTypes DEF Request, Finish, ReadRouteEnable, CopyRules, CopyDialers,
           Match, Goto
      <3>3. CASE q # r
        BY <2>5, <3>1, <3>3, LockTypes DEF Request, Finish, ReadRouteEnable, CopyRules, CopyDialers,
           Match, Dial, Goto
      <3> QED BY <3>2, <3>3
    <2>6. CASE UNCHANGED vars \/ Boot \/ \E p \in Posters : Poster(p)
                 \/ \E c \in Contents : UpdateConfig(p, c) /\ UNCHANGED <<listening, router, reqVars>>
      <3>1. UNCHANGED reqVars
        BY <2>6 DEF vars, Boot, Open, Poster, Reload, PostReloads, LockRouter, SwapDialers, SwapRules
      <3> QED BY <2>3, <3>1
    <2> QED BY <2>1, <2>2, <2>4, <2>5, <2>6 DEF Next
  <1> QED BY <1>2, <1>3 DEF LoopInv

\* As long as no configuration moves a port, a connection of the proxy to either
\* of its own listeners, through whatever rules and parents, is one to an address
\* that is neither the loopback interface's nor in every PublicIPs: however old
\* the list of local addresses is, and whatever lookups find or fail to find
\* (loop_check.go:18-145).
THEOREM NoKnownLoop == Spec => []NoKnownSelfDial
  <1>1. Init => LoopInv
    BY DEF Init, LoopInv, DialledSelf
  <1>2. SamePorts /\ TypeOK /\ LoopInv /\ [Next]_vars => LoopInv'
    BY LoopStep
  <1>3. (SamePorts => LoopInv) => NoKnownSelfDial
    BY DEF SamePorts, LoopInv, NoKnownSelfDial
  <1>4. Init => (SamePorts => LoopInv)
    BY <1>1
  <1>5. TypeOK /\ (SamePorts => LoopInv) /\ [Next]_vars => (SamePorts => LoopInv)'
    BY <1>2 DEF SamePorts, ListenPorts
  <1> QED BY <1>3, <1>4, <1>5, TypeInit, TypeStep, PTL DEF Spec
=============================================================================

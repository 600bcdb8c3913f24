----------------------------- MODULE ConfigStore -----------------------------
(***************************************************************************)
(* The configuration manager: Current in memory and config.json on disk,   *)
(* replaced by POST /api/config, read back when the process starts.  The   *)
(* process may be killed between any two steps; the disk survives it.      *)
(*                                                                         *)
(* A configuration is named by the number of the POST that brought it; 0   *)
(* is the built-in default.  sent holds what each of them says, so that    *)
(* memory, disk and the routing table need only keep numbers.  This module *)
(* has the state and the steps; RouteTable composes them with the router.  *)
(***************************************************************************)
EXTENDS Naturals, Sequences

CONSTANTS
  Posters,         \* goroutines that serve POST /api/config
  Contents,        \* what a POST may carry
  DefaultContent,  \* DefaultConfig
  MaxPosts,        \* bound: POSTs of one behaviour
  Absent,          \* no such file
  Torn             \* a file whose write was broken off

ASSUME MaxPostsAssumption == MaxPosts \in Nat
ASSUME PostersAssumption == "free" \notin Posters /\ "boot" \notin Posters
ASSUME FilesAssumption == Absent \notin Nat /\ Torn \notin Nat /\ Absent # Torn

VARIABLES
  sent,     \* the contents posted so far
  current,  \* ConfigManager.Current
  file,     \* config.json
  tmp,      \* config.json.tmp
  lock,     \* who holds ConfigManager.mu for writing
  server,   \* where the start of the process is
  post,     \* where a POST is
  mine,     \* the configuration it brought
  acked,    \* the newest configuration a POST answered "ok" for
  alone     \* no other POST was in flight when Current was last replaced

storeVars == <<sent, current, file, tmp, lock, server, post, mine, acked, alone>>

Versions == 0 .. Len(sent)

StoreTypeOK ==
  /\ sent \in Seq(Contents) /\ Len(sent) <= MaxPosts
  /\ current \in Versions
  /\ file \in Versions \cup {Absent, Torn}
  /\ tmp \in Versions \cup {Absent, Torn}
  /\ lock \in Posters \cup {"free", "boot"}
  /\ server \in {"down", "load", "write", "rename", "route", "up"}
  /\ post \in [Posters -> {"idle", "write", "rename", "saved", "built", "swap",
                           "swapping", "answer"}]
  /\ mine \in [Posters -> Versions]
  /\ acked \in Versions
  /\ alone \in BOOLEAN

StoreInit ==
  /\ sent = <<>>
  /\ current = 0
  /\ file = Absent
  /\ tmp = Absent
  /\ lock = "free"
  /\ server = "down"
  /\ post = [p \in Posters |-> "idle"]
  /\ mine = [p \in Posters |-> 0]
  /\ acked = 0
  /\ alone = TRUE

Content(v) == IF v = 0 THEN DefaultContent ELSE sent[v]

\* GetConfig takes the lock for reading: it waits for a save in progress.
CanGetConfig == server = "up" /\ lock = "free"

-----------------------------------------------------------------------------
(* saveLocked: the whole file is written beside config.json, then renamed. *)

\* Mutant: config.json itself is written.
WriteInPlace == file' = Torn /\ UNCHANGED tmp

\* The write of the temporary file has begun.
BeginWrite == tmp' = Torn /\ UNCHANGED file

FinishWrite == tmp' = current /\ UNCHANGED file

Rename == file' = tmp /\ tmp' = Absent

-----------------------------------------------------------------------------
(* POST /api/config, up to the point where the configuration is saved. *)

PostGoto(p, from, to) ==
  server = "up" /\ post[p] = from /\ post' = [post EXCEPT ![p] = to]

\* UpdateConfig replaces Current under the lock before anything is written.
UpdateConfig(p, c) ==
  /\ PostGoto(p, "idle", "write")
  /\ lock = "free" /\ lock' = p
  /\ Len(sent) < MaxPosts
  /\ sent' = Append(sent, c)
  /\ current' = Len(sent')
  /\ mine' = [mine EXCEPT ![p] = Len(sent')]
  /\ alone' = \A q \in Posters \ {p} : post[q] = "idle"
  /\ BeginWrite
  /\ UNCHANGED <<server, acked>>

PostWrites(p) ==
  /\ PostGoto(p, "write", "rename")
  /\ FinishWrite
  /\ UNCHANGED <<sent, current, lock, server, mine, acked, alone>>

PostRenames(p) ==
  /\ PostGoto(p, "rename", "saved")
  /\ Rename
  /\ lock' = "free"
  /\ UNCHANGED <<sent, current, server, mine, acked, alone>>

\* Mutant: the early return of a failed save leaves the lock taken.
PostFailsLocked(p) ==
  /\ PostGoto(p, "write", "idle") \/ PostGoto(p, "rename", "idle")
  /\ UNCHANGED <<sent, current, file, tmp, lock, server, mine, acked, alone>>

\* Either system call fails: 500, with Current replaced and the file as it was.
PostFails(p) ==
  /\ PostGoto(p, "write", "idle") \/ PostGoto(p, "rename", "idle")
  /\ lock' = "free"
  /\ UNCHANGED <<sent, current, file, tmp, server, mine, acked, alone>>

\* "ok" is written once the reloads are through.
PostAnswers(p) ==
  /\ PostGoto(p, "answer", "idle")
  /\ acked' = IF mine[p] > acked THEN mine[p] ELSE acked
  /\ UNCHANGED <<sent, current, file, tmp, lock, server, mine, alone>>

-----------------------------------------------------------------------------
(* The start of the process: NewConfigManager and Load. *)

ServerGoto(from, to) == server = from /\ server' = to

\* The manager starts from the default configuration.
Start ==
  /\ ServerGoto("down", "load")
  /\ current' = 0
  /\ lock' = "boot"
  /\ UNCHANGED <<sent, file, tmp, post, mine, acked, alone>>

\* Mutant: a missing file is not told from one that is there.
LoadWhatever ==
  /\ ServerGoto("load", "write")
  /\ file # Torn
  /\ current' = file
  /\ BeginWrite
  /\ UNCHANGED <<sent, lock, post, mine, acked, alone>>

\* A missing file is created, a file that parses is taken over and written back
\* with the fields it lacked.
Load ==
  /\ ServerGoto("load", "write")
  /\ file # Torn
  /\ current' = IF file = Absent THEN 0 ELSE file
  /\ BeginWrite
  /\ UNCHANGED <<sent, lock, post, mine, acked, alone>>

\* Mutant: whatever the error, the default is saved.
LoadFailsAndSaves ==
  /\ ServerGoto("load", "write")
  /\ file # Absent
  /\ BeginWrite
  /\ UNCHANGED <<sent, current, lock, post, mine, acked, alone>>

\* A file that cannot be read or parsed is left alone; nobody looks at the
\* error, and the process goes on with the default.
LoadFails ==
  /\ ServerGoto("load", "route")
  /\ file # Absent
  /\ lock' = "free"
  /\ UNCHANGED <<sent, current, file, tmp, post, mine, acked, alone>>

BootWrites ==
  /\ ServerGoto("write", "rename")
  /\ FinishWrite
  /\ UNCHANGED <<sent, current, lock, post, mine, acked, alone>>

BootRenames ==
  /\ ServerGoto("rename", "route")
  /\ Rename
  /\ lock' = "free"
  /\ UNCHANGED <<sent, current, post, mine, acked, alone>>

\* The error of the write back is ignored too.
BootSaveFails ==
  /\ ServerGoto("write", "route") \/ ServerGoto("rename", "route")
  /\ lock' = "free"
  /\ UNCHANGED <<sent, current, file, tmp, post, mine, acked, alone>>

StorePost(p) == PostWrites(p) \/ PostRenames(p) \/ PostFails(p) \/ PostAnswers(p)

StoreBoot == Start \/ Load \/ LoadFails \/ BootWrites \/ BootRenames \/ BootSaveFails

\* The process is killed.
StoreCrash ==
  /\ server # "down" /\ server' = "down"
  /\ post' = [p \in Posters |-> "idle"]
  /\ lock' = "free"
  /\ UNCHANGED <<sent, current, file, tmp, mine, acked, alone>>

-----------------------------------------------------------------------------
(* Properties. *)

\* config.json is always a whole configuration, wherever the process was killed
\* ("written through a temporary file and an atomic rename against corruption",
\* config.go:198).
FileIsWhole == file # Torn

\* What a POST has acknowledged is on the disk, or something newer is: neither
\* a failed save, nor a failed or a successful start takes it away.
AckedIsDurable == acked # 0 => file \in Versions /\ file >= acked
=============================================================================

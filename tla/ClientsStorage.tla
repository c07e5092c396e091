--------------------------- MODULE ClientsStorage ---------------------------
(***************************************************************************)
(* The clients of nocc-server, seen for one clientID.                      *)
(*                                                                         *)
(* A daemon sends StartClient when it starts and whenever it reconnects,   *)
(* with the clientID it had, and StopClient when it quits.  A client is    *)
(* deleted by a StartClient that finds an old one, by StopClient (in a     *)
(* goroutine of its own) and by the cron, with nothing that makes one of   *)
(* them wait for another.  The working directory has the clientID for a    *)
(* name, so all clients with that ID, one after the other, use the same.   *)
(*                                                                         *)
(* A Client object is named by the StartClient call that makes it.         *)
(***************************************************************************)
EXTENDS Naturals, FiniteSets

CONSTANTS
  Starts,   \* StartClient calls
  Stops,    \* StopClient calls
  Cron,     \* the goroutine of the cron
  None,     \* "no client", "no directory"
  Stray     \* a working directory that no StartClient has made

Deleters == Starts \cup Stops \cup {Cron}

ASSUME ClientsStorageAssumption ==
  /\ Starts \cap Stops = {} /\ Cron \notin Starts \cup Stops
  /\ None \notin Starts \cup {Stray} /\ Stray \notin Starts

VARIABLES
  table,        \* allClients.table, the entry of the clientID
  closed,       \* clients with chanDisconnected closed
  workingDir,   \* who made the working directory, if it exists
  oldDirs,      \* renamed directories, not removed yet
  inactive,     \* clients not seen for checkInactiveTimeout
  pc,           \* where a call or the cron is
  victim,       \* the client it deletes
  reply,        \* what StartClient has answered
  stopping,     \* the server quits
  panicked,     \* chanDisconnected was closed twice, the process is gone
  atRisk        \* history: clients that were stopped, replaced or inactive, or
                \* whose StartClient ran beside another call or a deletion

storageVars == <<table, closed, workingDir, oldDirs, inactive, pc, victim, reply,
                 stopping, panicked, atRisk>>

Busy == {p \in Deleters : pc[p] \notin {"idle", "done"}}

Connected == {c \in Starts : reply[c] = "ok"}

StorageInit ==
  /\ table = None /\ workingDir = None
  /\ closed = {} /\ oldDirs = {} /\ inactive = {} /\ atRisk = {}
  /\ pc = [p \in Deleters |-> "idle"]
  /\ victim = [p \in Deleters |-> None]
  /\ reply = [p \in Starts |-> "none"]
  /\ stopping = FALSE /\ panicked = FALSE

Go(p, from, to) ==
  /\ ~ panicked
  /\ pc[p] = from
  /\ pc' = [pc EXCEPT ![p] = to]

(***************************************************************************)
(* OnClientConnected looks the old client up and deletes it first.         *)
(***************************************************************************)
StartClient(p) ==
  /\ ~ stopping
  /\ Go(p, "idle", IF table = None THEN "mkdir" ELSE "unlist")
  /\ victim' = [victim EXCEPT ![p] = table]
  /\ atRisk' = atRisk \cup Connected \cup (Busy \cap Starts)
                      \cup (IF Busy = {} THEN {} ELSE {p})
  /\ UNCHANGED <<table, closed, workingDir, oldDirs, inactive, reply, stopping, panicked>>

StopClient(p) ==
  /\ Connected # {}
  /\ Go(p, "idle", IF table = None THEN "done" ELSE "unlist")
  /\ victim' = [victim EXCEPT ![p] = table]
  /\ atRisk' = atRisk \cup Connected \cup (Busy \cap Starts)
  /\ UNCHANGED <<table, closed, workingDir, oldDirs, inactive, reply, stopping, panicked>>

(***************************************************************************)
(* DeleteInactiveClients takes one that has not been seen for long, under  *)
(* a lock that it gives back before it deletes the client.                 *)
(***************************************************************************)
BecomeInactive(c) ==
  /\ table = c /\ c \notin inactive
  /\ inactive' = inactive \cup {c}
  /\ atRisk' = atRisk \cup {c}
  /\ UNCHANGED <<table, closed, workingDir, oldDirs, pc, victim, reply, stopping, panicked>>

DeleteInactiveClients ==
  /\ table \in inactive
  /\ Go(Cron, "idle", "unlist")
  /\ victim' = [victim EXCEPT ![Cron] = table]
  /\ atRisk' = atRisk \cup (Busy \cap Starts)
  /\ UNCHANGED <<table, closed, workingDir, oldDirs, inactive, reply, stopping, panicked>>

\* Mutant of Unlist: the table keeps the client.
ForgetToUnlist(p) ==
  /\ Go(p, "unlist", "close")
  /\ UNCHANGED <<table, closed, workingDir, oldDirs, inactive, victim, reply,
                 stopping, panicked, atRisk>>

(***************************************************************************)
(* DeleteClient: the entry goes by its name, whoever has it by then; then  *)
(* the channel is closed, then the directory renamed and removed.          *)
(***************************************************************************)
Unlist(p) ==
  /\ Go(p, "unlist", "close")
  /\ table' = None
  /\ UNCHANGED <<closed, workingDir, oldDirs, inactive, victim, reply,
                 stopping, panicked, atRisk>>

CloseChan(p) ==
  /\ Go(p, "close", "rename")
  /\ panicked' = (victim[p] \in closed)
  /\ closed' = closed \cup {victim[p]}
  /\ UNCHANGED <<table, workingDir, oldDirs, inactive, victim, reply, stopping, atRisk>>

(***************************************************************************)
(* The new name has the time in seconds, so it may be taken by one that    *)
(* was renamed just before and is not removed yet: then the working        *)
(* directory stays.  Errors of the renaming are ignored.                   *)
(***************************************************************************)
RemoveWorkingDir(p) ==
  /\ Go(p, "rename", IF p \in Starts THEN "mkdir" ELSE IF p = Cron THEN "idle" ELSE "done")
  /\ \/ /\ oldDirs' = oldDirs \cup ({workingDir} \ {None})
        /\ workingDir' = None
     \/ /\ oldDirs # {}
        /\ UNCHANGED <<oldDirs, workingDir>>
  /\ victim' = [victim EXCEPT ![p] = None]
  /\ UNCHANGED <<table, closed, inactive, reply, stopping, panicked, atRisk>>

RemoveOldDir(d) ==
  /\ ~ panicked
  /\ oldDirs' = oldDirs \ {d}
  /\ UNCHANGED <<table, closed, workingDir, inactive, pc, victim, reply,
                 stopping, panicked, atRisk>>

\* Mutant of Mkdir: a directory that is there is taken.
MkdirOrReuse(p) ==
  /\ Go(p, "mkdir", "insert")
  /\ workingDir' = IF workingDir = None THEN p ELSE workingDir
  /\ UNCHANGED <<table, closed, oldDirs, inactive, victim, reply,
                 stopping, panicked, atRisk>>

(***************************************************************************)
(* The rest of OnClientConnected: os.Mkdir refuses a directory that is     *)
(* there, and StartClient fails.                                           *)
(***************************************************************************)
Mkdir(p) ==
  /\ Go(p, "mkdir", IF workingDir = None THEN "insert" ELSE "done")
  /\ workingDir' = IF workingDir = None THEN p ELSE workingDir
  /\ reply' = IF workingDir = None THEN reply ELSE [reply EXCEPT ![p] = "failed"]
  /\ UNCHANGED <<table, closed, oldDirs, inactive, victim, stopping, panicked, atRisk>>

Insert(p) ==
  /\ Go(p, "insert", "done")
  /\ table' = p
  /\ reply' = [reply EXCEPT ![p] = "ok"]
  /\ UNCHANGED <<closed, workingDir, oldDirs, inactive, victim, stopping, panicked, atRisk>>

(***************************************************************************)
(* QuitServerGracefully: StopAllClients closes the channels and leaves the *)
(* directories.                                                            *)
(***************************************************************************)
StopAllClients ==
  /\ ~ panicked /\ ~ stopping
  /\ stopping' = TRUE
  /\ panicked' = (table \in closed)
  /\ closed' = closed \cup ({table} \ {None})
  /\ table' = None
  /\ UNCHANGED <<workingDir, oldDirs, inactive, pc, victim, reply, atRisk>>

StorageNext ==
  \/ \E p \in Starts : StartClient(p) \/ Mkdir(p) \/ Insert(p)
  \/ \E p \in Stops : StopClient(p)
  \/ \E p \in Deleters : Unlist(p) \/ CloseChan(p) \/ RemoveWorkingDir(p)
  \/ \E c \in Starts : BecomeInactive(c)
  \/ DeleteInactiveClients
  \/ \E d \in oldDirs : RemoveOldDir(d)
  \/ StopAllClients

-----------------------------------------------------------------------------
StorageTypeOK ==
  /\ table \in Starts \cup {None}
  /\ closed \subseteq Starts /\ inactive \subseteq Starts /\ atRisk \subseteq Starts
  /\ workingDir \in Starts \cup {Stray, None}
  /\ oldDirs \subseteq Starts \cup {Stray}
  /\ pc \in [Deleters -> {"idle", "unlist", "close", "rename", "mkdir", "insert", "done"}]
  /\ victim \in [Deleters -> Starts \cup {None}]
  /\ \A p \in Deleters : pc[p] \in {"unlist", "close"} => victim[p] # None
  /\ reply \in [Starts -> {"none", "ok", "failed"}]
  /\ stopping \in BOOLEAN /\ panicked \in BOOLEAN

(***************************************************************************)
(* A client that a stream or a session can find is not disconnected yet:   *)
(* whatever StartClient, StopClient, the cron and the quitting server do   *)
(* at the same time, an entry goes before its channel is closed.           *)
(***************************************************************************)
ListedIsOpen == ~ panicked => table \notin closed

(***************************************************************************)
(* A client whose StartClient ran alone, and which nothing has stopped,    *)
(* replaced or found inactive since, is the one that its daemon's requests *)
(* find, and the working directory is its own: files of an earlier client  *)
(* with that ID are not taken for its files.                               *)
(***************************************************************************)
ConnectedIsServed ==
  \A c \in Connected \ atRisk :
    ~ panicked /\ ~ stopping => table = c /\ workingDir \in {c}

(***************************************************************************)
(* "In this case, delete an old hanging client, closing all channels and   *)
(* streams -- and create a new instance" (clients-storage.go:54).          *)
(***************************************************************************)
NewInstanceIsCreated ==
  ~ panicked /\ \A p \in Starts : reply[p] # "failed"

=============================================================================

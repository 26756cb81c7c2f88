------------------------------ MODULE Database ------------------------------
(***************************************************************************)
(* The life of the database file: processes that open it and check its     *)
(* embedding model (storage/sqlite/db.go, config.go), the backup and the   *)
(* restore of hsme-cli (core/admin).  SQLite is in WAL mode: a commit goes *)
(* to the -wal file, a checkpoint moves it into the main file, and whoever *)
(* opens the path reads the one over the other.  A restore removes the     *)
(* -wal file and renames a copy of a backup over the main file, while      *)
(* processes that have the old files open keep them.                       *)
(*                                                                         *)
(* The content of a database is a set of items: the memories it holds and, *)
(* for system_config, the embedding model.  SQLite itself (what opening,   *)
(* closing and checkpointing do to the two files) is external.             *)
(***************************************************************************)
EXTENDS Integers, FiniteSets, Sequences, FiniteSetsExt

CONSTANTS
  Procs,       \* the MCP server, the workers
  Models,      \* embedding models
  Model,       \* EMBEDDING_MODEL of each process
  MaxRows,     \* bound: memories
  MaxBackups,  \* bound: backups
  MaxRestores  \* bound: restores begun

ASSUME DatabaseAssumption ==
  /\ IsFiniteSet(Procs) /\ Model \in [Procs -> Models]
  /\ MaxRows \in Nat /\ MaxBackups \in Nat /\ MaxRestores \in Nat
  /\ Models \cap (1..MaxRows) = {}

Rows  == 1..MaxRows
Items == Models \cup Rows
Inodes == 1..Cardinality(Procs) + 2    \* enough for all files that are open
NoLog == 0
Names == [file : Inodes, log : Inodes \cup {NoLog}]
Closed == [file |-> 0, log |-> NoLog]
Gone   == [items |-> {}, of |-> 0]

VARIABLES
  base,      \* content of the main file, per inode
  log,       \* the -wal file, per inode: what it holds, and of which main file
  path,      \* what dbPath and dbPath-wal name
  handle,    \* the files each process has open
  state,     \* how far each process is
  backups,   \* the files in backups/, oldest first
  pc,        \* what the restore does next
  source,    \* the backup it restores
  begun,     \* restores begun
  acked,     \* history: what a reader is entitled to find
  mishaps    \* history: what went on while a restore had no -wal file

disk    == <<base, log, path>>
process == <<handle, state>>
restore == <<pc, source, begun>>
vars    == <<disk, process, backups, restore, acked, mishaps>>

TypeOK ==
  /\ base \in [Inodes -> SUBSET Items]
  /\ log \in [Inodes -> [items : SUBSET Items, of : Inodes \cup {0}]]
  /\ path \in Names
  /\ handle \in [Procs -> Names \cup {Closed}]
  /\ state \in [Procs -> {"down", "starting", "seeding", "up", "moved"}]
  /\ \A p \in Procs : state[p] = "down" <=> handle[p] = Closed
  /\ backups \in Seq(SUBSET Items)
  /\ pc \in {"idle", "copy", "clean", "rename"}
  /\ source \in 0..Len(backups)
  /\ begun \in 0..MaxRestores
  /\ acked \subseteq Items
  /\ mishaps \subseteq {"opened", "running", "killed"}

\* What a connection with these files open reads.
Content(f) == base[f.file] \cup (IF f.log = NoLog THEN {} ELSE log[f.log].items)
View       == Content(path)
Config(p)  == Content(handle[p]) \cap Models

InUse == {path} \cup {handle[p] : p \in Procs}
FreeFile == Min({i \in Inodes : \A f \in InUse : f.file # i})
FreeLog  == Min({i \in Inodes : \A f \in InUse : f.log # i})

Init ==
  /\ base = [i \in Inodes |-> {}] /\ log = [i \in Inodes |-> Gone]
  /\ path = [file |-> 1, log |-> NoLog]
  /\ handle = [p \in Procs |-> Closed]
  /\ state = [p \in Procs |-> "down"]
  /\ backups = <<>>
  /\ pc = "idle" /\ source = 0 /\ begun = 0
  /\ acked = {} /\ mishaps = {}

-----------------------------------------------------------------------------
(* The files after a step that leaves the contents b and l, the name n and *)
(* the handles h: what is neither named nor open any more does not exist.  *)
Files(b, l, n, h) ==
  LET inUse == {n} \cup {h[p] : p \in Procs}
  IN  /\ base' = [i \in Inodes |-> IF \E f \in inUse : f.file = i THEN b[i] ELSE {}]
      /\ log'  = [i \in Inodes |-> IF \E f \in inUse : f.log = i THEN l[i] ELSE Gone]
      /\ path' = n
      /\ handle' = h

(* Opening the path: the -wal file is created if there is none.            *)
Attached == IF path.log = NoLog THEN [path EXCEPT !.log = FreeLog] ELSE path
WithLog(l) ==
  IF path.log = NoLog
  THEN [l EXCEPT ![FreeLog] = [items |-> {}, of |-> path.file]] ELSE l

Attach(p, b, l) ==
  /\ mishaps' = IF pc = "rename" THEN mishaps \cup {"opened"} ELSE mishaps
  /\ Files(b, WithLog(l), Attached, [handle EXCEPT ![p] = Attached])

(* Closing: the last one moves the -wal file into the main file and        *)
(* removes it.                                                             *)
Last(p) == \A q \in Procs \ {p} : handle[q].log # handle[p].log
Folded(p)  == IF Last(p)
              THEN [base EXCEPT ![handle[p].file] = Content(handle[p])] ELSE base
Emptied(p) == IF Last(p) THEN [log EXCEPT ![handle[p].log].items = {}] ELSE log

Detach(p) ==
  /\ state' = [state EXCEPT ![p] = "down"]
  /\ Files(Folded(p), Emptied(p),
           IF Last(p) /\ path.log = handle[p].log
           THEN [path EXCEPT !.log = NoLog] ELSE path,
           [handle EXCEPT ![p] = Closed])

Commit(p, item) ==
  /\ log' = [log EXCEPT ![handle[p].log].items = @ \cup {item}]
  /\ acked' = acked \cup {item}
  /\ UNCHANGED <<base, path, handle>>

-----------------------------------------------------------------------------
(* InitDB opens the database ...                                           *)
Open(p) ==
  /\ state[p] = "down"
  /\ Attach(p, base, log)
  /\ state' = [state EXCEPT ![p] = "starting"]
  /\ UNCHANGED <<backups, restore, acked>>

(* ... ValidateEmbeddingConfig reads system_config and goes on to seed it, *)
(* finds its model, or refuses to start.                                   *)
Validate(p) ==
  /\ state[p] = "starting"
  /\ IF Config(p) \subseteq {Model[p]}
     THEN /\ state' = [state EXCEPT ![p] = IF Config(p) = {} THEN "seeding" ELSE "up"]
          /\ UNCHANGED <<disk, handle>>
     ELSE Detach(p)
  /\ UNCHANGED <<backups, restore, acked, mishaps>>

(* Mutant: INSERT OR REPLACE.                                              *)
SeedAnyway(p) ==
  /\ state[p] = "seeding"
  /\ Commit(p, Model[p])
  /\ state' = [state EXCEPT ![p] = "up"]
  /\ UNCHANGED <<backups, restore, mishaps>>

(* The INSERTs, in a transaction of their own: if another process seeded   *)
(* meanwhile, the primary key rejects them and this one does not start,    *)
(* even if both have the same model.                                       *)
Seed(p) ==
  /\ state[p] = "seeding"
  /\ IF Config(p) = {}
     THEN /\ Commit(p, Model[p])
          /\ state' = [state EXCEPT ![p] = "up"]
     ELSE Detach(p) /\ UNCHANGED acked
  /\ UNCHANGED <<backups, restore, mishaps>>

Running(p) == state[p] \in {"up", "moved"}

(* A memory is stored.                                                     *)
StoreMemory(p) ==
  LET known == acked \cup UNION {backups[b] : b \in DOMAIN backups}
  IN  /\ Running(p)
      /\ \E row \in Rows : row \notin known /\ (\A r \in 1..row - 1 : r \in known)
                           /\ Commit(p, row)
      /\ UNCHANGED <<state, backups, restore, mishaps>>

(* SQLite moves the -wal file into the main file when it is long.          *)
Checkpoint(p) ==
  /\ handle[p] # Closed
  /\ log[handle[p].log].items # {}
  /\ base' = [base EXCEPT ![handle[p].file] = Content(handle[p])]
  /\ log' = [log EXCEPT ![handle[p].log].items = {}]
  /\ UNCHANGED <<path, process, backups, restore, acked, mishaps>>

(* SetConnMaxLifetime: a connection that is replaced opens the path anew;  *)
(* nothing is validated again.                                             *)
Reconnect(p) ==
  /\ Running(p)
  /\ handle[p] # path
  /\ Attach(p, Folded(p), Emptied(p))
  /\ state' = [state EXCEPT ![p] = IF path.file = handle[p].file THEN @ ELSE "moved"]
  /\ UNCHANGED <<backups, restore, acked>>

(* The process ends as it should (db.Close) ...                            *)
Close(p) ==
  /\ handle[p] # Closed
  /\ Detach(p)
  /\ UNCHANGED <<backups, restore, acked, mishaps>>

(* ... or is killed, or calls os.Exit.                                     *)
Crash(p) ==
  /\ handle[p] # Closed
  /\ state' = [state EXCEPT ![p] = "down"]
  /\ Files(base, log, path, [handle EXCEPT ![p] = Closed])
  /\ UNCHANGED <<backups, restore, acked, mishaps>>

-----------------------------------------------------------------------------
(* Backup: one Step(-1) copies what a reader of the path sees.  If no      *)
(* other process has the files open, closing them folds the -wal file.     *)
Backup ==
  /\ Len(backups) < MaxBackups
  /\ backups' = Append(backups, View)
  /\ IF path.log # NoLog /\ \A p \in Procs : handle[p].log # path.log
     THEN /\ base' = [base EXCEPT ![path.file] = View]
          /\ log' = [log EXCEPT ![path.log] = Gone]
          /\ path' = [path EXCEPT !.log = NoLog]
     ELSE UNCHANGED disk
  /\ mishaps' = IF pc = "rename" THEN mishaps \cup {"opened"} ELSE mishaps
  /\ UNCHANGED <<process, restore, acked>>

(* The backup is not complete: it is killed, or the one Step found the     *)
(* source busy, which its result done says and nobody looks at.  What was  *)
(* written is rolled back by whoever opens the file, which then is an      *)
(* empty database.                                                         *)
BackupIncomplete ==
  /\ Len(backups) < MaxBackups
  /\ backups' = Append(backups, {})
  /\ UNCHANGED <<disk, process, restore, acked, mishaps>>

(* Restore, --latest or --from: every file in backups/ passes              *)
(* PRAGMA integrity_check, the empty one too.                              *)
CheckBackup(b) ==
  /\ pc = "idle"
  /\ begun < MaxRestores
  /\ begun' = begun + 1
  /\ source' = b
  /\ pc' = "copy"
  /\ UNCHANGED <<disk, process, backups, acked, mishaps>>

(* Mutant: the copy goes to dbPath itself.                                 *)
CopyInPlace ==
  /\ pc = "copy"
  /\ base' = [base EXCEPT ![path.file] = backups[source]]
  /\ pc' = "clean"
  /\ UNCHANGED <<log, path, process, backups, source, begun, acked, mishaps>>

(* copyFile(srcPath, tmpPath)                                              *)
Copy ==
  /\ pc = "copy"
  /\ pc' = "clean"
  /\ UNCHANGED <<disk, process, backups, source, begun, acked, mishaps>>

Unwatched == \A p \in Procs : handle[p] = Closed

(* Mutant: the sidecars stay.                                              *)
KeepSidecars ==
  /\ pc = "clean"
  /\ pc' = "rename"
  /\ mishaps' = IF Unwatched THEN mishaps ELSE mishaps \cup {"running"}
  /\ UNCHANGED <<disk, process, backups, source, begun, acked>>

(* os.Remove of the -wal file and of the -shm file, which only indexes it. *)
RemoveSidecars ==
  /\ pc = "clean"
  /\ Files(base, log, [path EXCEPT !.log = NoLog], handle)
  /\ pc' = "rename"
  /\ mishaps' = IF Unwatched THEN mishaps ELSE mishaps \cup {"running"}
  /\ UNCHANGED <<state, backups, source, begun, acked>>

(* os.Rename(tmpPath, dbPath); from here the backup is what counts.        *)
Rename ==
  /\ pc = "rename"
  /\ Files([base EXCEPT ![FreeFile] = backups[source]], log,
           [path EXCEPT !.file = FreeFile], handle)
  /\ acked' = backups[source]
  /\ pc' = "idle" /\ source' = 0
  /\ UNCHANGED <<state, backups, begun, mishaps>>

(* The restore is killed, or one of its steps returns an error.            *)
StopRestore ==
  /\ pc # "idle"
  /\ pc' = "idle" /\ source' = 0
  /\ mishaps' = IF pc = "rename" THEN mishaps \cup {"killed"} ELSE mishaps
  /\ UNCHANGED <<disk, process, backups, begun, acked>>

(* Two -wal files over one main file, or one over the wrong main file: the *)
(* database may be corrupt, and what follows is not modelled.              *)
Sound == "opened" \notin mishaps /\ ~({"running", "killed"} \subseteq mishaps)

Step ==
  \/ \E p \in Procs : \/ Open(p) \/ Validate(p) \/ Seed(p) \/ StoreMemory(p)
                       \/ Checkpoint(p) \/ Reconnect(p) \/ Close(p) \/ Crash(p)
  \/ Backup \/ BackupIncomplete
  \/ \E b \in DOMAIN backups : CheckBackup(b)
  \/ Copy \/ RemoveSidecars \/ Rename \/ StopRestore

Next == Sound /\ Step

Spec == Init /\ [][Next]_vars

-----------------------------------------------------------------------------
(* Nobody reads a main file through the -wal file of another one, and no   *)
(* main file has two -wal files, also when processes run on through a      *)
(* restore.  Left out: a process that opens the path between the removal   *)
(* of the sidecars and the rename, and one that still has the old files    *)
(* open when a restore was killed there.                                   *)
NeverMixed ==
  Sound =>
    \A f, g \in InUse :
      /\ f.log # NoLog => log[f.log].of = f.file
      /\ f.file = g.file /\ f.log # NoLog /\ g.log # NoLog => f.log = g.log

(* What was committed is found, across crashes, backups and restores, and  *)
(* after a restore nothing but the backup: if the processes are stopped    *)
(* while the sidecars are missing, and the restore is not killed then.     *)
NothingLost ==
  mishaps = {} /\ pc # "rename" => View = acked

(* No database that is open or named by the path has two models, and a     *)
(* process that found its model in the database it has open, or seeded it  *)
(* there, keeps finding it, whoever else starts, seeds, backs up, restores *)
(* or dies.  Left out of the second part: a process whose connection was   *)
(* replaced after a restore.  It is "moved", runs on and stores memories   *)
(* in whatever the backup had, another model or none: nothing compares     *)
(* them again.                                                             *)
ModelsAgree ==
  Sound =>
    /\ \A f \in InUse \ {Closed} : \A m, n \in Content(f) \cap Models : m = n
    /\ \A p \in Procs : state[p] = "up" => Config(p) = {Model[p]}
=============================================================================

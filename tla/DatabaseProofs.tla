--------------------------- MODULE DatabaseProofs ---------------------------
(***************************************************************************)
(* Proofs about Database: for any number of processes, models, backups and *)
(* restores, main files and -wal files stay together, what was committed   *)
(* is found, and processes that validated their model agree.               *)
(*                                                                         *)
(* The pairing of files holds because of what surrounds it: if the path    *)
(* has no -wal file, nobody has its main file open (PathAlone), except     *)
(* between the removal of the sidecars and the rename.  Whoever opens the  *)
(* path creates a -wal file only then.                                     *)
(***************************************************************************)
EXTENDS Database, FiniteSetTheorems, SequenceTheorems, WellFoundedInduction, TLAPS

USE DEF NoLog

Logs == [items : SUBSET Items, of : Inodes \cup {0}]

(***************************************************************************)
(* Inodes.  There are always a main file and a -wal file left to create.   *)
(***************************************************************************)
LEMMA InodeNumbers ==
  /\ Cardinality(Procs) \in Nat
  /\ IsFiniteSet(Inodes) /\ Cardinality(Inodes) = Cardinality(Procs) + 2
  /\ Inodes \subseteq Nat /\ 0 \notin Inodes /\ 1 \in Inodes
<1>1. Cardinality(Procs) \in Nat
  BY DatabaseAssumption, FS_CardinalityType DEF DatabaseAssumption
<1>2. QED
  BY <1>1, FS_Interval DEF Inodes

LEMMA LeastNatural ==
  ASSUME NEW T \in SUBSET Nat, T # {}
  PROVE  Min(T) \in T
<1>1. PICK b \in T : \A m \in T : <<m, b>> \notin OpToRel(<, Nat)
  BY NatLessThanWellFounded, WFMin
<1>2. \A m \in T : ~(m < b)
  BY <1>1 DEF OpToRel
<1>3. \A m \in T : b <= m
  BY <1>2
<1>4. QED
  BY <1>3 DEF Min

LEMMA OneIsFree ==
  ASSUME NEW g, g = [p \in Procs |-> g[p]], NEW x
  PROVE  \E i \in Inodes : i # x /\ \A p \in Procs : g[p] # i
<1> DEFINE T == {g[p] : p \in Procs}
<1>1. g \in Surjection(Procs, T)
  BY DEF Surjection
<1>2. IsFiniteSet(T) /\ Cardinality(T) <= Cardinality(Procs)
  BY <1>1, FS_Surjection, DatabaseAssumption DEF DatabaseAssumption
<1>3. Cardinality(T) \in Nat
  BY <1>2, FS_CardinalityType
<1>4. IsFiniteSet(T \cup {x}) /\ Cardinality(T \cup {x}) <= Cardinality(Procs) + 1
  <2> HIDE DEF T
  <2>1. /\ IsFiniteSet(T \cup {x})
        /\ Cardinality(T \cup {x}) = IF x \in T THEN Cardinality(T) ELSE Cardinality(T) + 1
    BY <1>2, FS_AddElement
  <2>2. Cardinality(Procs) \in Nat
    BY InodeNumbers
  <2>3. QED
    BY <1>2, <1>3, <2>1, <2>2
<1>5. Cardinality(T \cup {x}) \in Nat
  BY <1>4, FS_CardinalityType
<1>6. ~(Inodes \subseteq T \cup {x})
  <2> HIDE DEF T
  <2>1. SUFFICES ASSUME Inodes \subseteq T \cup {x} PROVE FALSE
    OBVIOUS
  <2>2. Cardinality(Inodes) <= Cardinality(T \cup {x})
    BY <1>4, <2>1, FS_Subset
  <2>3. QED
    BY <1>4, <1>5, <2>2, InodeNumbers
<1>7. QED
  BY <1>6

LEMMA FreshFile ==
  /\ FreeFile \in Inodes
  /\ path.file # FreeFile
  /\ \A p \in Procs : handle[p].file # FreeFile
<1> DEFINE g == [p \in Procs |-> handle[p].file]
           Free == {i \in Inodes : \A f \in InUse : f.file # i}
<1>1. PICK i \in Inodes : i # path.file /\ \A p \in Procs : g[p] # i
  <2>1. g = [p \in Procs |-> g[p]]
    OBVIOUS
  <2> HIDE DEF g
  <2>2. QED
    BY <2>1, OneIsFree
<1>2. i \in Free
  BY <1>1 DEF InUse
<1>3. Free \in SUBSET Nat
  BY InodeNumbers
<1>4. Min(Free) \in Free
  <2> HIDE DEF Free
  <2>1. QED
    BY <1>2, <1>3, LeastNatural
<1>5. FreeFile = Min(Free)
  BY DEF FreeFile
<1>6. FreeFile \in Free
  BY <1>4, <1>5
<1>7. QED
  BY <1>6 DEF InUse

LEMMA FreshLog ==
  /\ FreeLog \in Inodes
  /\ path.log # FreeLog
  /\ \A p \in Procs : handle[p].log # FreeLog
<1> DEFINE g == [p \in Procs |-> handle[p].log]
           Free == {i \in Inodes : \A f \in InUse : f.log # i}
<1>1. PICK i \in Inodes : i # path.log /\ \A p \in Procs : g[p] # i
  <2>1. g = [p \in Procs |-> g[p]]
    OBVIOUS
  <2> HIDE DEF g
  <2>2. QED
    BY <2>1, OneIsFree
<1>2. i \in Free
  BY <1>1 DEF InUse
<1>3. Free \in SUBSET Nat
  BY InodeNumbers
<1>4. Min(Free) \in Free
  <2> HIDE DEF Free
  <2>1. QED
    BY <1>2, <1>3, LeastNatural
<1>5. FreeLog = Min(Free)
  BY DEF FreeLog
<1>6. FreeLog \in Free
  BY <1>4, <1>5
<1>7. QED
  BY <1>6 DEF InUse

(***************************************************************************)
(* The invariant.                                                          *)
(***************************************************************************)
(* A process has a -wal file with the main file; a restore has a source.   *)
Shape ==
  /\ TypeOK
  /\ \A p \in Procs : handle[p] # Closed => handle[p].log # NoLog
  /\ pc # "idle" => source \in DOMAIN backups

(* NeverMixed, for the path and for each process.                          *)
PathPaired == path.log # NoLog => log[path.log].of = path.file
OpenPaired ==
  \A p \in Procs : handle[p] # Closed =>
    /\ log[handle[p].log].of = handle[p].file
    /\ path.log # NoLog /\ handle[p].file = path.file => handle[p].log = path.log
    /\ \A q \in Procs : handle[q].file = handle[p].file => handle[q].log = handle[p].log

PathAlone ==
  path.log = NoLog /\ pc # "rename" => \A p \in Procs : handle[p].file # path.file

(* Between the removal of the sidecars and the rename.                     *)
Uncovered ==
  pc = "rename" => path.log = NoLog /\ ("running" \notin mishaps => Unwatched)

Agreed == \A p \in Procs : state[p] = "up" => Config(p) = {Model[p]}

SoundInv == Sound => PathPaired /\ OpenPaired /\ PathAlone /\ Uncovered /\ Agreed

(* Without a mishap all processes have the files of the path open.         *)
CalmInv ==
  mishaps = {} =>
    /\ \A p \in Procs : handle[p] \in {Closed, path}
    /\ pc # "rename" => View = acked

Inv == Shape /\ SoundInv /\ CalmInv

(***************************************************************************)
(* What the files are.                                                     *)
(***************************************************************************)
LEMMA PathFiles ==
  ASSUME TypeOK
  PROVE  /\ path.file \in Inodes /\ path.log \in Inodes \cup {NoLog}
         /\ path = [file |-> path.file, log |-> path.log]
BY DEF TypeOK, Names

LEMMA OpenFiles ==
  ASSUME Shape, NEW p \in Procs, handle[p] # Closed
  PROVE  /\ handle[p] \in Names
         /\ handle[p].file \in Inodes /\ handle[p].log \in Inodes
         /\ handle[p].log # NoLog
         /\ handle[p] = [file |-> handle[p].file, log |-> handle[p].log]
BY DEF Shape, TypeOK, Names

LEMMA ClosedFiles ==
  ASSUME NEW p \in Procs, handle[p] = Closed
  PROVE  handle[p].file = 0 /\ handle[p].log = NoLog
BY DEF Closed

(* The effect of Files, seen through the files that remain.                *)
LEMMA FilesEffect ==
  ASSUME NEW b \in [Inodes -> SUBSET Items], NEW l \in [Inodes -> Logs],
         NEW n \in Names, NEW h \in [Procs -> Names \cup {Closed}],
         Files(b, l, n, h)
  PROVE  /\ base' \in [Inodes -> SUBSET Items] /\ log' \in [Inodes -> Logs]
         /\ path' = n /\ handle' = h
         /\ base'[n.file] = b[n.file]
         /\ n.log # NoLog => log'[n.log] = l[n.log]
         /\ \A p \in Procs : h[p] # Closed =>
              /\ base'[h[p].file] = b[h[p].file]
              /\ h[p].log # NoLog => log'[h[p].log] = l[h[p].log]
<1> DEFINE inUse == {n} \cup {h[p] : p \in Procs}
<1>1. /\ base' = [i \in Inodes |-> IF \E f \in inUse : f.file = i THEN b[i] ELSE {}]
      /\ log' = [i \in Inodes |-> IF \E f \in inUse : f.log = i THEN l[i] ELSE Gone]
      /\ path' = n /\ handle' = h
  BY DEF Files
<1>2. \A f \in inUse : f.file \in Inodes => base'[f.file] = b[f.file]
  BY <1>1
<1>3. \A f \in inUse : f.log \in Inodes => log'[f.log] = l[f.log]
  BY <1>1
<1>4. Gone \in Logs
  BY DEF Gone, Logs
<1>5. \A f \in Names : f.file \in Inodes /\ f.log \in Inodes \cup {NoLog}
  BY DEF Names
<1>6. n \in inUse /\ \A p \in Procs : h[p] \in inUse
  OBVIOUS
<1>7. \A p \in Procs : h[p] # Closed => h[p] \in Names
  OBVIOUS
<1>8. base' \in [Inodes -> SUBSET Items]
  BY <1>1
<1>9. log' \in [Inodes -> Logs]
  BY <1>1, <1>4
<1> HIDE DEF inUse
<1>10. QED
  BY <1>1, <1>2, <1>3, <1>5, <1>6, <1>7, <1>8, <1>9

LEMMA MishapsStay ==
  ASSUME TypeOK, Next
  PROVE  /\ mishaps \subseteq mishaps' /\ mishaps' \subseteq {"opened", "running", "killed"}
         /\ Sound' => Sound
         /\ mishaps' = {} => mishaps = {}
<1>1. mishaps \subseteq mishaps'
  BY DEF TypeOK, Next, Step, Open, Validate, Seed, StoreMemory, Checkpoint, Reconnect,
     Close, Crash, Attach, Backup, BackupIncomplete, CheckBackup, Copy, RemoveSidecars,
     Rename, StopRestore
<1>2. mishaps' \subseteq {"opened", "running", "killed"}
  BY DEF TypeOK, Next, Step, Open, Validate, Seed, StoreMemory, Checkpoint, Reconnect,
     Close, Crash, Attach, Backup, BackupIncomplete, CheckBackup, Copy, RemoveSidecars,
     Rename, StopRestore
<1>3. QED
  BY <1>1, <1>2 DEF Sound

(***************************************************************************)
(* Shape.                                                                  *)
(***************************************************************************)
LEMMA Contents ==
  ASSUME TypeOK, NEW f \in Names
  PROVE  Content(f) \subseteq Items
BY DEF TypeOK, Content, Names, Logs

LEMMA AttachedFiles ==
  ASSUME TypeOK, NEW l \in [Inodes -> Logs]
  PROVE  /\ Attached \in Names /\ Attached.file = path.file
         /\ Attached.log \in Inodes /\ Attached.log # NoLog
         /\ path.log # NoLog => Attached = path /\ WithLog(l) = l
         /\ path.log = NoLog =>
              /\ Attached.log = FreeLog
              /\ WithLog(l) = [l EXCEPT ![FreeLog] = [items |-> {}, of |-> path.file]]
         /\ WithLog(l) \in [Inodes -> Logs]
<1>1. path.file \in Inodes /\ path.log \in Inodes \cup {NoLog} /\ path \in Names
  BY PathFiles DEF TypeOK
<1>2. FreeLog \in Inodes /\ 0 \notin Inodes
  BY FreshLog, InodeNumbers
<1>3. [items |-> {}, of |-> path.file] \in Logs
  BY <1>1 DEF Logs
<1>4. CASE path.log = NoLog
  <2>1. /\ Attached = [path EXCEPT !.log = FreeLog]
        /\ WithLog(l) = [l EXCEPT ![FreeLog] = [items |-> {}, of |-> path.file]]
    BY <1>4 DEF Attached, WithLog
  <2>2. Attached \in Names /\ Attached.file = path.file /\ Attached.log = FreeLog
    BY <1>1, <1>2, <2>1 DEF Names
  <2>3. QED
    BY <1>2, <1>3, <1>4, <2>1, <2>2
<1>5. CASE path.log # NoLog
  BY <1>1, <1>2, <1>5 DEF Attached, WithLog
<1>6. QED
  BY <1>4, <1>5

LEMMA FoldedFiles ==
  ASSUME Shape, NEW p \in Procs, handle[p] # Closed
  PROVE  /\ Folded(p) \in [Inodes -> SUBSET Items]
         /\ Emptied(p) \in [Inodes -> Logs]
         /\ \A i \in Inodes : Emptied(p)[i].of = log[i].of
         /\ \A i \in Inodes : i # handle[p].file => Folded(p)[i] = base[i]
         /\ \A i \in Inodes : i # handle[p].log => Emptied(p)[i] = log[i]
         /\ ~Last(p) => Folded(p) = base /\ Emptied(p) = log
         /\ Last(p) => Folded(p)[handle[p].file] = Content(handle[p])
<1>1. handle[p] \in Names /\ handle[p].file \in Inodes /\ handle[p].log \in Inodes
  BY OpenFiles
<1>2. base \in [Inodes -> SUBSET Items] /\ log \in [Inodes -> Logs]
  BY DEF Shape, TypeOK, Logs
<1>3. Content(handle[p]) \subseteq Items
  BY <1>1, Contents DEF Shape
<1>4. [log[handle[p].log] EXCEPT !.items = {}] \in Logs
  BY <1>1, <1>2 DEF Logs
<1>5. [log[handle[p].log] EXCEPT !.items = {}].of = log[handle[p].log].of
  BY <1>1, <1>2 DEF Logs
<1>6. CASE Last(p)
  <2>1. Folded(p) = [base EXCEPT ![handle[p].file] = Content(handle[p])]
    BY <1>6 DEF Folded
  <2>2. Emptied(p) = [log EXCEPT ![handle[p].log] = [log[handle[p].log] EXCEPT !.items = {}]]
    BY <1>6 DEF Emptied
  <2>3. QED
    BY <1>1, <1>2, <1>3, <1>4, <1>5, <1>6, <2>1, <2>2
<1>7. CASE ~Last(p)
  BY <1>1, <1>2, <1>7 DEF Folded, Emptied
<1>8. QED
  BY <1>6, <1>7

LEMMA AttachTypes ==
  ASSUME Shape, NEW p \in Procs,
         NEW b \in [Inodes -> SUBSET Items], NEW l \in [Inodes -> Logs],
         Attach(p, b, l)
  PROVE  /\ base' \in [Inodes -> SUBSET Items] /\ log' \in [Inodes -> Logs]
         /\ path' = Attached /\ handle' = [handle EXCEPT ![p] = Attached]
         /\ handle' \in [Procs -> Names \cup {Closed}]
         /\ base'[path.file] = b[path.file]
         /\ log'[Attached.log] = WithLog(l)[Attached.log]
         /\ \A q \in Procs \ {p} : handle[q] # Closed =>
              /\ base'[handle[q].file] = b[handle[q].file]
              /\ log'[handle[q].log] = WithLog(l)[handle[q].log]
<1> DEFINE h == [handle EXCEPT ![p] = Attached]
<1>1. /\ Attached \in Names /\ WithLog(l) \in [Inodes -> Logs]
      /\ Attached.file = path.file /\ Attached.log # NoLog
  BY AttachedFiles DEF Shape
<1>2. h \in [Procs -> Names \cup {Closed}] /\ \A q \in Procs \ {p} : h[q] = handle[q]
  BY <1>1 DEF Shape, TypeOK
<1>3. Files(b, WithLog(l), Attached, h)
  BY DEF Attach
<1>4. \A q \in Procs : handle[q] # Closed => handle[q].log # NoLog
  BY DEF Shape
<1> HIDE DEF h
<1>5. /\ base' \in [Inodes -> SUBSET Items] /\ log' \in [Inodes -> Logs]
      /\ path' = Attached /\ handle' = h
      /\ base'[Attached.file] = b[Attached.file]
      /\ Attached.log # NoLog => log'[Attached.log] = WithLog(l)[Attached.log]
      /\ \A q \in Procs : h[q] # Closed =>
           /\ base'[h[q].file] = b[h[q].file]
           /\ h[q].log # NoLog => log'[h[q].log] = WithLog(l)[h[q].log]
  BY <1>1, <1>2, <1>3, FilesEffect
<1>6. \A q \in Procs \ {p} : handle[q] # Closed =>
        /\ base'[handle[q].file] = b[handle[q].file]
        /\ log'[handle[q].log] = WithLog(l)[handle[q].log]
  BY <1>2, <1>4, <1>5
<1>7. handle' = [handle EXCEPT ![p] = Attached]
  BY <1>5 DEF h
<1>8. QED
  BY <1>1, <1>2, <1>5, <1>6, <1>7

(* The path after p has closed its files.                                  *)
Left(p) == IF Last(p) /\ path.log = handle[p].log
           THEN [path EXCEPT !.log = NoLog] ELSE path

LEMMA DetachTypes ==
  ASSUME Shape, NEW p \in Procs, handle[p] # Closed, Detach(p)
  PROVE  /\ base' \in [Inodes -> SUBSET Items] /\ log' \in [Inodes -> Logs]
         /\ path' = Left(p) /\ path' \in Names /\ path'.file = path.file
         /\ handle' = [handle EXCEPT ![p] = Closed]
         /\ handle' \in [Procs -> Names \cup {Closed}]
         /\ base'[path.file] = Folded(p)[path.file]
         /\ path'.log # NoLog => log'[path'.log] = Emptied(p)[path'.log]
         /\ \A q \in Procs \ {p} : handle[q] # Closed =>
              /\ base'[handle[q].file] = Folded(p)[handle[q].file]
              /\ log'[handle[q].log] = Emptied(p)[handle[q].log]
<1> DEFINE h == [handle EXCEPT ![p] = Closed]
<1>1. /\ Folded(p) \in [Inodes -> SUBSET Items] /\ Emptied(p) \in [Inodes -> Logs]
  BY FoldedFiles
<1>2. Left(p) \in Names /\ Left(p).file = path.file
  BY PathFiles DEF Left, Shape, TypeOK, Names
<1>3. h \in [Procs -> Names \cup {Closed}] /\ \A q \in Procs \ {p} : h[q] = handle[q]
  BY DEF Shape, TypeOK
<1>4. Files(Folded(p), Emptied(p), Left(p), h)
  BY DEF Detach, Left
<1>5. \A q \in Procs : handle[q] # Closed => handle[q].log # NoLog
  BY DEF Shape
<1> HIDE DEF h
<1>6. /\ base' \in [Inodes -> SUBSET Items] /\ log' \in [Inodes -> Logs]
      /\ path' = Left(p) /\ handle' = h
      /\ base'[Left(p).file] = Folded(p)[Left(p).file]
      /\ Left(p).log # NoLog => log'[Left(p).log] = Emptied(p)[Left(p).log]
      /\ \A q \in Procs : h[q] # Closed =>
           /\ base'[h[q].file] = Folded(p)[h[q].file]
           /\ h[q].log # NoLog => log'[h[q].log] = Emptied(p)[h[q].log]
  BY <1>1, <1>2, <1>3, <1>4, FilesEffect
<1>7. \A q \in Procs \ {p} : handle[q] # Closed =>
        /\ base'[handle[q].file] = Folded(p)[handle[q].file]
        /\ log'[handle[q].log] = Emptied(p)[handle[q].log]
  BY <1>3, <1>5, <1>6
<1>8. handle' = [handle EXCEPT ![p] = Closed]
  BY <1>6 DEF h
<1>9. QED
  BY <1>2, <1>3, <1>6, <1>7, <1>8

LEMMA InitShape == Init => Shape
<1>1. Gone \in Logs /\ NoLog \in Inodes \cup {NoLog}
  BY DEF Gone, Logs
<1>2. MaxRestores \in Nat
  BY DatabaseAssumption DEF DatabaseAssumption
<1>3. Closed \in {Closed} /\ <<>> \in Seq(SUBSET Items) /\ Len(<<>>) = 0
  OBVIOUS
<1>4. QED
  BY <1>1, <1>2, <1>3, InodeNumbers DEF Init, Shape, TypeOK, Names, Logs

LEMMA ProcessShape ==
  ASSUME Shape, NEW p \in Procs, NEW h \in Names \cup {Closed},
         NEW s \in {"down", "starting", "seeding", "up", "moved"},
         s = "down" <=> h = Closed, h # Closed => h.log # NoLog,
         handle' = [handle EXCEPT ![p] = h], state' = [state EXCEPT ![p] = s]
  PROVE  /\ handle' \in [Procs -> Names \cup {Closed}]
         /\ state' \in [Procs -> {"down", "starting", "seeding", "up", "moved"}]
         /\ \A q \in Procs : state'[q] = "down" <=> handle'[q] = Closed
         /\ \A q \in Procs : handle'[q] # Closed => handle'[q].log # NoLog
<1>1. /\ handle \in [Procs -> Names \cup {Closed}]
      /\ state \in [Procs -> {"down", "starting", "seeding", "up", "moved"}]
      /\ \A q \in Procs : state[q] = "down" <=> handle[q] = Closed
      /\ \A q \in Procs : handle[q] # Closed => handle[q].log # NoLog
  BY DEF Shape, TypeOK
<1>2. handle'[p] = h /\ state'[p] = s
  BY <1>1
<1>3. \A q \in Procs \ {p} : handle'[q] = handle[q] /\ state'[q] = state[q]
  BY <1>1
<1>4. /\ handle' \in [Procs -> Names \cup {Closed}]
      /\ state' \in [Procs -> {"down", "starting", "seeding", "up", "moved"}]
  BY <1>1
<1>5. QED
  BY <1>1, <1>2, <1>3, <1>4

(* A copy of a backup that is taken is a backup.                           *)
LEMMA BackupShape ==
  ASSUME Shape, NEW c \in SUBSET Items, backups' = Append(backups, c)
  PROVE  /\ backups' \in Seq(SUBSET Items)
         /\ source \in 0..Len(backups')
         /\ pc # "idle" => source \in DOMAIN backups'
<1>1. backups \in Seq(SUBSET Items) /\ source \in 0..Len(backups)
  BY DEF Shape, TypeOK
<1>2. backups' \in Seq(SUBSET Items) /\ Len(backups') = Len(backups) + 1
  BY <1>1, AppendProperties
<1>3. pc # "idle" => source \in 1..Len(backups)
  BY <1>1 DEF Shape
<1>4. Len(backups) \in Nat /\ DOMAIN backups' = 1..Len(backups')
  BY <1>1, <1>2
<1>5. QED
  BY <1>1, <1>2, <1>3, <1>4

LEMMA ModelIsItem ==
  ASSUME NEW p \in Procs
  PROVE  Model[p] \in Models /\ Model[p] \in Items /\ Model[p] \notin Rows
BY DatabaseAssumption DEF DatabaseAssumption, Items, Rows

LEMMA CommitTypes ==
  ASSUME Shape, NEW p \in Procs, handle[p] # Closed, NEW item \in Items, Commit(p, item)
  PROVE  /\ log' \in [Inodes -> Logs] /\ acked' \subseteq Items
         /\ base' = base /\ path' = path /\ handle' = handle
         /\ \A i \in Inodes : log'[i].of = log[i].of
         /\ \A i \in Inodes : i # handle[p].log => log'[i] = log[i]
         /\ log'[handle[p].log].items = log[handle[p].log].items \cup {item}
<1>1. handle[p].log \in Inodes /\ log \in [Inodes -> Logs]
  BY OpenFiles DEF Shape, TypeOK, Logs
<1> DEFINE r == [log[handle[p].log] EXCEPT !.items = @ \cup {item}]
<1>2. log' = [log EXCEPT ![handle[p].log] = r]
  BY DEF Commit
<1>3. /\ r \in Logs /\ r.of = log[handle[p].log].of
      /\ r.items = log[handle[p].log].items \cup {item}
  BY <1>1 DEF Logs
<1>4. acked' \subseteq Items /\ base' = base /\ path' = path /\ handle' = handle
  BY DEF Commit, Shape, TypeOK
<1> HIDE DEF r
<1>5. QED
  BY <1>1, <1>2, <1>3, <1>4

LEMMA CheckpointTypes ==
  ASSUME Shape, NEW p \in Procs, Checkpoint(p)
  PROVE  /\ base' \in [Inodes -> SUBSET Items] /\ log' \in [Inodes -> Logs]
         /\ \A i \in Inodes : log'[i].of = log[i].of
         /\ \A i \in Inodes : i # handle[p].file => base'[i] = base[i]
         /\ \A i \in Inodes : i # handle[p].log => log'[i] = log[i]
         /\ base'[handle[p].file] = Content(handle[p])
         /\ log'[handle[p].log].items = {}
<1>1. /\ handle[p] # Closed /\ handle[p] \in Names
      /\ handle[p].file \in Inodes /\ handle[p].log \in Inodes
  BY OpenFiles DEF Checkpoint
<1>2. base \in [Inodes -> SUBSET Items] /\ log \in [Inodes -> Logs]
  BY DEF Shape, TypeOK, Logs
<1>3. Content(handle[p]) \subseteq Items
  BY <1>1, Contents DEF Shape
<1> DEFINE r == [log[handle[p].log] EXCEPT !.items = {}]
<1>4. /\ base' = [base EXCEPT ![handle[p].file] = Content(handle[p])]
      /\ log' = [log EXCEPT ![handle[p].log] = r]
  BY DEF Checkpoint
<1>5. r \in Logs /\ r.of = log[handle[p].log].of /\ r.items = {}
  BY <1>1, <1>2 DEF Logs
<1> HIDE DEF r
<1>6. QED
  BY <1>1, <1>2, <1>3, <1>4, <1>5

Rest == <<backups, restore>>

LEMMA ProcessStepShape ==
  ASSUME Shape, NEW p \in Procs, NEW h \in Names \cup {Closed},
         NEW s \in {"down", "starting", "seeding", "up", "moved"},
         s = "down" <=> h = Closed, h # Closed => h.log # NoLog,
         handle' = [handle EXCEPT ![p] = h], state' = [state EXCEPT ![p] = s],
         base' \in [Inodes -> SUBSET Items], log' \in [Inodes -> Logs], path' \in Names,
         UNCHANGED Rest, acked' \subseteq Items,
         mishaps' \subseteq {"opened", "running", "killed"}
  PROVE  Shape'
<1>1. /\ handle' \in [Procs -> Names \cup {Closed}]
      /\ state' \in [Procs -> {"down", "starting", "seeding", "up", "moved"}]
      /\ \A q \in Procs : state'[q] = "down" <=> handle'[q] = Closed
      /\ \A q \in Procs : handle'[q] # Closed => handle'[q].log # NoLog
  BY ProcessShape
<1>2. backups' = backups /\ pc' = pc /\ source' = source /\ begun' = begun
  BY DEF Rest, restore
<1>3. QED
  BY <1>1, <1>2 DEF Shape, TypeOK, Logs

LEMMA DetachShape ==
  ASSUME Shape, NEW p \in Procs, handle[p] # Closed, Detach(p), UNCHANGED Rest,
         UNCHANGED acked, UNCHANGED mishaps
  PROVE  Shape'
<1>1. /\ base' \in [Inodes -> SUBSET Items] /\ log' \in [Inodes -> Logs]
      /\ path' \in Names /\ handle' = [handle EXCEPT ![p] = Closed]
  BY DetachTypes
<1>2. state' = [state EXCEPT ![p] = "down"]
  BY DEF Detach
<1>3. acked' \subseteq Items /\ mishaps' \subseteq {"opened", "running", "killed"}
  BY DEF Shape, TypeOK
<1>4. QED
  BY <1>1, <1>2, <1>3, ProcessStepShape

LEMMA AttachShape ==
  ASSUME Shape, NEW p \in Procs,
         NEW b \in [Inodes -> SUBSET Items], NEW l \in [Inodes -> Logs], Attach(p, b, l),
         NEW s \in {"starting", "up", "moved", "seeding"}, state' = [state EXCEPT ![p] = s],
         UNCHANGED Rest, UNCHANGED acked
  PROVE  Shape'
<1>1. /\ base' \in [Inodes -> SUBSET Items] /\ log' \in [Inodes -> Logs]
      /\ path' = Attached /\ handle' = [handle EXCEPT ![p] = Attached]
  BY AttachTypes
<1>2. Attached \in Names /\ Attached.log # NoLog
  BY AttachedFiles DEF Shape, TypeOK, Logs
<1>3. Attached # Closed
  BY <1>2 DEF Closed
<1>4. acked' \subseteq Items /\ mishaps' \subseteq {"opened", "running", "killed"}
  BY DEF Shape, TypeOK, Attach
<1>5. s # "down" /\ s \in {"down", "starting", "seeding", "up", "moved"}
  OBVIOUS
<1>6. QED
  BY <1>1, <1>2, <1>3, <1>4, <1>5, ProcessStepShape

LEMMA ProcessesShape ==
  ASSUME Shape, NEW p \in Procs,
         Open(p) \/ Validate(p) \/ Seed(p) \/ StoreMemory(p)
           \/ Checkpoint(p) \/ Reconnect(p) \/ Close(p) \/ Crash(p)
  PROVE  Shape'
<1>1. /\ base \in [Inodes -> SUBSET Items] /\ log \in [Inodes -> Logs] /\ path \in Names
      /\ handle \in [Procs -> Names \cup {Closed}]
      /\ state \in [Procs -> {"down", "starting", "seeding", "up", "moved"}]
      /\ acked \subseteq Items /\ mishaps \subseteq {"opened", "running", "killed"}
      /\ state[p] = "down" <=> handle[p] = Closed
      /\ handle[p] # Closed => handle[p].log # NoLog
  BY DEF Shape, TypeOK, Logs
<1>2. CASE Open(p)
  BY <1>1, <1>2, AttachShape DEF Open, Rest
<1>3. CASE Validate(p)
  <2>1. UNCHANGED Rest /\ UNCHANGED acked /\ UNCHANGED mishaps /\ handle[p] # Closed
    BY <1>1, <1>3 DEF Validate, Rest
  <2>2. CASE Detach(p)
    BY <2>1, <2>2, DetachShape
  <2>3. CASE ~Detach(p)
    <3> DEFINE s == IF Config(p) = {} THEN "seeding" ELSE "up"
    <3>1. state' = [state EXCEPT ![p] = s] /\ UNCHANGED disk /\ UNCHANGED handle
      BY <1>3, <2>3 DEF Validate
    <3>2. handle' = [handle EXCEPT ![p] = handle[p]]
      BY <1>1, <3>1
    <3>3. s # "down" /\ s \in {"down", "starting", "seeding", "up", "moved"}
      OBVIOUS
    <3> HIDE DEF s
    <3>4. QED
      BY <1>1, <2>1, <3>1, <3>2, <3>3, ProcessStepShape DEF disk
  <2>4. QED
    BY <2>2, <2>3
<1>4. CASE Seed(p)
  <2>1. UNCHANGED Rest /\ UNCHANGED mishaps /\ handle[p] # Closed
    BY <1>1, <1>4 DEF Seed, Rest
  <2>2. CASE Config(p) = {}
    <3>1. Commit(p, Model[p]) /\ state' = [state EXCEPT ![p] = "up"]
      BY <1>4, <2>2 DEF Seed
    <3>2. /\ log' \in [Inodes -> Logs] /\ acked' \subseteq Items
          /\ base' = base /\ path' = path /\ handle' = handle
      BY <2>1, <3>1, CommitTypes, ModelIsItem
    <3>3. handle' = [handle EXCEPT ![p] = handle[p]]
      BY <1>1, <3>2
    <3>4. QED
      BY <1>1, <2>1, <3>1, <3>2, <3>3, ProcessStepShape
  <2>3. CASE Config(p) # {}
    BY <1>4, <2>1, <2>3, DetachShape DEF Seed
  <2>4. QED
    BY <2>2, <2>3
<1>5. CASE StoreMemory(p)
  <2>1. UNCHANGED Rest /\ UNCHANGED mishaps /\ UNCHANGED state /\ handle[p] # Closed
    BY <1>1, <1>5 DEF StoreMemory, Rest, Running
  <2>2. PICK row \in Rows : Commit(p, row)
    BY <1>5 DEF StoreMemory
  <2>3. /\ log' \in [Inodes -> Logs] /\ acked' \subseteq Items
        /\ base' = base /\ path' = path /\ handle' = handle
    BY <2>1, <2>2, CommitTypes DEF Items
  <2>4. /\ handle' = [handle EXCEPT ![p] = handle[p]]
        /\ state' = [state EXCEPT ![p] = state[p]]
    BY <1>1, <2>1, <2>3
  <2>5. QED
    BY <1>1, <2>1, <2>3, <2>4, ProcessStepShape
<1>6. CASE Checkpoint(p)
  <2>1. /\ UNCHANGED Rest /\ UNCHANGED mishaps /\ UNCHANGED state /\ UNCHANGED handle
        /\ UNCHANGED path /\ UNCHANGED acked
    BY <1>6 DEF Checkpoint, Rest, process
  <2>2. base' \in [Inodes -> SUBSET Items] /\ log' \in [Inodes -> Logs]
    BY <1>6, CheckpointTypes
  <2>3. /\ handle' = [handle EXCEPT ![p] = handle[p]]
        /\ state' = [state EXCEPT ![p] = state[p]]
    BY <1>1, <2>1
  <2>4. QED
    BY <1>1, <2>1, <2>2, <2>3, ProcessStepShape
<1>7. CASE Reconnect(p)
  <2> DEFINE s == IF path.file = handle[p].file THEN state[p] ELSE "moved"
  <2>1. /\ UNCHANGED Rest /\ UNCHANGED acked /\ handle[p] # Closed
        /\ Attach(p, Folded(p), Emptied(p)) /\ state[p] \in {"up", "moved"}
        /\ state' = [state EXCEPT ![p] = s]
    BY <1>1, <1>7 DEF Reconnect, Running, Rest
  <2>2. Folded(p) \in [Inodes -> SUBSET Items] /\ Emptied(p) \in [Inodes -> Logs]
    BY <2>1, FoldedFiles
  <2>3. s \in {"starting", "up", "moved", "seeding"}
    BY <2>1
  <2> HIDE DEF s
  <2>4. QED
    BY <2>1, <2>2, <2>3, AttachShape
<1>8. CASE Close(p)
  BY <1>8, DetachShape DEF Close, Rest
<1>9. CASE Crash(p)
  <2> DEFINE h == [handle EXCEPT ![p] = Closed]
  <2>1. /\ UNCHANGED Rest /\ UNCHANGED acked /\ UNCHANGED mishaps
        /\ Files(base, log, path, h) /\ state' = [state EXCEPT ![p] = "down"]
    BY <1>9 DEF Crash, Rest
  <2>2. h \in [Procs -> Names \cup {Closed}]
    BY <1>1
  <2> HIDE DEF h
  <2>3. /\ base' \in [Inodes -> SUBSET Items] /\ log' \in [Inodes -> Logs]
        /\ path' = path /\ handle' = h
    BY <1>1, <2>1, <2>2, FilesEffect
  <2>4. handle' = [handle EXCEPT ![p] = Closed]
    BY <2>3 DEF h
  <2>5. QED
    BY <1>1, <2>1, <2>3, <2>4, ProcessStepShape
<1>10. QED
  BY <1>2, <1>3, <1>4, <1>5, <1>6, <1>7, <1>8, <1>9

LEMMA BackupTypes ==
  ASSUME Shape, Backup
  PROVE  /\ base' \in [Inodes -> SUBSET Items] /\ log' \in [Inodes -> Logs]
         /\ path' \in Names /\ path'.file = path.file
         /\ View \subseteq Items /\ handle' = handle /\ state' = state
<1>1. /\ base \in [Inodes -> SUBSET Items] /\ log \in [Inodes -> Logs] /\ path \in Names
  BY DEF Shape, TypeOK, Logs
<1>2. View \subseteq Items
  BY <1>1, Contents DEF View, Shape
<1>3. Gone \in Logs
  BY DEF Gone, Logs
<1>4. UNCHANGED disk \/
      /\ base' = [base EXCEPT ![path.file] = View]
      /\ log' = [log EXCEPT ![path.log] = Gone]
      /\ path' = [path EXCEPT !.log = NoLog]
  BY DEF Backup
<1>5. [path EXCEPT !.log = NoLog] \in Names /\ [path EXCEPT !.log = NoLog].file = path.file
  BY <1>1 DEF Names
<1>6. handle' = handle /\ state' = state
  BY DEF Backup, process
<1>7. QED
  BY <1>1, <1>2, <1>3, <1>4, <1>5, <1>6 DEF disk

LEMMA SidecarTypes ==
  ASSUME Shape, RemoveSidecars
  PROVE  /\ base' \in [Inodes -> SUBSET Items] /\ log' \in [Inodes -> Logs]
         /\ path' \in Names /\ path' = [path EXCEPT !.log = NoLog]
         /\ path'.file = path.file /\ path'.log = NoLog /\ handle' = handle
         /\ \A q \in Procs : handle[q] # Closed =>
              base'[handle[q].file] = base[handle[q].file] /\ log'[handle[q].log] = log[handle[q].log]
<1>1. /\ base \in [Inodes -> SUBSET Items] /\ log \in [Inodes -> Logs] /\ path \in Names
      /\ handle \in [Procs -> Names \cup {Closed}]
      /\ \A q \in Procs : handle[q] # Closed => handle[q].log # NoLog
  BY DEF Shape, TypeOK, Logs
<1> DEFINE n == [path EXCEPT !.log = NoLog]
<1>2. n \in Names /\ n.file = path.file /\ n.log = NoLog
  BY <1>1 DEF Names
<1>3. Files(base, log, n, handle)
  BY DEF RemoveSidecars
<1> HIDE DEF n
<1>4. /\ base' \in [Inodes -> SUBSET Items] /\ log' \in [Inodes -> Logs]
      /\ path' = n /\ handle' = handle
      /\ \A q \in Procs : handle[q] # Closed =>
           /\ base'[handle[q].file] = base[handle[q].file]
           /\ handle[q].log # NoLog => log'[handle[q].log] = log[handle[q].log]
  BY <1>1, <1>2, <1>3, FilesEffect
<1>5. path' = [path EXCEPT !.log = NoLog]
  BY <1>4 DEF n
<1>6. QED
  BY <1>1, <1>2, <1>4, <1>5

LEMMA RenameTypes ==
  ASSUME Shape, Rename
  PROVE  /\ base' \in [Inodes -> SUBSET Items] /\ log' \in [Inodes -> Logs]
         /\ path' \in Names /\ path'.file = FreeFile /\ path'.log = path.log
         /\ handle' = handle
         /\ backups[source] \subseteq Items /\ base'[FreeFile] = backups[source]
         /\ \A q \in Procs : handle[q] # Closed =>
              base'[handle[q].file] = base[handle[q].file] /\ log'[handle[q].log] = log[handle[q].log]
<1>1. /\ base \in [Inodes -> SUBSET Items] /\ log \in [Inodes -> Logs] /\ path \in Names
      /\ handle \in [Procs -> Names \cup {Closed}] /\ backups \in Seq(SUBSET Items)
      /\ \A q \in Procs : handle[q] # Closed => handle[q].log # NoLog
  BY DEF Shape, TypeOK, Logs
<1> DEFINE n == [path EXCEPT !.file = FreeFile]
           b == [base EXCEPT ![FreeFile] = backups[source]]
<1>2. n \in Names /\ n.file = FreeFile /\ n.log = path.log
  BY <1>1, FreshFile DEF Names
<1>3. source \in DOMAIN backups
  BY DEF Rename, Shape
<1>4. backups[source] \subseteq Items
  BY <1>1, <1>3
<1>5. /\ b \in [Inodes -> SUBSET Items] /\ b[FreeFile] = backups[source]
      /\ \A q \in Procs : handle[q] # Closed => b[handle[q].file] = base[handle[q].file]
  BY <1>1, <1>4, FreshFile, OpenFiles
<1>6. Files(b, log, n, handle)
  BY DEF Rename
<1> HIDE DEF n, b
<1>7. /\ base' \in [Inodes -> SUBSET Items] /\ log' \in [Inodes -> Logs]
      /\ path' = n /\ handle' = handle /\ base'[n.file] = b[n.file]
      /\ \A q \in Procs : handle[q] # Closed =>
           /\ base'[handle[q].file] = b[handle[q].file]
           /\ handle[q].log # NoLog => log'[handle[q].log] = log[handle[q].log]
  BY <1>1, <1>2, <1>5, <1>6, FilesEffect
<1>8. QED
  BY <1>1, <1>2, <1>4, <1>5, <1>7

LEMMA AdminShape ==
  ASSUME Shape,
         \/ Backup \/ BackupIncomplete \/ (\E b \in DOMAIN backups : CheckBackup(b))
         \/ Copy \/ RemoveSidecars \/ Rename \/ StopRestore
  PROVE  Shape'
<1>1. /\ base \in [Inodes -> SUBSET Items] /\ log \in [Inodes -> Logs] /\ path \in Names
      /\ handle \in [Procs -> Names \cup {Closed}]
      /\ state \in [Procs -> {"down", "starting", "seeding", "up", "moved"}]
      /\ acked \subseteq Items /\ mishaps \subseteq {"opened", "running", "killed"}
      /\ \A q \in Procs : state[q] = "down" <=> handle[q] = Closed
      /\ \A q \in Procs : handle[q] # Closed => handle[q].log # NoLog
      /\ backups \in Seq(SUBSET Items) /\ pc \in {"idle", "copy", "clean", "rename"}
      /\ source \in 0..Len(backups) /\ begun \in 0..MaxRestores
      /\ pc # "idle" => source \in DOMAIN backups
  BY DEF Shape, TypeOK, Logs
<1>2. Len(backups) \in Nat /\ DOMAIN backups = 1..Len(backups) /\ MaxRestores \in Nat
  BY <1>1, DatabaseAssumption DEF DatabaseAssumption
<1>3. CASE Backup
  <2>1. /\ base' \in [Inodes -> SUBSET Items] /\ log' \in [Inodes -> Logs]
        /\ path' \in Names /\ handle' = handle /\ state' = state /\ View \in SUBSET Items
    BY <1>3, BackupTypes
  <2>2. /\ backups' = Append(backups, View) /\ UNCHANGED <<pc, source, begun, acked>>
        /\ mishaps' \subseteq {"opened", "running", "killed"}
    BY <1>1, <1>3 DEF Backup, restore
  <2>3. /\ backups' \in Seq(SUBSET Items) /\ source \in 0..Len(backups')
        /\ pc # "idle" => source \in DOMAIN backups'
    BY <2>1, <2>2, BackupShape
  <2>4. QED
    BY <1>1, <2>1, <2>2, <2>3 DEF Shape, TypeOK, Logs
<1>4. CASE BackupIncomplete
  <2>1. /\ backups' = Append(backups, {}) /\ UNCHANGED <<pc, source, begun, acked, mishaps>>
        /\ UNCHANGED <<base, log, path, handle, state>>
    BY <1>4 DEF BackupIncomplete, restore, disk, process
  <2>2. {} \in SUBSET Items
    OBVIOUS
  <2>3. /\ backups' \in Seq(SUBSET Items) /\ source \in 0..Len(backups')
        /\ pc # "idle" => source \in DOMAIN backups'
    BY <2>1, <2>2, BackupShape
  <2>4. QED
    BY <1>1, <2>1, <2>3 DEF Shape, TypeOK, Logs
<1>5. ASSUME NEW b \in DOMAIN backups, CheckBackup(b) PROVE Shape'
  <2>1. /\ UNCHANGED <<base, log, path, handle, state, backups, acked, mishaps>>
        /\ source' = b /\ pc' = "copy" /\ begun' = begun + 1 /\ begun < MaxRestores
    BY <1>5 DEF CheckBackup, disk, process
  <2>2. begun' \in 0..MaxRestores /\ source' \in 0..Len(backups)
    BY <1>1, <1>2, <2>1
  <2>3. QED
    BY <1>1, <2>1, <2>2 DEF Shape, TypeOK, Logs
<1>6. CASE Copy
  <2>1. /\ UNCHANGED <<base, log, path, handle, state, backups, source, begun, acked, mishaps>>
        /\ pc = "copy" /\ pc' = "clean"
    BY <1>6 DEF Copy, disk, process
  <2>2. QED
    BY <1>1, <2>1 DEF Shape, TypeOK, Logs
<1>7. CASE RemoveSidecars
  <2>1. /\ base' \in [Inodes -> SUBSET Items] /\ log' \in [Inodes -> Logs]
        /\ path' \in Names /\ handle' = handle
    BY <1>7, SidecarTypes
  <2>2. /\ UNCHANGED <<state, backups, source, begun, acked>> /\ pc = "clean" /\ pc' = "rename"
        /\ mishaps' \subseteq {"opened", "running", "killed"}
    BY <1>1, <1>7 DEF RemoveSidecars
  <2>3. QED
    BY <1>1, <2>1, <2>2 DEF Shape, TypeOK, Logs
<1>8. CASE Rename
  <2>1. /\ base' \in [Inodes -> SUBSET Items] /\ log' \in [Inodes -> Logs]
        /\ path' \in Names /\ handle' = handle /\ backups[source] \subseteq Items
    BY <1>8, RenameTypes
  <2>2. /\ UNCHANGED <<state, backups, begun, mishaps>>
        /\ acked' = backups[source] /\ pc' = "idle" /\ source' = 0
    BY <1>8 DEF Rename
  <2>3. 0 \in 0..Len(backups)
    BY <1>2
  <2>4. QED
    BY <1>1, <2>1, <2>2, <2>3 DEF Shape, TypeOK, Logs
<1>9. CASE StopRestore
  <2>1. /\ UNCHANGED <<base, log, path, handle, state, backups, begun, acked>>
        /\ pc' = "idle" /\ source' = 0
        /\ mishaps' \subseteq {"opened", "running", "killed"}
    BY <1>1, <1>9 DEF StopRestore, disk, process
  <2>2. 0 \in 0..Len(backups)
    BY <1>2
  <2>3. QED
    BY <1>1, <2>1, <2>2 DEF Shape, TypeOK, Logs
<1>10. QED
  BY <1>3, <1>4, <1>5, <1>6, <1>7, <1>8, <1>9

LEMMA ShapeStays ==
  ASSUME Shape, [Next]_vars
  PROVE  Shape'
<1>1. CASE UNCHANGED vars
  BY <1>1 DEF vars, disk, process, restore, Shape, TypeOK, Names, Closed
<1>2. CASE Next
  BY <1>2, ProcessesShape, AdminShape DEF Next, Step
<1>3. QED
  BY <1>1, <1>2

(***************************************************************************)
(* The files of the processes that a step leaves alone.                    *)
(***************************************************************************)
Kept(q) ==
  /\ handle'[q] = handle[q]
  /\ log'[handle[q].log].of = log[handle[q].log].of
  /\ Config(q)' = Config(q)

LEMMA SameFilesKept ==
  ASSUME Shape, NEW q \in Procs, handle[q] # Closed, handle'[q] = handle[q],
         base'[handle[q].file] = base[handle[q].file],
         log'[handle[q].log] = log[handle[q].log]
  PROVE  Kept(q)
BY DEF Kept, Config, Content

(* A step that leaves the path and closes files keeps files paired.        *)
LEMMA PairsStay ==
  ASSUME Shape, OpenPaired, PathPaired, path'.file = path.file, path'.log \in {path.log, NoLog},
         path'.log # NoLog => log'[path'.log].of = log[path.log].of,
         \A q \in Procs : handle'[q] = Closed \/ (handle[q] # Closed /\ Kept(q))
  PROVE  PathPaired' /\ OpenPaired'
<1>1. PathPaired'
  BY DEF PathPaired
<1>2. 0 \notin Inodes /\ Closed.file = 0 /\ Closed.log = NoLog
  BY InodeNumbers DEF Closed
<1>3. ASSUME NEW q \in Procs, handle'[q] # Closed
      PROVE  /\ log'[handle'[q].log].of = handle'[q].file
             /\ path'.log # NoLog /\ handle'[q].file = path'.file => handle'[q].log = path'.log
             /\ \A r \in Procs : handle'[r].file = handle'[q].file => handle'[r].log = handle'[q].log
  <2>1. handle[q] # Closed /\ Kept(q) /\ handle'[q] = handle[q]
    BY <1>3 DEF Kept
  <2>2. /\ log[handle[q].log].of = handle[q].file
        /\ path.log # NoLog /\ handle[q].file = path.file => handle[q].log = path.log
        /\ \A r \in Procs : handle[r].file = handle[q].file => handle[r].log = handle[q].log
    BY <2>1 DEF OpenPaired
  <2>3. handle[q].file # 0
    BY <1>2, <2>1, OpenFiles
  <2>4. ASSUME NEW r \in Procs, handle'[r].file = handle'[q].file
        PROVE  handle'[r].log = handle'[q].log
    <3>1. handle'[r] # Closed
      BY <1>2, <2>1, <2>3, <2>4
    <3>2. handle'[r] = handle[r]
      BY <3>1 DEF Kept
    <3>3. QED
      BY <2>1, <2>2, <2>4, <3>2
  <2>5. log'[handle'[q].log].of = handle'[q].file
    BY <2>1, <2>2 DEF Kept
  <2>6. path'.log # NoLog /\ handle'[q].file = path'.file => handle'[q].log = path'.log
    BY <2>1, <2>2
  <2>7. QED
    BY <2>4, <2>5, <2>6
<1>4. QED
  BY <1>1, <1>3 DEF OpenPaired

(***************************************************************************)
(* Opening the path.                                                       *)
(***************************************************************************)
LEMMA AttachSound ==
  ASSUME Shape, SoundInv, Sound, pc # "rename", NEW p \in Procs,
         NEW b \in [Inodes -> SUBSET Items], NEW l \in [Inodes -> Logs],
         b[path.file] = base[path.file],
         path.log # NoLog => l[path.log] = log[path.log],
         \A q \in Procs \ {p} : handle[q] # Closed =>
           b[handle[q].file] = base[handle[q].file] /\ l[handle[q].log] = log[handle[q].log],
         Attach(p, b, l)
  PROVE  /\ PathPaired' /\ OpenPaired' /\ PathAlone' /\ View' = View
         /\ handle'[p] = path'
         /\ \A q \in Procs \ {p} : handle'[q] = handle[q]
         /\ \A q \in Procs \ {p} : handle[q] # Closed => Kept(q)
         /\ path.log # NoLog => path' = path
         /\ path'.file = path.file /\ path'.log # NoLog
<1>1. PathPaired /\ OpenPaired /\ PathAlone
  BY DEF SoundInv
<1>2. /\ path' = Attached /\ handle' = [handle EXCEPT ![p] = Attached]
      /\ base'[path.file] = b[path.file]
      /\ log'[Attached.log] = WithLog(l)[Attached.log]
      /\ \A q \in Procs \ {p} : handle[q] # Closed =>
           /\ base'[handle[q].file] = b[handle[q].file]
           /\ log'[handle[q].log] = WithLog(l)[handle[q].log]
  BY AttachTypes
<1>3. /\ Attached.file = path.file /\ Attached.log # NoLog
      /\ path.log # NoLog => Attached = path /\ WithLog(l) = l
      /\ path.log = NoLog =>
           /\ Attached.log = FreeLog
           /\ WithLog(l) = [l EXCEPT ![FreeLog] = [items |-> {}, of |-> path.file]]
  BY AttachedFiles DEF Shape
<1>4. handle'[p] = path' /\ \A q \in Procs \ {p} : handle'[q] = handle[q]
  BY <1>2 DEF Shape, TypeOK
<1>5. /\ log'[path'.log].of = path.file
      /\ log'[path'.log].items = IF path.log = NoLog THEN {} ELSE log[path.log].items
  <2>1. CASE path.log = NoLog
    BY <1>2, <1>3, <2>1, FreshLog
  <2>2. CASE path.log # NoLog
    BY <1>1, <1>2, <1>3, <2>2 DEF PathPaired
  <2>3. QED
    BY <2>1, <2>2
<1>6. ASSUME NEW q \in Procs \ {p}, handle[q] # Closed PROVE Kept(q)
  <2>1. WithLog(l)[handle[q].log] = l[handle[q].log]
    <3>1. handle[q].log # FreeLog /\ handle[q].log \in Inodes
      BY <1>6, FreshLog, OpenFiles
    <3>2. QED
      BY <1>3, <3>1
  <2>2. QED
    BY <1>2, <1>4, <1>6, <2>1, SameFilesKept
<1>7. ASSUME NEW q \in Procs \ {p}, handle[q].file = path.file
      PROVE  path.log # NoLog /\ handle[q].log = path.log
  <2>1. path.log # NoLog
    BY <1>1, <1>7 DEF PathAlone
  <2>2. handle[q] # Closed
    BY <1>7, ClosedFiles, PathFiles, InodeNumbers DEF Shape
  <2>3. QED
    BY <1>1, <1>7, <2>1, <2>2 DEF OpenPaired
<1>8. View' = View
  BY <1>2, <1>3, <1>5 DEF View, Content
<1>9. PathPaired' /\ PathAlone'
  BY <1>2, <1>3, <1>5 DEF PathPaired, PathAlone
<1>10. OpenPaired'
  <2>1. ASSUME NEW r \in Procs, handle'[r] # Closed
        PROVE  /\ log'[handle'[r].log].of = handle'[r].file
               /\ handle'[r].file = path'.file => handle'[r].log = path'.log
               /\ \A q \in Procs : handle'[q].file = handle'[r].file => handle'[q].log = handle'[r].log
    <3>1. CASE r = p
      BY <1>2, <1>3, <1>4, <1>5, <1>7, <3>1
    <3>2. CASE r # p
      <4>1. handle'[r] = handle[r] /\ handle[r] # Closed
        BY <1>4, <2>1, <3>2
      <4>2. /\ log[handle[r].log].of = handle[r].file
            /\ \A q \in Procs : handle[q].file = handle[r].file => handle[q].log = handle[r].log
        BY <1>1, <4>1 DEF OpenPaired
      <4>3. log'[handle[r].log].of = log[handle[r].log].of
        BY <1>6, <3>2, <4>1 DEF Kept
      <4>4. handle[r].file = path.file => path.log # NoLog /\ handle[r].log = path.log
        BY <1>7, <3>2
      <4>5. handle'[r].file = path'.file => handle'[r].log = path'.log
        BY <1>2, <1>3, <4>1, <4>4
      <4>6. ASSUME NEW q \in Procs, handle'[q].file = handle'[r].file
            PROVE  handle'[q].log = handle'[r].log
        <5>1. CASE q = p
          BY <1>4, <4>5, <4>6, <5>1
        <5>2. CASE q # p
          BY <1>4, <4>1, <4>2, <4>6, <5>2
        <5>3. QED
          BY <5>1, <5>2
      <4>7. QED
        BY <4>1, <4>2, <4>3, <4>5, <4>6
    <3>3. QED
      BY <3>1, <3>2
  <2>2. QED
    BY <2>1 DEF OpenPaired
<1>11. QED
  BY <1>2, <1>3, <1>4, <1>6, <1>8, <1>9, <1>10

(***************************************************************************)
(* Closing.                                                                *)
(***************************************************************************)
LEMMA DetachSound ==
  ASSUME Shape, SoundInv, Sound, NEW p \in Procs, handle[p] # Closed, Detach(p)
  PROVE  /\ path'.file = path.file /\ path'.log \in {path.log, NoLog}
         /\ path'.log # NoLog => log'[path'.log].of = log[path.log].of
         /\ handle'[p] = Closed
         /\ \A q \in Procs \ {p} : handle'[q] = handle[q]
         /\ \A q \in Procs \ {p} : handle[q] # Closed => Kept(q)
         /\ path'.log = NoLog /\ path.log # NoLog =>
              \A q \in Procs \ {p} : handle[q].file # path.file
         /\ path'.log = path.log => path' = path
         /\ pc # "rename" => View' = View
<1>1. PathPaired /\ OpenPaired /\ PathAlone
  BY DEF SoundInv
<1>2. /\ path' = Left(p) /\ path' \in Names /\ path'.file = path.file
      /\ handle' = [handle EXCEPT ![p] = Closed]
      /\ base'[path.file] = Folded(p)[path.file]
      /\ path'.log # NoLog => log'[path'.log] = Emptied(p)[path'.log]
      /\ \A q \in Procs \ {p} : handle[q] # Closed =>
           /\ base'[handle[q].file] = Folded(p)[handle[q].file]
           /\ log'[handle[q].log] = Emptied(p)[handle[q].log]
  BY DetachTypes
<1>3. /\ \A i \in Inodes : Emptied(p)[i].of = log[i].of
      /\ \A i \in Inodes : i # handle[p].file => Folded(p)[i] = base[i]
      /\ \A i \in Inodes : i # handle[p].log => Emptied(p)[i] = log[i]
      /\ ~Last(p) => Folded(p) = base /\ Emptied(p) = log
      /\ Last(p) => Folded(p)[handle[p].file] = Content(handle[p])
  BY FoldedFiles
<1>4. /\ handle[p].file \in Inodes /\ handle[p].log \in Inodes /\ handle[p].log # NoLog
      /\ path.file \in Inodes /\ path.log \in Inodes \cup {NoLog}
  BY OpenFiles, PathFiles DEF Shape
<1>5. /\ log[handle[p].log].of = handle[p].file
      /\ path.log # NoLog /\ handle[p].file = path.file => handle[p].log = path.log
      /\ \A q \in Procs : handle[q].file = handle[p].file => handle[q].log = handle[p].log
  BY <1>1 DEF OpenPaired
<1>6. handle'[p] = Closed /\ \A q \in Procs \ {p} : handle'[q] = handle[q]
  BY <1>2 DEF Shape, TypeOK
<1>7. /\ Last(p) /\ path.log = handle[p].log => path'.log = NoLog
      /\ ~(Last(p) /\ path.log = handle[p].log) => path' = path
  BY <1>2 DEF Left, Shape, TypeOK, Names
<1>8. ASSUME NEW q \in Procs \ {p}, handle[q] # Closed PROVE Kept(q)
  <2>1. handle[q].file \in Inodes /\ handle[q].log \in Inodes
    BY <1>8, OpenFiles
  <2>2. CASE Last(p)
    <3>1. handle[q].log # handle[p].log /\ handle[q].file # handle[p].file
      BY <1>5, <2>2 DEF Last
    <3>2. QED
      BY <1>2, <1>3, <1>6, <1>8, <2>1, <3>1, SameFilesKept
  <2>3. CASE ~Last(p)
    BY <1>2, <1>3, <1>6, <1>8, <2>3, SameFilesKept
  <2>4. QED
    BY <2>2, <2>3
<1>9. ASSUME path'.log = NoLog, path.log # NoLog, NEW q \in Procs \ {p}
      PROVE  handle[q].file # path.file
  <2>1. Last(p) /\ path.log = handle[p].log
    BY <1>7, <1>9
  <2>2. handle[q].log # path.log
    BY <2>1 DEF Last
  <2>3. handle[q] # Closed => handle[q].file # path.file
    BY <1>1, <1>9, <2>2 DEF OpenPaired
  <2>4. handle[q] = Closed => handle[q].file # path.file
    BY <1>4, InodeNumbers DEF Closed
  <2>5. QED
    BY <2>3, <2>4
<1>10. path'.log # NoLog => log'[path'.log].of = log[path.log].of
  BY <1>2, <1>3, <1>4, <1>7
<1>11. ASSUME pc # "rename" PROVE View' = View
  <2>1. CASE ~Last(p)
    BY <1>2, <1>3, <1>7, <2>1 DEF View, Content
  <2>2. CASE Last(p) /\ path.log = handle[p].log
    <3>1. handle[p].file = path.file /\ path'.log = NoLog
      BY <1>1, <1>4, <1>5, <1>7, <2>2 DEF PathPaired
    <3>2. base'[path'.file] = Content(handle[p])
      BY <1>2, <1>3, <2>2, <3>1
    <3>3. View' = base'[path'.file]
      BY <3>1 DEF View, Content
    <3>4. Content(handle[p]) = Content(path)
      BY <2>2, <3>1 DEF Content
    <3>5. QED
      BY <3>2, <3>3, <3>4 DEF View
  <2>3. CASE Last(p) /\ path.log # handle[p].log
    <3>1. handle[p].file # path.file
      BY <1>1, <1>5, <1>11, <2>3 DEF PathAlone
    <3>2. path' = path /\ base'[path.file] = base[path.file]
      BY <1>2, <1>3, <1>4, <1>7, <2>3, <3>1
    <3>3. path.log # NoLog => log'[path.log] = log[path.log]
      BY <1>2, <1>3, <1>4, <2>3, <3>2
    <3>4. QED
      BY <3>2, <3>3 DEF View, Content
  <2>4. QED
    BY <2>1, <2>2, <2>3
<1>12. path'.log = path.log => path' = path
  BY <1>4, <1>7
<1>13. QED
  BY <1>2, <1>6, <1>7, <1>8, <1>9, <1>10, <1>11, <1>12

(* A killed process leaves both files as they are.                         *)
LEMMA CrashSound ==
  ASSUME Shape, NEW p \in Procs, Crash(p)
  PROVE  /\ path' = path
         /\ path.log # NoLog => log'[path.log] = log[path.log]
         /\ handle'[p] = Closed
         /\ \A q \in Procs \ {p} : handle'[q] = handle[q]
         /\ \A q \in Procs \ {p} : handle[q] # Closed => Kept(q)
         /\ View' = View
<1> DEFINE h == [handle EXCEPT ![p] = Closed]
<1>1. /\ base \in [Inodes -> SUBSET Items] /\ log \in [Inodes -> Logs] /\ path \in Names
      /\ handle \in [Procs -> Names \cup {Closed}]
      /\ \A q \in Procs : handle[q] # Closed => handle[q].log # NoLog
  BY DEF Shape, TypeOK, Logs
<1>2. /\ h \in [Procs -> Names \cup {Closed}] /\ h[p] = Closed
      /\ \A q \in Procs \ {p} : h[q] = handle[q]
  BY <1>1
<1>3. Files(base, log, path, h)
  BY DEF Crash
<1> HIDE DEF h
<1>4. /\ path' = path /\ handle' = h /\ base'[path.file] = base[path.file]
      /\ path.log # NoLog => log'[path.log] = log[path.log]
      /\ \A q \in Procs : h[q] # Closed =>
           /\ base'[h[q].file] = base[h[q].file]
           /\ h[q].log # NoLog => log'[h[q].log] = log[h[q].log]
  BY <1>1, <1>2, <1>3, FilesEffect
<1>5. \A q \in Procs \ {p} : handle[q] # Closed => Kept(q)
  BY <1>1, <1>2, <1>4, SameFilesKept
<1>6. View' = View
  BY <1>4 DEF View, Content
<1>7. QED
  BY <1>2, <1>4, <1>5, <1>6

(***************************************************************************)
(* The steps of the processes.                                             *)
(***************************************************************************)
LEMMA LeaveStep ==
  ASSUME Inv, NEW p \in Procs, handle[p] # Closed,
         Detach(p) \/ Crash(p), state' = [state EXCEPT ![p] = "down"],
         UNCHANGED <<pc, acked, mishaps>>
  PROVE  SoundInv' /\ CalmInv'
<1>1. Shape /\ SoundInv /\ CalmInv
  BY DEF Inv
<1>2. /\ Sound' <=> Sound
      /\ mishaps = {} => Sound
  BY DEF Sound
<1>3. SUFFICES ASSUME Sound PROVE SoundInv' /\ CalmInv'
  BY <1>2 DEF SoundInv, CalmInv
<1>4. PathPaired /\ OpenPaired /\ PathAlone /\ Uncovered /\ Agreed
  BY <1>1, <1>3 DEF SoundInv
<1>5. /\ path'.file = path.file /\ path'.log \in {path.log, NoLog}
      /\ path'.log # NoLog => log'[path'.log].of = log[path.log].of
      /\ handle'[p] = Closed
      /\ \A q \in Procs \ {p} : handle'[q] = handle[q]
      /\ \A q \in Procs \ {p} : handle[q] # Closed => Kept(q)
      /\ path'.log = NoLog /\ path.log # NoLog =>
           \A q \in Procs \ {p} : handle[q].file # path.file
      /\ path'.log = path.log => path' = path
      /\ pc # "rename" => View' = View
  <2>1. CASE Detach(p)
    BY <1>1, <1>3, <2>1, DetachSound
  <2>2. CASE Crash(p)
    <3>1. /\ path' = path
          /\ path.log # NoLog => log'[path.log] = log[path.log]
          /\ handle'[p] = Closed
          /\ \A q \in Procs \ {p} : handle'[q] = handle[q]
          /\ \A q \in Procs \ {p} : handle[q] # Closed => Kept(q)
          /\ View' = View
      BY <1>1, <2>2, CrashSound
    <3>2. QED
      BY <3>1
  <2>3. QED
    BY <2>1, <2>2
<1>6. PathPaired' /\ OpenPaired'
  <2>1. \A q \in Procs : handle'[q] = Closed \/ (handle[q] # Closed /\ Kept(q))
    BY <1>5
  <2>2. QED
    BY <1>1, <1>4, <1>5, <2>1, PairsStay
<1>7. path.file # 0 /\ Closed.file = 0
  BY <1>1, PathFiles, InodeNumbers DEF Shape, Closed
<1>8. PathAlone'
  <2>1. ASSUME path'.log = NoLog, pc # "rename", NEW q \in Procs
        PROVE  handle'[q].file # path'.file
    <3>1. CASE q = p
      BY <1>5, <1>7, <3>1
    <3>2. CASE q # p
      BY <1>4, <1>5, <2>1, <3>2 DEF PathAlone
    <3>3. QED
      BY <3>1, <3>2
  <2>2. QED
    BY <2>1 DEF PathAlone
<1>9. Uncovered'
  BY <1>4, <1>5 DEF Uncovered, Unwatched
<1>10. Agreed'
  <2>1. ASSUME NEW q \in Procs, state'[q] = "up" PROVE Config(q)' = {Model[q]}
    <3>1. q # p /\ state[q] = "up"
      BY <1>1, <2>1 DEF Shape, TypeOK
    <3>2. handle[q] # Closed
      BY <1>1, <3>1 DEF Shape, TypeOK
    <3>3. QED
      BY <1>4, <1>5, <3>1, <3>2 DEF Kept, Agreed
  <2>2. QED
    BY <2>1 DEF Agreed
<1>11. SoundInv'
  BY <1>6, <1>8, <1>9, <1>10 DEF SoundInv
<1>12. CalmInv'
  <2>1. SUFFICES ASSUME mishaps = {} PROVE CalmInv'
    BY DEF CalmInv
  <2>2. /\ \A q \in Procs : handle[q] \in {Closed, path}
        /\ pc # "rename" => View = acked
    BY <1>1, <2>1 DEF CalmInv
  <2>3. ASSUME NEW q \in Procs, handle'[q] # Closed PROVE handle'[q] = path'
    <3>1. q # p /\ handle'[q] = path /\ handle[q] = path /\ handle[q] # Closed
      BY <1>5, <2>2, <2>3
    <3>2. path.log # NoLog
      BY <1>1, <3>1, OpenFiles
    <3>3. path'.log = path.log
      BY <1>5, <3>1, <3>2
    <3>4. QED
      BY <1>5, <3>1, <3>3
  <2>4. QED
    BY <1>5, <2>2, <2>3 DEF CalmInv
<1>13. QED
  BY <1>11, <1>12

LEMMA EnterStep ==
  ASSUME Inv, NEW p \in Procs,
         NEW b \in [Inodes -> SUBSET Items], NEW l \in [Inodes -> Logs],
         Sound => /\ b[path.file] = base[path.file]
                  /\ path.log # NoLog => l[path.log] = log[path.log]
                  /\ \A q \in Procs \ {p} : handle[q] # Closed =>
                       b[handle[q].file] = base[handle[q].file] /\ l[handle[q].log] = log[handle[q].log],
         Attach(p, b, l), NEW s, Sound => s # "up", state' = [state EXCEPT ![p] = s],
         UNCHANGED <<pc, acked>>
  PROVE  SoundInv' /\ CalmInv'
<1>1. Shape /\ SoundInv /\ CalmInv
  BY DEF Inv
<1>2. CASE pc = "rename"
  BY <1>2 DEF Attach, SoundInv, CalmInv, Sound
<1>3. CASE pc # "rename"
  <2>1. mishaps' = mishaps
    BY <1>3 DEF Attach
  <2>2. /\ Sound' <=> Sound
        /\ mishaps = {} => Sound
    BY <2>1 DEF Sound
  <2>3. SUFFICES ASSUME Sound PROVE SoundInv' /\ CalmInv'
    BY <2>1, <2>2 DEF SoundInv, CalmInv
  <2>4. PathAlone /\ Uncovered /\ Agreed
    BY <1>1, <2>3 DEF SoundInv
  <2>5. /\ PathPaired' /\ OpenPaired' /\ PathAlone' /\ View' = View
        /\ handle'[p] = path'
        /\ \A q \in Procs \ {p} : handle'[q] = handle[q]
        /\ \A q \in Procs \ {p} : handle[q] # Closed => Kept(q)
        /\ path.log # NoLog => path' = path
    BY <1>1, <1>3, <2>3, AttachSound
  <2>6. Uncovered'
    BY <1>3 DEF Uncovered
  <2>7. Agreed'
    <3>1. ASSUME NEW q \in Procs, state'[q] = "up" PROVE Config(q)' = {Model[q]}
      <4>1. q # p /\ state[q] = "up"
        BY <1>1, <2>3, <3>1 DEF Shape, TypeOK
      <4>2. handle[q] # Closed
        BY <1>1, <4>1 DEF Shape, TypeOK
      <4>3. QED
        BY <2>4, <2>5, <4>1, <4>2 DEF Kept, Agreed
    <3>2. QED
      BY <3>1 DEF Agreed
  <2>8. SoundInv'
    BY <2>5, <2>6, <2>7 DEF SoundInv
  <2>9. CalmInv'
    <3>1. SUFFICES ASSUME mishaps = {} PROVE CalmInv'
      BY <2>1 DEF CalmInv
    <3>2. /\ \A q \in Procs : handle[q] \in {Closed, path}
          /\ View = acked
      BY <1>1, <1>3, <3>1 DEF CalmInv
    <3>3. ASSUME NEW q \in Procs \ {p}, handle[q] # Closed PROVE handle'[q] = path'
      <4>1. handle[q] = path /\ path.log # NoLog
        BY <1>1, <3>2, <3>3 DEF Shape
      <4>2. QED
        BY <2>5, <4>1
    <3>4. QED
      BY <2>5, <3>2, <3>3 DEF CalmInv
  <2>10. QED
    BY <2>8, <2>9
<1>4. QED
  BY <1>2, <1>3

LEMMA CommitStep ==
  ASSUME Inv, NEW p \in Procs, handle[p] # Closed, NEW item \in Items, Commit(p, item),
         \/ item \notin Models /\ UNCHANGED state
         \/ item = Model[p] /\ Config(p) = {} /\ state' = [state EXCEPT ![p] = "up"],
         UNCHANGED <<pc, mishaps>>
  PROVE  SoundInv' /\ CalmInv'
<1>1. Shape /\ SoundInv /\ CalmInv
  BY DEF Inv
<1>2. /\ Sound' <=> Sound
      /\ mishaps = {} => Sound
  BY DEF Sound
<1>3. SUFFICES ASSUME Sound PROVE SoundInv' /\ CalmInv'
  BY <1>2 DEF SoundInv, CalmInv
<1>4. PathPaired /\ OpenPaired /\ PathAlone /\ Uncovered /\ Agreed
  BY <1>1, <1>3 DEF SoundInv
<1>5. /\ base' = base /\ path' = path /\ handle' = handle
      /\ \A i \in Inodes : log'[i].of = log[i].of
      /\ \A i \in Inodes : i # handle[p].log => log'[i] = log[i]
      /\ log'[handle[p].log].items = log[handle[p].log].items \cup {item}
  BY <1>1, CommitTypes
<1>6. \A q \in Procs : handle[q] # Closed =>
        handle[q].file \in Inodes /\ handle[q].log \in Inodes /\ handle[q].log # NoLog
  BY <1>1, OpenFiles
<1>7. PathPaired' /\ OpenPaired' /\ PathAlone' /\ Uncovered'
  <2>1. path.log \in Inodes \cup {NoLog}
    BY <1>1, PathFiles DEF Shape
  <2>2. PathPaired'
    BY <1>4, <1>5, <2>1 DEF PathPaired
  <2>3. OpenPaired'
    BY <1>4, <1>5, <1>6 DEF OpenPaired
  <2>4. PathAlone' /\ Uncovered'
    BY <1>4, <1>5 DEF PathAlone, Uncovered, Unwatched
  <2>5. QED
    BY <2>2, <2>3, <2>4
<1>8. ASSUME NEW q \in Procs, handle[q] # Closed
      PROVE  Config(q)' = IF handle[q].log = handle[p].log
                          THEN Config(q) \cup ({item} \cap Models) ELSE Config(q)
  BY <1>5, <1>6, <1>8 DEF Config, Content
<1>9. Agreed'
  <2>1. ASSUME NEW q \in Procs, state'[q] = "up" PROVE Config(q)' = {Model[q]}
    <3>1. CASE q = p /\ state[q] # "up"
      BY <1>1, <1>8, <2>1, <3>1, ModelIsItem DEF Shape, TypeOK
    <3>2. CASE state[q] = "up" /\ item \notin Models
      <4>1. handle[q] # Closed /\ Config(q) = {Model[q]}
        BY <1>1, <1>4, <3>2 DEF Shape, TypeOK, Agreed
      <4>2. QED
        BY <1>8, <3>2, <4>1
    <3>3. CASE state[q] = "up" /\ Config(p) = {}
      <4>1. handle[q] # Closed /\ Config(q) = {Model[q]}
        BY <1>1, <1>4, <3>3 DEF Shape, TypeOK, Agreed
      <4>2. handle[q].log # handle[p].log
        <5>1. SUFFICES ASSUME handle[q].log = handle[p].log PROVE FALSE
          OBVIOUS
        <5>2. handle[q].file = handle[p].file
          BY <1>4, <4>1, <5>1 DEF OpenPaired
        <5>3. Config(q) = Config(p)
          BY <5>1, <5>2 DEF Config, Content
        <5>4. QED
          BY <3>3, <4>1, <5>3
      <4>3. QED
        BY <1>8, <4>1, <4>2
    <3>4. QED
      BY <1>1, <2>1, <3>1, <3>2, <3>3, ModelIsItem DEF Shape, TypeOK
  <2>2. QED
    BY <2>1 DEF Agreed
<1>10. SoundInv'
  BY <1>7, <1>9 DEF SoundInv
<1>11. CalmInv'
  <2>1. SUFFICES ASSUME mishaps = {} PROVE CalmInv'
    BY DEF CalmInv
  <2>2. /\ \A q \in Procs : handle[q] \in {Closed, path}
        /\ pc # "rename" => View = acked
    BY <1>1, <2>1 DEF CalmInv
  <2>3. handle[p] = path /\ path.log # NoLog
    BY <1>6, <2>2
  <2>4. View' = View \cup {item}
    BY <1>5, <2>3 DEF View, Content
  <2>5. acked' = acked \cup {item}
    BY DEF Commit
  <2>6. QED
    BY <1>5, <2>2, <2>4, <2>5 DEF CalmInv
<1>12. QED
  BY <1>10, <1>11

LEMMA CheckpointStep ==
  ASSUME Inv, NEW p \in Procs, Checkpoint(p)
  PROVE  SoundInv' /\ CalmInv'
<1>1. Shape /\ SoundInv /\ CalmInv
  BY DEF Inv
<1>2. /\ handle[p] # Closed
      /\ path' = path /\ handle' = handle /\ state' = state /\ pc' = pc
      /\ acked' = acked /\ mishaps' = mishaps
  BY DEF Checkpoint, process, restore
<1>3. /\ Sound' <=> Sound
      /\ mishaps = {} => Sound
  BY <1>2 DEF Sound
<1>4. SUFFICES ASSUME Sound PROVE SoundInv' /\ CalmInv'
  BY <1>2, <1>3 DEF SoundInv, CalmInv
<1>5. PathPaired /\ OpenPaired /\ PathAlone /\ Uncovered /\ Agreed
  BY <1>1, <1>4 DEF SoundInv
<1>6. /\ \A i \in Inodes : log'[i].of = log[i].of
      /\ \A i \in Inodes : i # handle[p].file => base'[i] = base[i]
      /\ \A i \in Inodes : i # handle[p].log => log'[i] = log[i]
      /\ base'[handle[p].file] = Content(handle[p])
      /\ log'[handle[p].log].items = {}
  BY <1>1, CheckpointTypes
<1>7. \A q \in Procs : handle[q] # Closed =>
        handle[q].file \in Inodes /\ handle[q].log \in Inodes /\ handle[q].log # NoLog
  BY <1>1, OpenFiles
<1>8. path.file \in Inodes /\ path.log \in Inodes \cup {NoLog}
  BY <1>1, PathFiles DEF Shape
<1>9. PathPaired' /\ OpenPaired' /\ PathAlone' /\ Uncovered'
  <2>1. PathPaired'
    BY <1>2, <1>5, <1>6, <1>8 DEF PathPaired
  <2>2. OpenPaired'
    BY <1>2, <1>5, <1>6, <1>7 DEF OpenPaired
  <2>3. PathAlone' /\ Uncovered'
    BY <1>2, <1>5 DEF PathAlone, Uncovered, Unwatched
  <2>4. QED
    BY <2>1, <2>2, <2>3
<1>10. ASSUME NEW q \in Procs, handle[q] # Closed PROVE Config(q)' = Config(q)
  <2>1. CASE handle[q].file = handle[p].file
    <3>1. handle[q].log = handle[p].log
      BY <1>2, <1>5, <2>1 DEF OpenPaired
    <3>2. QED
      BY <1>2, <1>6, <1>7, <1>10, <2>1, <3>1 DEF Config, Content
  <2>2. CASE handle[q].file # handle[p].file
    <3>1. handle[q].log # handle[p].log
      BY <1>2, <1>5, <1>10, <2>2 DEF OpenPaired
    <3>2. QED
      BY <1>2, <1>6, <1>7, <1>10, <2>2, <3>1 DEF Config, Content
  <2>3. QED
    BY <2>1, <2>2
<1>11. Agreed'
  BY <1>1, <1>2, <1>5, <1>10 DEF Agreed, Shape, TypeOK
<1>12. SoundInv'
  BY <1>9, <1>11 DEF SoundInv
<1>13. ASSUME pc # "rename" PROVE View' = View
  <2>1. CASE path.file = handle[p].file
    <3>1. path.log = handle[p].log
      BY <1>2, <1>5, <1>13, <2>1 DEF OpenPaired, PathAlone
    <3>2. QED
      BY <1>2, <1>6, <1>7, <2>1, <3>1 DEF View, Content
  <2>2. CASE path.file # handle[p].file
    <3>1. path.log # NoLog => path.log # handle[p].log
      BY <1>2, <1>5, <2>2 DEF PathPaired, OpenPaired
    <3>2. QED
      BY <1>2, <1>6, <1>8, <2>2, <3>1 DEF View, Content
  <2>3. QED
    BY <2>1, <2>2
<1>14. CalmInv'
  BY <1>1, <1>2, <1>13 DEF CalmInv
<1>15. QED
  BY <1>12, <1>14

(* A step that moves neither files nor processes.                          *)
LEMMA QuietStep ==
  ASSUME Inv, UNCHANGED <<base, log, path, handle, acked, mishaps>>,
         pc' = "rename" <=> pc = "rename",
         \A p \in Procs : state'[p] = "up" => state[p] = "up" \/ Config(p) = {Model[p]}
  PROVE  SoundInv' /\ CalmInv'
<1>1. SoundInv /\ CalmInv
  BY DEF Inv
<1>2. Sound' <=> Sound
  BY DEF Sound
<1>3. ASSUME Sound PROVE SoundInv'
  <2>1. PathPaired /\ OpenPaired /\ PathAlone /\ Uncovered /\ Agreed
    BY <1>1, <1>3 DEF SoundInv
  <2>2. PathPaired' /\ OpenPaired' /\ PathAlone' /\ Uncovered'
    BY <2>1 DEF PathPaired, OpenPaired, PathAlone, Uncovered, Unwatched
  <2>3. \A p \in Procs : Config(p)' = Config(p)
    BY DEF Config, Content
  <2>4. Agreed'
    BY <2>1, <2>3 DEF Agreed
  <2>5. QED
    BY <2>2, <2>4 DEF SoundInv
<1>4. View' = View
  BY DEF View, Content
<1>5. CalmInv'
  BY <1>1, <1>4 DEF CalmInv
<1>6. QED
  BY <1>2, <1>3, <1>5 DEF SoundInv

(* A process that reconnects leaves files nobody else has open.            *)
LEMMA ReconnectFiles ==
  ASSUME Inv, Sound, pc # "rename", NEW p \in Procs, handle[p] # Closed, handle[p] # path
  PROVE  /\ path.file # handle[p].file
         /\ Folded(p)[path.file] = base[path.file]
         /\ path.log # NoLog => Emptied(p)[path.log] = log[path.log]
         /\ \A q \in Procs \ {p} : handle[q] # Closed =>
              /\ Folded(p)[handle[q].file] = base[handle[q].file]
              /\ Emptied(p)[handle[q].log] = log[handle[q].log]
<1>1. Shape /\ PathPaired /\ OpenPaired /\ PathAlone
  BY DEF Inv, SoundInv
<1>2. /\ \A i \in Inodes : i # handle[p].file => Folded(p)[i] = base[i]
      /\ \A i \in Inodes : i # handle[p].log => Emptied(p)[i] = log[i]
      /\ ~Last(p) => Folded(p) = base /\ Emptied(p) = log
  BY <1>1, FoldedFiles
<1>3. /\ handle[p].file \in Inodes /\ handle[p].log \in Inodes
      /\ handle[p] = [file |-> handle[p].file, log |-> handle[p].log]
      /\ path.file \in Inodes /\ path.log \in Inodes \cup {NoLog}
      /\ path = [file |-> path.file, log |-> path.log]
  BY <1>1, OpenFiles, PathFiles DEF Shape
<1>4. path.file # handle[p].file
  <2>1. SUFFICES ASSUME path.file = handle[p].file PROVE FALSE
    OBVIOUS
  <2>2. path.log # NoLog /\ path.log = handle[p].log
    BY <1>1, <2>1 DEF OpenPaired, PathAlone
  <2>3. QED
    BY <1>3, <2>1, <2>2
<1>5. path.log # NoLog => path.log # handle[p].log
  BY <1>1, <1>4 DEF PathPaired, OpenPaired
<1>6. ASSUME NEW q \in Procs \ {p}, handle[q] # Closed
      PROVE  /\ Folded(p)[handle[q].file] = base[handle[q].file]
             /\ Emptied(p)[handle[q].log] = log[handle[q].log]
  <2>1. CASE Last(p)
    <3>1. handle[q].log # handle[p].log /\ handle[q].file # handle[p].file
      BY <1>1, <2>1 DEF Last, OpenPaired
    <3>2. handle[q].file \in Inodes /\ handle[q].log \in Inodes
      BY <1>1, <1>6, OpenFiles
    <3>3. QED
      BY <1>2, <3>1, <3>2
  <2>2. CASE ~Last(p)
    BY <1>2, <2>2
  <2>3. QED
    BY <2>1, <2>2
<1>7. QED
  BY <1>2, <1>3, <1>4, <1>5, <1>6

LEMMA ProcessSteps ==
  ASSUME Inv, NEW p \in Procs,
         Open(p) \/ Validate(p) \/ Seed(p) \/ StoreMemory(p)
           \/ Checkpoint(p) \/ Reconnect(p) \/ Close(p) \/ Crash(p)
  PROVE  SoundInv' /\ CalmInv'
<1>1. /\ base \in [Inodes -> SUBSET Items] /\ log \in [Inodes -> Logs]
      /\ state \in [Procs -> {"down", "starting", "seeding", "up", "moved"}]
      /\ state[p] = "down" <=> handle[p] = Closed
      /\ Shape
  BY DEF Inv, Shape, TypeOK, Logs
<1>2. CASE Open(p)
  BY <1>1, <1>2, EnterStep DEF Open, restore
<1>3. CASE Validate(p)
  <2>1. /\ UNCHANGED <<pc, acked, mishaps>> /\ handle[p] # Closed
    BY <1>1, <1>3 DEF Validate, restore
  <2>2. CASE Detach(p)
    <3>1. state' = [state EXCEPT ![p] = "down"]
      BY <2>2 DEF Detach
    <3>2. QED
      BY <2>1, <2>2, <3>1, LeaveStep
  <2>3. CASE ~Detach(p)
    <3>1. /\ Config(p) \subseteq {Model[p]} /\ UNCHANGED <<base, log, path, handle>>
          /\ state' = [state EXCEPT ![p] = IF Config(p) = {} THEN "seeding" ELSE "up"]
      BY <1>3, <2>3 DEF Validate, disk
    <3>2. \A q \in Procs : state'[q] = "up" => state[q] = "up" \/ Config(q) = {Model[q]}
      BY <1>1, <3>1
    <3>3. QED
      BY <2>1, <3>1, <3>2, QuietStep
  <2>4. QED
    BY <2>2, <2>3
<1>4. CASE Seed(p)
  <2>1. UNCHANGED <<pc, mishaps>> /\ handle[p] # Closed
    BY <1>1, <1>4 DEF Seed, restore
  <2>2. CASE Config(p) = {}
    <3>1. Commit(p, Model[p]) /\ state' = [state EXCEPT ![p] = "up"]
      BY <1>4, <2>2 DEF Seed
    <3>2. QED
      BY <2>1, <2>2, <3>1, CommitStep, ModelIsItem
  <2>3. CASE Config(p) # {}
    <3>1. Detach(p) /\ UNCHANGED acked /\ state' = [state EXCEPT ![p] = "down"]
      BY <1>4, <2>3 DEF Seed, Detach
    <3>2. QED
      BY <2>1, <3>1, LeaveStep
  <2>4. QED
    BY <2>2, <2>3
<1>5. CASE StoreMemory(p)
  <2>1. UNCHANGED <<pc, mishaps, state>> /\ handle[p] # Closed
    BY <1>1, <1>5 DEF StoreMemory, Running, restore
  <2>2. PICK row \in Rows : Commit(p, row)
    BY <1>5 DEF StoreMemory
  <2>3. row \in Items /\ row \notin Models
    BY DatabaseAssumption DEF DatabaseAssumption, Rows, Items
  <2>4. QED
    BY <2>1, <2>2, <2>3, CommitStep
<1>6. CASE Checkpoint(p)
  BY <1>6, CheckpointStep
<1>7. CASE Reconnect(p)
  <2> DEFINE s == IF path.file = handle[p].file THEN state[p] ELSE "moved"
  <2>1. /\ pc' = pc /\ acked' = acked /\ handle[p] # Closed /\ handle[p] # path
        /\ Attach(p, Folded(p), Emptied(p)) /\ state' = [state EXCEPT ![p] = s]
    BY <1>1, <1>7 DEF Reconnect, Running, restore
  <2>2. /\ Folded(p) \in [Inodes -> SUBSET Items] /\ Emptied(p) \in [Inodes -> Logs]
    BY <1>1, <2>1, FoldedFiles
  <2>3. CASE Sound /\ pc # "rename"
    <3>1. /\ path.file # handle[p].file
          /\ Folded(p)[path.file] = base[path.file]
          /\ path.log # NoLog => Emptied(p)[path.log] = log[path.log]
          /\ \A q \in Procs \ {p} : handle[q] # Closed =>
               /\ Folded(p)[handle[q].file] = base[handle[q].file]
               /\ Emptied(p)[handle[q].log] = log[handle[q].log]
      BY <2>1, <2>3, ReconnectFiles
    <3>2. s # "up"
      BY <3>1
    <3> HIDE DEF s
    <3>3. QED
      BY <2>1, <2>2, <3>1, <3>2, EnterStep
  <2>4. CASE ~Sound \/ pc = "rename"
    <3>1. "opened" \in mishaps' \/ (mishaps' = mishaps /\ ~Sound)
      BY <2>1, <2>4 DEF Attach
    <3>2. QED
      BY <3>1 DEF SoundInv, CalmInv, Sound
  <2>5. QED
    BY <2>3, <2>4
<1>8. CASE Close(p)
  <2>1. /\ handle[p] # Closed /\ Detach(p) /\ UNCHANGED <<pc, acked, mishaps>>
        /\ state' = [state EXCEPT ![p] = "down"]
    BY <1>8 DEF Close, Detach, restore
  <2>2. QED
    BY <2>1, LeaveStep
<1>9. CASE Crash(p)
  <2>1. /\ handle[p] # Closed /\ UNCHANGED <<pc, acked, mishaps>>
        /\ state' = [state EXCEPT ![p] = "down"]
    BY <1>9 DEF Crash, restore
  <2>2. QED
    BY <1>9, <2>1, LeaveStep
<1>10. QED
  BY <1>2, <1>3, <1>4, <1>5, <1>6, <1>7, <1>8, <1>9

(***************************************************************************)
(* The steps of hsme-cli.                                                  *)
(***************************************************************************)
LEMMA BackupStep ==
  ASSUME Inv, Backup
  PROVE  SoundInv' /\ CalmInv'
<1>1. Shape /\ SoundInv /\ CalmInv
  BY DEF Inv
<1>2. handle' = handle /\ state' = state /\ pc' = pc /\ acked' = acked
  BY DEF Backup, process, restore
<1>3. CASE pc = "rename"
  BY <1>3 DEF Backup, SoundInv, CalmInv, Sound
<1>4. CASE pc # "rename" /\ UNCHANGED disk
  <2>1. mishaps' = mishaps
    BY <1>4 DEF Backup
  <2>2. QED
    BY <1>2, <1>4, <2>1, QuietStep DEF disk
<1>5. CASE pc # "rename" /\ ~UNCHANGED disk
  <2>1. /\ path.log # NoLog /\ \A p \in Procs : handle[p].log # path.log
        /\ base' = [base EXCEPT ![path.file] = View]
        /\ log' = [log EXCEPT ![path.log] = Gone]
        /\ path' = [path EXCEPT !.log = NoLog]
        /\ mishaps' = mishaps
    BY <1>5 DEF Backup
  <2>2. path.file \in Inodes /\ path.log \in Inodes /\ path'.file = path.file /\ path'.log = NoLog
    BY <1>1, <2>1, PathFiles DEF Shape, TypeOK, Names
  <2>3. base \in [Inodes -> SUBSET Items] /\ log \in [Inodes -> Logs]
    BY <1>1 DEF Shape, TypeOK, Logs
  <2>4. View' = View
    BY <2>1, <2>2, <2>3 DEF View, Content
  <2>5. /\ Sound' <=> Sound
        /\ mishaps = {} => Sound
    BY <2>1 DEF Sound
  <2>6. SUFFICES ASSUME Sound PROVE SoundInv' /\ CalmInv'
    BY <2>1, <2>5 DEF SoundInv, CalmInv
  <2>7. PathPaired /\ OpenPaired /\ Agreed
    BY <1>1, <2>6 DEF SoundInv
  <2>8. ASSUME NEW q \in Procs PROVE handle[q].file # path.file
    <3>1. handle[q] # Closed => handle[q].file # path.file
      BY <2>1, <2>7 DEF OpenPaired
    <3>2. QED
      BY <2>2, <3>1, InodeNumbers DEF Closed
  <2>9. ASSUME NEW q \in Procs, handle[q] # Closed PROVE Kept(q)
    <3>1. handle[q].file \in Inodes /\ handle[q].log \in Inodes
      BY <1>1, <2>9, OpenFiles
    <3>2. QED
      BY <1>1, <1>2, <2>1, <2>3, <2>8, <2>9, <3>1, SameFilesKept
  <2>10. PathPaired' /\ OpenPaired'
    <3>1. \A q \in Procs : handle'[q] = Closed \/ (handle[q] # Closed /\ Kept(q))
      BY <1>2, <2>9
    <3>2. QED
      BY <1>1, <2>2, <2>7, <3>1, PairsStay
  <2>11. PathAlone' /\ Uncovered'
    BY <1>2, <1>5, <2>2, <2>8 DEF PathAlone, Uncovered
  <2>12. Agreed'
    BY <1>1, <1>2, <2>7, <2>9 DEF Agreed, Kept, Shape, TypeOK
  <2>13. CalmInv'
    <3>1. SUFFICES ASSUME mishaps = {} PROVE CalmInv'
      BY <2>1 DEF CalmInv
    <3>2. \A q \in Procs : handle[q] = Closed
      BY <1>1, <2>8, <3>1 DEF CalmInv
    <3>3. QED
      BY <1>1, <1>2, <2>4, <3>1, <3>2 DEF CalmInv
  <2>14. QED
    BY <2>10, <2>11, <2>12, <2>13 DEF SoundInv
<1>6. QED
  BY <1>3, <1>4, <1>5

LEMMA SidecarStep ==
  ASSUME Inv, RemoveSidecars
  PROVE  SoundInv' /\ CalmInv'
<1>1. Shape /\ SoundInv /\ CalmInv
  BY DEF Inv
<1>2. /\ pc = "clean" /\ pc' = "rename" /\ state' = state /\ acked' = acked
      /\ mishaps' = IF Unwatched THEN mishaps ELSE mishaps \cup {"running"}
  BY DEF RemoveSidecars
<1>3. /\ path'.file = path.file /\ path'.log = NoLog /\ handle' = handle
      /\ \A q \in Procs : handle[q] # Closed =>
           base'[handle[q].file] = base[handle[q].file] /\ log'[handle[q].log] = log[handle[q].log]
  BY <1>1, SidecarTypes
<1>4. ASSUME NEW q \in Procs, handle[q] # Closed PROVE Kept(q)
  BY <1>1, <1>3, <1>4, SameFilesKept
<1>5. ASSUME Sound' PROVE PathPaired' /\ OpenPaired' /\ PathAlone' /\ Uncovered' /\ Agreed'
  <2>1. Sound
    BY <1>2, <1>5 DEF Sound
  <2>2. PathPaired /\ OpenPaired /\ Agreed
    BY <1>1, <2>1 DEF SoundInv
  <2>3. PathPaired' /\ OpenPaired'
    <3>1. \A q \in Procs : handle'[q] = Closed \/ (handle[q] # Closed /\ Kept(q))
      BY <1>3, <1>4
    <3>2. QED
      BY <1>1, <1>3, <2>2, <3>1, PairsStay
  <2>4. PathAlone'
    BY <1>2 DEF PathAlone
  <2>5. Uncovered'
    BY <1>2, <1>3 DEF Uncovered, Unwatched
  <2>6. Agreed'
    BY <1>1, <1>2, <1>4, <2>2 DEF Agreed, Kept, Shape, TypeOK
  <2>7. QED
    BY <2>3, <2>4, <2>5, <2>6
<1>6. CalmInv'
  <2>1. SUFFICES ASSUME mishaps' = {} PROVE CalmInv'
    BY DEF CalmInv
  <2>2. Unwatched
    BY <1>2, <2>1
  <2>3. QED
    BY <1>2, <1>3, <2>2 DEF CalmInv, Unwatched
<1>7. QED
  BY <1>5, <1>6 DEF SoundInv

LEMMA RenameStep ==
  ASSUME Inv, Rename
  PROVE  SoundInv' /\ CalmInv'
<1>1. Shape /\ SoundInv /\ CalmInv
  BY DEF Inv
<1>2. /\ pc = "rename" /\ pc' = "idle" /\ state' = state /\ mishaps' = mishaps
      /\ acked' = backups[source]
  BY DEF Rename
<1>3. /\ path'.file = FreeFile /\ path'.log = path.log /\ handle' = handle
      /\ base'[FreeFile] = backups[source]
      /\ \A q \in Procs : handle[q] # Closed =>
           base'[handle[q].file] = base[handle[q].file] /\ log'[handle[q].log] = log[handle[q].log]
  BY <1>1, RenameTypes
<1>4. ASSUME NEW q \in Procs, handle[q] # Closed PROVE Kept(q)
  BY <1>1, <1>3, <1>4, SameFilesKept
<1>5. /\ Sound' <=> Sound
      /\ mishaps = {} => Sound
  BY <1>2 DEF Sound
<1>6. SUFFICES ASSUME Sound PROVE SoundInv' /\ CalmInv'
  BY <1>2, <1>5 DEF SoundInv, CalmInv
<1>7. OpenPaired /\ Agreed /\ path.log = NoLog /\ ("running" \notin mishaps => Unwatched)
  BY <1>1, <1>2, <1>6 DEF SoundInv, Uncovered
<1>8. PathPaired' /\ PathAlone' /\ Uncovered'
  BY <1>2, <1>3, <1>7, FreshFile DEF PathPaired, PathAlone, Uncovered
<1>9. OpenPaired'
  <2>1. ASSUME NEW q \in Procs, handle'[q] # Closed
        PROVE  /\ log'[handle'[q].log].of = handle'[q].file
               /\ \A r \in Procs : handle'[r].file = handle'[q].file => handle'[r].log = handle'[q].log
    BY <1>3, <1>4, <1>7, <2>1 DEF OpenPaired, Kept
  <2>2. QED
    BY <1>3, <1>7, <2>1 DEF OpenPaired
<1>10. Agreed'
  BY <1>1, <1>2, <1>4, <1>7 DEF Agreed, Kept, Shape, TypeOK
<1>11. CalmInv'
  <2>1. SUFFICES ASSUME mishaps = {} PROVE CalmInv'
    BY <1>2 DEF CalmInv
  <2>2. \A q \in Procs : handle[q] = Closed
    BY <1>7, <2>1 DEF Unwatched
  <2>3. View' = backups[source]
    BY <1>3, <1>7 DEF View, Content
  <2>4. QED
    BY <1>2, <1>3, <2>2, <2>3 DEF CalmInv
<1>12. QED
  BY <1>8, <1>9, <1>10, <1>11 DEF SoundInv

(* A restore that stops before the rename leaves the path without a -wal   *)
(* file; if a process still had the main file open, that was a mishap.     *)
LEMMA StopStep ==
  ASSUME Inv, StopRestore
  PROVE  SoundInv' /\ CalmInv'
<1>1. /\ UNCHANGED <<base, log, path, handle, state, acked>> /\ pc' = "idle"
      /\ mishaps' = IF pc = "rename" THEN mishaps \cup {"killed"} ELSE mishaps
  BY DEF StopRestore, disk, process
<1>2. CASE pc # "rename"
  BY <1>1, <1>2, QuietStep
<1>3. CASE pc = "rename"
  <2>1. CalmInv'
    BY <1>1, <1>3 DEF CalmInv
  <2>2. ASSUME Sound' PROVE PathPaired' /\ OpenPaired' /\ PathAlone' /\ Uncovered' /\ Agreed'
    <3>1. Sound /\ "running" \notin mishaps
      BY <1>1, <1>3, <2>2 DEF Sound
    <3>2. /\ PathPaired /\ OpenPaired /\ Agreed
          /\ \A p \in Procs : handle[p] = Closed
      BY <1>3, <3>1 DEF Inv, SoundInv, Uncovered, Unwatched
    <3>3. path.file # 0 /\ Closed.file = 0
      BY PathFiles, InodeNumbers DEF Inv, Shape, Closed
    <3>4. PathPaired' /\ OpenPaired' /\ PathAlone' /\ Uncovered'
      BY <1>1, <3>2, <3>3 DEF PathPaired, OpenPaired, PathAlone, Uncovered
    <3>5. \A p \in Procs : Config(p)' = Config(p)
      BY <1>1 DEF Config, Content
    <3>6. Agreed'
      BY <1>1, <3>2, <3>5 DEF Agreed
    <3>7. QED
      BY <3>4, <3>6
  <2>3. QED
    BY <2>1, <2>2 DEF SoundInv
<1>4. QED
  BY <1>2, <1>3

LEMMA AdminSteps ==
  ASSUME Inv,
         \/ Backup \/ BackupIncomplete \/ (\E b \in DOMAIN backups : CheckBackup(b))
         \/ Copy \/ RemoveSidecars \/ Rename \/ StopRestore
  PROVE  SoundInv' /\ CalmInv'
<1>1. CASE BackupIncomplete
  BY <1>1, QuietStep DEF BackupIncomplete, disk, process, restore
<1>2. ASSUME NEW b \in DOMAIN backups, CheckBackup(b) PROVE SoundInv' /\ CalmInv'
  BY <1>2, QuietStep DEF CheckBackup, disk, process
<1>3. CASE Copy
  BY <1>3, QuietStep DEF Copy, disk, process
<1>4. QED
  BY <1>1, <1>2, <1>3, BackupStep, SidecarStep, RenameStep, StopStep

(***************************************************************************)
(* The invariant is inductive, and it implies what the run checks.         *)
(***************************************************************************)
LEMMA InitInv == Init => Inv
<1>1. SUFFICES ASSUME Init PROVE Inv
  OBVIOUS
<1>2. Shape
  BY <1>1, InitShape
<1>3. /\ path.file = 1 /\ path.log = NoLog /\ pc = "idle" /\ mishaps = {} /\ acked = {}
      /\ \A p \in Procs : handle[p] = Closed /\ state[p] = "down"
      /\ base[1] = {} /\ Closed.file = 0
  BY <1>1, InodeNumbers DEF Init, Closed
<1>4. View = acked
  BY <1>3 DEF View, Content
<1>5. QED
  BY <1>2, <1>3, <1>4 DEF Inv, SoundInv, CalmInv, PathPaired, OpenPaired, PathAlone, Uncovered, Agreed

LEMMA InvStays == Inv /\ [Next]_vars => Inv'
<1>1. SUFFICES ASSUME Inv, [Next]_vars PROVE Inv'
  OBVIOUS
<1>2. Shape'
  BY <1>1, ShapeStays DEF Inv
<1>3. CASE UNCHANGED vars
  <2>1. UNCHANGED <<base, log, path, handle, state, pc, acked, mishaps>>
    BY <1>3 DEF vars, disk, process, restore
  <2>2. SoundInv' /\ CalmInv'
    BY <1>1, <2>1, QuietStep
  <2>3. QED
    BY <1>2, <2>2 DEF Inv
<1>4. CASE Next
  <2>1. SoundInv' /\ CalmInv'
    BY <1>1, <1>4, ProcessSteps, AdminSteps DEF Next, Step
  <2>2. QED
    BY <1>2, <2>1 DEF Inv
<1>5. QED
  BY <1>1, <1>3, <1>4

LEMMA Invariance == Spec => []Inv
BY InitInv, InvStays, PTL DEF Spec

(* Any number of processes: the files stay typed.                          *)
THEOREM DatabaseTypeCorrect == Spec => []TypeOK
<1>1. Inv => TypeOK
  BY DEF Inv, Shape
<1>2. QED
  BY <1>1, Invariance, PTL

(* No process reads a main file through the -wal file of another, and no   *)
(* main file has two: what InitDB, the backup and the restore rely on.     *)
THEOREM FilesStayTogether == Spec => []NeverMixed
<1>1. Inv => NeverMixed
  <2>1. SUFFICES ASSUME Inv, Sound, NEW f \in InUse, NEW g \in InUse
                 PROVE  /\ f.log # NoLog => log[f.log].of = f.file
                        /\ f.file = g.file /\ f.log # NoLog /\ g.log # NoLog => f.log = g.log
    BY DEF NeverMixed
  <2>2. PathPaired /\ OpenPaired
    BY <2>1 DEF Inv, SoundInv
  <2>3. \A h \in InUse : h = path \/ \E p \in Procs : h = handle[p]
    BY DEF InUse
  <2>4. \A p \in Procs : handle[p].log # NoLog => handle[p] # Closed
    BY DEF Closed
  <2>5. f.log # NoLog => log[f.log].of = f.file
    BY <2>2, <2>3, <2>4 DEF PathPaired, OpenPaired
  <2>6. f.file = g.file /\ f.log # NoLog /\ g.log # NoLog => f.log = g.log
    BY <2>2, <2>3, <2>4 DEF OpenPaired
  <2>7. QED
    BY <2>5, <2>6
<1>2. QED
  BY <1>1, Invariance, PTL

(* What was committed is found again, whatever crashes, closes, backups    *)
(* and restores come between, if no process runs while the -wal file is    *)
(* missing and the restore is not killed then.                             *)
THEOREM CommittedIsFound == Spec => []NothingLost
<1>1. Inv => NothingLost
  BY DEF Inv, CalmInv, NothingLost
<1>2. QED
  BY <1>1, Invariance, PTL

(***************************************************************************)
(* No database that is open, named or backed up has two models: what a     *)
(* process seeds goes into a database without one, and everything else is  *)
(* copied from databases with at most one.                                 *)
(***************************************************************************)
OneModel(S) == \A m, n \in S \cap Models : m = n

SingleInv ==
  Sound =>
    /\ OneModel(View)
    /\ \A p \in Procs : handle[p] # Closed => OneModel(Config(p))
    /\ \A b \in DOMAIN backups : OneModel(backups[b])

(* A step after which each open file is one that was open, unchanged, or   *)
(* what the path names.                                                    *)
LEMMA SingleFrom ==
  ASSUME SingleInv, Sound, OneModel(View)',
         \A q \in Procs : handle'[q] # Closed =>
           (handle[q] # Closed /\ Kept(q)) \/ handle'[q] = path' \/ OneModel(Config(q))',
         \A b \in DOMAIN backups' : OneModel(backups'[b])
  PROVE  SingleInv'
<1>1. \A q \in Procs : handle[q] # Closed => OneModel(Config(q))
  BY DEF SingleInv
<1>2. ASSUME NEW q \in Procs, handle'[q] # Closed PROVE OneModel(Config(q))'
  <2>1. CASE handle[q] # Closed /\ Kept(q)
    BY <1>1, <2>1 DEF Kept, OneModel
  <2>2. CASE handle'[q] = path'
    <3>1. Config(q)' = View' \cap Models
      BY <2>2 DEF Config, View, Content
    <3>2. QED
      BY <3>1 DEF OneModel
  <2>3. QED
    BY <1>2, <2>1, <2>2
<1>3. QED
  BY <1>2 DEF SingleInv

LEMMA SameBackups ==
  ASSUME SingleInv, Sound, backups' = backups
  PROVE  \A b \in DOMAIN backups' : OneModel(backups'[b])
BY DEF SingleInv

LEMMA AnotherBackup ==
  ASSUME SingleInv, Sound, Shape, NEW c \in SUBSET Items, OneModel(c),
         backups' = Append(backups, c)
  PROVE  \A b \in DOMAIN backups' : OneModel(backups'[b])
<1>1. backups \in Seq(SUBSET Items)
  BY DEF Shape, TypeOK
<1>2. /\ DOMAIN backups' = 1..Len(backups) + 1 /\ backups'[Len(backups) + 1] = c
      /\ \A b \in 1..Len(backups) : backups'[b] = backups[b]
      /\ DOMAIN backups = 1..Len(backups) /\ Len(backups) \in Nat
  BY <1>1, AppendProperties
<1>3. \A b \in 1..Len(backups) + 1 : b \in 1..Len(backups) \/ b = Len(backups) + 1
  BY <1>2
<1>4. \A b \in 1..Len(backups) : OneModel(backups[b])
  BY <1>2 DEF SingleInv
<1>5. QED
  BY <1>2, <1>3, <1>4

LEMMA LeaveSingle ==
  ASSUME Inv, SingleInv, Sound, NEW p \in Procs, handle[p] # Closed,
         Detach(p) \/ Crash(p), backups' = backups
  PROVE  SingleInv'
<1>1. Shape /\ SoundInv /\ Uncovered
  BY DEF Inv, SoundInv
<1>2. OneModel(View) /\ OneModel(Config(p))
  BY DEF SingleInv
<1>3. CASE Crash(p)
  <2>1. /\ handle'[p] = Closed /\ View' = View
        /\ \A q \in Procs \ {p} : handle'[q] = handle[q]
        /\ \A q \in Procs \ {p} : handle[q] # Closed => Kept(q)
    BY <1>1, <1>3, CrashSound
  <2>2. OneModel(View)'
    BY <1>2, <2>1 DEF OneModel
  <2>3. QED
    BY <2>1, <2>2, SameBackups, SingleFrom
<1>4. CASE Detach(p)
  <2>1. /\ handle'[p] = Closed /\ path'.file = path.file /\ path'.log \in {path.log, NoLog}
        /\ \A q \in Procs \ {p} : handle'[q] = handle[q]
        /\ \A q \in Procs \ {p} : handle[q] # Closed => Kept(q)
        /\ pc # "rename" => View' = View
    BY <1>1, <1>4, DetachSound
  <2>2. ASSUME pc = "rename" PROVE View' = View \/ View' = Content(handle[p])
    <3>1. path.log = NoLog /\ path'.log = NoLog
      BY <1>1, <2>1, <2>2 DEF Uncovered
    <3>2. View = base[path.file] /\ View' = base'[path.file]
      BY <2>1, <3>1 DEF View, Content
    <3>3. base'[path.file] = Folded(p)[path.file]
      BY <1>1, <1>4, DetachTypes
    <3>4. /\ \A i \in Inodes : i # handle[p].file => Folded(p)[i] = base[i]
          /\ ~Last(p) => Folded(p) = base
          /\ Last(p) => Folded(p)[handle[p].file] = Content(handle[p])
      BY <1>1, FoldedFiles
    <3>5. path.file \in Inodes
      BY <1>1, PathFiles DEF Shape
    <3>6. QED
      BY <3>2, <3>3, <3>4, <3>5
  <2>3. OneModel(View)'
    BY <1>2, <2>1, <2>2 DEF OneModel, Config
  <2>4. QED
    BY <2>1, <2>3, SameBackups, SingleFrom
<1>5. QED
  BY <1>3, <1>4

LEMMA EnterSingle ==
  ASSUME Inv, SingleInv, Sound, Sound', NEW p \in Procs,
         NEW b \in [Inodes -> SUBSET Items], NEW l \in [Inodes -> Logs],
         pc # "rename" =>
           /\ b[path.file] = base[path.file]
           /\ path.log # NoLog => l[path.log] = log[path.log]
           /\ \A q \in Procs \ {p} : handle[q] # Closed =>
                b[handle[q].file] = base[handle[q].file] /\ l[handle[q].log] = log[handle[q].log],
         Attach(p, b, l), backups' = backups
  PROVE  SingleInv'
<1>1. Shape /\ SoundInv
  BY DEF Inv
<1>2. pc # "rename"
  BY DEF Attach, Sound
<1>3. /\ View' = View /\ handle'[p] = path'
      /\ \A q \in Procs \ {p} : handle'[q] = handle[q]
      /\ \A q \in Procs \ {p} : handle[q] # Closed => Kept(q)
  BY <1>1, <1>2, AttachSound
<1>4. OneModel(View)'
  BY <1>3 DEF OneModel, SingleInv
<1>5. QED
  BY <1>3, <1>4, SameBackups, SingleFrom

LEMMA CommitSingle ==
  ASSUME Inv, SingleInv, Sound, NEW p \in Procs, handle[p] # Closed,
         NEW item \in Items, Commit(p, item),
         item \notin Models \/ Config(p) = {}, backups' = backups
  PROVE  SingleInv'
<1>1. Shape /\ PathPaired /\ OpenPaired
  BY DEF Inv, SoundInv
<1>2. /\ base' = base /\ path' = path /\ handle' = handle
      /\ \A i \in Inodes : i # handle[p].log => log'[i] = log[i]
      /\ log'[handle[p].log].items = log[handle[p].log].items \cup {item}
  BY <1>1, CommitTypes
<1>3. /\ path.log \in Inodes \cup {NoLog}
      /\ handle[p].log \in Inodes /\ handle[p].log # NoLog
      /\ OneModel(View)
      /\ \A q \in Procs : handle[q] # Closed =>
           /\ OneModel(Config(q))
           /\ handle[q].log \in Inodes /\ handle[q].log # NoLog
  BY <1>1, PathFiles, OpenFiles DEF Shape, SingleInv
<1>4. ASSUME NEW q \in Procs, handle[q] # Closed PROVE OneModel(Config(q))'
  <2>1. CASE handle[q].log # handle[p].log
    <3>1. Config(q)' = Config(q)
      BY <1>2, <1>3, <1>4, <2>1 DEF Config, Content
    <3>2. QED
      BY <1>3, <1>4, <3>1 DEF OneModel
  <2>2. CASE handle[q].log = handle[p].log
    <3>1. Config(q)' = Config(q) \cup ({item} \cap Models)
      BY <1>2, <1>3, <1>4, <2>2 DEF Config, Content
    <3>2. handle[q].file = handle[p].file
      BY <1>1, <1>4, <2>2 DEF OpenPaired
    <3>3. Config(q) = Config(p)
      BY <2>2, <3>2 DEF Config, Content
    <3>4. QED
      BY <1>3, <1>4, <3>1, <3>3 DEF OneModel
  <2>3. QED
    BY <2>1, <2>2
<1>5. OneModel(View)'
  <2>1. CASE path.log # handle[p].log
    <3>1. View' = View
      BY <1>2, <1>3, <2>1 DEF View, Content
    <3>2. QED
      BY <1>3, <3>1 DEF OneModel
  <2>2. CASE path.log = handle[p].log
    <3>1. path.file = handle[p].file
      BY <1>1, <1>3, <2>2 DEF PathPaired, OpenPaired
    <3>2. View' = View \cup {item} /\ View \cap Models = Config(p)
      BY <1>2, <1>3, <2>2, <3>1 DEF View, Config, Content
    <3>3. QED
      BY <1>3, <3>2 DEF OneModel
  <2>3. QED
    BY <2>1, <2>2
<1>6. QED
  BY <1>2, <1>4, <1>5, SameBackups, SingleFrom

LEMMA CheckpointSingle ==
  ASSUME Inv, SingleInv, Sound, NEW p \in Procs, Checkpoint(p)
  PROVE  SingleInv'
<1>1. Shape /\ PathPaired /\ OpenPaired /\ PathAlone /\ Uncovered
  BY DEF Inv, SoundInv
<1>2. /\ handle[p] # Closed /\ path' = path /\ handle' = handle /\ backups' = backups
  BY DEF Checkpoint, process
<1>3. /\ \A i \in Inodes : i # handle[p].file => base'[i] = base[i]
      /\ \A i \in Inodes : i # handle[p].log => log'[i] = log[i]
      /\ base'[handle[p].file] = Content(handle[p])
      /\ log'[handle[p].log].items = {}
  BY <1>1, CheckpointTypes
<1>4. /\ path.file \in Inodes /\ path.log \in Inodes \cup {NoLog}
      /\ \A q \in Procs : handle[q] # Closed =>
           handle[q].file \in Inodes /\ handle[q].log \in Inodes /\ handle[q].log # NoLog
  BY <1>1, PathFiles, OpenFiles DEF Shape
<1>5. OneModel(View) /\ \A q \in Procs : handle[q] # Closed => OneModel(Config(q))
  BY DEF SingleInv
<1>6. ASSUME NEW q \in Procs, handle[q] # Closed PROVE OneModel(Config(q))'
  <2>1. Content(handle[q])' \subseteq Content(handle[q])
    <3>1. CASE handle[q].file = handle[p].file
      <4>1. handle[q].log = handle[p].log
        BY <1>1, <1>2, <3>1 DEF OpenPaired
      <4>2. QED
        BY <1>2, <1>3, <1>4, <1>6, <3>1, <4>1 DEF Content
    <3>2. CASE handle[q].file # handle[p].file
      <4>1. handle[q].log # handle[p].log
        BY <1>1, <1>2, <1>6, <3>2 DEF OpenPaired
      <4>2. QED
        BY <1>2, <1>3, <1>4, <1>6, <3>2, <4>1 DEF Content
    <3>3. QED
      BY <3>1, <3>2
  <2>2. QED
    BY <1>5, <1>6, <2>1 DEF Config, OneModel
<1>7. OneModel(View)'
  <2>1. CASE path.file = handle[p].file
    <3>1. path.log \in {NoLog, handle[p].log}
      BY <1>1, <1>2, <2>1 DEF OpenPaired
    <3>2. View' = Content(handle[p])
      BY <1>2, <1>3, <1>4, <2>1, <3>1 DEF View, Content
    <3>3. QED
      BY <1>2, <1>5, <3>2 DEF Config, OneModel
  <2>2. CASE path.file # handle[p].file
    <3>1. path.log # NoLog => path.log # handle[p].log
      BY <1>1, <1>2, <2>2 DEF PathPaired, OpenPaired
    <3>2. View' = View
      BY <1>2, <1>3, <1>4, <2>2, <3>1 DEF View, Content
    <3>3. QED
      BY <1>5, <3>2 DEF OneModel
  <2>3. QED
    BY <2>1, <2>2
<1>8. QED
  BY <1>2, <1>6, <1>7, SameBackups, SingleFrom

LEMMA QuietSingle ==
  ASSUME Inv, SingleInv, Sound, UNCHANGED <<base, log, path, handle>>,
         \A b \in DOMAIN backups' : OneModel(backups'[b])
  PROVE  SingleInv'
<1>1. View' = View /\ \A q \in Procs : handle[q] # Closed => Kept(q)
  BY DEF View, Kept, Config, Content
<1>2. OneModel(View)'
  BY <1>1 DEF SingleInv, OneModel
<1>3. QED
  BY <1>1, <1>2, SingleFrom

LEMMA ProcessSingle ==
  ASSUME Inv, SingleInv, Sound, Sound', NEW p \in Procs,
         Open(p) \/ Validate(p) \/ Seed(p) \/ StoreMemory(p)
           \/ Checkpoint(p) \/ Reconnect(p) \/ Close(p) \/ Crash(p)
  PROVE  SingleInv'
<1>1. /\ base \in [Inodes -> SUBSET Items] /\ log \in [Inodes -> Logs]
      /\ state[p] = "down" <=> handle[p] = Closed
      /\ Shape
  BY DEF Inv, Shape, TypeOK, Logs
<1>2. CASE Open(p)
  BY <1>1, <1>2, EnterSingle DEF Open
<1>3. CASE Validate(p)
  <2>1. backups' = backups /\ handle[p] # Closed
    BY <1>1, <1>3 DEF Validate
  <2>2. CASE Detach(p)
    BY <2>1, <2>2, LeaveSingle
  <2>3. CASE ~Detach(p)
    BY <1>3, <2>1, <2>3, SameBackups, QuietSingle DEF Validate, disk
  <2>4. QED
    BY <2>2, <2>3
<1>4. CASE Seed(p)
  <2>1. backups' = backups /\ handle[p] # Closed
    BY <1>1, <1>4 DEF Seed
  <2>2. CASE Config(p) = {}
    BY <1>4, <2>1, <2>2, CommitSingle, ModelIsItem DEF Seed
  <2>3. CASE Config(p) # {}
    BY <1>4, <2>1, <2>3, LeaveSingle DEF Seed
  <2>4. QED
    BY <2>2, <2>3
<1>5. CASE StoreMemory(p)
  <2>1. backups' = backups /\ handle[p] # Closed
    BY <1>1, <1>5 DEF StoreMemory, Running
  <2>2. PICK row \in Rows : Commit(p, row)
    BY <1>5 DEF StoreMemory
  <2>3. row \in Items /\ row \notin Models
    BY DatabaseAssumption DEF DatabaseAssumption, Rows, Items
  <2>4. QED
    BY <2>1, <2>2, <2>3, CommitSingle
<1>6. CASE Checkpoint(p)
  BY <1>6, CheckpointSingle
<1>7. CASE Reconnect(p)
  <2>1. /\ backups' = backups /\ handle[p] # Closed /\ handle[p] # path
        /\ Attach(p, Folded(p), Emptied(p))
    BY <1>1, <1>7 DEF Reconnect, Running
  <2>2. /\ Folded(p) \in [Inodes -> SUBSET Items] /\ Emptied(p) \in [Inodes -> Logs]
    BY <1>1, <2>1, FoldedFiles
  <2>3. pc # "rename" =>
          /\ Folded(p)[path.file] = base[path.file]
          /\ path.log # NoLog => Emptied(p)[path.log] = log[path.log]
          /\ \A q \in Procs \ {p} : handle[q] # Closed =>
               /\ Folded(p)[handle[q].file] = base[handle[q].file]
               /\ Emptied(p)[handle[q].log] = log[handle[q].log]
    BY <2>1, ReconnectFiles
  <2>4. QED
    BY <2>1, <2>2, <2>3, EnterSingle
<1>8. CASE Close(p)
  BY <1>8, LeaveSingle DEF Close
<1>9. CASE Crash(p)
  BY <1>9, LeaveSingle DEF Crash
<1>10. QED
  BY <1>2, <1>3, <1>4, <1>5, <1>6, <1>7, <1>8, <1>9

LEMMA BackupSingle ==
  ASSUME Inv, SingleInv, Sound, Sound', Backup
  PROVE  SingleInv'
<1>1. Shape /\ PathPaired /\ OpenPaired /\ OneModel(View)
  BY DEF Inv, SoundInv, SingleInv
<1>2. handle' = handle /\ backups' = Append(backups, View)
  BY DEF Backup, process
<1>3. View \in SUBSET Items
  BY <1>1, BackupTypes
<1>4. \A b \in DOMAIN backups' : OneModel(backups'[b])
  BY <1>1, <1>2, <1>3, AnotherBackup
<1>5. CASE UNCHANGED disk
  BY <1>2, <1>4, <1>5, QuietSingle DEF disk
<1>6. CASE ~UNCHANGED disk
  <2>1. /\ path.log # NoLog /\ \A p \in Procs : handle[p].log # path.log
        /\ base' = [base EXCEPT ![path.file] = View]
        /\ log' = [log EXCEPT ![path.log] = Gone]
        /\ path' = [path EXCEPT !.log = NoLog]
    BY <1>6 DEF Backup
  <2>2. path.file \in Inodes /\ path.log \in Inodes /\ path'.file = path.file /\ path'.log = NoLog
    BY <1>1, <2>1, PathFiles DEF Shape, TypeOK, Names
  <2>3. base \in [Inodes -> SUBSET Items] /\ log \in [Inodes -> Logs]
    BY <1>1 DEF Shape, TypeOK, Logs
  <2>4. View' = View
    BY <2>1, <2>2, <2>3 DEF View, Content
  <2>5. ASSUME NEW q \in Procs, handle[q] # Closed PROVE Kept(q)
    <3>1. handle[q].file \in Inodes /\ handle[q].log \in Inodes
      BY <1>1, <2>5, OpenFiles
    <3>2. handle[q].file # path.file
      BY <1>1, <2>1, <2>5 DEF OpenPaired
    <3>3. QED
      BY <1>1, <1>2, <2>1, <2>3, <2>5, <3>1, <3>2, SameFilesKept
  <2>6. OneModel(View)'
    BY <1>1, <2>4 DEF OneModel
  <2>7. QED
    BY <1>2, <1>4, <2>5, <2>6, SingleFrom
<1>7. QED
  BY <1>5, <1>6

LEMMA SidecarSingle ==
  ASSUME Inv, SingleInv, Sound, RemoveSidecars
  PROVE  SingleInv'
<1>1. Shape /\ OneModel(View)
  BY DEF Inv, SingleInv
<1>2. /\ backups' = backups /\ handle' = handle
      /\ \A q \in Procs : handle[q] # Closed =>
           base'[handle[q].file] = base[handle[q].file] /\ log'[handle[q].log] = log[handle[q].log]
  BY <1>1, SidecarTypes DEF RemoveSidecars
<1>3. ASSUME NEW q \in Procs, handle[q] # Closed PROVE Kept(q)
  BY <1>1, <1>2, <1>3, SameFilesKept
<1>4. View' \subseteq View
  <2> DEFINE n == [path EXCEPT !.log = NoLog]
  <2>1. /\ base \in [Inodes -> SUBSET Items] /\ log \in [Inodes -> Logs]
        /\ handle \in [Procs -> Names \cup {Closed}]
        /\ n \in Names /\ n.file = path.file /\ n.log = NoLog
    BY <1>1 DEF Shape, TypeOK, Logs, Names
  <2>2. Files(base, log, n, handle)
    BY DEF RemoveSidecars
  <2> HIDE DEF n
  <2>3. path' = n /\ base'[n.file] = base[n.file]
    BY <2>1, <2>2, FilesEffect
  <2>4. QED
    BY <2>1, <2>3 DEF View, Content
<1>5. OneModel(View)'
  BY <1>1, <1>4 DEF OneModel
<1>6. QED
  BY <1>2, <1>3, <1>5, SameBackups, SingleFrom

LEMMA RenameSingle ==
  ASSUME Inv, SingleInv, Sound, Rename
  PROVE  SingleInv'
<1>1. Shape /\ path.log = NoLog
  BY DEF Rename, Inv, SoundInv, Uncovered
<1>2. /\ path'.file = FreeFile /\ path'.log = path.log /\ handle' = handle
      /\ base'[FreeFile] = backups[source] /\ backups' = backups
      /\ \A q \in Procs : handle[q] # Closed =>
           base'[handle[q].file] = base[handle[q].file] /\ log'[handle[q].log] = log[handle[q].log]
  BY <1>1, RenameTypes DEF Rename
<1>3. ASSUME NEW q \in Procs, handle[q] # Closed PROVE Kept(q)
  BY <1>1, <1>2, <1>3, SameFilesKept
<1>4. View' = backups[source]
  BY <1>1, <1>2 DEF View, Content
<1>5. source \in DOMAIN backups
  BY <1>1 DEF Rename, Shape
<1>6. OneModel(View)'
  BY <1>4, <1>5 DEF OneModel, SingleInv
<1>7. QED
  BY <1>2, <1>3, <1>6, SameBackups, SingleFrom

LEMMA AdminSingle ==
  ASSUME Inv, SingleInv, Sound, Sound',
         \/ Backup \/ BackupIncomplete \/ (\E b \in DOMAIN backups : CheckBackup(b))
         \/ Copy \/ RemoveSidecars \/ Rename \/ StopRestore
  PROVE  SingleInv'
<1>1. Shape
  BY DEF Inv
<1>2. CASE BackupIncomplete
  <2>1. backups' = Append(backups, {}) /\ UNCHANGED <<base, log, path, handle>>
    BY <1>2 DEF BackupIncomplete, disk, process
  <2>2. OneModel({}) /\ {} \in SUBSET Items
    BY DEF OneModel
  <2>3. QED
    BY <1>1, <2>1, <2>2, AnotherBackup, QuietSingle
<1>3. ASSUME NEW b \in DOMAIN backups, CheckBackup(b) PROVE SingleInv'
  BY <1>3, SameBackups, QuietSingle DEF CheckBackup, disk, process
<1>4. CASE Copy
  BY <1>4, SameBackups, QuietSingle DEF Copy, disk, process
<1>5. CASE StopRestore
  BY <1>5, SameBackups, QuietSingle DEF StopRestore, disk, process
<1>6. QED
  BY <1>2, <1>3, <1>4, <1>5, BackupSingle, SidecarSingle, RenameSingle

LEMMA SingleStays == Inv /\ SingleInv /\ [Next]_vars => SingleInv'
<1>1. CASE UNCHANGED vars
  BY <1>1 DEF vars, disk, process, SingleInv, Sound, View, Config, Content
<1>2. ASSUME Inv, SingleInv, Next, Sound' PROVE SingleInv'
  <2>1. Sound
    BY <1>2 DEF Next
  <2>2. QED
    BY <1>2, <2>1, ProcessSingle, AdminSingle DEF Next, Step
<1>3. QED
  BY <1>1, <1>2 DEF SingleInv

LEMMA Singularity == Spec => []SingleInv
<1>1. Init => SingleInv
  <2>1. SUFFICES ASSUME Init PROVE SingleInv
    OBVIOUS
  <2>2. /\ base[path.file] = {} /\ path.log = NoLog /\ DOMAIN backups = {}
        /\ \A p \in Procs : handle[p] = Closed
    BY <2>1, InodeNumbers DEF Init
  <2>3. QED
    BY <2>2 DEF SingleInv, OneModel, View, Content
<1>2. QED
  BY <1>1, SingleStays, Invariance, PTL DEF Spec

(* ValidateEmbeddingConfig: no database in use has two models, and whoever *)
(* passed the check has the model of the database it has open, whichever   *)
(* process seeded it, until its connection moves to a restored database.   *)
THEOREM ValidatedModelsAgree == Spec => []ModelsAgree
<1>1. Inv /\ SingleInv => ModelsAgree
  <2>1. SUFFICES ASSUME Inv, SingleInv, Sound PROVE ModelsAgree
    BY DEF ModelsAgree
  <2>2. \A p \in Procs : state[p] = "up" => Config(p) = {Model[p]}
    BY <2>1 DEF Inv, SoundInv, Agreed
  <2>3. \A f \in InUse \ {Closed} : OneModel(Content(f))
    <3>1. \A f \in InUse \ {Closed} :
            f = path \/ \E p \in Procs : f = handle[p] /\ handle[p] # Closed
      BY DEF InUse
    <3>2. QED
      BY <2>1, <3>1 DEF SingleInv, OneModel, Config, View
  <2>4. QED
    BY <2>2, <2>3 DEF ModelsAgree, OneModel
<1>2. QED
  BY <1>1, Invariance, Singularity, PTL
=============================================================================

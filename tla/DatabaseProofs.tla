--------------------------- MODULE DatabaseProofs ----------------------------
(***************************************************************************)
(* Proofs about Database, for any number of processes, statements and      *)
(* versions, and every fault: what the version recorded in a file promises *)
(* holds, another program's file is left alone, and a backup reported as   *)
(* taken is whole.                                                         *)
(*                                                                         *)
(* A step is one operation on the files (FileStep) and one on what its     *)
(* process remembers (Moves).  The files keep their own invariant under    *)
(* the first; what the other processes rely on is that databases only      *)
(* grow, and that a file whose lock one holds stands still.                *)
(***************************************************************************)
EXTENDS Database, TLAPS

Place == {"idle", "list", "version", "apply", "record", "recorded", "tables", "plan",
          "pending", "commit", "stamp", "probe", "create", "copy", "stat", "check",
          "modal", "bare", "ready"} \cup Ended

Memory == [on : Inode \cup {0}, to : Inode \cup {0}, uv : Version, snap : Content,
           sees : {"", "fresh", "full"}, blind : BOOLEAN, next : 0..Stmts + 1]

(* Types, with the bound on inodes instead of how many have been used.       *)
Types == /\ disk \in [Inode -> Content]
         /\ name \in [db : Inode \cup {0}, backup : Inode \cup {0}]
         /\ used \in Inode
         /\ lock \in [Inode -> Proc \cup {Nobody}]
         /\ at \in [Proc -> Place]
         /\ mine \in [Proc -> Memory]

(* No inode beyond those that have been used.                                *)
Within == /\ name.db <= used /\ name.backup <= used
          /\ \A p \in Proc : mine[p].on <= used /\ mine[p].to <= used

LevelOK(f) == /\ f.uv > 0 => f.level >= Tables
              /\ f.uv > 1 => f.level >= Full(f.uv)

DiskOK == \A i \in Inode : LevelOK(disk[i]) /\ (i > used => disk[i] = Empty)

(* Databases and targets of backups are different files.                     *)
Apart ==
    /\ name.db # 0 => name.db # name.backup
    /\ \A p \in Proc : mine[p].on # 0 => mine[p].on # name.backup
    /\ \A s \in Proc : mine[s].to # 0 =>
          /\ mine[s].to # name.db
          /\ \A p \in Proc : mine[p].on # mine[s].to

(* The database p has open is no other program's: it has its tables or none
   but Acta's, unless p could not tell.                                      *)
Trusted(p) == \/ ~Db(p).foreign
              \/ AllTables(Db(p))
              \/ p \in Cli /\ mine[p].blind

(* What a process knows of the database it has opened.                       *)
Working == {"list", "version", "apply", "record", "recorded", "tables", "plan", "pending",
            "commit", "stamp", "probe", "create", "copy"}
Knows(p) ==
    /\ at[p] \in Working => mine[p].on # 0
    /\ at[p] = "version" => /\ mine[p].sees = "fresh" => Trusted(p)
                            /\ mine[p].sees = "full" => Db(p).level >= Tables
    /\ at[p] = "apply" => mine[p].next \in 1..Stmts
    /\ at[p] = "record" => Db(p).level >= Tables
    /\ at[p] \in {"apply", "plan", "pending", "commit"} => Trusted(p)
    /\ at[p] = "commit" => /\ lock[mine[p].on] = p
                           /\ Db(p).level = Full(mine[p].uv) /\ mine[p].uv < Versions
    /\ at[p] = "stamp" => Db(p).level >= Full(mine[p].uv + 1) /\ mine[p].uv < Versions
    /\ at[p] = "bare" => name.db = 0 \/ ~disk[name.db].foreign
    /\ at[p] = "copy" => mine[p].to # 0

FileInv == Types /\ Within /\ DiskOK /\ Apart
DbInv == FileInv /\ \A p \in Proc : Knows(p)

-----------------------------------------------------------------------------
(* Arithmetic of levels                                                      *)

(* Each version's level is at least the last table's, and above the one
   before.                                                                   *)
LEMMA Levels ==
    /\ Full(0) = 0
    /\ \A v \in Version : Full(v) \in 0..Full(Versions)
    /\ \A v \in Version : v > 0 => Full(v) >= Stmts /\ Full(v) >= Tables
    /\ \A v \in Version : v < Versions => v + 1 \in Version /\ Full(v) <= Full(v + 1)
    /\ Stmts \in 0..Full(Versions) /\ 1 \in Version
BY VersionsAssumption, StmtsAssumption DEF Full, Version

(* A file that is not there yet is a content like any other.                 *)
LEMMA EmptyOK == Empty \in Content /\ LevelOK(Empty) /\ ~Empty.foreign
<1>1. Empty \in Content
  BY Levels, VersionsAssumption DEF Empty, Content, Version
<1> QED
  BY <1>1 DEF Empty, LevelOK

LEMMA ContentOf ==
    ASSUME Types, NEW i \in Inode
    PROVE  /\ disk[i] \in Content
           /\ disk[i].level \in Nat /\ disk[i].uv \in Version /\ disk[i].uv \in Nat
           /\ disk[i].foreign \in BOOLEAN /\ disk[i].rows \in BOOLEAN
<1>1. disk[i] \in Content
  BY DEF Types
<1>2. \A v \in Version : v \in Nat
  BY DEF Version
<1> QED
  BY <1>1, <1>2 DEF Content

-----------------------------------------------------------------------------
(* One operation on the files                                                *)

(* What a step may do to the files, and what p must know for it.             *)
Applies(p, n) == /\ n \in 1..Stmts /\ mine[p].on # 0 /\ Unlocked(p)
                 /\ Db(p).level = n - 1 /\ Trusted(p)
                 /\ Put(mine[p].on, [Db(p) EXCEPT !.level = n])
                 /\ UNCHANGED <<name, used, lock>>
Records(p, v) == /\ v \in Version /\ mine[p].on # 0 /\ SetVersion(p, v)
                 /\ Db(p).level >= Tables
                 /\ v > 1 => Db(p).level >= Full(v)
Commits(p) == /\ mine[p].on # 0 /\ lock[mine[p].on] = p /\ Trusted(p)
              /\ mine[p].uv < Versions /\ Db(p).level = Full(mine[p].uv)
              /\ Put(mine[p].on, [Db(p) EXCEPT !.level = Full(mine[p].uv + 1)])
              /\ lock' = [lock EXCEPT ![mine[p].on] = Nobody]
              /\ UNCHANGED <<name, used>>
Locks(p) == /\ mine[p].on # 0 /\ lock[mine[p].on] = Nobody
            /\ lock' = [lock EXCEPT ![mine[p].on] = p]
            /\ UNCHANGED <<disk, name, used>>
Releases(p) == /\ \A i \in Inode : lock'[i] = lock[i] \/ (lock[i] = p /\ lock'[i] = Nobody)
               /\ lock' \in [Inode -> Proc \cup {Nobody}]
               /\ UNCHANGED <<disk, name, used>>
Copies(p) == /\ mine[p].on # 0 /\ mine[p].to # 0
             /\ Put(mine[p].to, Db(p))
             /\ UNCHANGED <<name, used, lock>>
Unlinks(n) == name' = [name EXCEPT ![n] = 0] /\ UNCHANGED <<disk, used, lock>>
Uses == /\ name.db # 0 /\ AllTables(disk[name.db]) /\ lock[name.db] = Nobody
        /\ Put(name.db, [disk[name.db] EXCEPT !.rows = TRUE])
        /\ UNCHANGED <<name, used, lock>>

DbFileStep(p) ==
    \/ UNCHANGED files
    \/ Open("db") \/ Unlinks("db")
    \/ \E n \in Nat : Applies(p, n)
    \/ \E v \in Version : Records(p, v)
    \/ Commits(p) \/ Locks(p) \/ Releases(p) \/ Uses
BackupFileStep(p) ==
    p \in Saver /\ (Open("backup") \/ Unlinks("backup") \/ Copies(p))
FileStep(p) == DbFileStep(p) \/ BackupFileStep(p)

(* What it leaves: files of the right kind, databases no smaller than they
   were, what a lock protects as it was.                                     *)
Grows(i) == disk'[i].level >= disk[i].level /\ disk'[i].foreign = disk[i].foreign
Protected(p) == \A i \in Inode, q \in Proc \ {p} :
    lock[i] = q /\ (\A s \in Proc : mine[s].to # i) =>
        lock'[i] = q /\ disk'[i].level = disk[i].level

FilesKept(p) ==
    /\ disk' \in [Inode -> Content] /\ lock' \in [Inode -> Proc \cup {Nobody}]
    /\ used' \in Inode /\ used' \in {used, used + 1}
    /\ name' \in [db : Inode \cup {0}, backup : Inode \cup {0}]
    /\ DiskOK'
    /\ \/ name'.db = 0 \/ name'.db = name.db
       \/ name'.db = used + 1 /\ used' = used + 1 /\ name'.backup = name.backup
    /\ \/ name'.backup = 0 \/ name'.backup = name.backup
       \/ name'.backup = used + 1 /\ used' = used + 1 /\ name'.db = name.db
    /\ \A i \in Inode : (\A s \in Proc : mine[s].to # i) => Grows(i)
    /\ Protected(p)

(* A file is written.                                                        *)
LEMMA PutKeeps ==
    ASSUME FileInv, NEW i \in Inode, i <= used, NEW f \in Content, LevelOK(f), Put(i, f), used' = used
    PROVE  /\ disk' \in [Inode -> Content] /\ disk'[i] = f
           /\ \A j \in Inode : j # i => disk'[j] = disk[j]
           /\ DiskOK'
<1>1. /\ disk' \in [Inode -> Content] /\ disk'[i] = f
      /\ \A j \in Inode : j # i => disk'[j] = disk[j]
  BY DEF FileInv, Types, Put
<1>2. used \in Int /\ i \in Int /\ ~(i > used)
  BY InodeAssumption DEF FileInv, Types, Inode
<1>3. ASSUME NEW j \in Inode
      PROVE  LevelOK(disk'[j]) /\ (j > used => disk'[j] = Empty)
  BY <1>1, <1>2 DEF FileInv, DiskOK
<1> QED
  BY <1>1, <1>3 DEF DiskOK, LevelOK

(* The inode of a handle is one that is used.                                *)
LEMMA HandleUsed ==
    ASSUME FileInv, NEW p \in Proc
    PROVE  /\ mine[p].on # 0 => mine[p].on \in Inode /\ mine[p].on <= used
           /\ mine[p].to # 0 => mine[p].to \in Inode /\ mine[p].to <= used
           /\ mine[p] \in Memory
<1>1. mine[p] \in Memory
  BY DEF FileInv, Types
<1> QED
  BY <1>1 DEF Memory, FileInv, Within

(* What does not touch disk, names and inodes.                               *)
LEMMA LockOnlyKeeps ==
    ASSUME FileInv, NEW p, UNCHANGED <<disk, name, used>>,
           lock' \in [Inode -> Proc \cup {Nobody}],
           \A i \in Inode : lock[i] \in Proc \ {p} => lock'[i] = lock[i]
    PROVE  FilesKept(p)
<1>1. \A i \in Inode : Grows(i)
  <2> SUFFICES ASSUME NEW i \in Inode PROVE Grows(i)
    OBVIOUS
  <2>1. disk[i].level \in Nat
    BY ContentOf DEF FileInv
  <2> QED
    BY <2>1 DEF Grows
<1>2. DiskOK'
  BY DEF FileInv, DiskOK, LevelOK
<1>3. used' \in Inode /\ used' \in {used, used + 1}
  BY InodeAssumption DEF FileInv, Types, Inode
<1> QED
  BY <1>1, <1>2, <1>3 DEF FilesKept, Protected, FileInv, Types

(* A database is written: the level does not fall, nor does another's work
   change under its lock.                                                     *)
LEMMA DatabaseWriteKeeps ==
    ASSUME FileInv, NEW p, NEW i \in Inode, i <= used, NEW f \in Content, LevelOK(f),
           Put(i, f), UNCHANGED <<name, used>>,
           f.level >= disk[i].level, f.foreign = disk[i].foreign,
           lock' \in [Inode -> Proc \cup {Nobody}],
           \A j \in Inode : lock[j] \in Proc \ {p} => lock'[j] = lock[j],
           f.level = disk[i].level \/ lock[i] \in {Nobody, p}
    PROVE  FilesKept(p)
<1>1. /\ disk' \in [Inode -> Content] /\ disk'[i] = f
      /\ \A j \in Inode : j # i => disk'[j] = disk[j]
      /\ DiskOK'
  BY PutKeeps
<1>2. \A j \in Inode : Grows(j)
  <2> SUFFICES ASSUME NEW j \in Inode PROVE Grows(j)
    OBVIOUS
  <2>1. disk[j].level \in Nat
    BY ContentOf DEF FileInv
  <2> QED
    BY <1>1, <2>1 DEF Grows
<1>3. Protected(p)
  <2> SUFFICES ASSUME NEW j \in Inode, NEW q \in Proc \ {p}, lock[j] = q
               PROVE  lock'[j] = q /\ disk'[j].level = disk[j].level
    BY DEF Protected
  <2>1. q # Nobody
    BY ProcAssumption
  <2> QED
    BY <1>1, <2>1
<1>4. used' \in Inode /\ used' \in {used, used + 1}
  BY InodeAssumption DEF FileInv, Types, Inode
<1> QED
  BY <1>1, <1>2, <1>3, <1>4 DEF FilesKept, FileInv, Types

(* A target of a backup is written.                                          *)
LEMMA CopyKeeps ==
    ASSUME FileInv, NEW p \in Proc, Copies(p)
    PROVE  FilesKept(p)
<1>1. PICK i \in Inode : i = mine[p].to /\ i <= used
  BY HandleUsed DEF Copies
<1>2. Db(p) \in Content /\ LevelOK(Db(p))
  BY HandleUsed DEF Copies, Db, FileInv, Types, DiskOK
<1>3. /\ disk' \in [Inode -> Content] /\ DiskOK'
      /\ \A j \in Inode : j # i => disk'[j] = disk[j]
  BY <1>1, <1>2, PutKeeps DEF Copies
<1>4. \A j \in Inode : (\A s \in Proc : mine[s].to # j) => Grows(j) /\ disk'[j].level = disk[j].level
  <2> SUFFICES ASSUME NEW j \in Inode, \A s \in Proc : mine[s].to # j
               PROVE  Grows(j) /\ disk'[j].level = disk[j].level
    OBVIOUS
  <2>1. disk[j].level \in Nat /\ j # i
    BY <1>1, ContentOf DEF FileInv
  <2> QED
    BY <1>3, <2>1 DEF Grows
<1>5. used' \in Inode /\ used' \in {used, used + 1}
  BY InodeAssumption DEF FileInv, Types, Inode, Copies
<1> QED
  BY <1>3, <1>4, <1>5 DEF FilesKept, Protected, FileInv, Types, Copies

(* A path is opened, and a missing file created; or a path is unlinked.      *)
LEMMA NameKeeps ==
    ASSUME FileInv, NEW p, NEW n \in {"db", "backup"}, Open(n) \/ Unlinks(n)
    PROVE  FilesKept(p)
<1>1. UNCHANGED <<disk, lock>>
  BY DEF Open, Unlinks
<1>2. \A i \in Inode : Grows(i)
  <2> SUFFICES ASSUME NEW i \in Inode PROVE Grows(i)
    OBVIOUS
  <2>1. disk[i].level \in Nat
    BY ContentOf DEF FileInv
  <2> QED
    BY <1>1, <2>1 DEF Grows
<1>3. used \in Int /\ used \in Inode
  BY InodeAssumption DEF FileInv, Types, Inode
<1>4. used' = used \/ used' = used + 1
  BY DEF Open, Unlinks
<1>5. used' \in Inode
  BY <1>3 DEF Open, Opens, Unlinks, FileInv, Types
<1>6. used' \in {used, used + 1}
  BY <1>4
<1>7. DiskOK'
  <2> SUFFICES ASSUME NEW j \in Inode PROVE LevelOK(disk[j]) /\ (j > used' => disk[j] = Empty)
    BY <1>1 DEF DiskOK, LevelOK
  <2>1. j \in Int
    BY InodeAssumption DEF Inode
  <2>2. j > used' => j > used
    BY <1>3, <1>4, <2>1
  <2> QED
    BY <2>2 DEF FileInv, DiskOK
<1>8. /\ name' \in [db : Inode \cup {0}, backup : Inode \cup {0}]
      /\ \/ name'.db = 0 \/ name'.db = name.db
         \/ name'.db = used + 1 /\ used' = used + 1 /\ name'.backup = name.backup
      /\ \/ name'.backup = 0 \/ name'.backup = name.backup
         \/ name'.backup = used + 1 /\ used' = used + 1 /\ name'.db = name.db
  BY <1>3 DEF Open, Opens, Unlinks, FileInv, Types
<1>9. Protected(p)
  BY <1>1 DEF Protected
<1> QED
  BY <1>1, <1>2, <1>5, <1>6, <1>7, <1>8, <1>9 DEF FilesKept, FileInv, Types

(* A statement of the schema.                                                *)
LEMMA AppliesKeeps ==
    ASSUME FileInv, NEW p \in Proc, NEW n \in Nat, Applies(p, n)
    PROVE  FilesKept(p)
<1>1. PICK i \in Inode : i = mine[p].on /\ i <= used
  BY HandleUsed DEF Applies
<1>2. PICK f : f = [Db(p) EXCEPT !.level = n]
  OBVIOUS
<1>3. /\ disk[i] \in Content /\ disk[i].level \in Nat /\ disk[i].uv \in Nat /\ LevelOK(disk[i])
      /\ disk[i].level = n - 1 /\ Db(p) = disk[i]
  BY <1>1, ContentOf DEF FileInv, DiskOK, Applies, Db
<1>4. n \in 0..Full(Versions)
  BY Levels, StmtsAssumption, VersionsAssumption DEF Applies, Full
<1>5. f \in Content /\ f.level = n /\ f.uv = disk[i].uv /\ f.foreign = disk[i].foreign
  BY <1>2, <1>3, <1>4 DEF Content
<1>6. n >= disk[i].level
  BY <1>3
<1>7. f.uv > 0 => f.level >= Tables
  BY <1>3, <1>5, <1>6, StmtsAssumption DEF LevelOK
<1>8. f.uv > 1 => f.level >= Full(f.uv)
  <2>1. f.uv > 1 => Full(f.uv) \in Nat
    BY <1>3, <1>5, StmtsAssumption DEF Full
  <2> QED
    BY <1>3, <1>5, <1>6, <2>1 DEF LevelOK
<1>9. LevelOK(f)
  BY <1>3, <1>5, <1>7, <1>8 DEF LevelOK
<1> QED
  BY <1>1, <1>2, <1>3, <1>5, <1>6, <1>9, DatabaseWriteKeeps DEF Applies, Unlocked, FileInv, Types

(* PRAGMA user_version.                                                      *)
LEMMA RecordsKeeps ==
    ASSUME FileInv, NEW p \in Proc, NEW v \in Version, Records(p, v)
    PROVE  FilesKept(p)
<1>1. PICK i \in Inode : i = mine[p].on /\ i <= used
  BY HandleUsed DEF Records
<1>2. PICK f : f = [Db(p) EXCEPT !.uv = v]
  OBVIOUS
<1>3. disk[i] \in Content /\ disk[i].level \in Nat /\ LevelOK(disk[i]) /\ Db(p) = disk[i]
  BY <1>1, ContentOf DEF FileInv, DiskOK, Db
<1>4. f \in Content /\ f.level = disk[i].level /\ f.uv = v /\ f.foreign = disk[i].foreign
  BY <1>2, <1>3 DEF Content
<1>5. LevelOK(f)
  BY <1>3, <1>4 DEF LevelOK, Records
<1>6. f.level >= disk[i].level
  BY <1>3, <1>4
<1> QED
  BY <1>1, <1>2, <1>4, <1>5, <1>6, DatabaseWriteKeeps
     DEF Records, SetVersion, FileInv, Types

(* The transaction of a migration.                                           *)
LEMMA CommitsKeeps ==
    ASSUME FileInv, NEW p \in Proc, Commits(p)
    PROVE  FilesKept(p)
<1>1. PICK i \in Inode : i = mine[p].on /\ i <= used
  BY HandleUsed DEF Commits
<1>2. PICK v \in Version : v = mine[p].uv /\ v < Versions
  BY HandleUsed DEF Commits, Memory
<1>3. PICK f : f = [Db(p) EXCEPT !.level = Full(v + 1)]
  OBVIOUS
<1>4. /\ disk[i] \in Content /\ disk[i].level \in Nat /\ disk[i].uv \in Nat /\ LevelOK(disk[i])
      /\ disk[i].level = Full(v) /\ Db(p) = disk[i]
  BY <1>1, <1>2, ContentOf DEF FileInv, DiskOK, Commits, Db
<1>5. Full(v + 1) \in 0..Full(Versions) /\ Full(v) <= Full(v + 1) /\ Full(v + 1) \in Nat
  <2>1. v + 1 \in Version /\ Full(v) <= Full(v + 1)
    BY <1>2, Levels
  <2> QED
    BY <2>1, Levels
<1>6. /\ f \in Content /\ f.level = Full(v + 1) /\ f.uv = disk[i].uv
      /\ f.foreign = disk[i].foreign
  BY <1>3, <1>4, <1>5 DEF Content
<1>7. f.level >= disk[i].level
  BY <1>4, <1>5, <1>6
<1>8. f.uv > 0 => f.level >= Tables
  BY <1>4, <1>6, <1>7, <1>5, StmtsAssumption DEF LevelOK
<1>9. f.uv > 1 => f.level >= Full(f.uv)
  <2>1. f.uv > 1 => Full(f.uv) \in Nat
    BY <1>4, <1>6, StmtsAssumption DEF Full
  <2> QED
    BY <1>4, <1>5, <1>6, <1>7, <2>1 DEF LevelOK
<1>10. LevelOK(f)
  BY <1>4, <1>6, <1>8, <1>9 DEF LevelOK
<1>11. /\ lock' \in [Inode -> Proc \cup {Nobody}] /\ lock[i] = p
       /\ \A j \in Inode : lock[j] \in Proc \ {p} => lock'[j] = lock[j]
  BY <1>1 DEF Commits, FileInv, Types
<1> QED
  BY <1>1, <1>2, <1>3, <1>6, <1>7, <1>10, <1>11, DatabaseWriteKeeps DEF Commits

(* Somebody uses the database.                                               *)
LEMMA UsesKeeps ==
    ASSUME FileInv, NEW p, Uses
    PROVE  FilesKept(p)
<1>1. PICK i \in Inode : i = name.db /\ i <= used
  BY DEF Uses, FileInv, Types, Within
<1>2. PICK f : f = [disk[i] EXCEPT !.rows = TRUE]
  OBVIOUS
<1>3. disk[i] \in Content /\ disk[i].level \in Nat /\ LevelOK(disk[i])
  BY <1>1, ContentOf DEF FileInv, DiskOK
<1>4. f \in Content /\ f.level = disk[i].level /\ f.uv = disk[i].uv /\ f.foreign = disk[i].foreign
  BY <1>2, <1>3 DEF Content
<1>5. LevelOK(f) /\ f.level >= disk[i].level
  BY <1>3, <1>4 DEF LevelOK
<1> QED
  BY <1>1, <1>2, <1>4, <1>5, DatabaseWriteKeeps DEF Uses, FileInv, Types

(* Every operation keeps the files.                                          *)
LEMMA FileStepKeeps ==
    ASSUME FileInv, NEW p \in Proc, FileStep(p)
    PROVE  FilesKept(p)
<1>1. ASSUME \/ UNCHANGED files \/ Locks(p) \/ Releases(p) PROVE FilesKept(p)
  <2>1. UNCHANGED <<disk, name, used>>
    BY <1>1 DEF files, Locks, Releases
  <2>2. /\ lock' \in [Inode -> Proc \cup {Nobody}]
        /\ \A i \in Inode : lock[i] \in Proc \ {p} => lock'[i] = lock[i]
    BY <1>1, ProcAssumption DEF files, Locks, Releases, FileInv, Types
  <2> QED
    BY <2>1, <2>2, LockOnlyKeeps
<1> QED
  BY <1>1, NameKeeps, AppliesKeeps, RecordsKeeps, CommitsKeeps, CopyKeeps, UsesKeeps
     DEF FileStep, DbFileStep, BackupFileStep

-----------------------------------------------------------------------------
(* One step of a process                                                     *)

(* A step of p: an operation on the files, a handle p had or one on what the
   path names now, and what p has to know where it goes.                     *)
Moves(p) ==
    /\ FileStep(p)
    /\ at' \in [Proc -> Place] /\ mine' \in [Proc -> Memory]
    /\ \A q \in Proc \ {p} : at'[q] = at[q] /\ mine'[q] = mine[q]
    /\ mine'[p].on \in {0, mine[p].on, name'.db}
    /\ mine'[p].to \in {0, mine[p].to, name'.backup}
    /\ Knows(p)'

(* What the numbers of inodes are.                                           *)
LEMMA Numbers ==
    ASSUME FileInv
    PROVE  /\ used \in Nat /\ name.db \in Nat /\ name.backup \in Nat
           /\ \A p \in Proc : mine[p].on \in Nat /\ mine[p].to \in Nat
<1>1. \A i \in Inode \cup {0} : i \in Nat
  BY InodeAssumption DEF Inode
<1> QED
  BY <1>1 DEF FileInv, Types, Memory

(* The files a step creates are nobody's yet.                                *)
LEMMA ApartKept ==
    ASSUME FileInv, NEW p \in Proc, FilesKept(p), Moves(p)
    PROVE  Within' /\ Apart'
<1>1. /\ used' = used \/ used' = used + 1
      /\ \/ name'.db = 0 \/ name'.db = name.db
         \/ name'.db = used + 1 /\ used' = used + 1 /\ name'.backup = name.backup
      /\ \/ name'.backup = 0 \/ name'.backup = name.backup
         \/ name'.backup = used + 1 /\ used' = used + 1 /\ name'.db = name.db
  BY DEF FilesKept
<1>2. ASSUME NEW q \in Proc
      PROVE  /\ mine'[q].on \in {0, mine[q].on, name'.db}
             /\ mine'[q].to \in {0, mine[q].to, name'.backup}
  BY DEF Moves
<1>3. /\ name.db <= used /\ name.backup <= used
      /\ \A q \in Proc : mine[q].on <= used /\ mine[q].to <= used
  BY DEF FileInv, Within
<1>4. Within'
  <2>1. name'.db <= used' /\ name'.backup <= used'
    BY <1>1, <1>3, Numbers
  <2>2. ASSUME NEW q \in Proc PROVE mine'[q].on <= used' /\ mine'[q].to <= used'
    BY <1>1, <1>2, <1>3, <2>1, Numbers
  <2> QED
    BY <2>1, <2>2 DEF Within
<1>5. name'.db # 0 => name'.db # name'.backup
  BY <1>1, <1>3, Numbers DEF FileInv, Apart
<1>6. ASSUME NEW q \in Proc, mine'[q].on # 0 PROVE mine'[q].on # name'.backup
  BY <1>1, <1>2, <1>3, <1>5, <1>6, Numbers DEF FileInv, Apart
<1>7. ASSUME NEW s \in Proc, mine'[s].to # 0
      PROVE  mine'[s].to # name'.db /\ \A q \in Proc : mine'[q].on # mine'[s].to
  <2>1. mine'[s].to # name'.db
    BY <1>1, <1>2, <1>3, <1>5, <1>7, Numbers DEF FileInv, Apart
  <2>2. ASSUME NEW q \in Proc PROVE mine'[q].on # mine'[s].to
    <3>1. CASE mine'[s].to = mine[s].to /\ mine'[q].on = mine[q].on
      BY <1>7, <3>1 DEF FileInv, Apart
    <3>2. CASE mine'[s].to = name'.backup
      BY <1>6, <1>7, <3>2
    <3>3. CASE mine'[q].on = name'.db \/ mine'[q].on = 0
      BY <1>7, <2>1, <3>3
    <3> QED
      BY <1>2, <1>7, <3>1, <3>2, <3>3
  <2> QED
    BY <2>1, <2>2
<1> QED
  BY <1>4, <1>5, <1>6, <1>7 DEF Apart

(* The others still know what they knew.                                     *)
LEMMA OthersKnow ==
    ASSUME DbInv, NEW p, FilesKept(p), NEW q \in Proc \ {p},
           at'[q] = at[q], mine'[q] = mine[q]
    PROVE  Knows(q)'
<1> DEFINE i == mine[q].on
<1>1. FileInv /\ Knows(q)
  BY DEF DbInv
<1>2. ASSUME i # 0
      PROVE  /\ i \in Inode /\ Grows(i) /\ disk'[i].level \in Nat /\ disk[i].level \in Nat
             /\ lock[i] = q => lock'[i] = q /\ disk'[i].level = disk[i].level
  <2>1. i \in Inode /\ \A s \in Proc : mine[s].to # i
    BY <1>1, <1>2, HandleUsed DEF FileInv, Apart
  <2>2. disk'[i].level \in Nat /\ disk[i].level \in Nat
    BY <1>1, <2>1, ContentOf DEF FilesKept, Content, FileInv
  <2> QED
    BY <2>1, <2>2 DEF FilesKept, Protected
<1>3. mine[q].uv < Versions => Full(mine[q].uv + 1) \in Nat
  <2>1. mine[q].uv \in Version
    BY <1>1, HandleUsed DEF Memory
  <2>2. mine[q].uv < Versions => mine[q].uv + 1 \in Version
    BY <2>1, Levels
  <2>3. \A v \in Version : Full(v) \in Nat
    BY Levels
  <2> QED
    BY <2>2, <2>3
<1>4. ASSUME at[q] = "bare" PROVE name'.db = 0 \/ ~disk'[name'.db].foreign
  <2>1. CASE name'.db = name.db /\ name.db # 0
    <3>1. name.db \in Inode /\ \A s \in Proc : mine[s].to # name.db
      BY <1>1, <2>1 DEF FileInv, Types, Apart
    <3> QED
      BY <1>1, <1>4, <2>1, <3>1 DEF Knows, FilesKept, Grows
  <2>2. CASE name'.db = used + 1
    <3>1. used + 1 \in Inode /\ \A s \in Proc : mine[s].to # used + 1
      <4>1. \A s \in Proc : mine[s].to # used + 1
        BY <1>1, Numbers DEF FileInv, Within
      <4>2. name'.db # 0
        BY <1>1, <2>2, Numbers
      <4> QED
        BY <2>2, <4>1, <4>2 DEF FilesKept
    <3>2. disk[used + 1] = Empty
      BY <1>1, <3>1, Numbers DEF FileInv, DiskOK
    <3> QED
      BY <2>2, <3>1, <3>2, EmptyOK DEF FilesKept, Grows
  <2> QED
    BY <2>1, <2>2 DEF FilesKept
<1>5. (at[q] \in Working => i # 0) /\ (at[q] = "copy" => mine[q].to # 0)
  BY <1>1 DEF Knows
<1>6. ASSUME i # 0, Trusted(q) PROVE Trusted(q)'
  BY <1>2, <1>6, StmtsAssumption DEF Trusted, Grows, Db, AllTables
<1>7. at[q] = "version" => /\ mine[q].sees = "fresh" => Trusted(q)'
                           /\ mine[q].sees = "full" => disk'[i].level >= Tables
  BY <1>1, <1>2, <1>5, <1>6, StmtsAssumption DEF Knows, Grows, Db, Working
<1>8. at[q] = "apply" => mine[q].next \in 1..Stmts
  BY <1>1 DEF Knows
<1>9. at[q] = "record" => disk'[i].level >= Tables
  BY <1>1, <1>2, <1>5, StmtsAssumption DEF Knows, Grows, Db, Working
<1>10. at[q] \in {"apply", "plan", "pending", "commit"} => Trusted(q)'
  BY <1>1, <1>5, <1>6 DEF Knows, Working
<1>11. at[q] = "commit" => /\ lock'[i] = q
                           /\ disk'[i].level = Full(mine[q].uv) /\ mine[q].uv < Versions
  BY <1>1, <1>2, <1>5 DEF Knows, Db, Working
<1>12. at[q] = "stamp" => disk'[i].level >= Full(mine[q].uv + 1) /\ mine[q].uv < Versions
  BY <1>1, <1>2, <1>3, <1>5 DEF Knows, Grows, Db, Working
<1> QED
  BY <1>4, <1>5, <1>7, <1>8, <1>9, <1>10, <1>11, <1>12 DEF Knows, Db

(* A step of a process preserves the invariant.                              *)
LEMMA MovesKeep ==
    ASSUME DbInv, NEW p \in Proc, Moves(p)
    PROVE  DbInv'
<1>1. FileInv /\ FilesKept(p)
  BY FileStepKeeps DEF DbInv, Moves
<1>2. Types'
  BY <1>1 DEF Types, FilesKept, Moves
<1>3. Within' /\ Apart'
  BY <1>1, ApartKept
<1>4. DiskOK'
  BY <1>1 DEF FilesKept
<1>5. ASSUME NEW q \in Proc PROVE Knows(q)'
  <2>1. CASE q = p
    BY <2>1 DEF Moves
  <2>2. CASE q # p
    BY <1>1, <2>2, OthersKnow DEF Moves
  <2> QED
    BY <2>1, <2>2
<1> QED
  BY <1>2, <1>3, <1>4, <1>5 DEF DbInv, FileInv

(* So does somebody's use of the database.                                   *)
LEMMA UseKeeps ==
    ASSUME DbInv, Use
    PROVE  DbInv'
<1>1. FileInv /\ Uses /\ UNCHANGED <<name, used, lock, at, mine>>
  BY DEF DbInv, Use, Uses
<1>2. FilesKept(Nobody)
  BY <1>1, UsesKeeps
<1>3. Types' /\ DiskOK'
  BY <1>1, <1>2 DEF FilesKept, FileInv, Types
<1>4. Within' /\ Apart'
  BY <1>1 DEF FileInv, Within, Apart
<1>5. ASSUME NEW q \in Proc PROVE Knows(q)'
  <2>1. q \in Proc \ {Nobody}
    BY ProcAssumption
  <2> QED
    BY <1>1, <1>2, <2>1, OthersKnow
<1> QED
  BY <1>3, <1>4, <1>5 DEF DbInv, FileInv

-----------------------------------------------------------------------------
(* The actions are such steps                                                *)

(* What assignments to the place and the memory of p do.                     *)
LEMMA MemoMoves ==
    ASSUME DbInv, NEW p \in Proc, FileStep(p), NEW l \in Place, Goto(p, l),
           NEW m \in Memory, mine' = [mine EXCEPT ![p] = m],
           m.on \in {0, mine[p].on, name'.db}, m.to \in {0, mine[p].to, name'.backup},
           Knows(p)'
    PROVE  Moves(p)
<1>1. at' \in [Proc -> Place] /\ mine' \in [Proc -> Memory] /\ mine'[p] = m
  BY DEF DbInv, FileInv, Types, Goto
<1>2. \A q \in Proc \ {p} : at'[q] = at[q] /\ mine'[q] = mine[q]
  BY DEF DbInv, FileInv, Types, Goto
<1> QED
  BY <1>1, <1>2 DEF Moves

LEMMA SameMoves ==
    ASSUME DbInv, NEW p \in Proc, FileStep(p), NEW l \in Place, Goto(p, l), Same(p), Knows(p)'
    PROVE  Moves(p)
BY DEF DbInv, FileInv, Types, Goto, Same, Moves

(* A process that has nothing open knows nothing.                            *)
LEMMA ExitMoves ==
    ASSUME DbInv, NEW p \in Proc, FileStep(p), NEW l \in Ended \cup {"idle", "ready", "modal"},
           Exit(p, l)
    PROVE  Moves(p) /\ at' = [at EXCEPT ![p] = l]
<1>1. l \in Place /\ Goto(p, l) /\ mine' = [mine EXCEPT ![p] = Nothing]
  BY DEF Place, Exit
<1>2. Nothing \in Memory
  BY EmptyOK, VersionsAssumption, StmtsAssumption DEF Nothing, Memory, Version
<1>3. Knows(p)'
  <2>1. at'[p] = l
    BY <1>1 DEF Goto, DbInv, FileInv, Types
  <2> QED
    BY <2>1 DEF Knows, Working, Ended
<1>4. Moves(p)
  BY <1>1, <1>2, <1>3, MemoMoves DEF Nothing
<1> QED
  BY <1>1, <1>4 DEF Goto

(* What holds of the places and memories to start from.                      *)
LEMMA Held ==
    ASSUME DbInv, NEW p \in Proc
    PROVE  /\ mine[p] \in Memory /\ at \in [Proc -> Place] /\ mine \in [Proc -> Memory]
           /\ Knows(p) /\ FileInv /\ Types
           /\ mine[p].on # 0 => /\ mine[p].on \in Inode /\ Db(p) \in Content /\ LevelOK(Db(p))
                                /\ Db(p).level \in Nat /\ Db(p).uv \in Version
<1>1. FileInv /\ Types /\ Knows(p)
  BY DEF DbInv, FileInv
<1>2. mine[p].on # 0 => mine[p].on \in Inode
  BY <1>1, HandleUsed
<1> QED
  BY <1>1, <1>2, HandleUsed, ContentOf DEF Types, FileInv, DiskOK, Db

(* A database is opened: the inode is what the path names now.               *)
LEMMA OpenMoves ==
    ASSUME DbInv, NEW p \in Proc, NEW l \in {"list", "recorded", "probe"}, Open("db"),
           mine' = [mine EXCEPT ![p].on = Opens("db")], Goto(p, l)
    PROVE  Moves(p) /\ DbFileStep(p)
<1>1. PICK m : m = [mine[p] EXCEPT !.on = Opens("db")]
  OBVIOUS
<1>2. /\ m \in Memory /\ m.on = name'.db /\ m.to = mine[p].to /\ m.on # 0
      /\ mine' = [mine EXCEPT ![p] = m]
  <2>1. Opens("db") \in Inode /\ Opens("db") # 0 /\ name'.db = Opens("db")
    BY InodeAssumption, Held DEF Open, Types, Inode
  <2> QED
    BY <1>1, <2>1, Held DEF Memory
<1>3. DbFileStep(p) /\ FileStep(p) /\ l \in Place
  BY DEF DbFileStep, FileStep, Place
<1>4. Knows(p)'
  <2>1. at'[p] = l /\ mine'[p] = m
    BY <1>2, Held DEF Goto
  <2> QED
    BY <1>2, <2>1 DEF Knows, Working
<1> QED
  BY <1>2, <1>3, <1>4, MemoMoves

(* One statement of the schema.                                              *)
LEMMA ApplyMoves ==
    ASSUME DbInv, NEW p \in Proc, at[p] = "apply", Creates(p), ApplyOne(p, "record")
    PROVE  Moves(p) /\ DbFileStep(p)
<1>1. /\ mine[p].next \in 1..Stmts /\ Trusted(p) /\ mine[p].on # 0
      /\ mine[p].on \in Inode /\ Db(p) \in Content
  BY Held DEF Knows, Working
<1>2. Applies(p, mine[p].next) /\ mine[p].next \in Nat
  BY <1>1 DEF Applies, Creates, ApplyOne
<1>3. PICK m : m = [mine[p] EXCEPT !.next = mine[p].next + 1]
  OBVIOUS
<1>4. /\ m \in Memory /\ m.on = mine[p].on /\ m.to = mine[p].to /\ m.next = mine[p].next + 1
      /\ mine' = [mine EXCEPT ![p] = m]
  <2>1. mine[p].next + 1 \in 0..Stmts + 1
    BY <1>1, StmtsAssumption
  <2> QED
    BY <1>3, <2>1, Held DEF Memory, ApplyOne
<1>5. PICK l : l = IF mine[p].next = Stmts THEN "record" ELSE "apply"
  OBVIOUS
<1>6. l \in Place /\ Goto(p, l) /\ DbFileStep(p) /\ FileStep(p)
  BY <1>2, <1>5 DEF ApplyOne, Place, DbFileStep, FileStep
<1>7. Knows(p)'
  <2>1. at'[p] = l /\ mine'[p] = m
    BY <1>4, <1>6, Held DEF Goto
  <2>2. Db(p)' = [Db(p) EXCEPT !.level = mine[p].next]
    BY <1>1, <1>4, <2>1, Held DEF Db, ApplyOne, Put, Types
  <2>3. Db(p)'.foreign = Db(p).foreign /\ Db(p)'.level = mine[p].next
    BY <1>1, <2>2 DEF Content
  <2>4. Trusted(p)'
    <3>1. mine'[p].blind = mine[p].blind
      BY <1>3, <2>1, Held DEF Memory
    <3>2. AllTables(Db(p)) => AllTables(Db(p))'
      <4>1. Db(p).level = mine[p].next - 1 /\ mine[p].next \in Nat
        BY <1>1, StmtsAssumption DEF Creates
      <4> QED
        BY <2>3, <4>1, StmtsAssumption DEF AllTables
    <3> QED
      BY <1>1, <2>3, <3>1, <3>2 DEF Trusted
  <2>5. CASE l = "record"
    <3>1. Db(p)'.level >= Tables
      BY <1>1, <1>5, <2>3, <2>5, StmtsAssumption
    <3> QED
      BY <1>1, <1>4, <2>1, <2>5, <3>1 DEF Knows, Working
  <2>6. CASE l = "apply"
    <3>1. m.next \in 1..Stmts
      BY <1>1, <1>4, <1>5, <2>6, StmtsAssumption
    <3> QED
      BY <1>1, <1>4, <2>1, <2>6, <2>4, <3>1 DEF Knows, Working
  <2> QED
    BY <1>5, <2>5, <2>6
<1> QED
  BY <1>4, <1>6, <1>7, MemoMoves

(* A step that leaves the files alone.                                       *)
LEMMA Idle ==
    ASSUME NEW p, UNCHANGED files
    PROVE  DbFileStep(p) /\ FileStep(p)
BY DEF DbFileStep, FileStep

(* Version 1 is recorded only where every table is.                          *)
LEMMA RecordsOne ==
    ASSUME DbInv, NEW p \in Proc, at[p] = "record", SetVersion(p, 1)
    PROVE  DbFileStep(p) /\ FileStep(p)
<1>1. Records(p, 1)
  BY Held, Levels DEF Records, Knows, Working
<1> QED
  BY <1>1, Levels DEF DbFileStep, FileStep

(* A list of tables is read.                                                 *)
LEMMA ListedMoves ==
    ASSUME DbInv, NEW p \in Proc, NEW l \in Place, NEW sees \in {"fresh", "full"},
           NEW blind \in BOOLEAN, Listed(p, sees, blind, l)
    PROVE  \E m \in Memory :
              /\ m.on = mine[p].on /\ m.to = mine[p].to /\ m.sees = sees /\ m.blind = blind
              /\ mine' = [mine EXCEPT ![p] = m] /\ at'[p] = l /\ mine'[p] = m
              /\ Goto(p, l)
<1>1. PICK m : m = [mine[p] EXCEPT !.sees = sees, !.blind = blind]
  OBVIOUS
<1>2. /\ m \in Memory /\ m.on = mine[p].on /\ m.to = mine[p].to
      /\ m.sees = sees /\ m.blind = blind
  BY <1>1, Held DEF Memory
<1>3. mine' = [mine EXCEPT ![p] = m] /\ Goto(p, l)
  BY <1>1, Held DEF Listed
<1> QED
  BY <1>2, <1>3, Held DEF Goto

LEMMA InitMoves ==
    ASSUME DbInv, NEW p \in Cli,
           InitOpen(p) \/ InitList(p) \/ InitVersion(p) \/ InitApply(p) \/ InitRecord(p)
    PROVE  Moves(p) /\ DbFileStep(p)
<1>0. p \in Proc
  BY DEF Proc
<1>1. CASE InitOpen(p)
  BY <1>0, <1>1, OpenMoves DEF InitOpen, OpenCreate
<1>2. CASE InitList(p)
  <2>1. UNCHANGED files /\ at[p] = "list"
    BY <1>2 DEF InitList, At
  <2>2. CASE \E c \in {"invalid", "sql"} : Exit(p, c)
    BY <1>0, <2>1, <2>2, Idle, ExitMoves DEF Ended
  <2>3. CASE \E sees \in {"fresh", "full"}, blind \in BOOLEAN :
                /\ Listed(p, sees, blind, "version")
                /\ sees = "fresh" => ~Db(p).foreign \/ blind
                /\ sees = "full" => AllTables(Db(p))
    <3>1. PICK sees \in {"fresh", "full"}, blind \in BOOLEAN :
                /\ Listed(p, sees, blind, "version")
                /\ sees = "fresh" => ~Db(p).foreign \/ blind
                /\ sees = "full" => AllTables(Db(p))
      BY <2>3
    <3>2. PICK m \in Memory :
             /\ m.on = mine[p].on /\ m.to = mine[p].to /\ m.sees = sees /\ m.blind = blind
             /\ mine' = [mine EXCEPT ![p] = m] /\ at'[p] = "version" /\ mine'[p] = m
             /\ Goto(p, "version")
      BY <1>0, <3>1, ListedMoves DEF Place
    <3>3. mine[p].on # 0 /\ Db(p)' = Db(p)
      BY <1>0, <2>1, <3>2, Held DEF Knows, Working, Db, files
    <3>4. Knows(p)'
      BY <3>1, <3>2, <3>3 DEF Knows, Working, AllTables, Trusted
    <3> QED
      BY <1>0, <2>1, <3>2, <3>4, Idle, MemoMoves DEF Place
  <2>4. mine[p].on # 0 /\ Db(p).foreign \in BOOLEAN
    BY <1>0, <2>1, Held DEF Knows, Working, Content
  <2> QED
    BY <1>2, <2>2, <2>3, <2>4 DEF InitList, ListFails, HasTables
<1>3. CASE InitVersion(p)
  <2>1. UNCHANGED files /\ at[p] = "version"
    BY <1>3 DEF InitVersion, At
  <2>2. mine[p].on # 0 /\ Db(p)' = IF mine'[p].on = mine[p].on THEN Db(p) ELSE Db(p)'
    BY <1>0, <2>1, Held DEF Knows, Working, Db, files
  <2>3. CASE Exit(p, "ok")
    BY <1>0, <2>1, <2>3, Idle, ExitMoves DEF Ended
  <2>4. CASE mine[p].sees = "full" /\ Goto(p, "record") /\ Same(p)
    <3>1. at'[p] = "record" /\ mine' = mine
      BY <1>0, <2>4, Held DEF Goto, Same
    <3>2. Knows(p)'
      BY <1>0, <2>1, <2>2, <2>4, <3>1, Held DEF Knows, Working
    <3> QED
      BY <1>0, <2>1, <2>4, <3>2, Idle, SameMoves DEF Place
  <2>5. CASE /\ mine[p].sees = "fresh"
             /\ mine' = [mine EXCEPT ![p].next = 1]
             /\ Goto(p, "apply")
    <3>1. PICK m : m = [mine[p] EXCEPT !.next = 1]
      OBVIOUS
    <3>2. /\ m \in Memory /\ m.on = mine[p].on /\ m.to = mine[p].to /\ m.next = 1
          /\ mine' = [mine EXCEPT ![p] = m]
      <4>1. 1 \in 0..Stmts + 1
        BY StmtsAssumption
      <4> QED
        BY <1>0, <2>5, <3>1, <4>1, Held DEF Memory
    <3>3. at'[p] = "apply" /\ mine'[p] = m
      BY <1>0, <2>5, <3>2, Held DEF Goto
    <3>4. 1 \in 1..Stmts
      BY StmtsAssumption
    <3>5. Trusted(p)'
      <4>1. Trusted(p) /\ Db(p)' = Db(p)
        BY <1>0, <2>1, <2>2, <2>5, <3>2, <3>3, Held DEF Knows
      <4>2. mine'[p].blind = mine[p].blind
        BY <1>0, <3>1, <3>3, Held DEF Memory
      <4> QED
        BY <4>1, <4>2 DEF Trusted, AllTables
    <3>6. Knows(p)'
      BY <1>0, <2>1, <2>2, <3>2, <3>3, <3>4, <3>5, Held DEF Knows, Working
    <3> QED
      BY <1>0, <2>1, <2>5, <3>2, <3>6, Idle, MemoMoves DEF Place
  <2> QED
    BY <1>3, <2>3, <2>4, <2>5 DEF InitVersion
<1>4. CASE InitApply(p)
  <2>1. CASE Creates(p) /\ ApplyOne(p, "record")
    BY <1>0, <1>4, <2>1, ApplyMoves DEF InitApply, At
  <2>2. CASE Exit(p, "sql") /\ UNCHANGED files
    BY <1>0, <2>2, Idle, ExitMoves DEF Ended
  <2> QED
    BY <1>4, <2>1, <2>2 DEF InitApply
<1>5. CASE InitRecord(p)
  <2>1. CASE SetVersion(p, 1) /\ Exit(p, "ok")
    BY <1>0, <1>5, <2>1, RecordsOne, ExitMoves DEF InitRecord, At, Ended
  <2>2. CASE Exit(p, "sql") /\ UNCHANGED files
    BY <1>0, <2>2, Idle, ExitMoves DEF Ended
  <2> QED
    BY <1>5, <2>1, <2>2 DEF InitRecord
<1> QED
  BY <1>1, <1>2, <1>3, <1>4, <1>5

LEMMA MigrateMoves ==
    ASSUME DbInv, NEW p \in Cli,
           \/ MigrateOpen(p) \/ MigrateVersion(p) \/ MigrateTables(p) \/ MigratePlan(p)
           \/ MigrateApply(p) \/ MigrateCommit(p) \/ MigrateRecord(p) \/ MigrateDone(p)
    PROVE  Moves(p) /\ DbFileStep(p)
<1>0. p \in Proc
  BY DEF Proc
<1>1. CASE MigrateOpen(p)
  <2>1. CASE OpenExisting(p, "recorded")
    BY <1>0, <2>1, OpenMoves DEF OpenExisting
  <2>2. CASE OpenRefused /\ Exit(p, "open")
    <3>1. DbFileStep(p) /\ FileStep(p)
      BY <2>2 DEF OpenRefused, DbFileStep, FileStep
    <3> QED
      BY <1>0, <2>2, <3>1, ExitMoves DEF Ended
  <2> QED
    BY <1>1, <2>1, <2>2 DEF MigrateOpen
<1>2. CASE MigrateVersion(p)
  <2>1. UNCHANGED files /\ at[p] = "recorded"
    BY <1>2 DEF MigrateVersion, At
  <2>2. CASE Exit(p, "sql")
    BY <1>0, <2>1, <2>2, Idle, ExitMoves DEF Ended
  <2>3. CASE Goto(p, IF Db(p).uv = 0 THEN "tables" ELSE "plan") /\ Same(p)
    <3>1. PICK l \in {"tables", "plan"} : Goto(p, l) /\ (l = "plan" => Db(p).uv # 0)
      BY <2>3
    <3>2. /\ mine[p].on # 0 /\ at'[p] = l /\ mine' = mine /\ Db(p)' = Db(p)
      BY <1>0, <2>1, <2>3, <3>1, Held DEF Knows, Working, Goto, Same, Db, files
    <3>3. l = "plan" => Trusted(p)'
      <4>1. LevelOK(Db(p)) /\ Db(p).uv \in Version
        BY <1>0, <3>2, Held
      <4> QED
        BY <3>1, <3>2, <4>1 DEF LevelOK, Trusted, AllTables, Version
    <3>4. Knows(p)'
      BY <3>2, <3>3 DEF Knows, Working
    <3> QED
      BY <1>0, <2>1, <2>3, <3>1, <3>4, Idle, SameMoves DEF Place
  <2> QED
    BY <1>2, <2>2, <2>3 DEF MigrateVersion
<1>3. CASE MigrateTables(p)
  <2>1. UNCHANGED files /\ at[p] = "tables"
    BY <1>3 DEF MigrateTables, At
  <2>2. CASE \E c \in {"invalid", "sql"} : Exit(p, c)
    BY <1>0, <2>1, <2>2, Idle, ExitMoves DEF Ended
  <2>3. CASE \E blind \in BOOLEAN :
                Listed(p, "fresh", blind, "plan") /\ (~Db(p).foreign \/ blind)
    <3>1. PICK blind \in BOOLEAN :
                Listed(p, "fresh", blind, "plan") /\ (~Db(p).foreign \/ blind)
      BY <2>3
    <3>2. PICK m \in Memory :
             /\ m.on = mine[p].on /\ m.to = mine[p].to /\ m.sees = "fresh" /\ m.blind = blind
             /\ mine' = [mine EXCEPT ![p] = m] /\ at'[p] = "plan" /\ mine'[p] = m
             /\ Goto(p, "plan")
      BY <1>0, <3>1, ListedMoves DEF Place
    <3>3. mine[p].on # 0 /\ Db(p)' = Db(p)
      BY <1>0, <2>1, <3>2, Held DEF Knows, Working, Db, files
    <3>4. Knows(p)'
      BY <3>1, <3>2, <3>3 DEF Knows, Working, Trusted
    <3> QED
      BY <1>0, <2>1, <3>2, <3>4, Idle, MemoMoves DEF Place
  <2>4. mine[p].on # 0 /\ Db(p).foreign \in BOOLEAN
    BY <1>0, <2>1, Held DEF Knows, Working, Content
  <2> QED
    BY <1>3, <2>2, <2>3, <2>4 DEF MigrateTables, ListFails, HasTables
<1>4. CASE MigratePlan(p)
  <2>1. UNCHANGED files /\ at[p] = "plan"
    BY <1>4 DEF MigratePlan, At
  <2>2. CASE Exit(p, "sql")
    BY <1>0, <2>1, <2>2, Idle, ExitMoves DEF Ended
  <2>3. CASE /\ mine' = [mine EXCEPT ![p].uv = Db(p).uv]
             /\ Goto(p, "pending")
    <3>1. PICK m : m = [mine[p] EXCEPT !.uv = Db(p).uv]
      OBVIOUS
    <3>2. mine[p].on # 0 /\ Db(p).uv \in Version /\ Trusted(p)
      BY <1>0, <2>1, Held DEF Knows, Working
    <3>3. /\ m \in Memory /\ m.on = mine[p].on /\ m.to = mine[p].to
          /\ m.blind = mine[p].blind /\ mine' = [mine EXCEPT ![p] = m]
      BY <1>0, <2>3, <3>1, <3>2, Held DEF Memory
    <3>4. at'[p] = "pending" /\ mine'[p] = m /\ Db(p)' = Db(p)
      BY <1>0, <2>1, <2>3, <3>3, Held DEF Goto, Db, files
    <3>5. Trusted(p)'
      BY <3>2, <3>3, <3>4 DEF Trusted, AllTables
    <3>6. Knows(p)'
      BY <3>2, <3>3, <3>4, <3>5 DEF Knows, Working
    <3> QED
      BY <1>0, <2>1, <2>3, <3>3, <3>6, Idle, MemoMoves DEF Place
  <2> QED
    BY <1>4, <2>2, <2>3 DEF MigratePlan
<1>5. CASE MigrateApply(p)
  <2>1. /\ at[p] = "pending" /\ mine[p].uv < Versions /\ mine[p].on # 0
        /\ mine[p].on \in Inode /\ Trusted(p)
    BY <1>0, <1>5, Held DEF MigrateApply, At, Knows, Working
  <2>2. CASE Exit(p, "invalid") /\ UNCHANGED files
    BY <1>0, <2>2, Idle, ExitMoves DEF Ended
  <2>3. CASE /\ Applicable(p)
             /\ lock' = [lock EXCEPT ![mine[p].on] = p]
             /\ UNCHANGED <<disk, name, used>>
             /\ Goto(p, "commit") /\ Same(p)
    <3>1. DbFileStep(p) /\ FileStep(p)
      BY <2>1, <2>3 DEF Applicable, Locks, DbFileStep, FileStep
    <3>2. /\ at'[p] = "commit" /\ mine' = mine /\ Db(p)' = Db(p)
          /\ lock'[mine[p].on] = p
      BY <1>0, <2>1, <2>3, Held DEF Goto, Same, Db, Types
    <3>3. Knows(p)'
      BY <2>1, <2>3, <3>2 DEF Knows, Working, Applicable, Trusted, AllTables
    <3> QED
      BY <1>0, <2>3, <3>1, <3>3, SameMoves DEF Place
  <2> QED
    BY <1>5, <2>2, <2>3 DEF MigrateApply
<1>6. CASE MigrateCommit(p)
  <2>1. /\ at[p] = "commit" /\ mine[p].on # 0 /\ mine[p].on \in Inode /\ Trusted(p)
        /\ mine[p].uv < Versions /\ lock[mine[p].on] = p /\ Db(p).level = Full(mine[p].uv)
        /\ Db(p) \in Content /\ mine[p].uv \in Version
    BY <1>0, <1>6, Held DEF MigrateCommit, At, Knows, Working, Memory
  <2>2. CASE Exit(p, "invalid") /\ UNCHANGED disk
    <3>1. Releases(p)
      BY <1>6, <2>1, <2>2, Held, <1>0 DEF MigrateCommit, Releases, Types
    <3>2. DbFileStep(p) /\ FileStep(p)
      BY <3>1 DEF DbFileStep, FileStep
    <3> QED
      BY <1>0, <2>2, <3>2, ExitMoves DEF Ended
  <2>3. CASE /\ Put(mine[p].on, [Db(p) EXCEPT !.level = Full(mine[p].uv + 1)])
             /\ Goto(p, "stamp") /\ Same(p)
    <3>1. DbFileStep(p) /\ FileStep(p)
      BY <1>6, <2>1, <2>3 DEF MigrateCommit, Commits, DbFileStep, FileStep
    <3>2. /\ at'[p] = "stamp" /\ mine' = mine
          /\ Db(p)' = [Db(p) EXCEPT !.level = Full(mine[p].uv + 1)]
      BY <1>0, <2>1, <2>3, Held DEF Goto, Same, Db, Put, Types
    <3>3. Db(p)'.level = Full(mine[p].uv + 1)
      BY <2>1, <3>2 DEF Content
    <3>4. Full(mine[p].uv + 1) \in Nat
      <4>1. mine[p].uv + 1 \in Version
        BY <2>1, Levels
      <4> QED
        BY <4>1, Levels
    <3>5. Knows(p)'
      BY <2>1, <3>2, <3>3, <3>4 DEF Knows, Working
    <3> QED
      BY <1>0, <2>3, <3>1, <3>5, SameMoves DEF Place
  <2> QED
    BY <1>6, <2>2, <2>3 DEF MigrateCommit
<1>7. CASE MigrateRecord(p)
  <2>1. /\ at[p] = "stamp" /\ mine[p].on # 0 /\ mine[p].on \in Inode
        /\ mine[p].uv < Versions /\ Db(p).level >= Full(mine[p].uv + 1)
        /\ Db(p) \in Content /\ Db(p).level \in Nat /\ mine[p].uv \in Version
    BY <1>0, <1>7, Held DEF MigrateRecord, At, Knows, Working, Memory
  <2>2. CASE Exit(p, "invalid") /\ UNCHANGED files
    BY <1>0, <2>2, Idle, ExitMoves DEF Ended
  <2>3. CASE /\ SetVersion(p, mine[p].uv + 1)
             /\ mine' = [mine EXCEPT ![p].uv = mine[p].uv + 1]
             /\ Goto(p, "pending")
    <3>1. PICK v : v = mine[p].uv + 1
      OBVIOUS
    <3>2. v \in Version /\ v > 0 /\ v \in Nat
      BY <2>1, <3>1, Levels DEF Version
    <3>3. Db(p).level >= Full(v) /\ Db(p).level >= Tables
      <4>1. Full(v) \in Nat /\ Full(v) >= Tables
        BY <3>2, Levels
      <4> QED
        BY <2>1, <3>1, <4>1, StmtsAssumption
    <3>4. Records(p, v)
      BY <2>1, <2>3, <3>1, <3>2, <3>3 DEF Records
    <3>5. PICK m : m = [mine[p] EXCEPT !.uv = v]
      OBVIOUS
    <3>6. /\ m \in Memory /\ m.on = mine[p].on /\ m.to = mine[p].to
          /\ mine' = [mine EXCEPT ![p] = m]
      BY <1>0, <2>3, <3>1, <3>2, <3>5, Held DEF Memory
    <3>7. /\ at'[p] = "pending" /\ mine'[p] = m /\ Db(p)' = [Db(p) EXCEPT !.uv = v]
      BY <1>0, <2>1, <2>3, <3>1, <3>6, Held DEF Goto, Db, SetVersion, Put, Types
    <3>8. Trusted(p)'
      <4>1. Db(p)'.level = Db(p).level
        BY <2>1, <3>7 DEF Content
      <4> QED
        BY <3>3, <4>1 DEF Trusted, AllTables
    <3>9. Knows(p)'
      BY <2>1, <3>6, <3>7, <3>8 DEF Knows, Working
    <3>10. DbFileStep(p) /\ FileStep(p)
      BY <3>2, <3>4 DEF DbFileStep, FileStep
    <3> QED
      BY <1>0, <2>3, <3>6, <3>9, <3>10, MemoMoves DEF Place
  <2> QED
    BY <1>7, <2>2, <2>3 DEF MigrateRecord
<1>8. CASE MigrateDone(p)
  BY <1>0, <1>8, Idle, ExitMoves DEF MigrateDone, Ended
<1> QED
  BY <1>1, <1>2, <1>5, <1>6, <1>7, <1>8, <1>3, <1>4

LEMMA GuiMoves ==
    ASSUME DbInv, NEW p \in Gui,
           \/ GuiOpen(p) \/ GuiRemove(p) \/ GuiCreate(p)
           \/ GuiApply(p) \/ GuiRecord(p) \/ GuiQuit(p)
    PROVE  Moves(p) /\ DbFileStep(p)
<1>0. p \in Proc
  BY DEF Proc
<1>1. CASE GuiOpen(p)
  <2>1. DbFileStep(p) /\ FileStep(p)
    BY <1>1 DEF GuiOpen, OpenRefused, DbFileStep, FileStep
  <2> QED
    BY <1>0, <1>1, <2>1, ExitMoves DEF GuiOpen
<1>2. CASE GuiRemove(p)
  <2>1. DbFileStep(p) /\ FileStep(p)
    BY <1>2 DEF GuiRemove, Unlinks, DbFileStep, FileStep
  <2>2. /\ Goto(p, "bare") /\ Same(p) /\ at'[p] = "bare" /\ name'.db = 0
    BY <1>0, <1>2, Held DEF GuiRemove, Goto, Types
  <2>3. Knows(p)'
    BY <2>2 DEF Knows, Working
  <2> QED
    BY <1>0, <2>1, <2>2, <2>3, SameMoves DEF Place
<1>3. CASE GuiCreate(p)
  <2>1. at[p] = "bare" /\ (name.db = 0 \/ ~disk[name.db].foreign)
    BY <1>0, <1>3, Held DEF GuiCreate, At, Knows
  <2>2. CASE Exit(p, "idle") /\ UNCHANGED files
    BY <1>0, <2>2, Idle, ExitMoves
  <2>3. CASE /\ Open("db")
             /\ mine' = [mine EXCEPT ![p].on = Opens("db"), ![p].next = 1]
             /\ Goto(p, "apply")
    <3>1. PICK m : m = [mine[p] EXCEPT !.on = Opens("db"), !.next = 1]
      OBVIOUS
    <3>2. 1 \in 1..Stmts /\ 1 \in 0..Stmts + 1
      BY StmtsAssumption
    <3>3. Opens("db") \in Inode /\ Opens("db") # 0 /\ name'.db = Opens("db") /\ disk' = disk
      BY <2>3, InodeAssumption, <1>0, Held DEF Open, Types, Inode
    <3>4. /\ m \in Memory /\ m.on = name'.db /\ m.to = mine[p].to /\ m.next = 1
          /\ mine' = [mine EXCEPT ![p] = m]
      BY <1>0, <2>3, <3>1, <3>2, <3>3, Held DEF Memory
    <3>5. ~disk[Opens("db")].foreign
      <4>1. CASE name.db # 0
        BY <2>1, <4>1 DEF Opens
      <4>2. CASE name.db = 0
        <5>1. disk[used + 1] = Empty
          BY <1>0, <3>3, <4>2, Held, Numbers DEF Opens, FileInv, DiskOK
        <5> QED
          BY <4>2, <5>1, EmptyOK DEF Opens
      <4> QED
        BY <4>1, <4>2
    <3>6. at'[p] = "apply" /\ mine'[p] = m /\ Db(p)' = disk[Opens("db")]
      BY <1>0, <2>3, <3>3, <3>4, Held DEF Goto, Db
    <3>7. Knows(p)'
      BY <3>2, <3>3, <3>4, <3>5, <3>6 DEF Knows, Working, Trusted
    <3>8. DbFileStep(p) /\ FileStep(p)
      BY <2>3 DEF DbFileStep, FileStep
    <3> QED
      BY <1>0, <2>3, <3>4, <3>7, <3>8, MemoMoves DEF Place
  <2> QED
    BY <1>3, <2>2, <2>3 DEF GuiCreate
<1>4. CASE GuiApply(p)
  <2>1. CASE Creates(p) /\ ApplyOne(p, "record")
    BY <1>0, <1>4, <2>1, ApplyMoves DEF GuiApply, At
  <2>2. CASE Exit(p, "idle") /\ UNCHANGED files
    BY <1>0, <2>2, Idle, ExitMoves
  <2> QED
    BY <1>4, <2>1, <2>2 DEF GuiApply
<1>5. CASE GuiRecord(p)
  <2>1. DbFileStep(p) /\ FileStep(p) /\ Exit(p, "ready")
    BY <1>0, <1>5, RecordsOne, Idle DEF GuiRecord, At
  <2> QED
    BY <1>0, <2>1, ExitMoves
<1>6. CASE GuiQuit(p)
  BY <1>0, <1>6, Idle, ExitMoves DEF GuiQuit, Ended
<1> QED
  BY <1>1, <1>2, <1>3, <1>4, <1>5, <1>6

LEMMA CrashMoves ==
    ASSUME DbInv, NEW p \in Proc, Crash(p)
    PROVE  Moves(p) /\ DbFileStep(p) /\ at' = [at EXCEPT ![p] = "killed"]
<1>1. Releases(p)
  BY Held DEF Crash, Releases, Types
<1>2. DbFileStep(p) /\ FileStep(p)
  BY <1>1 DEF DbFileStep, FileStep
<1> QED
  BY <1>2, ExitMoves DEF Crash, Ended

(* A failure of db backup: the target is removed.                            *)
LEMMA DropMoves ==
    ASSUME DbInv, NEW s \in Saver, DropTarget, Exit(s, "sql")
    PROVE  Moves(s) /\ at' = [at EXCEPT ![s] = "sql"] /\ name'.backup = 0
<1>0. s \in Proc
  BY DEF Proc
<1>1. FileStep(s)
  BY DEF DropTarget, Unlinks, BackupFileStep, FileStep
<1>2. name'.backup = 0
  BY <1>0, Held DEF DropTarget, Types
<1> QED
  BY <1>0, <1>1, <1>2, ExitMoves DEF Ended

LEMMA SaveMoves ==
    ASSUME DbInv, NEW s \in Saver,
           \/ SaveOpen(s) \/ SaveProbe(s) \/ SaveCreate(s)
           \/ SaveCopy(s) \/ SaveStat(s) \/ SaveCheck(s)
    PROVE  Moves(s)
<1>0. s \in Proc
  BY DEF Proc
<1>1. CASE SaveOpen(s)
  <2>1. CASE OpenExisting(s, "probe")
    BY <1>0, <2>1, OpenMoves DEF OpenExisting
  <2>2. CASE OpenRefused /\ Exit(s, "open")
    <3>1. FileStep(s)
      BY <2>2 DEF OpenRefused, DbFileStep, FileStep
    <3> QED
      BY <1>0, <2>2, <3>1, ExitMoves DEF Ended
  <2> QED
    BY <1>1, <2>1, <2>2 DEF SaveOpen
<1>2. CASE SaveProbe(s)
  <2>1. UNCHANGED files /\ at[s] = "probe"
    BY <1>2 DEF SaveProbe, At
  <2>2. CASE Exit(s, "usage")
    BY <1>0, <2>1, <2>2, Idle, ExitMoves DEF Ended
  <2>3. CASE Goto(s, "create") /\ Same(s)
    <3>1. Knows(s)'
      BY <1>0, <2>1, <2>3, Held DEF Goto, Same, Knows, Working
    <3> QED
      BY <1>0, <2>1, <2>3, <3>1, Idle, SameMoves DEF Place
  <2> QED
    BY <1>2, <2>2, <2>3 DEF SaveProbe
<1>3. CASE SaveCreate(s)
  <2>1. at[s] = "create" /\ mine[s].on # 0
    BY <1>0, <1>3, Held DEF SaveCreate, At, Knows, Working
  <2>2. CASE Exit(s, "sql") /\ UNCHANGED files
    BY <1>0, <2>2, Idle, ExitMoves DEF Ended
  <2>3. CASE /\ Open("backup")
             /\ mine' = [mine EXCEPT ![s].to = Opens("backup")]
             /\ Goto(s, "copy")
    <3>1. PICK m : m = [mine[s] EXCEPT !.to = Opens("backup")]
      OBVIOUS
    <3>2. Opens("backup") \in Inode /\ Opens("backup") # 0 /\ name'.backup = Opens("backup")
      BY <2>3, InodeAssumption, <1>0, Held DEF Open, Types, Inode
    <3>3. /\ m \in Memory /\ m.on = mine[s].on /\ m.to = name'.backup /\ m.to # 0
          /\ mine' = [mine EXCEPT ![s] = m]
      BY <1>0, <2>3, <3>1, <3>2, Held DEF Memory
    <3>4. at'[s] = "copy" /\ mine'[s] = m
      BY <1>0, <2>3, <3>3, Held DEF Goto
    <3>5. Knows(s)'
      BY <2>1, <3>3, <3>4 DEF Knows, Working
    <3>6. FileStep(s)
      BY <2>3 DEF BackupFileStep, FileStep
    <3> QED
      BY <1>0, <2>3, <3>3, <3>5, <3>6, MemoMoves DEF Place
  <2> QED
    BY <1>3, <2>2, <2>3 DEF SaveCreate
<1>4. CASE SaveCopy(s)
  <2>1. CASE DropTarget /\ Exit(s, "sql")
    BY <2>1, DropMoves
  <2>2. CASE /\ Put(mine[s].to, Db(s))
             /\ UNCHANGED <<name, used, lock>>
             /\ mine' = [mine EXCEPT ![s].snap = Db(s)]
             /\ Goto(s, "stat")
    <3>1. mine[s].on # 0 /\ mine[s].to # 0 /\ Db(s) \in Content
      BY <1>0, <1>4, Held DEF SaveCopy, At, Knows, Working
    <3>2. PICK m : m = [mine[s] EXCEPT !.snap = Db(s)]
      OBVIOUS
    <3>3. /\ m \in Memory /\ m.on = mine[s].on /\ m.to = mine[s].to
          /\ mine' = [mine EXCEPT ![s] = m]
      BY <1>0, <2>2, <3>1, <3>2, Held DEF Memory
    <3>4. FileStep(s)
      BY <2>2, <3>1 DEF Copies, BackupFileStep, FileStep
    <3>5. at'[s] = "stat"
      BY <1>0, <2>2, Held DEF Goto
    <3>6. Knows(s)'
      BY <3>5 DEF Knows, Working
    <3> QED
      BY <1>0, <2>2, <3>3, <3>4, <3>6, MemoMoves DEF Place
  <2> QED
    BY <1>4, <2>1, <2>2 DEF SaveCopy
<1>5. CASE SaveStat(s)
  <2>1. CASE DropTarget /\ Exit(s, "sql")
    BY <2>1, DropMoves
  <2>2. CASE Goto(s, "check") /\ Same(s) /\ UNCHANGED files
    <3>1. at'[s] = "check"
      BY <1>0, <2>2, Held DEF Goto
    <3>2. Knows(s)'
      BY <3>1 DEF Knows, Working
    <3> QED
      BY <1>0, <2>2, <3>2, Idle, SameMoves DEF Place
  <2> QED
    BY <1>5, <2>1, <2>2 DEF SaveStat
<1>6. CASE SaveCheck(s)
  <2>1. CASE DropTarget /\ Exit(s, "sql")
    BY <2>1, DropMoves
  <2>2. CASE Open("backup") /\ Exit(s, "ok")
    <3>1. FileStep(s)
      BY <2>2 DEF BackupFileStep, FileStep
    <3> QED
      BY <1>0, <2>2, <3>1, ExitMoves DEF Ended
  <2> QED
    BY <1>6, <2>1, <2>2 DEF SaveCheck
<1> QED
  BY <1>1, <1>2, <1>3, <1>4, <1>5, <1>6

-----------------------------------------------------------------------------
(* The invariant                                                             *)

(* What the first process finds satisfies it.                                *)
LEMMA InitDb == Init => DbInv
<1> SUFFICES ASSUME Init PROVE DbInv
  OBVIOUS
<1>1. ASSUME NEW f \in Found PROVE f \in Content /\ LevelOK(f)
  <2>1. Released \in Content /\ LevelOK(Released)
    <3>1. Stmts \in 0..Full(Versions) /\ 1 \in Version
      BY Levels
    <3>2. Released \in Content /\ Released.level = Stmts /\ Released.uv = 1 /\ ~Released.foreign
      BY <3>1, EmptyOK DEF Released, Content
    <3> QED
      BY <3>2, StmtsAssumption DEF LevelOK
  <2>2. [Released EXCEPT !.sound = FALSE] \in Content
        /\ LevelOK([Released EXCEPT !.sound = FALSE])
    BY <2>1 DEF Content, LevelOK
  <2>3. [Empty EXCEPT !.foreign = TRUE] \in Content /\ LevelOK([Empty EXCEPT !.foreign = TRUE])
    BY EmptyOK DEF Empty, Content, LevelOK
  <2> QED
    BY <2>1, <2>2, <2>3, EmptyOK DEF Found
<1>2. PICK f \in Found, n \in {0, 1} :
          /\ disk = [i \in Inode |-> IF i = 1 THEN f ELSE Empty]
          /\ name = [db |-> n, backup |-> 0]
  BY DEF Init
<1>3. 1 \in Inode /\ \A i \in Inode : i \in Nat
  BY InodeAssumption DEF Inode
<1>4. Nothing \in Memory /\ Nothing.on = 0 /\ Nothing.to = 0
  BY EmptyOK, VersionsAssumption, StmtsAssumption DEF Nothing, Memory, Version
<1>5. Types
  <2>1. disk \in [Inode -> Content]
    BY <1>1, <1>2, EmptyOK
  <2>2. name \in [db : Inode \cup {0}, backup : Inode \cup {0}] /\ used \in Inode
    BY <1>2, <1>3 DEF Init
  <2>3. /\ lock \in [Inode -> Proc \cup {Nobody}] /\ at \in [Proc -> Place]
        /\ mine \in [Proc -> Memory]
    BY <1>4 DEF Init, Place
  <2> QED
    BY <2>1, <2>2, <2>3 DEF Types
<1>6. Within /\ Apart
  BY <1>2, <1>4 DEF Init, Within, Apart
<1>7. DiskOK
  BY <1>1, <1>2, <1>3, EmptyOK DEF Init, DiskOK
<1>8. ASSUME NEW p \in Proc PROVE Knows(p)
  <2>1. at[p] = "idle"
    BY DEF Init
  <2> QED
    BY <2>1 DEF Knows, Working
<1> QED
  BY <1>5, <1>6, <1>7, <1>8 DEF DbInv, FileInv

(* Every step is one of those above.                                         *)
LEMMA EveryStep ==
    ASSUME DbInv, Next
    PROVE  (\E p \in Proc : Moves(p)) \/ Use
<1>1. ASSUME NEW p \in Proc, Crash(p) PROVE \E q \in Proc : Moves(q)
  BY <1>1, CrashMoves
<1>2. Cli \subseteq Proc /\ Saver \subseteq Proc /\ Gui \subseteq Proc
  BY DEF Proc
<1> QED
  BY <1>1, <1>2, InitMoves, MigrateMoves, SaveMoves, GuiMoves DEF Next

LEMMA DbInvKept == DbInv /\ [Next]_dbVars => DbInv'
<1>1. ASSUME DbInv, Next PROVE DbInv'
  BY <1>1, EveryStep, MovesKeep, UseKeeps
<1>2. ASSUME DbInv, UNCHANGED dbVars PROVE DbInv'
  BY <1>2 DEF dbVars, files, DbInv, FileInv, Types, Within, DiskOK, LevelOK, Apart, Knows, Db,
                Trusted, AllTables
<1> QED
  BY <1>1, <1>2

LEMMA DbInvAlways == Spec => []DbInv
BY InitDb, DbInvKept, PTL DEF Spec

LEMMA DbInvTypes == DbInv => TypeOK
<1> SUFFICES ASSUME DbInv PROVE TypeOK
  OBVIOUS
<1>1. Types /\ Within /\ FileInv
  BY DEF DbInv, FileInv
<1>2. used \in Inode /\ used \in Nat /\ \A i \in Inode \cup {0} : i <= used => i \in 0..used
  BY <1>1, Numbers, InodeAssumption DEF Types, Inode
<1>3. name \in [db : 0..used, backup : 0..used]
  BY <1>1, <1>2 DEF Types, Within
<1>4. ASSUME NEW p \in Proc
      PROVE  mine[p] \in [on : 0..used, to : 0..used, uv : Version, snap : Content,
                          sees : {"", "fresh", "full"}, blind : BOOLEAN,
                          next : 0..Stmts + 1]
  BY <1>1, <1>2 DEF Types, Memory, Within
<1> QED
  BY <1>1, <1>2, <1>3, <1>4 DEF TypeOK, Types

(* Every variable keeps its type, for any number of processes, inodes,
   statements and versions: db init, db migrate, db backup, acta_gui.        *)
THEOREM DatabaseTypes == Spec => []TypeOK
BY DbInvAlways, DbInvTypes, PTL

(* The version recorded in a database never promises a table it does not have
   or a migration it has not had: acta_db_create, acta_db_migrate and the
   bootstrap of acta_gui write the number in a statement of its own, and any
   of them may fail, die or race with another before it.                     *)
THEOREM VersionAlwaysTells == Spec => []VersionTellsSchema
<1>1. DbInv => VersionTellsSchema
  <2> SUFFICES ASSUME DbInv, NEW i \in 1..used PROVE LevelOK(disk[i])
    BY DEF VersionTellsSchema, LevelOK
  <2>1. FileInv /\ used \in Nat /\ used \in Inode
    BY Numbers DEF DbInv, FileInv, Types
  <2>2. i \in Inode
    BY <2>1, InodeAssumption DEF Inode
  <2> QED
    BY <2>1, <2>2 DEF FileInv, DiskOK
<1> QED
  BY <1>1, DbInvAlways, PTL

-----------------------------------------------------------------------------
(* Backups                                                                   *)

(* Savers of one target would overwrite each other's: at most one runs.      *)
OneSaver == \A s, t \in Saver : s = t

(* The target is what its saver is about to report.                          *)
Saves(s) ==
    /\ at[s] = "create" => name.backup = 0
    /\ at[s] = "copy" => /\ mine[s].to # 0 /\ name.backup = mine[s].to
                         /\ disk[mine[s].to] = Empty
    /\ at[s] \in {"stat", "check"} => /\ mine[s].to # 0 /\ name.backup = mine[s].to
                                      /\ disk[mine[s].to] = mine[s].snap
SaveInv == \A s \in Saver : Saves(s)

(* A file of another program, which p writes to only when it could not tell.  *)
Foreign(i) == disk[i].foreign /\ ~AllTables(disk[i])
Misled(p, i) == p \in Cli /\ mine[p].on = i /\ mine[p].blind

(* A step on databases leaves targets, and files of other programs.          *)
Spares(p) == /\ name'.backup = name.backup
             /\ \A i \in Inode : i # name.db /\ (\A q \in Proc : mine[q].on # i)
                   => disk'[i] = disk[i]
             /\ \A i \in Inode : Foreign(i) /\ disk'[i] # disk[i] => Misled(p, i)

LEMMA DbStepSpares ==
    ASSUME DbInv, NEW p \in Proc \cup {Nobody}, p \in Proc \/ Uses, DbFileStep(p)
    PROVE  Spares(p)
<1>1. Types /\ FileInv
  BY DEF DbInv, FileInv
<1>2. ASSUME UNCHANGED disk, name'.backup = name.backup PROVE Spares(p)
  BY <1>2 DEF Spares
<1>3. CASE UNCHANGED files \/ Open("db") \/ Unlinks("db") \/ Locks(p) \/ Releases(p)
  BY <1>1, <1>2, <1>3 DEF files, Open, Unlinks, Locks, Releases, Types
<1>4. ASSUME NEW i \in Inode, NEW f, Put(i, f), Foreign(i) => Misled(p, i), UNCHANGED name,
             i = name.db \/ \E q \in Proc : mine[q].on = i
      PROVE  Spares(p)
  BY <1>1, <1>4 DEF Put, Types, Spares
<1>5. CASE Uses
  <2>1. name.db \in Inode /\ ~Foreign(name.db)
    BY <1>1, <1>5 DEF Uses, Types, Foreign
  <2> QED
    BY <1>4, <1>5, <2>1 DEF Uses
<1>6. ASSUME p \in Proc, mine[p].on # 0, Trusted(p)
      PROVE  mine[p].on \in Inode /\ (Foreign(mine[p].on) => Misled(p, mine[p].on))
  BY <1>1, <1>6, HandleUsed DEF Trusted, Foreign, Misled, Db
<1>7. ASSUME p \in Proc, NEW n \in Nat, Applies(p, n) PROVE Spares(p)
  BY <1>4, <1>6, <1>7 DEF Applies
<1>8. ASSUME p \in Proc, NEW v \in Version, Records(p, v) PROVE Spares(p)
  BY <1>4, <1>6, <1>8 DEF Records, SetVersion, Trusted, AllTables
<1>9. ASSUME p \in Proc, Commits(p) PROVE Spares(p)
  BY <1>4, <1>6, <1>9 DEF Commits
<1> QED
  BY <1>3, <1>5, <1>7, <1>8, <1>9 DEF DbFileStep

(* A saver that does not move keeps its target through such a step.          *)
LEMMA SavesKept ==
    ASSUME DbInv, NEW s \in Saver, Saves(s), NEW p, Spares(p), at'[s] = at[s], mine'[s] = mine[s]
    PROVE  Saves(s)'
<1>1. s \in Proc
  BY DEF Proc
<1>2. ASSUME mine[s].to # 0 PROVE disk'[mine[s].to] = disk[mine[s].to]
  <2>1. /\ mine[s].to \in Inode /\ mine[s].to # name.db
        /\ \A q \in Proc : mine[q].on # mine[s].to
    BY <1>1, <1>2, HandleUsed DEF DbInv, FileInv, Apart
  <2> QED
    BY <2>1 DEF Spares
<1> QED
  BY <1>2 DEF Saves, Spares

(* The steps of the saver itself, and what its two ends leave behind.        *)
Reports(s) ==
    /\ at[s] = "check" /\ at'[s] = "ok" =>
          name'.backup # 0 /\ disk'[name'.backup] = mine[s].snap
    /\ at[s] \in {"create", "copy", "stat", "check"} /\ at'[s] = "sql" => name'.backup = 0

LEMMA SaverSteps ==
    ASSUME DbInv, NEW s \in Saver, Saves(s),
           \/ SaveOpen(s) \/ SaveProbe(s) \/ SaveCreate(s)
           \/ SaveCopy(s) \/ SaveStat(s) \/ SaveCheck(s)
    PROVE  /\ Saves(s)' /\ Reports(s)
           /\ \A i \in Inode : disk[i].foreign => disk'[i] = disk[i]
<1> DEFINE Good == /\ Saves(s)' /\ Reports(s)
                   /\ \A i \in Inode : disk[i].foreign => disk'[i] = disk[i]
<1>0. s \in Proc /\ at \in [Proc -> Place] /\ mine \in [Proc -> Memory] /\ Types
  BY Held DEF Proc
<1>1. ASSUME DropTarget, Exit(s, "sql") PROVE Good
  <2>1. at'[s] = "sql" /\ name'.backup = 0 /\ disk' = disk
    BY <1>0, <1>1, DropMoves DEF DropTarget
  <2> QED
    BY <2>1 DEF Saves, Reports
<1>2. ASSUME UNCHANGED files, NEW l \in {"usage", "create", "sql", "check"}, at'[s] = l,
             l = "create" => name.backup = 0,
             l = "sql" => at[s] = "create",
             l = "check" => at[s] = "stat" /\ mine'[s] = mine[s]
      PROVE  Good
  <2>1. disk' = disk /\ name' = name
    BY <1>2 DEF files
  <2> QED
    BY <1>2, <2>1 DEF Saves, Reports
<1>3. CASE SaveOpen(s)
  <2>1. at[s] = "idle" /\ at'[s] \in {"probe", "open"} /\ disk' = disk
    BY <1>0, <1>3 DEF SaveOpen, At, OpenExisting, OpenRefused, Open, Goto, Exit
  <2> QED
    BY <2>1 DEF Saves, Reports
<1>4. CASE SaveProbe(s)
  <2>1. UNCHANGED files
    BY <1>4 DEF SaveProbe
  <2>2. at'[s] = "usage" \/ (at'[s] = "create" /\ name.backup = 0)
    BY <1>0, <1>4 DEF SaveProbe, Goto, Exit
  <2> QED
    BY <1>2, <2>1, <2>2
<1>5. CASE SaveCreate(s)
  <2>1. at[s] = "create" /\ name.backup = 0
    BY <1>5 DEF SaveCreate, At, Saves
  <2>2. CASE Exit(s, "sql") /\ UNCHANGED files
    <3>1. at'[s] = "sql"
      BY <1>0, <2>2 DEF Exit, Goto
    <3> QED
      BY <1>2, <2>1, <2>2, <3>1
  <2>3. CASE /\ Open("backup")
             /\ mine' = [mine EXCEPT ![s].to = Opens("backup")]
             /\ Goto(s, "copy")
    <3>1. Opens("backup") = used + 1 /\ used + 1 \in Inode
      BY <2>1, <2>3 DEF Opens, Open
    <3>2. disk[used + 1] = Empty /\ used + 1 # 0
      BY <3>1, Numbers DEF DbInv, FileInv, DiskOK
    <3>3. /\ at'[s] = "copy" /\ disk' = disk /\ mine'[s].to = used + 1
          /\ name'.backup = used + 1
      BY <1>0, <2>3, <3>1 DEF Open, Goto, Types, Memory
    <3> QED
      BY <3>2, <3>3 DEF Saves, Reports
  <2> QED
    BY <1>5, <2>2, <2>3 DEF SaveCreate
<1>6. CASE SaveCopy(s)
  <2>1. /\ at[s] = "copy" /\ mine[s].to # 0 /\ name.backup = mine[s].to
        /\ disk[mine[s].to] = Empty /\ mine[s].to \in Inode
    BY <1>0, <1>6, HandleUsed DEF SaveCopy, At, Saves, DbInv
  <2>2. CASE /\ Put(mine[s].to, Db(s))
             /\ UNCHANGED <<name, used, lock>>
             /\ mine' = [mine EXCEPT ![s].snap = Db(s)]
             /\ Goto(s, "stat")
    <3>1. at'[s] = "stat" /\ mine'[s].to = mine[s].to /\ mine'[s].snap = Db(s)
      BY <1>0, <2>2 DEF Goto, Memory
    <3>2. disk'[mine[s].to] = Db(s) /\ \A i \in Inode : i # mine[s].to => disk'[i] = disk[i]
      BY <1>0, <2>1, <2>2 DEF Put, Types
    <3> QED
      BY <2>1, <2>2, <3>1, <3>2, EmptyOK DEF Saves, Reports
  <2> QED
    BY <1>1, <1>6, <2>2 DEF SaveCopy
<1>7. CASE SaveStat(s)
  <2>1. at[s] = "stat" /\ name.backup # 0
    BY <1>7 DEF SaveStat, At, Saves
  <2>2. Goto(s, "check") /\ Same(s) /\ UNCHANGED files
    BY <1>7, <2>1 DEF SaveStat
  <2>3. at'[s] = "check" /\ mine'[s] = mine[s]
    BY <1>0, <2>2 DEF Goto, Same
  <2> QED
    BY <1>2, <2>1, <2>2, <2>3
<1>8. CASE SaveCheck(s)
  <2>1. /\ at[s] = "check" /\ name.backup # 0
        /\ disk[name.backup] = mine[s].snap
    BY <1>8 DEF SaveCheck, At, Saves
  <2>2. CASE Open("backup") /\ Exit(s, "ok")
    <3>1. at'[s] = "ok" /\ disk' = disk /\ name'.backup = name.backup
      BY <1>0, <2>1, <2>2 DEF Open, Opens, Exit, Goto, Types
    <3> QED
      BY <2>1, <3>1 DEF Saves, Reports
  <2> QED
    BY <1>1, <1>8, <2>2 DEF SaveCheck
<1> QED
  BY <1>3, <1>4, <1>5, <1>6, <1>7, <1>8

(* Who writes to a database has moved on.                                    *)
LEMMA WritersStep ==
    ASSUME DbInv, NEW p \in Cli, disk' # disk,
           \/ InitOpen(p) \/ InitList(p) \/ InitVersion(p) \/ InitApply(p) \/ InitRecord(p)
           \/ MigrateOpen(p) \/ MigrateVersion(p) \/ MigrateTables(p) \/ MigratePlan(p)
           \/ MigrateApply(p) \/ MigrateCommit(p) \/ MigrateRecord(p) \/ MigrateDone(p)
    PROVE  Steps(p)
<1>1. p \in Proc /\ at \in [Proc -> Place] /\ mine \in [Proc -> Memory] /\ Knows(p)
  BY Held DEF Proc
<1>2. ASSUME NEW l, NEW k, at[p] = l, k # l, Goto(p, k) PROVE Steps(p)
  BY <1>1, <1>2 DEF Goto, Steps
<1>3. CASE InitApply(p)
  <2>1. at[p] = "apply" /\ ApplyOne(p, "record")
    BY <1>3 DEF InitApply, At, files
  <2>2. mine[p].next \in Int
    BY <1>1, <2>1, StmtsAssumption DEF Knows
  <2>3. mine'[p].next = mine[p].next + 1
    BY <1>1, <2>1 DEF ApplyOne, Memory
  <2> QED
    BY <2>2, <2>3 DEF Steps
<1>4. CASE InitRecord(p)
  BY <1>2, <1>4 DEF InitRecord, At, Exit
<1>5. CASE MigrateCommit(p)
  BY <1>2, <1>5 DEF MigrateCommit, At, Exit
<1>6. CASE MigrateRecord(p)
  BY <1>2, <1>6 DEF MigrateRecord, At, Exit
<1>7. CASE InitOpen(p) \/ MigrateOpen(p)
  BY <1>7 DEF InitOpen, OpenCreate, MigrateOpen, OpenExisting, OpenRefused, Open
<1>8. CASE \/ InitList(p) \/ InitVersion(p) \/ MigrateVersion(p) \/ MigrateTables(p)
           \/ MigratePlan(p) \/ MigrateApply(p) \/ MigrateDone(p)
  BY <1>8 DEF InitList, InitVersion, MigrateVersion, MigrateTables, MigratePlan, MigrateApply,
              MigrateDone, files
<1> QED
  BY <1>3, <1>4, <1>5, <1>6, <1>7, <1>8

(* What any step does to the backup and to the files of others.              *)
SparesOthers == \A i \in Inode : Foreign(i) /\ disk'[i] # disk[i]
                                    => \E p \in Cli : Misled(p, i) /\ Steps(p)
LEMMA BackupStep ==
    ASSUME OneSaver, DbInv, SaveInv, [Next]_dbVars
    PROVE  /\ SaveInv' /\ \A s \in Saver : Reports(s)
           /\ SparesOthers
<1> DEFINE Good == /\ SaveInv' /\ \A s \in Saver : Reports(s)
                   /\ SparesOthers
<1>1. ASSUME NEW p, Spares(p), p \in Cli /\ disk' # disk => Steps(p),
             \A s \in Saver : \/ at'[s] = at[s] /\ mine'[s] = mine[s]
                              \/ at'[s] = "killed"
      PROVE  Good
  <2>1. ASSUME NEW s \in Saver PROVE Saves(s)' /\ Reports(s)
    <3>1. CASE at'[s] = at[s] /\ mine'[s] = mine[s]
      BY <1>1, <3>1, SavesKept DEF SaveInv, Reports
    <3>2. CASE at'[s] = "killed"
      BY <3>2 DEF Saves, Reports
    <3> QED
      BY <1>1, <3>1, <3>2
  <2>2. SparesOthers
    BY <1>1 DEF Spares, SparesOthers, Misled
  <2> QED
    BY <2>1, <2>2 DEF SaveInv
<1>2. ASSUME NEW p \in Proc, p \notin Saver, Moves(p), DbFileStep(p),
             p \in Cli /\ disk' # disk => Steps(p)
      PROVE  Good
  <2>1. Spares(p)
    BY <1>2, DbStepSpares
  <2>2. Saver \subseteq Proc \ {p}
    BY <1>2 DEF Proc
  <2> QED
    BY <1>1, <1>2, <2>1, <2>2 DEF Moves
<1>3. ASSUME NEW p \in Proc, Crash(p) PROVE Good
  <2>1. /\ Spares(p) /\ Moves(p) /\ at' = [at EXCEPT ![p] = "killed"]
        /\ at \in [Proc -> Place] /\ disk' = disk
    BY <1>3, CrashMoves, DbStepSpares, Held DEF Crash
  <2>2. at'[p] = "killed" /\ \A s \in Saver : s # p => s \in Proc \ {p}
    BY <2>1 DEF Proc
  <2> QED
    BY <1>1, <2>1, <2>2 DEF Moves
<1>4. ASSUME NEW t \in Saver,
             \/ SaveOpen(t) \/ SaveProbe(t) \/ SaveCreate(t)
             \/ SaveCopy(t) \/ SaveStat(t) \/ SaveCheck(t)
      PROVE  Good
  <2>1. \A s \in Saver : s = t
    BY DEF OneSaver
  <2>2. /\ Saves(t)' /\ Reports(t)
        /\ \A i \in Inode : disk[i].foreign => disk'[i] = disk[i]
    BY <1>4, SaverSteps DEF SaveInv
  <2>3. ASSUME NEW s \in Saver PROVE Saves(s)' /\ Reports(s)
    BY <2>1, <2>2
  <2> QED
    BY <2>2, <2>3 DEF SaveInv, SparesOthers, Foreign
<1>5. CASE Use
  <2>1. Uses /\ DbFileStep(Nobody) /\ UNCHANGED <<at, mine>>
    BY <1>5 DEF Use, Uses, DbFileStep
  <2>2. Spares(Nobody) /\ Nobody \notin Cli
    BY <2>1, DbStepSpares, ProcAssumption DEF Proc
  <2> QED
    BY <1>1, <2>1, <2>2
<1>6. CASE UNCHANGED dbVars
  <2>1. Spares(Nobody) /\ UNCHANGED <<at, mine>> /\ Nobody \notin Cli
    BY <1>6, ProcAssumption DEF dbVars, files, Spares, Proc
  <2> QED
    BY <1>1, <2>1
<1>7. ASSUME NEW p \in Cli,
             \/ InitOpen(p) \/ InitList(p) \/ InitVersion(p) \/ InitApply(p) \/ InitRecord(p)
             \/ MigrateOpen(p) \/ MigrateVersion(p) \/ MigrateTables(p) \/ MigratePlan(p)
             \/ MigrateApply(p) \/ MigrateCommit(p) \/ MigrateRecord(p) \/ MigrateDone(p)
      PROVE  Good
  <2>1. p \in Proc /\ p \notin Saver
    BY ProcAssumption DEF Proc
  <2>2. Moves(p) /\ DbFileStep(p)
    BY <1>7, InitMoves, MigrateMoves
  <2> QED
    BY <1>2, <1>7, <2>1, <2>2, WritersStep
<1>8. ASSUME NEW p \in Gui,
             \/ GuiOpen(p) \/ GuiRemove(p) \/ GuiCreate(p)
             \/ GuiApply(p) \/ GuiRecord(p) \/ GuiQuit(p)
      PROVE  Good
  <2>1. p \in Proc /\ p \notin Saver /\ p \notin Cli
    BY ProcAssumption DEF Proc
  <2> QED
    BY <1>2, <1>8, <2>1, GuiMoves
<1> QED
  BY <1>3, <1>4, <1>5, <1>6, <1>7, <1>8 DEF Next

LEMMA SaveInvAlways == ASSUME OneSaver PROVE Spec => [](DbInv /\ SaveInv)
<1>1. Init => SaveInv
  <2> SUFFICES ASSUME Init, NEW s \in Saver PROVE Saves(s)
    BY DEF SaveInv
  <2>1. at[s] = "idle"
    BY DEF Init, Proc
  <2> QED
    BY <2>1 DEF Saves
<1>2. DbInv /\ SaveInv /\ [Next]_dbVars => (DbInv /\ SaveInv)'
  BY DbInvKept, BackupStep
<1> QED
  BY <1>1, <1>2, InitDb, PTL DEF Spec

(* "fail closed" (commands/db.c of acta_cli): a file that holds tables of another
   program, and not all of Acta's, is written to by nobody but an init or a migrate
   whose own list of its tables failed without an error, however many processes
   init, migrate, back up and bootstrap, and whatever the path comes to name.  *)
THEOREM ForeignLeftAlone == ASSUME OneSaver PROVE Spec => ForeignUntouched
<1>1. DbInv /\ SaveInv /\ [Next]_dbVars
      => [\A i \in 1..used :
             disk[i].foreign /\ ~AllTables(disk[i]) /\ disk'[i] # disk[i]
                 => \E p \in Cli : mine[p].on = i /\ mine[p].blind /\ Steps(p)]_dbVars
  <2> SUFFICES ASSUME DbInv, SaveInv, [Next]_dbVars, NEW i \in 1..used,
                      disk[i].foreign, ~AllTables(disk[i]), disk'[i] # disk[i]
               PROVE  \E p \in Cli : mine[p].on = i /\ mine[p].blind /\ Steps(p)
    OBVIOUS
  <2>1. i \in Inode
    BY Numbers, InodeAssumption DEF DbInv, FileInv, Types, Inode
  <2> QED
    BY <2>1, BackupStep DEF SparesOthers, Foreign, Misled
<1> QED
  BY <1>1, SaveInvAlways, PTL DEF Spec, ForeignUntouched

(* acta_db_backup: a backup it reports as taken is there and is what the
   database held when it was copied, whatever migrates, replaces or writes
   the database meanwhile.                                                   *)
THEOREM ReportedBackupsAreWhole == ASSUME OneSaver PROVE Spec => ReportedBackupIsWhole
<1>1. DbInv /\ SaveInv /\ [Next]_dbVars
      => [\A s \in Saver : At(s, "check") /\ at'[s] = "ok" =>
             /\ name'.backup # 0
             /\ disk'[name'.backup] = mine[s].snap]_dbVars
  BY BackupStep DEF Reports, At
<1> QED
  BY <1>1, SaveInvAlways, PTL DEF Spec, ReportedBackupIsWhole

(* acta_db_backup: "On any failure the partial file is removed: nothing is
   left behind", in whichever of its steps it fails.                         *)
THEOREM FailedBackupsAreGone == ASSUME OneSaver PROVE Spec => FailedBackupLeavesNothing
<1>1. DbInv /\ SaveInv /\ [Next]_dbVars
      => [\A s \in Saver : at[s] \in {"create", "copy", "stat", "check"}
                           /\ at'[s] = "sql"
             => name'.backup = 0]_dbVars
  BY BackupStep DEF Reports
<1> QED
  BY <1>1, SaveInvAlways, PTL DEF Spec, FailedBackupLeavesNothing
=============================================================================

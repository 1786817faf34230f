------------------------------ MODULE Database ------------------------------
(***************************************************************************)
(* The database file: `acta_cli db init`, `db migrate` and `db backup`     *)
(* (acta_cli/src/commands/db.c over acta_db/src/db.c) and the bootstrap of *)
(* acta_gui (mainwindow.cpp), each in processes of their own.              *)
(*                                                                         *)
(* How far a schema has been applied is a number, its level: schema.sql is *)
(* the statements 1..Stmts, run one by one in autocommit by init and by    *)
(* the GUI; migration v takes the level from Full(v-1) to Full(v) in one   *)
(* transaction.  PRAGMA user_version is written by a statement of its own. *)
(* Paths name inodes: who has a handle on one that was unlinked reads and  *)
(* writes it as before, and nobody else will ever see it.                  *)
(***************************************************************************)
EXTENDS Integers

CONSTANTS
    Cli,        \* acta_cli processes running db init or db migrate
    Saver,      \* acta_cli processes running db backup, all to one target
    Gui,        \* acta_gui processes
    Versions,   \* entries of ACTA_MIGRATIONS: 1 as shipped, made to grow
    Tables,     \* the statement of schema.sql that creates the last table
    Stmts,      \* statements of schema.sql; after Tables only indexes come
    MaxInode,   \* bound: how many files are created
    Faults      \* "busy": a statement fails; "crash": a process is killed;
                \* "corrupt": pages of the database may be damaged

ASSUME VersionsAssumption == Versions \in Nat \ {0}
ASSUME StmtsAssumption == Tables \in Nat \ {0} /\ Stmts \in Nat /\ Tables <= Stmts
ASSUME InodeAssumption == MaxInode \in Nat \ {0}
ASSUME DbFaultAssumption == Faults \subseteq {"busy", "crash", "corrupt"}

VARIABLES
    disk,       \* the contents of the files, by inode
    name,       \* the inode each path names, 0 if there is no such file
    used,       \* how many inodes have been used
    lock,       \* who holds the write lock of each database
    at,         \* where each process is, at the end how it ended
    mine        \* what each process remembers

files  == <<disk, name, used, lock>>
dbVars == <<files, at, mine>>

Proc == Cli \cup Saver \cup Gui
Inode == 1..MaxInode
Nobody == "nobody"
ASSUME ProcAssumption ==
    /\ Cli \cap Saver = {} /\ Cli \cap Gui = {} /\ Saver \cap Gui = {}
    /\ Nobody \notin Proc
Busy == "busy" \in Faults

Full(v) == IF v = 0 THEN 0 ELSE Stmts + v - 1

(* rows: somebody's models, contexts and executions are in it; foreign: it has
   tables of another program; sound: its pages are.                          *)
Empty == [level |-> 0, uv |-> 0, rows |-> FALSE, foreign |-> FALSE, sound |-> TRUE]

(* Slips: a foreign file counts as a fresh one; any table will do.           *)
HasTables_Own(f) == f.level > 0
AllTables_Any(f) == f.level > 0

HasTables(f) == f.level > 0 \/ f.foreign
AllTables(f) == f.level >= Tables

(* on: the database opened; to: the backup opened; next: the schema statement
   to run; snap: what was copied.  blind: its list of the tables came back
   empty, and they are another program's; nothing in the code remembers that. *)
Nothing == [on |-> 0, to |-> 0, sees |-> "", blind |-> FALSE, uv |-> 0,
            next |-> 0, snap |-> Empty]

(* A database of the first release, which init recorded as version 1.        *)
Released == [Empty EXCEPT !.level = Stmts, !.uv = 1]

(* What the path may name when the first process looks.                      *)
Found == {Empty, Released, [Empty EXCEPT !.foreign = TRUE]}
            \cup (IF "corrupt" \in Faults THEN {[Released EXCEPT !.sound = FALSE]} ELSE {})

Init == /\ \E f \in Found, n \in {0, 1} :
              /\ n = 0 => f = Empty
              /\ disk = [i \in Inode |-> IF i = 1 THEN f ELSE Empty]
              /\ name = [db |-> n, backup |-> 0]
        /\ used = 1
        /\ lock = [i \in Inode |-> Nobody]
        /\ at = [p \in Proc |-> "idle"]
        /\ mine = [p \in Proc |-> Nothing]

At(p, l) == at[p] = l
Goto(p, l) == at' = [at EXCEPT ![p] = l]
Same(p) == UNCHANGED mine
Exit(p, code) == Goto(p, code) /\ mine' = [mine EXCEPT ![p] = Nothing]
Ended == {"ok", "invalid", "sql", "open", "usage", "left", "killed"}

Db(p) == disk[mine[p].on]
Unlocked(p) == lock[mine[p].on] \in {Nobody, p}
Put(i, f) == disk' = [disk EXCEPT ![i] = f]

(* The inode sqlite3_open of path n gives: a missing file is created.        *)
Opens(n) == IF name[n] # 0 THEN name[n] ELSE used + 1
Open(n) == /\ Opens(n) \in Inode
           /\ name' = [name EXCEPT ![n] = Opens(n)]
           /\ used' = IF name[n] # 0 THEN used ELSE used + 1
           /\ UNCHANGED <<disk, lock>>

-----------------------------------------------------------------------------
(* Slips the properties have to catch, never used by the specification.      *)

(* The number of the next version is recorded.                               *)
SetVersion_Next(p, v) == /\ Unlocked(p)
                         /\ Put(mine[p].on, [Db(p) EXCEPT !.uv = v + 1])
                         /\ UNCHANGED <<name, used, lock>>

(* The failure paths of acta_db_backup forget remove(target).                *)
DropTarget_Keeps == UNCHANGED files

(* The result of sqlite3_backup_step is not looked at.                       *)
SaveCopy_Ignored(s) ==
    /\ At(s, "copy")
    /\ Goto(s, "stat")
    /\ mine' = [mine EXCEPT ![s].snap = Db(s)]
    /\ \/ Put(mine[s].to, Db(s)) /\ UNCHANGED <<name, used, lock>>
       \/ Busy /\ UNCHANGED files

-----------------------------------------------------------------------------
(* acta_db_open.  An open that fails may have created the file.              *)

OpenCreate(p, l) == /\ Open("db")
                    /\ mine' = [mine EXCEPT ![p].on = Opens("db")]
                    /\ Goto(p, l)

OpenExisting(p, l) == /\ Open("db")
                      /\ HasTables(disk[Opens("db")])
                      /\ mine' = [mine EXCEPT ![p].on = Opens("db")]
                      /\ Goto(p, l)

OpenRefused == /\ Open("db")
               /\ Busy \/ ~HasTables(disk[Opens("db")])

-----------------------------------------------------------------------------
(* db init *)

InitOpen(p) == At(p, "idle") /\ OpenCreate(p, "list")

(* acta_db_user_tables.  Its loop ends at the first sqlite3_step that is not a
   row; when that is a failure, the list is empty or cut short and no error is
   reported.  What fails before the loop is reported.                        *)
Listed(p, sees, blind, l) ==
    /\ mine' = [mine EXCEPT ![p].sees = sees, ![p].blind = blind]
    /\ Goto(p, l)
ListFails(p, l) == \/ Listed(p, "fresh", Db(p).foreign, l)
                   \/ Exit(p, "sql")

(* The list, compared with the canonical tables; one cut short misses some.   *)
InitList(p) == /\ At(p, "list")
               /\ UNCHANGED files
               /\ \/ ~HasTables(Db(p)) /\ Listed(p, "fresh", FALSE, "version")
                  \/ AllTables(Db(p)) /\ Listed(p, "full", FALSE, "version")
                  \/ HasTables(Db(p)) /\ (~AllTables(Db(p)) \/ Busy) /\ Exit(p, "invalid")
                  \/ Busy /\ ListFails(p, "version")

(* user_version, which stays 0 when it cannot be read.                       *)
InitVersion(p) ==
    /\ At(p, "version")
    /\ UNCHANGED files
    /\ \/ /\ mine[p].sees = "fresh"
          /\ mine' = [mine EXCEPT ![p].next = 1]
          /\ Goto(p, "apply")
       \/ mine[p].sees = "full" /\ (Db(p).uv = 0 \/ Busy) /\ Goto(p, "record") /\ Same(p)
       \/ mine[p].sees = "full" /\ Db(p).uv # 0 /\ Exit(p, "ok")

(* The next CREATE of schema.sql: refused when the object is there already.  *)
Creates(p) == Unlocked(p) /\ Db(p).level = mine[p].next - 1
ApplyOne(p, done) ==
    /\ Put(mine[p].on, [Db(p) EXCEPT !.level = mine[p].next])
    /\ UNCHANGED <<name, used, lock>>
    /\ mine' = [mine EXCEPT ![p].next = mine[p].next + 1]
    /\ Goto(p, IF mine[p].next = Stmts THEN done ELSE at[p])

InitApply(p) == /\ At(p, "apply")
                /\ \/ Creates(p) /\ ApplyOne(p, "record")
                   \/ (~Creates(p) \/ Busy) /\ Exit(p, "sql") /\ UNCHANGED files

SetVersion(p, v) == /\ Unlocked(p)
                    /\ Put(mine[p].on, [Db(p) EXCEPT !.uv = v])
                    /\ UNCHANGED <<name, used, lock>>

InitRecord(p) == /\ At(p, "record")
                 /\ \/ SetVersion(p, 1) /\ Exit(p, "ok")
                    \/ Busy /\ Exit(p, "sql") /\ UNCHANGED files

-----------------------------------------------------------------------------
(* db migrate *)

MigrateOpen(p) == /\ At(p, "idle")
                  /\ \/ OpenExisting(p, "recorded")
                     \/ OpenRefused /\ Exit(p, "open")

(* user_version, and without one the list of tables.                         *)
MigrateVersion(p) == /\ At(p, "recorded")
                     /\ UNCHANGED files
                     /\ \/ Goto(p, IF Db(p).uv = 0 THEN "tables" ELSE "plan") /\ Same(p)
                        \/ Busy /\ Exit(p, "sql")

MigrateTables(p) == /\ At(p, "tables")
                    /\ UNCHANGED files
                    /\ \/ IF HasTables(Db(p)) THEN Exit(p, "invalid")
                                            ELSE Listed(p, "fresh", FALSE, "plan")
                       \/ Busy /\ ListFails(p, "plan")

(* db_migrate_apply reads user_version again.                                *)
MigratePlan(p) == /\ At(p, "plan")
                  /\ UNCHANGED files
                  /\ \/ /\ mine' = [mine EXCEPT ![p].uv = Db(p).uv]
                        /\ Goto(p, "pending")
                     \/ Busy /\ Exit(p, "sql")

(* BEGIN and the DDL of the next version, whose first write takes the lock.  *)
Applicable(p) == lock[mine[p].on] = Nobody /\ Db(p).level = Full(mine[p].uv)
MigrateApply(p) == /\ At(p, "pending")
                   /\ mine[p].uv < Versions
                   /\ \/ /\ Applicable(p)
                         /\ lock' = [lock EXCEPT ![mine[p].on] = p]
                         /\ UNCHANGED <<disk, name, used>>
                         /\ Goto(p, "commit") /\ Same(p)
                      \/ (~Applicable(p) \/ Busy) /\ Exit(p, "invalid") /\ UNCHANGED files

MigrateCommit(p) ==
    /\ At(p, "commit")
    /\ lock' = [lock EXCEPT ![mine[p].on] = Nobody]
    /\ UNCHANGED <<name, used>>
    /\ \/ /\ Put(mine[p].on, [Db(p) EXCEPT !.level = Full(mine[p].uv + 1)])
          /\ Goto(p, "stamp") /\ Same(p)
       \/ Busy /\ Exit(p, "invalid") /\ UNCHANGED disk      \* ROLLBACK

MigrateRecord(p) == /\ At(p, "stamp")
                    /\ \/ /\ SetVersion(p, mine[p].uv + 1)
                          /\ mine' = [mine EXCEPT ![p].uv = mine[p].uv + 1]
                          /\ Goto(p, "pending")
                       \/ Busy /\ Exit(p, "invalid") /\ UNCHANGED files

MigrateDone(p) == /\ At(p, "pending")
                  /\ mine[p].uv >= Versions
                  /\ Exit(p, "ok") /\ UNCHANGED files

-----------------------------------------------------------------------------
(* db backup: stat of the target, open, copy, stat, quick_check.             *)

SaveOpen(s) == /\ At(s, "idle")
               /\ \/ OpenExisting(s, "probe")
                  \/ OpenRefused /\ Exit(s, "open")

SaveProbe(s) == /\ At(s, "probe")
                /\ UNCHANGED files
                /\ IF name.backup # 0 THEN Exit(s, "usage") ELSE Goto(s, "create") /\ Same(s)

SaveCreate(s) == /\ At(s, "create")
                 /\ \/ /\ Open("backup")
                       /\ mine' = [mine EXCEPT ![s].to = Opens("backup")]
                       /\ Goto(s, "copy")
                    \/ Busy /\ Exit(s, "sql") /\ UNCHANGED files

DropTarget == name' = [name EXCEPT !.backup = 0] /\ UNCHANGED <<disk, used, lock>>

SaveCopy(s) == /\ At(s, "copy")
               /\ \/ /\ Put(mine[s].to, Db(s))
                     /\ UNCHANGED <<name, used, lock>>
                     /\ mine' = [mine EXCEPT ![s].snap = Db(s)]
                     /\ Goto(s, "stat")
                  \/ Busy /\ DropTarget /\ Exit(s, "sql")

SaveStat(s) == /\ At(s, "stat")
               /\ IF name.backup # 0 THEN Goto(s, "check") /\ Same(s) /\ UNCHANGED files
                                     ELSE DropTarget /\ Exit(s, "sql")

(* sqlite3_exec of PRAGMA quick_check is SQLITE_OK whatever its rows say.    *)
SaveCheck(s) == /\ At(s, "check")
                /\ \/ Open("backup") /\ Exit(s, "ok")
                   \/ Busy /\ DropTarget /\ Exit(s, "sql")

-----------------------------------------------------------------------------
(* acta_gui: openDatabaseOnce, and the modal that offers to create the file. *)

GuiOpen(g) == /\ At(g, "idle")
              /\ \/ Open("db") /\ HasTables(disk[Opens("db")]) /\ Exit(g, "ready")
                 \/ OpenRefused /\ Exit(g, "modal")

(* "Create database here": QFile::remove, then createDatabase.               *)
GuiRemove(g) == /\ At(g, "modal")
                /\ used + 1 < MaxInode             \* bound: one is left for a backup
                /\ name' = [name EXCEPT !.db = 0]
                /\ UNCHANGED <<disk, used, lock>>
                /\ Goto(g, "bare") /\ Same(g)

GuiCreate(g) == /\ At(g, "bare")
                /\ \/ /\ Open("db")
                      /\ mine' = [mine EXCEPT ![g].on = Opens("db"), ![g].next = 1]
                      /\ Goto(g, "apply")
                   \/ Busy /\ Exit(g, "idle") /\ UNCHANGED files

(* A failure goes back to openDatabaseOnce, which takes what there is by now. *)
GuiApply(g) == /\ At(g, "apply")
               /\ \/ Creates(g) /\ ApplyOne(g, "record")
                  \/ (~Creates(g) \/ Busy) /\ Exit(g, "idle") /\ UNCHANGED files

GuiRecord(g) == /\ At(g, "record")
                /\ \/ SetVersion(g, 1)
                   \/ Busy /\ UNCHANGED files               \* a warning
                /\ Exit(g, "ready")

(* Exit, "Choose database file", Load Database: it leaves this file alone.   *)
GuiLeave(g) == At(g, "modal") \/ At(g, "ready")
GuiQuit(g) == GuiLeave(g) /\ Exit(g, "left") /\ UNCHANGED files

-----------------------------------------------------------------------------
(* Whoever uses the database, and what may happen to a process.              *)

Use == /\ name.db # 0
       /\ AllTables(disk[name.db])
       /\ lock[name.db] = Nobody
       /\ Put(name.db, [disk[name.db] EXCEPT !.rows = TRUE])
       /\ UNCHANGED <<name, used, lock, at, mine>>

(* The lock goes with the process, and with it an open transaction.          *)
Crash(p) == /\ "crash" \in Faults
            /\ at[p] \notin Ended \cup {"idle"}
            /\ lock' = [i \in Inode |-> IF lock[i] = p THEN Nobody ELSE lock[i]]
            /\ UNCHANGED <<disk, name, used>>
            /\ Exit(p, "killed")

Next == \/ \E p \in Cli : \/ InitOpen(p) \/ InitList(p) \/ InitVersion(p)
                          \/ InitApply(p) \/ InitRecord(p)
                          \/ MigrateOpen(p) \/ MigrateVersion(p) \/ MigrateTables(p)
                          \/ MigratePlan(p) \/ MigrateApply(p) \/ MigrateCommit(p)
                          \/ MigrateRecord(p) \/ MigrateDone(p)
        \/ \E s \in Saver : \/ SaveOpen(s) \/ SaveProbe(s) \/ SaveCreate(s)
                            \/ SaveCopy(s) \/ SaveStat(s) \/ SaveCheck(s)
        \/ \E g \in Gui : \/ GuiOpen(g) \/ GuiRemove(g) \/ GuiCreate(g)
                          \/ GuiApply(g) \/ GuiRecord(g) \/ GuiQuit(g)
        \/ \E p \in Proc : Crash(p)
        \/ Use

Spec == Init /\ [][Next]_dbVars

-----------------------------------------------------------------------------
(* Properties *)

Version == 0..Versions
Content == [level : 0..Full(Versions), uv : Version, rows : BOOLEAN,
            foreign : BOOLEAN, sound : BOOLEAN]

(* Every variable has its type.                                              *)
TypeOK == /\ disk \in [Inode -> Content]
          /\ name \in [db : 0..used, backup : 0..used]
          /\ used \in Inode
          /\ lock \in [Inode -> Proc \cup {Nobody}]
          /\ mine \in [Proc -> [on : 0..used, to : 0..used, uv : Version, snap : Content,
                                sees : {"", "fresh", "full"}, blind : BOOLEAN,
                                next : 0..Stmts + 1]]

(* The recorded version never promises what the schema does not hold, although
   it is written apart from the schema and any process may die, fail or race
   with another in between: no table is missing at version 1, and no later
   migration is half there or still to be applied.                           *)
VersionTellsSchema ==
    \A i \in 1..used : LET f == disk[i] IN
        /\ f.uv > 0 => f.level >= Tables
        /\ f.uv > 1 => f.level >= Full(f.uv)

(* Neither init nor migrate, nor anybody else, writes into a file that has
   tables of another program and not all of Acta's, whatever the path names by
   the time they write; unless it is the very process whose list of the tables
   failed without an error.                                                  *)
Steps(p) == at'[p] # at[p] \/ mine'[p] # mine[p]
ForeignUntouched ==
    [][\A i \in 1..used :
          disk[i].foreign /\ ~AllTables(disk[i]) /\ disk'[i] # disk[i]
              => \E p \in Cli : mine[p].on = i /\ mine[p].blind /\ Steps(p)]_dbVars

(* A backup reported as taken is there, and is the whole of what was copied,
   whatever was written to the database while it was taken.                  *)
ReportedBackupIsWhole ==
    [][\A s \in Saver : At(s, "check") /\ at'[s] = "ok" =>
          /\ name'.backup # 0
          /\ disk'[name'.backup] = mine[s].snap]_dbVars

(* acta_db_backup: "On any failure the partial file is removed: nothing is
   left behind", unless it is killed.                                        *)
FailedBackupLeavesNothing ==
    [][\A s \in Saver : at[s] \in {"create", "copy", "stat", "check"}
                        /\ at'[s] = "sql"
          => name'.backup = 0]_dbVars

-----------------------------------------------------------------------------
(* What comments say and the code does not do                                *)

(* acta_cli/src/commands/db.c:383 "fail closed, no schema applied": no file of
   another program is written to, whatever fails.  A list of tables whose
   sqlite3_step fails (acta_db/src/db.c:379) is taken for that of a fresh file. *)
ForeignFailsClosed ==
    [][\A i \in 1..used :
          disk[i].foreign /\ ~AllTables(disk[i]) => disk'[i] = disk[i]]_dbVars

(* acta_gui/src/mainwindow.cpp:118 "auto-create here, or we would silently
   shadow an existing DB": bootstrapping never takes a database away in which
   somebody has rows.                                                        *)
NoDatabaseDropped ==
    [][name.db # 0 /\ name'.db # name.db => ~disk[name.db].rows]_dbVars

(* acta_db/src/db.c:513 "A backup that does not check is deleted and reported
   as failed": a backup reported as taken has sound pages.                   *)
ReportedBackupIsSound ==
    [][\A s \in Saver : At(s, "check") /\ at'[s] = "ok" =>
          disk'[name'.backup].sound]_dbVars
=============================================================================

------------------------------ MODULE Catalog -------------------------------
(***************************************************************************)
(* The models or the skills, their revisions, the contexts, and the        *)
(* executions that refer to both.                                          *)
(*                                                                         *)
(* A row of models (or skills) is live, soft-deleted or not there.  Three  *)
(* triggers of 0.1.sql keep its history in model_revisions, in the         *)
(* transaction of the statement that fires them: whoever writes the row    *)
(* writes a revision.  Clients are processes of acta_cli and acta_gui.     *)
(* `update` reads the live row, puts the fields it was given over it and   *)
(* writes the whole row back; the edit dialog of acta_gui reads its fields *)
(* when it is opened, the folder again when Save is clicked, and writes    *)
(* the whole row too.  The dialog for a new execution offers what was live *)
(* when it was opened.  Folders are the module FolderTree's: here the      *)
(* folder is a column like the others, except that a move writes it alone. *)
(*                                                                         *)
(* Each statement is one step, and a call that ends says how it ended.     *)
(***************************************************************************)
EXTENDS Integers, FiniteSets

CONSTANTS
    Item,       \* the ids of models, or of skills
    Ctx,        \* the ids of contexts
    Client,     \* acta_cli processes and acta_gui processes
    Field,      \* the columns of a row: all of them are tracked
    Key,        \* the columns of the unique indexes: folder and name
    Form,       \* the columns the edit dialog shows
    Folder,     \* the one that a move writes
    Value,      \* what a column holds
    MaxRevs,    \* bound: how many revisions are written
    MaxExecs    \* bound: how many executions are created

ASSUME FieldAssumption == Key \subseteq Field /\ Folder \in Key /\ Form \subseteq Field \ {Folder}
ASSUME ValueAssumption == Value # {}
ASSUME CatalogBoundAssumption == MaxRevs \in Nat /\ MaxExecs \in Nat

VARIABLES
    kind,       \* which of the two: "model" or "skill"
    item,       \* the rows of models
    revs,       \* the rows of model_revisions
    ctx,        \* the rows of contexts
    execs,      \* what the rows of executions refer to
    call,       \* what each client is doing
    said        \* how the call that ended last has ended

catVars == <<kind, item, revs, ctx, execs, call, said>>

Content == [Field -> Value]
Life == {"none", "live", "deleted"}
Outcome == {"none", "ok", "not_found", "duplicate", "fk", "sql"}

(* A row of models that is not there, and one that is.                       *)
NoItem == [life |-> "none"]
ItemRow == {NoItem} \cup [life : {"live", "deleted"}, content : Content]

(* One row of model_revisions; a tombstone has deleted_at set.               *)
Rev == 1..MaxRevs
Revision == [item : Item, rev : Rev, content : Content, gone : BOOLEAN]

(* A client between two statements: `skill update` waiting for its input with
   the row it read ("patch"), anyone about to "write" a row, a dialog for a row
   ("open") or for a new execution ("pick"), an execution about to be inserted
   ("create").                                                                *)
Idle == [at |-> "idle"]
Calls == {Idle}
    \cup [at : {"open"}, item : Item]
    \cup [at : {"patch", "write"}, item : Item, row : Content]
    \cup [at : {"pick", "create"}, ctx : Ctx, item : Item, rev : Rev]

Init == /\ kind \in {"model", "skill"}
        /\ item = [i \in Item |-> NoItem]
        /\ revs = {}
        /\ ctx = [x \in Ctx |-> "none"]
        /\ execs = {}
        /\ call = [c \in Client |-> Idle]
        /\ said = "none"

Exists(i) == item[i].life # "none"
Live(i) == item[i].life = "live"
Deleted(i) == item[i].life = "deleted"
RevsOf(i) == {r \in revs : r.item = i}
Numbers(S) == {r.rev : r \in S}
IsMax(n, S) == n \in S /\ \A m \in S : m <= n
Max0(S) == CHOOSE n \in S \cup {0} : IsMax(n, S \cup {0})

At(c, l) == call[c].at = l
Goes(c, to) == call' = [call EXCEPT ![c] = to] /\ said' = "none"
Ends(c, rc) == call' = [call EXCEPT ![c] = Idle] /\ said' = rc
SameKey(k, l) == \A f \in Key : k[f] = l[f]

-----------------------------------------------------------------------------
(* Slips the properties have to catch, never used by the specification.      *)

(* The columns that were not given are not read back.                        *)
Over_Given(give, k) == give

(* The unique indexes leave deleted rows out.                                *)
Taken_LiveOnly(i, k) == \E j \in Item \ {i} : Live(j) /\ SameKey(item[j].content, k)

(* MAX(revision) is read through idx_model_revisions_live.                   *)
NextRev_Live(i) == Max0(Numbers({r \in RevsOf(i) : ~r.gone})) + 1

(* An update amends the newest revision instead of adding one.               *)
AddRevision_Amends(i, n, k, gone) ==
    revs' = {r \in revs : r.item # i \/ gone \/ r.rev # Max0(Numbers({q \in RevsOf(i) : ~q.gone}))}
        \cup {[item |-> i, content |-> k, gone |-> gone,
                rev |-> IF gone \/ n = 1 THEN n ELSE Max0(Numbers({q \in RevsOf(i) : ~q.gone}))]}

(* The update trigger forgets the folder.                                    *)
Tracked_NoFolder(old, new) == \E f \in Field \ {Folder} : old[f] # new[f]

(* sqlite3_changes is not looked at.                                         *)
Changes_Ignored(i) == "ok"

(* The picker lists the revisions of models as that of skills does.          *)
Listed_All(r) == TRUE

-----------------------------------------------------------------------------
(* The triggers and the unique indexes                                       *)

(* uq_models_root, uq_models_child: over deleted rows as well.               *)
Taken(i, k) == \E j \in Item \ {i} : Exists(j) /\ SameKey(item[j].content, k)

(* COALESCE((SELECT MAX(revision) ...), 0) + 1                               *)
NextRev(i) == Max0(Numbers(RevsOf(i))) + 1

AddRevision(i, n, k, gone) ==
    revs' = revs \cup {[item |-> i, rev |-> n, content |-> k, gone |-> gone]}
Room == Cardinality(revs) < MaxRevs

(* models_create_initial_revision, models_update_revision (of a live row, and
   only when a column changes), models_soft_delete_revision.                  *)
CreateRevision(i, k) == Room /\ AddRevision(i, 1, k, FALSE)
Tracked(old, new) == \E f \in Field : old[f] # new[f]
UpdateRevision(i, k) == IF Tracked(item[i].content, k)
                        THEN Room /\ AddRevision(i, NextRev(i), k, FALSE)
                        ELSE UNCHANGED revs
DeleteRevision(i) == Room /\ AddRevision(i, NextRev(i), item[i].content, TRUE)

-----------------------------------------------------------------------------
(* Statements on models and skills.  "WHERE id = ? AND deleted_at IS NULL"
   matches a live row; a constraint that fails undoes the statement.          *)

Insert(i, k) == IF Taken(i, k) THEN UNCHANGED <<item, revs>>
                ELSE /\ item' = [item EXCEPT ![i] = [life |-> "live", content |-> k]]
                     /\ CreateRevision(i, k)
Overwrite(i, k) == IF Live(i) /\ ~Taken(i, k)
                   THEN item' = [item EXCEPT ![i].content = k] /\ UpdateRevision(i, k)
                   ELSE UNCHANGED <<item, revs>>
SoftDelete(i) == IF Live(i)
                 THEN item' = [item EXCEPT ![i].life = "deleted"] /\ DeleteRevision(i)
                 ELSE UNCHANGED <<item, revs>>

(* No trigger fires: the restored row has no revision of its own.            *)
Undelete(i) == /\ item' = IF Deleted(i) /\ ~Taken(i, item[i].content)
                          THEN [item EXCEPT ![i].life = "live"] ELSE item
               /\ UNCHANGED revs

(* changes() > 0, or "does not exist or is soft-deleted"                     *)
Changes(i) == IF Live(i) THEN "ok" ELSE "not_found"
Hits(i, k) == Live(i) /\ Taken(i, k)

ModelInsert(c, i, k) == /\ kind = "model" /\ Insert(i, k)
                        /\ Ends(c, IF Taken(i, k) THEN "duplicate" ELSE "ok")
SkillInsert(c, i, k) == /\ kind = "skill" /\ Insert(i, k)
                        /\ Ends(c, IF Taken(i, k) THEN "duplicate" ELSE "ok")

(* A name that is taken is an SQL error to models and a duplicate to skills. *)
ModelUpdateRow(c, i, k) == /\ kind = "model" /\ Overwrite(i, k)
                           /\ Ends(c, IF Hits(i, k) THEN "sql" ELSE Changes(i))
SkillUpdateRow(c, i, k) == /\ kind = "skill" /\ Overwrite(i, k)
                           /\ Ends(c, IF Hits(i, k) THEN "duplicate" ELSE Changes(i))

ModelSoftDelete(c, i) == kind = "model" /\ SoftDelete(i) /\ Ends(c, Changes(i))
SkillSoftDelete(c, i) == kind = "skill" /\ SoftDelete(i) /\ Ends(c, Changes(i))

(* Of a live row: no change, and no error.                                   *)
Restored(i) == IF ~Exists(i) THEN "not_found"
               ELSE IF Deleted(i) /\ Taken(i, item[i].content) THEN "sql" ELSE "ok"
ModelRestoreRow(c, i) == kind = "model" /\ Undelete(i) /\ Ends(c, Restored(i))
SkillRestoreRow(c, i) == kind = "skill" /\ Undelete(i) /\ Ends(c, Restored(i))

Moved(i, v) == [item[i].content EXCEPT ![Folder] = v]
MoveRow(c, i, v) == IF ~Live(i) THEN UNCHANGED <<item, revs>> /\ Ends(c, "not_found")
                    ELSE /\ Overwrite(i, Moved(i, v))
                         /\ Ends(c, IF Hits(i, Moved(i, v)) THEN "sql" ELSE Changes(i))
ModelMoveRow(c, i, v) == kind = "model" /\ MoveRow(c, i, v)
SkillMoveRow(c, i, v) == kind = "skill" /\ MoveRow(c, i, v)

-----------------------------------------------------------------------------
(* acta_cli model ..., acta_cli skill ...                                    *)

Rest == UNCHANGED <<kind, ctx, execs>>
Rows == UNCHANGED <<item, revs>>

(* The live row with the fields given over it.                               *)
Over(give, k) == [f \in Field |-> IF f \in DOMAIN give THEN give[f] ELSE k[f]]
Given(F) == UNION {[G -> Value] : G \in SUBSET F \ {{}}}
Merge(c, i, give, k) == Goes(c, [at |-> "write", item |-> i, row |-> Over(give, k)])

ModelCreate(c, i) == /\ At(c, "idle") /\ ~Exists(i)
                     /\ \E k \in Content : ModelInsert(c, i, k)
                     /\ Rest
SkillCreate(c, i) == /\ At(c, "idle") /\ ~Exists(i)
                     /\ \E k \in Content : SkillInsert(c, i, k)
                     /\ Rest

(* model update has its fields before it reads the row ...                   *)
ModelUpdate(c, i) == /\ At(c, "idle") /\ kind = "model"
                     /\ IF Live(i) THEN \E give \in Given(Field) : Merge(c, i, give, item[i].content)
                        ELSE Ends(c, "not_found")
                     /\ Rows /\ Rest

(* ... and skill update after it: "so a missing id fails fast".              *)
SkillUpdate(c, i) == /\ At(c, "idle") /\ kind = "skill"
                     /\ IF Live(i) THEN Goes(c, [at |-> "patch", item |-> i, row |-> item[i].content])
                        ELSE Ends(c, "not_found")
                     /\ Rows /\ Rest
SkillPatch(c) == /\ At(c, "patch")
                 /\ \E give \in Given(Field) : Merge(c, call[c].item, give, call[c].row)
                 /\ Rows /\ Rest

UpdateRow(c) == /\ At(c, "write")
                /\ \/ ModelUpdateRow(c, call[c].item, call[c].row)
                   \/ SkillUpdateRow(c, call[c].item, call[c].row)
                /\ Rest

ModelDelete(c, i) == At(c, "idle") /\ ModelSoftDelete(c, i) /\ Rest
SkillDelete(c, i) == At(c, "idle") /\ SkillSoftDelete(c, i) /\ Rest
ModelRestore(c, i) == At(c, "idle") /\ ModelRestoreRow(c, i) /\ Rest
SkillRestore(c, i) == At(c, "idle") /\ SkillRestoreRow(c, i) /\ Rest
ModelMove(c, i) == At(c, "idle") /\ (\E v \in Value : ModelMoveRow(c, i, v)) /\ Rest
SkillMove(c, i) == At(c, "idle") /\ (\E v \in Value : SkillMoveRow(c, i, v)) /\ Rest

-----------------------------------------------------------------------------
(* The edit dialogs of acta_gui.  One shows a row, deleted or not.  Save reads
   the live row again and keeps what the form does not show: the folder.  A
   Save that is refused leaves the dialog open, and the user may close it.    *)

DialogOpen(c, i, k) == /\ At(c, "idle") /\ kind = k /\ Exists(i)
                       /\ Goes(c, [at |-> "open", item |-> i])
                       /\ Rows /\ Rest
DialogSave(c, k) == LET i == call[c].item IN
    /\ At(c, "open") /\ kind = k
    /\ IF Live(i) THEN \E give \in [Form -> Value] : Merge(c, i, give, item[i].content)
       ELSE UNCHANGED call /\ said' = "not_found"
    /\ Rows /\ Rest

ModelDialogOpen(c, i) == DialogOpen(c, i, "model")
SkillDialogOpen(c, i) == DialogOpen(c, i, "skill")
ModelDialogSave(c) == DialogSave(c, "model")
SkillDialogSave(c) == DialogSave(c, "skill")

-----------------------------------------------------------------------------
(* Contexts: only deleted_at may change, and a live one cannot be restored.  *)

ContextInsert(c, x) == /\ ctx[x] = "none"
                       /\ ctx' = [ctx EXCEPT ![x] = "live"]
                       /\ Ends(c, "ok")
ContextSet(c, x, from, to) == IF ctx[x] = from
                              THEN ctx' = [ctx EXCEPT ![x] = to] /\ Ends(c, "ok")
                              ELSE UNCHANGED ctx /\ Ends(c, "not_found")
ContextDeleteRow(c, x) == ContextSet(c, x, "live", "deleted")
ContextRestoreRow(c, x) == ContextSet(c, x, "deleted", "live")

ContextCreate(c, x)  == At(c, "idle") /\ ContextInsert(c, x) /\ Rows /\ UNCHANGED <<kind, execs>>
ContextDelete(c, x)  == At(c, "idle") /\ ContextDeleteRow(c, x) /\ Rows /\ UNCHANGED <<kind, execs>>
ContextRestore(c, x) == At(c, "idle") /\ ContextRestoreRow(c, x) /\ Rows /\ UNCHANGED <<kind, execs>>

-----------------------------------------------------------------------------
(* Executions.  acta_db_execution_create looks the context up, and inserts the
   row by a second statement; only that one looks at the revision.            *)

RevOf(i, n) == {r \in RevsOf(i) : r.rev = n}

ExecCheck(c, x, i, n) ==
    CASE ctx[x] = "none"    -> Ends(c, "fk")
      [] ctx[x] = "deleted" -> Ends(c, "not_found")
      [] ctx[x] = "live"    -> Goes(c, [at |-> "create", ctx |-> x, item |-> i, rev |-> n])
ExecInsert(c) == LET q == call[c] IN
    /\ At(c, "create")
    /\ IF RevOf(q.item, q.rev) = {} THEN UNCHANGED execs /\ Ends(c, "fk")
       ELSE /\ Cardinality(execs) < MaxExecs
            /\ execs' = execs \cup {[ctx |-> q.ctx, item |-> q.item, rev |-> q.rev]}
            /\ Ends(c, "ok")
    /\ Rows /\ UNCHANGED <<kind, ctx>>

(* exec create takes any ids: of a row, or of none.                          *)
ExecCreate(c, x, i, n) == /\ At(c, "idle") /\ n <= NextRev(i)
                          /\ ExecCheck(c, x, i, n)
                          /\ Rows /\ Rest

(* The dialog offers the live contexts, and under every live model its
   revisions: of a skill the tombstones too.                                  *)
LoadContexts == {x \in Ctx : ctx[x] = "live"}
Listed(r) == kind = "skill" \/ ~r.gone
LoadTree == {r \in revs : Live(r.item) /\ Listed(r)}
NewExecution(c) == /\ At(c, "idle")
                   /\ \E x \in LoadContexts, r \in LoadTree :
                         Goes(c, [at |-> "pick", ctx |-> x, item |-> r.item, rev |-> r.rev])
                   /\ Rows /\ Rest
PickSave(c) == /\ At(c, "pick")
               /\ ExecCheck(c, call[c].ctx, call[c].item, call[c].rev)
               /\ Rows /\ Rest

(* The client is killed, its dialog is closed, its input is refused.         *)
GiveUp(c) == ~At(c, "idle") /\ Goes(c, Idle) /\ Rows /\ Rest

Next == \E c \in Client :
    \/ \E i \in Item : \/ ModelCreate(c, i) \/ ModelUpdate(c, i) \/ ModelDelete(c, i)
                       \/ ModelRestore(c, i) \/ ModelMove(c, i) \/ ModelDialogOpen(c, i)
                       \/ SkillCreate(c, i) \/ SkillUpdate(c, i) \/ SkillDelete(c, i)
                       \/ SkillRestore(c, i) \/ SkillMove(c, i) \/ SkillDialogOpen(c, i)
    \/ SkillPatch(c) \/ UpdateRow(c) \/ ModelDialogSave(c) \/ SkillDialogSave(c)
    \/ \E x \in Ctx : \/ ContextCreate(c, x) \/ ContextDelete(c, x) \/ ContextRestore(c, x)
                      \/ \E i \in Item, n \in Rev : ExecCreate(c, x, i, n)
    \/ ExecInsert(c) \/ NewExecution(c) \/ PickSave(c) \/ GiveUp(c)

Spec == Init /\ [][Next]_catVars

-----------------------------------------------------------------------------
(* Properties *)

(* Every variable has its type.                                              *)
TypeOK == /\ kind \in {"model", "skill"}
          /\ item \in [Item -> ItemRow]
          /\ revs \subseteq Revision
          /\ ctx \in [Ctx -> Life]
          /\ execs \subseteq [ctx : Ctx, item : Item, rev : Rev]
          /\ call \in [Client -> Calls]
          /\ said \in Outcome

(* The history tells the row: the newest revision that is not a tombstone
   says what the row says, and a row is deleted only when its newest revision
   is a tombstone, whoever wrote it, over whatever it had read.              *)
HistoryTellsRow ==
    \A i \in Item :
        /\ Exists(i) => \E r \in RevsOf(i) :
               /\ ~r.gone /\ r.content = item[i].content
               /\ \A q \in RevsOf(i) : q.rev > r.rev => q.gone
        /\ Deleted(i) => \E r \in RevsOf(i) : r.gone /\ IsMax(r.rev, Numbers(RevsOf(i)))

(* The revisions of an item are numbered 1, 2, 3 ... without a gap and without
   a number given twice, deletes and restores in between included.           *)
RevisionsNumbered ==
    \A i \in Item : /\ \A q, r \in RevsOf(i) : q.rev = r.rev => q = r
                    /\ \A r \in RevsOf(i) : 1..r.rev \subseteq Numbers(RevsOf(i))

(* A deleted item can be restored: nobody took its place meanwhile.          *)
RestoreIsPossible == \A i \in Item : Deleted(i) => ~(
    \E j \in Item \ {i} : Exists(j) /\ SameKey(item[j].content, item[i].content))

(* What the runner fetches for an execution: the context, deleted or not, and
   the revision; that of a model only if it is no tombstone.                 *)
Fetchable(e) == /\ ctx[e.ctx] # "none"
                /\ \E r \in RevOf(e.item, e.rev) : kind = "skill" \/ ~r.gone

(* What the dialog for a new execution offered can be fetched by a runner,
   whatever was deleted, renamed or restored while the dialog was open.      *)
PickedCanRun == \A c \in Client : At(c, "pick") => Fetchable(call[c])

(* "ok" after an update means that the row now says what the client wrote:
   one that was deleted after it had been read is not reported as updated.   *)
OkMeansWritten ==
    [][\A c \in Client : At(c, "write") /\ call'[c] = Idle /\ said' = "ok" =>
          item'[call[c].item] = [life |-> "live", content |-> call[c].row]]_catVars

(* What an execution refers to is there for good: whatever happens to the
   model and to the context after it was created, its runner fetches the
   revision it was created with.                                             *)
PinsHold ==
    [][\A e \in execs : /\ e \in execs'
                        /\ Fetchable(e) => Fetchable(e)'
                        /\ \A r \in RevOf(e.item, e.rev) : \E q \in RevOf(e.item, e.rev)' :
                              q.content = r.content]_catVars

-----------------------------------------------------------------------------
(* What comments say and the code does not do                                *)

(* acta_cli/src/commands/model.c:122 "left unchanged" (unspecified fields): a
   row is written over the row that was read for it.                         *)
ReadRowIsCurrent ==
    \A c \in Client : At(c, "patch") /\ Live(call[c].item) => call[c].row = item[call[c].item].content

(* acta_db/src/execution.c:392 "a soft-deleted context cannot receive a new
   execution".                                                               *)
NewExecutionHasLiveContext ==
    [][\A e \in execs' \ execs : ctx[e.ctx] = "live"]_catVars
=============================================================================

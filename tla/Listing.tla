------------------------------ MODULE Listing -------------------------------
(***************************************************************************)
(* Reading the tables: `list`, `list --stream`, `count` and `get` of       *)
(* acta_cli, and the lists of acta_gui, over a table that other processes  *)
(* write meanwhile.                                                        *)
(*                                                                         *)
(* Nine tables are read the same way and none of them exactly the same:    *)
(* which rows a command means by default, what folder 0 means, whether     *)
(* deleted rows can be asked for, whether --stream is there, whether the   *)
(* lister caps its pages and whether it looks at how its statement ended.  *)
(* A list is one SELECT, a stream is one SELECT after the other, each from *)
(* the offset the rows emitted so far make: between two of them the table  *)
(* changes.  Rows are in the order of their ids, which is the order they   *)
(* were inserted in.                                                       *)
(***************************************************************************)
EXTENDS Integers, FiniteSets, Sequences, SequencesExt

CONSTANTS
    Group,      \* what rows are filtered by: folders, types, executions ...
    Zero,       \* the id 0: the root folder, or no filter
    Absent,     \* the filter is not given
    PageCap,    \* DB_LIST_MAX, 10000 in the code
    MaxRow,     \* bound: how many rows are inserted
    Limits,     \* bound: the values given to --limit
    Offsets     \* bound: the values given to --offset

ASSUME ListingAssumption == /\ Zero # Absent /\ {Zero, Absent} \cap Group = {}
                            /\ PageCap \in Nat \ {0} /\ MaxRow \in Nat
                            /\ Limits \subseteq Nat /\ Offsets \subseteq Nat

VARIABLES
    entity,     \* which of the nine tables this is
    table,      \* its rows, in the order of their ids
    client,     \* the command or the panel that reads it
    born,       \* how many rows there were when the command began
    quiet       \* nobody has written since the command began

listVars == <<entity, table, client, born, quiet>>

Trees == {"model", "skill", "model_folder", "skill_folder"}
Revisions == {"model_revision", "skill_revision"}
Entity == Trees \cup Revisions \cup {"context", "exec", "log"}

(* A row: deleted or not, and what it is filtered by.                        *)
GroupsOf(e) == IF e \in Trees THEN Group \cup {Zero} ELSE Group
RowOf(e) == [dead : BOOLEAN, group : GroupsOf(e)]
Ids == DOMAIN table
InOrder(S) == [n \in 1..Cardinality(S) |-> CHOOSE i \in S : Cardinality({j \in S : j <= i}) = n]
Live(i) == ~table[i].dead

(* What a command is given, and what it hands to the lister of its table: a
   filter g, and whether deleted rows are to be returned.                    *)
Args == [group : Group \cup {Zero, Absent}, all : BOOLEAN, trash : BOOLEAN,
         offset : Offsets, limit : Limits]
Query(g, trash) == [g |-> g, trash |-> trash]

Has(q, i) == q.trash \/ Live(i)
In(q, i) == q.g = Absent \/ table[i].group = q.g

Init == /\ entity \in Entity
        /\ table = <<>>
        /\ \/ client = [at |-> "idle"]
           \/ /\ entity \in {"model", "skill", "context", "exec"}
              /\ client = [at |-> "panel", shown |-> {}, sel |-> 0, trash |-> FALSE]
        /\ born = 0
        /\ quiet = TRUE

-----------------------------------------------------------------------------
(* Slips the properties have to catch, never used by the specification.      *)

(* The next page starts a whole page further, whatever the last one had.     *)
Emitted_Pages(c) == IF c.out = <<>> THEN 0 ELSE PageCap

(* The counter of a folder's models forgets the deleted rows' filter.        *)
ModelCounted_Any(q) == {i \in Ids : In(q, i)}

(* A row that is listed with the trash is looked up among the live ones.     *)
ExecGet_Live(i, trash) == Live(i)

(* The panel keeps the place of the selection in the list.                   *)
Kept_Place(c, S) == IF c.sel # 0 /\ Cardinality(S) >= Cardinality({j \in c.shown : j <= c.sel})
                    THEN InOrder(S)[Cardinality({j \in c.shown : j <= c.sel})] ELSE 0

-----------------------------------------------------------------------------
(* The statements of acta_db: which rows each lister selects, which rows each
   counter counts, which rows each getter finds.                             *)

ModelRows(q)         == {i \in Ids : In(q, i) /\ Has(q, i)}
ModelCounted(q)      == {i \in Ids : In(q, i) /\ Has(q, i)}
SkillRows(q)         == {i \in Ids : In(q, i) /\ Has(q, i)}
SkillCounted(q)      == {i \in Ids : In(q, i) /\ Has(q, i)}
ModelFolderRows(q)   == {i \in Ids : In(q, i) /\ Live(i)}
ModelFolderCounted(q) == {i \in Ids : In(q, i) /\ Live(i)}
SkillFolderRows(q)   == {i \in Ids : In(q, i) /\ Live(i)}
SkillFolderCounted(q) == {i \in Ids : In(q, i) /\ Live(i)}
ContextRows(q)       == {i \in Ids : In(q, i) /\ Has(q, i)}
ContextCounted(q)    == {i \in Ids : In(q, i) /\ Has(q, i)}
ExecRows(q)          == {i \in Ids : (q.g = Zero \/ In(q, i)) /\ Has(q, i)}
ExecCounted(q)       == {i \in Ids : (q.g = Zero \/ In(q, i)) /\ Has(q, i)}
LogRows(q)           == {i \in Ids : In(q, i)}
LogCounted(q)        == {i \in Ids : In(q, i)}
ModelRevisionRows(q) == {i \in Ids : table[i].group = q.g /\ Has(q, i)}
ModelRevisionCounted(q) == {i \in Ids : table[i].group = q.g /\ Has(q, i)}
SkillRevisionRows(q) == {i \in Ids : table[i].group = q.g}
SkillRevisionCounted(q) == {i \in Ids : table[i].group = q.g}

(* get: by default the live row, with --include_deleted any; the folders and
   the log do not look at deleted_at, a model revision's getter always does. *)
ModelGet(i, trash)    == trash \/ Live(i)
SkillGet(i, trash)    == trash \/ Live(i)
ContextGet(i, trash)  == trash \/ Live(i)
ExecGet(i, trash)     == trash \/ Live(i)
ModelFolderGet(i)     == i \in Ids
SkillFolderGet(i)     == i \in Ids
LogGet(i)             == i \in Ids
ModelRevisionGet(i)   == Live(i)
SkillRevisionGet(i)   == i \in Ids

-----------------------------------------------------------------------------
(* The commands of acta_cli: what `list` and `count` make of their arguments. *)

ModelList(a)          == ModelRows(Query(a.group, a.trash))
ModelCount(a)         == ModelCounted(Query(a.group, a.trash))
SkillFolderOf(a)      == IF a.all THEN Absent ELSE a.group
SkillList(a)          == SkillRows(Query(SkillFolderOf(a), a.trash))
SkillCount(a)         == SkillCounted(Query(SkillFolderOf(a), a.trash))
ModelFolderList(a)    == ModelFolderRows(Query(a.group, FALSE))
ModelFolderCount(a)   == ModelFolderCounted(Query(a.group, FALSE))
SkillFolderList(a)    == SkillFolderRows(Query(a.group, FALSE))
SkillFolderCount(a)   == SkillFolderCounted(Query(a.group, FALSE))
ContextList(a)        == ContextRows(Query(a.group, a.trash))
ContextCount(a)       == ContextCounted(Query(a.group, a.trash))
ExecList(a)           == ExecRows(Query(a.group, a.trash))
ExecCount(a)          == ExecCounted(Query(a.group, a.trash))
LogList(a)            == LogRows(Query(a.group, TRUE))
LogCount(a)           == LogCounted(Query(a.group, TRUE))
ModelRevisionList(a)  == ModelRevisionRows(Query(a.group, a.trash))
ModelRevisionCount(a) == ModelRevisionCounted(Query(a.group, a.trash))
SkillRevisionList(a)  == SkillRevisionRows(Query(a.group, TRUE))
SkillRevisionCount(a) == SkillRevisionCounted(Query(a.group, TRUE))

Listed(a) == CASE entity = "model" -> ModelList(a)
               [] entity = "skill" -> SkillList(a)
               [] entity = "model_folder" -> ModelFolderList(a)
               [] entity = "skill_folder" -> SkillFolderList(a)
               [] entity = "context" -> ContextList(a)
               [] entity = "exec" -> ExecList(a)
               [] entity = "log" -> LogList(a)
               [] entity = "model_revision" -> ModelRevisionList(a)
               [] entity = "skill_revision" -> SkillRevisionList(a)

Counted(a) == CASE entity = "model" -> ModelCount(a)
                [] entity = "skill" -> SkillCount(a)
                [] entity = "model_folder" -> ModelFolderCount(a)
                [] entity = "skill_folder" -> SkillFolderCount(a)
                [] entity = "context" -> ContextCount(a)
                [] entity = "exec" -> ExecCount(a)
                [] entity = "log" -> LogCount(a)
                [] entity = "model_revision" -> ModelRevisionCount(a)
                [] entity = "skill_revision" -> SkillRevisionCount(a)

Gets(i, trash) == CASE entity = "model" -> ModelGet(i, trash)
                    [] entity = "skill" -> SkillGet(i, trash)
                    [] entity = "context" -> ContextGet(i, trash)
                    [] entity = "exec" -> ExecGet(i, trash)
                    [] entity = "model_folder" -> ModelFolderGet(i)
                    [] entity = "skill_folder" -> SkillFolderGet(i)
                    [] entity = "log" -> LogGet(i)
                    [] entity = "model_revision" -> ModelRevisionGet(i)
                    [] entity = "skill_revision" -> SkillRevisionGet(i)

(* The arguments each command knows: --all is a skill's, --include_deleted is
   not everybody's, a revision and a log line are listed by what they are of. *)
HasTrash == {"model", "skill", "context", "exec", "model_revision"}
Given(a) == /\ a.all => entity = "skill"
            /\ a.trash => entity \in HasTrash
            /\ entity \in Revisions \cup {"log"} => a.group \in Group
            /\ entity = "context" => a.group # Zero

(* skill_revision list takes --stream and does not stream.                   *)
Streams == Entity \ {"skill_revision"}

(* Listers that look at how sqlite3_step ended; the others take any end for
   the end of the rows.                                                      *)
Checked == Revisions \cup {"skill_folder"}

(* db_clamp_limit: 0 is the cap and so is more than the cap; the listers of
   skill folders do not call it.                                             *)
Clamp(n) == IF entity = "skill_folder" THEN IF n > 0 THEN n ELSE MaxRow
            ELSE IF n <= 0 \/ n > PageCap THEN PageCap ELSE n

-----------------------------------------------------------------------------
(* Everybody else                                                            *)

Written(t) == table' = t /\ quiet' = FALSE /\ UNCHANGED <<entity, client, born>>

(* A row is inserted; the last revision of a deleted item is a tombstone.    *)
Insert == /\ Len(table) < MaxRow
          /\ \E r \in RowOf(entity) : /\ r.dead => entity \in Revisions
                                      /\ Written(Append(table, r))

(* Revisions and log lines are never updated.                                *)
Trash(i) == /\ entity \notin Revisions \cup {"log"}
            /\ Written([table EXCEPT ![i].dead = ~@])

(* An item is moved, an execution changes its status.                        *)
Regroup(i, g) == /\ entity \in Trees \cup {"exec"}
                 /\ g \in GroupsOf(entity) \ {table[i].group}
                 /\ Written([table EXCEPT ![i].group = g])

-----------------------------------------------------------------------------
(* The commands                                                              *)

Ask == /\ client.at = "idle"
       /\ \E a \in Args, m \in {"list", "stream"} :
             /\ Given(a)
             /\ client' = [at |-> "paging", args |-> a, out |-> <<>>, cut |-> FALSE,
                           once |-> m = "list" \/ entity \notin Streams]
       /\ born' = Len(table) /\ quiet' = TRUE
       /\ UNCHANGED <<entity, table>>

(* How far a stream has come.                                                *)
Emitted(c) == Len(c.out)
Want(c) == IF c.args.limit > 0 THEN c.args.limit - Len(c.out) ELSE 0
Asked(c) == IF c.once THEN c.args.limit ELSE Want(c)
From(c) == c.args.offset + Emitted(c)

PageOf(c) == LET all == InOrder(Listed(c.args)) IN
    SubSeq(all, From(c) + 1,
           IF Len(all) < From(c) + Clamp(Asked(c)) THEN Len(all) ELSE From(c) + Clamp(Asked(c)))

Ends(c, n) == \/ c.once
              \/ c.args.limit > 0 /\ Len(c.out) + n >= c.args.limit
              \/ n = 0
              \/ n < Want(c)

Emit(c, page, cut) ==
    client' = [c EXCEPT !.at = IF Ends(c, Len(page)) THEN "done" ELSE "paging",
                        !.out = @ \o page,
                        !.cut = cut /\ Ends(c, Len(page))]

Page == /\ client.at = "paging"
        /\ Emit(client, PageOf(client), FALSE)
        /\ UNCHANGED <<entity, table, born, quiet>>

(* A step fails (SQLITE_BUSY, an I/O error) after k rows.                    *)
StepFails == /\ client.at = "paging"
             /\ IF entity \in Checked
                THEN client' = [client EXCEPT !.at = "failed"]
                ELSE \E k \in 0..Len(PageOf(client)) :
                        Emit(client, SubSeq(PageOf(client), 1, k), k < Len(PageOf(client)))
             /\ UNCHANGED <<entity, table, born, quiet>>

(* count, and list --count.  A failed COUNT is an error, except of contexts:
   its counter returns -1 and no error, and -1 is printed.                   *)
CountAsk == /\ client.at = "idle"
            /\ \E a \in Args : Given(a) /\ client' = [at |-> "counted", args |-> a,
                                                      n |-> Cardinality(Counted(a))]
            /\ born' = Len(table) /\ quiet' = TRUE
            /\ UNCHANGED <<entity, table>>
CountFails == /\ client.at = "idle"
              /\ \E a \in Args : Given(a) /\ client' =
                    IF entity = "context" THEN [at |-> "counted", args |-> a, n |-> -1]
                                          ELSE [at |-> "idle"]
              /\ UNCHANGED <<entity, table, born, quiet>>

Again == /\ client.at \in {"done", "failed", "counted"}
         /\ client' = [at |-> "idle"]
         /\ born' = 0 /\ quiet' = TRUE
         /\ UNCHANGED <<entity, table>>

-----------------------------------------------------------------------------
(* The lists of acta_gui                                                     *)

ModelPanel(trash)   == ModelRows(Query(Absent, trash))
SkillPanel(trash)   == SkillRows(Query(Absent, trash))
ContextPanel(trash) == ContextRows(Query(Absent, trash))
ExecPanel(trash)    == ExecRows(Query(Absent, trash))
PanelRows(trash) == CASE entity = "model" -> ModelPanel(trash)
                      [] entity = "skill" -> SkillPanel(trash)
                      [] entity = "context" -> ContextPanel(trash)
                      [] entity = "exec" -> ExecPanel(trash)

(* limit 0: the first PageCap rows.  The selected row stays selected if it is
   still there.                                                              *)
FirstPage(S) == {i \in S : Cardinality({j \in S : j <= i}) <= PageCap}
Kept(c, S) == IF c.sel \in S THEN c.sel ELSE 0
Shows(c, trash, S) == [c EXCEPT !.at = "panel", !.shown = S, !.trash = trash, !.sel = Kept(c, S)]

Reload == /\ client.at \in {"panel", "reload"}
          /\ \E t \in BOOLEAN : /\ client.at = "reload" => t = client.trash
                               /\ client' = Shows(client, t, FirstPage(PanelRows(t)))
          /\ UNCHANGED <<entity, table, born, quiet>>

Select == /\ client.at = "panel"
          /\ \E i \in client.shown : client' = [client EXCEPT !.sel = i]
          /\ UNCHANGED <<entity, table, born, quiet>>

(* Delete asks first, and another process may write before the answer; a row
   that is not live any more, or not deleted any more, is refused.           *)
Click == /\ client.at = "panel" /\ client.sel # 0
         /\ client' = [client EXCEPT !.at = "asking"]
         /\ UNCHANGED <<entity, table, born, quiet>>

Answer == /\ client.at = "asking"
          /\ \/ UNCHANGED table /\ client' = [client EXCEPT !.at = "panel"]
             \/ /\ Live(client.sel)
                /\ table' = [table EXCEPT ![client.sel].dead = TRUE]
                /\ client' = [client EXCEPT !.at = "reload"]
          /\ UNCHANGED <<entity, born, quiet>>

RestoreClick == /\ client.at = "panel" /\ client.sel # 0
                /\ ~Live(client.sel)
                /\ table' = [table EXCEPT ![client.sel].dead = FALSE]
                /\ client' = [client EXCEPT !.at = "reload"]
                /\ UNCHANGED <<entity, born, quiet>>

Next == \/ Insert \/ \E i \in Ids : Trash(i) \/ \E g \in Group \cup {Zero} : Regroup(i, g)
        \/ Ask \/ Page \/ StepFails \/ CountAsk \/ CountFails \/ Again
        \/ Reload \/ Select \/ Click \/ Answer \/ RestoreClick

Spec == Init /\ [][Next]_listVars

-----------------------------------------------------------------------------
(* Properties *)

(* The rows a command means keep their places whatever is written: rows are
   only added, after them.                                                   *)
Everything(a) == a.group = Absent \/ a.all \/ (entity = "exec" /\ a.group = Zero)
Fixed(a) == \/ entity \in Revisions \cup {"log"}
            \/ a.trash /\ (entity = "context" \/ Everything(a))

(* What a finished command owes: the rows there were, from --offset on, as
   many as --limit says; without a limit a stream owes them all.             *)
Owed(c) == LET was == InOrder({i \in Listed(c.args) : i <= born})
               rest == SubSeq(was, c.args.offset + 1, Len(was))
               most == IF c.args.limit > 0 THEN c.args.limit
                       ELSE IF c.once THEN Clamp(0) ELSE Len(rest)
           IN  SubSeq(rest, 1, IF most < Len(rest) THEN most ELSE Len(rest))
Ascending(s) == \A m, n \in DOMAIN s : m < n => s[m] < s[n]

(* An export is complete: a list or a stream that ends with exit code 0 has
   emitted each row it owes once, in order, without one left out between two
   pages, if nobody wrote meanwhile or if its rows keep their places.  A page
   that was cut short by a failing step is made up for by the next, unless it
   was the last.                                                             *)
ExportIsComplete ==
    /\ client.at = "done" /\ ~client.cut
    /\ quiet \/ Fixed(client.args)
    /\ client.args.limit <= PageCap
    => /\ IsPrefix(Owed(client), client.out)
       /\ Ascending(client.out)
       /\ client.args.limit > 0 => Len(client.out) <= client.args.limit

(* A count is the number of rows that the list of the same arguments has: the
   two are separate statements, read by separate handlers.                   *)
CountIsList == client.at = "counted" /\ quiet
               => client.n \in {-1, Cardinality(Listed(client.args))}

(* A row that was listed can be got by its id with the same flag; what the
   model revisions keep of a deleted model can be listed and not be got.     *)
ListedIsGettable ==
    client.at = "done" /\ quiet
    => \A n \in DOMAIN client.out : LET i == client.out[n] IN
           Gets(i, client.args.trash) \/ (entity = "model_revision" /\ ~Live(i))

(* A panel that is read again never selects another row than the one it had
   selected, and none that it does not show: what the buttons and the question
   are about stays what it was.                                              *)
SelectionFollowsItsRow ==
    [][client.at \in {"panel", "asking", "reload"} /\ client'.shown # client.shown
       => client'.sel \in {client.sel, 0} /\ client'.sel \in client'.shown \cup {0}]_listVars

-----------------------------------------------------------------------------
(* What the documents say and the code does not do                           *)

(* cli_spec.md:98 "--limit caps the total emitted": a stream emits as many
   rows as it is asked for, if there are as many.                            *)
StreamLimitIsMet ==
    client.at = "done" /\ ~client.cut /\ quiet /\ ~client.once
    => client.out = Owed(client)

(* cli_spec.md:96 "until the filter is exhausted": a list that ends well is
   whole.                                                                    *)
ListsAreWhole == client.at = "done" => ~client.cut

(* What is printed as a count is a count.                                    *)
CountIsACount == client.at = "counted" => client.n >= 0
=============================================================================

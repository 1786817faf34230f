---------------------------- MODULE CatalogProofs ----------------------------
(***************************************************************************)
(* Proofs about Catalog, for every set of items, contexts and clients, any *)
(* columns and values and every bound: what the triggers make of the       *)
(* history, what the unique indexes keep, and that what executions refer   *)
(* to stays.                                                               *)
(*                                                                         *)
(* Every step is reduced first to one of five moves of the tables          *)
(* (RowsMove) and to what it leaves the clients with (CallMove).  The      *)
(* inductive invariant CatInv then has a part for each theorem.            *)
(***************************************************************************)
EXTENDS Catalog, FiniteSetTheorems, TLAPS

(* What a step makes of models and model_revisions: nothing, an INSERT, an
   UPDATE of a live row, a soft delete, a restore.                           *)
RowsMove ==
    \/ UNCHANGED <<item, revs>>
    \/ \E i \in Item, k \in Content :
          /\ ~Exists(i) /\ ~Taken(i, k)
          /\ item' = [item EXCEPT ![i] = [life |-> "live", content |-> k]]
          /\ CreateRevision(i, k)
    \/ \E i \in Item, k \in Content :
          /\ Live(i) /\ ~Taken(i, k)
          /\ item' = [item EXCEPT ![i].content = k]
          /\ UpdateRevision(i, k)
    \/ \E i \in Item : /\ Live(i)
                       /\ item' = [item EXCEPT ![i].life = "deleted"]
                       /\ DeleteRevision(i)
    \/ \E i \in Item : /\ Deleted(i) /\ ~Taken(i, item[i].content)
                       /\ item' = [item EXCEPT ![i].life = "live"]
                       /\ UNCHANGED revs

(* What it leaves a client with: what a dialog offers could be fetched, and a
   context an execution is about to be created in was there.                 *)
CallMove ==
    \/ UNCHANGED call
    \/ \E c \in Client, r \in Calls :
          /\ call' = [call EXCEPT ![c] = r]
          /\ r.at = "pick" => Fetchable(r)
          /\ r.at = "create" => ctx[r.ctx] # "none"

CtxMove == /\ ctx' \in [Ctx -> Life]
           /\ \A x \in Ctx : ctx[x] # "none" => ctx'[x] # "none"

ExecMove ==
    \/ UNCHANGED execs
    \/ \E c \in Client : LET q == call[c] IN
          /\ At(c, "create")
          /\ RevOf(q.item, q.rev) # {}
          /\ execs' = execs \cup {[ctx |-> q.ctx, item |-> q.item, rev |-> q.rev]}

(* The inductive invariant: numbers without gaps and no more of them than
   rows, so that the next one is within the bound; a history for each row that
   is there and for none that is not; no two rows with one key; and what the
   calls that are under way rely on.                                         *)
Numbered ==
    /\ IsFiniteSet(revs)
    /\ \A i \in Item : /\ \E n \in Nat : Numbers(RevsOf(i)) = 1..n
                       /\ \A q, r \in RevsOf(i) : q.rev = r.rev => q = r
                       /\ ~Exists(i) => RevsOf(i) = {}

KeysDiffer == \A i, j \in Item : i # j /\ Exists(i) /\ Exists(j)
                                  => ~SameKey(item[i].content, item[j].content)

CreateHasContext == \A c \in Client : At(c, "create") => ctx[call[c].ctx] # "none"

CatInv == TypeOK /\ Numbered /\ HistoryTellsRow /\ KeysDiffer /\ PickedCanRun /\ CreateHasContext

Moves == RowsMove /\ CallMove /\ CtxMove /\ ExecMove /\ kind' = kind /\ said' \in Outcome

-----------------------------------------------------------------------------
(* Types of parts                                                            *)

(* A row that is there has a content.                                        *)
LEMMA RowHasContent ==
    ASSUME TypeOK, NEW i \in Item, Exists(i)
    PROVE  /\ item[i] \in [life : {"live", "deleted"}, content : Content]
           /\ item[i].content \in Content
<1>1. item[i] \in [life : {"live", "deleted"}, content : Content]
  BY DEF TypeOK, Exists, ItemRow, NoItem
<1> QED
  BY <1>1

(* A live row and a deleted one are there.                                   *)
LEMMA LiveExists == ASSUME NEW i \in Item PROVE (Live(i) => Exists(i)) /\ (Deleted(i) => Exists(i))
BY DEF Live, Deleted, Exists

(* What is merged is a content again.                                        *)
LEMMA OverContent ==
    ASSUME NEW F \in SUBSET Field, NEW give \in Given(F), NEW k \in Content
    PROVE  Over(give, k) \in Content
<1>1. PICK G \in SUBSET F \ {{}} : give \in [G -> Value]
  BY DEF Given
<1>2. \A f \in Field : (IF f \in DOMAIN give THEN give[f] ELSE k[f]) \in Value
  BY <1>1 DEF Content
<1> QED
  BY <1>2 DEF Over, Content

(* So is what the edit dialog puts over a row.                               *)
LEMMA FormContent ==
    ASSUME NEW give \in [Form -> Value], NEW k \in Content
    PROVE  Over(give, k) \in Content
BY FieldAssumption DEF Over, Content

(* And a row with another folder.                                            *)
LEMMA MovedContent ==
    ASSUME TypeOK, NEW i \in Item, NEW v \in Value, Live(i)
    PROVE  Moved(i, v) \in Content
BY RowHasContent, LiveExists, FieldAssumption DEF Moved, Content

(* Which fields a call has.                                                  *)
LEMMA CallFields ==
    ASSUME TypeOK, NEW c \in Client
    PROVE  /\ call[c] \in Calls
           /\ call[c].at \in {"open", "patch", "write"} => call[c].item \in Item
           /\ call[c].at \in {"patch", "write"} => call[c].row \in Content
           /\ call[c].at \in {"pick", "create"} =>
                 call[c].ctx \in Ctx /\ call[c].item \in Item /\ call[c].rev \in Rev
<1>1. call[c] \in Calls
  BY DEF TypeOK
<1> QED
  BY <1>1 DEF Calls, Idle

-----------------------------------------------------------------------------
(* Every step is such a move.                                                *)

(* Each statement on models is one of the five moves, or none.               *)
LEMMA InsertMoves == ASSUME NEW i \in Item, NEW k \in Content, ~Exists(i), Insert(i, k)
                     PROVE  RowsMove
BY DEF Insert, RowsMove

(* UPDATE of a live row.                                                     *)
LEMMA OverwriteMoves == ASSUME NEW i \in Item, NEW k \in Content, Overwrite(i, k)
                        PROVE  RowsMove
BY DEF Overwrite, RowsMove

(* The soft delete.                                                          *)
LEMMA DeleteMoves == ASSUME NEW i \in Item, SoftDelete(i) PROVE RowsMove
BY DEF SoftDelete, RowsMove

(* The restore.                                                              *)
LEMMA UndeleteMoves == ASSUME NEW i \in Item, Undelete(i) PROVE RowsMove
BY DEF Undelete, RowsMove

(* A call that ends leaves nothing that could go wrong later.                *)
LEMMA EndsMoves == ASSUME NEW c \in Client, NEW rc \in Outcome, Ends(c, rc)
                   PROVE  CallMove /\ said' \in Outcome
<1>1. Idle \in Calls /\ Idle.at = "idle"
  BY DEF Calls, Idle
<1> QED
  BY <1>1 DEF Ends, CallMove

(* A call that goes on without an offer or an execution neither.             *)
LEMMA GoesMoves ==
    ASSUME NEW c \in Client, NEW r \in Calls, r.at \notin {"pick", "create"}, Goes(c, r)
    PROVE  CallMove /\ said' \in Outcome
BY DEF Goes, CallMove, Outcome

(* Statements on models leave contexts and executions alone.                 *)
LEMMA RestStays == ASSUME TypeOK, Rest PROVE CtxMove /\ ExecMove /\ kind' = kind
BY DEF TypeOK, Rest, CtxMove, ExecMove

(* create, delete, restore and move of models and skills are moves.          *)
LEMMA RowStatementMoves ==
    ASSUME TypeOK, NEW c \in Client, NEW i \in Item,
           ModelCreate(c, i) \/ SkillCreate(c, i) \/ ModelDelete(c, i) \/ SkillDelete(c, i)
              \/ ModelRestore(c, i) \/ SkillRestore(c, i) \/ ModelMove(c, i) \/ SkillMove(c, i)
    PROVE  Moves
<1>1. CASE ModelCreate(c, i) \/ SkillCreate(c, i)
  BY <1>1, InsertMoves, EndsMoves, RestStays
     DEF ModelCreate, SkillCreate, ModelInsert, SkillInsert, Moves, Outcome
<1>2. CASE ModelDelete(c, i) \/ SkillDelete(c, i)
  <2>1. Changes(i) \in Outcome
    BY DEF Changes, Outcome
  <2> QED
    BY <1>2, <2>1, DeleteMoves, EndsMoves, RestStays
       DEF ModelDelete, SkillDelete, ModelSoftDelete, SkillSoftDelete, Moves
<1>3. CASE ModelRestore(c, i) \/ SkillRestore(c, i)
  <2>1. Restored(i) \in Outcome
    BY DEF Restored, Outcome
  <2> QED
    BY <1>3, <2>1, UndeleteMoves, EndsMoves, RestStays
       DEF ModelRestore, SkillRestore, ModelRestoreRow, SkillRestoreRow, Moves
<1>4. CASE ModelMove(c, i) \/ SkillMove(c, i)
  <2>1. PICK v \in Value : MoveRow(c, i, v) /\ Rest
    BY <1>4 DEF ModelMove, SkillMove, ModelMoveRow, SkillMoveRow
  <2>2. CASE ~Live(i)
    BY <2>1, <2>2, EndsMoves, RestStays DEF MoveRow, Moves, RowsMove, Outcome
  <2>3. CASE Live(i)
    <3>1. Moved(i, v) \in Content
      BY <2>3, MovedContent
    <3>2. Overwrite(i, Moved(i, v)) /\ Ends(c, IF Hits(i, Moved(i, v)) THEN "sql" ELSE Changes(i))
      BY <2>1, <2>3 DEF MoveRow
    <3>3. (IF Hits(i, Moved(i, v)) THEN "sql" ELSE Changes(i)) \in Outcome
      BY DEF Changes, Outcome
    <3> QED
      BY <2>1, <3>1, <3>2, <3>3, OverwriteMoves, EndsMoves, RestStays DEF Moves
  <2> QED
    BY <2>2, <2>3
<1> QED
  BY <1>1, <1>2, <1>3, <1>4

(* So is the statement that writes a whole row back.                         *)
LEMMA UpdateRowMoves == ASSUME TypeOK, NEW c \in Client, UpdateRow(c) PROVE Moves
<1>1. call[c].item \in Item /\ call[c].row \in Content
  BY CallFields DEF UpdateRow, At
<1>2. PICK rc \in Outcome : Overwrite(call[c].item, call[c].row) /\ Ends(c, rc) /\ Rest
  BY DEF UpdateRow, ModelUpdateRow, SkillUpdateRow, Changes, Outcome
<1> QED
  BY <1>1, <1>2, OverwriteMoves, EndsMoves, RestStays DEF Moves

(* A client that has put its fields over the row has a content to write.     *)
LEMMA MergeMoves ==
    ASSUME NEW c \in Client, NEW i \in Item, NEW give, NEW k, Over(give, k) \in Content,
           Merge(c, i, give, k)
    PROVE  CallMove /\ said' \in Outcome
<1> DEFINE r == [at |-> "write", item |-> i, row |-> Over(give, k)]
<1>1. r \in Calls /\ r.at = "write"
  BY DEF Calls
<1>2. Goes(c, r)
  BY DEF Merge
<1> QED
  BY <1>1, <1>2, GoesMoves

(* update, up to that point, changes no table.                               *)
LEMMA UpdateMoves ==
    ASSUME TypeOK, NEW c \in Client, NEW i \in Item, ModelUpdate(c, i) \/ SkillUpdate(c, i)
    PROVE  Moves
<1>1. RowsMove /\ CtxMove /\ ExecMove /\ kind' = kind
  BY RestStays DEF ModelUpdate, SkillUpdate, Rows, RowsMove
<1>2. CallMove /\ said' \in Outcome
  <2>1. CASE ~Live(i)
    BY <2>1, EndsMoves DEF ModelUpdate, SkillUpdate, Outcome
  <2>2. CASE Live(i) /\ ModelUpdate(c, i)
    <3>1. PICK give \in Given(Field) : Merge(c, i, give, item[i].content)
      BY <2>2 DEF ModelUpdate
    <3>2. Over(give, item[i].content) \in Content
      BY <2>2, OverContent, RowHasContent, LiveExists
    <3> QED
      BY <3>1, <3>2, MergeMoves
  <2>3. CASE Live(i) /\ SkillUpdate(c, i)
    <3> DEFINE r == [at |-> "patch", item |-> i, row |-> item[i].content]
    <3>1. r \in Calls /\ r.at = "patch"
      BY <2>3, RowHasContent, LiveExists DEF Calls
    <3>2. Goes(c, r)
      BY <2>3 DEF SkillUpdate
    <3> QED
      BY <3>1, <3>2, GoesMoves
  <2> QED
    BY <2>1, <2>2, <2>3
<1> QED
  BY <1>1, <1>2 DEF Moves

(* Nor does skill update when its input arrives.                             *)
LEMMA PatchMoves == ASSUME TypeOK, NEW c \in Client, SkillPatch(c) PROVE Moves
<1>1. RowsMove /\ CtxMove /\ ExecMove /\ kind' = kind
  BY RestStays DEF SkillPatch, Rows, RowsMove
<1>2. call[c].item \in Item /\ call[c].row \in Content
  BY CallFields DEF SkillPatch, At
<1>3. PICK give \in Given(Field) : Merge(c, call[c].item, give, call[c].row)
  BY DEF SkillPatch
<1>4. CallMove /\ said' \in Outcome
  BY <1>2, <1>3, OverContent, MergeMoves
<1> QED
  BY <1>1, <1>4 DEF Moves

(* Nor do the dialogs.                                                       *)
LEMMA DialogMoves ==
    ASSUME TypeOK, NEW c \in Client, NEW k,
           (\E i \in Item : DialogOpen(c, i, k)) \/ DialogSave(c, k)
    PROVE  Moves
<1>1. RowsMove /\ CtxMove /\ ExecMove /\ kind' = kind
  BY RestStays DEF DialogOpen, DialogSave, Rows, RowsMove
<1>2. CallMove /\ said' \in Outcome
  <2>1. CASE \E i \in Item : DialogOpen(c, i, k)
    <3>1. PICK i \in Item : DialogOpen(c, i, k)
      BY <2>1
    <3> DEFINE r == [at |-> "open", item |-> i]
    <3>2. r \in Calls /\ r.at = "open"
      BY DEF Calls
    <3>3. Goes(c, r)
      BY <3>1 DEF DialogOpen
    <3> QED
      BY <3>2, <3>3, GoesMoves
  <2>2. CASE DialogSave(c, k) /\ ~Live(call[c].item)
    BY <2>2 DEF DialogSave, CallMove, Outcome
  <2>3. CASE DialogSave(c, k) /\ Live(call[c].item)
    <3>1. call[c].item \in Item
      BY <2>3, CallFields DEF DialogSave, At
    <3>2. PICK give \in [Form -> Value] : Merge(c, call[c].item, give, item[call[c].item].content)
      BY <2>3 DEF DialogSave
    <3>3. Over(give, item[call[c].item].content) \in Content
      BY <2>3, <3>1, FormContent, RowHasContent, LiveExists
    <3> QED
      BY <3>1, <3>2, <3>3, MergeMoves
  <2> QED
    BY <2>1, <2>2, <2>3
<1> QED
  BY <1>1, <1>2 DEF Moves

(* A context is never back to not being there.                               *)
LEMMA ContextMoves ==
    ASSUME TypeOK, NEW c \in Client, NEW x \in Ctx,
           ContextCreate(c, x) \/ ContextDelete(c, x) \/ ContextRestore(c, x)
    PROVE  Moves
<1>1. RowsMove /\ ExecMove /\ kind' = kind
  BY DEF ContextCreate, ContextDelete, ContextRestore, Rows, RowsMove, ExecMove
<1>2. \E rc \in Outcome : Ends(c, rc)
  BY DEF ContextCreate, ContextDelete, ContextRestore, ContextInsert, ContextDeleteRow,
         ContextRestoreRow, ContextSet, Outcome
<1>3. CallMove /\ said' \in Outcome
  BY <1>2, EndsMoves
<1>4. CtxMove
  BY DEF ContextCreate, ContextDelete, ContextRestore, ContextInsert, ContextDeleteRow,
         ContextRestoreRow, ContextSet, CtxMove, TypeOK, Life
<1> QED
  BY <1>1, <1>3, <1>4 DEF Moves

(* The look at the context lets through one that is there.                   *)
LEMMA CheckMoves ==
    ASSUME TypeOK, NEW c \in Client, NEW x \in Ctx, NEW i \in Item, NEW n \in Rev,
           ExecCheck(c, x, i, n)
    PROVE  CallMove /\ said' \in Outcome
<1>1. ctx[x] \in Life
  BY DEF TypeOK
<1>2. CASE ctx[x] = "live"
  <2> DEFINE r == [at |-> "create", ctx |-> x, item |-> i, rev |-> n]
  <2>1. r \in Calls /\ r.at = "create" /\ r.ctx = x
    BY DEF Calls
  <2>2. Goes(c, r)
    BY <1>2 DEF ExecCheck
  <2> QED
    BY <1>2, <2>1, <2>2 DEF Goes, CallMove, Outcome
<1>3. CASE ctx[x] # "live"
  <2>1. Ends(c, "fk") \/ Ends(c, "not_found")
    BY <1>1, <1>3 DEF ExecCheck, Life
  <2> QED
    BY <2>1, EndsMoves DEF Outcome
<1> QED
  BY <1>2, <1>3

(* exec create, its look at the context.                                     *)
LEMMA CreateMoves ==
    ASSUME TypeOK, NEW c \in Client, NEW x \in Ctx, NEW i \in Item, NEW n \in Rev,
           ExecCreate(c, x, i, n)
    PROVE  Moves
BY CheckMoves, RestStays DEF ExecCreate, Rows, RowsMove, Moves

(* The same look when the dialog is saved.                                   *)
LEMMA PickSaveMoves == ASSUME TypeOK, NEW c \in Client, PickSave(c) PROVE Moves
<1>1. call[c].ctx \in Ctx /\ call[c].item \in Item /\ call[c].rev \in Rev
  BY CallFields DEF PickSave, At
<1> QED
  BY <1>1, CheckMoves, RestStays DEF PickSave, Rows, RowsMove, Moves

(* The INSERT finds the revision it refers to.                               *)
LEMMA ExecInsertMoves == ASSUME TypeOK, NEW c \in Client, ExecInsert(c) PROVE Moves
<1>1. RowsMove /\ CtxMove /\ kind' = kind
  BY DEF ExecInsert, Rows, RowsMove, CtxMove, TypeOK
<1>2. \E rc \in Outcome : Ends(c, rc)
  BY DEF ExecInsert, Outcome
<1>3. CallMove /\ said' \in Outcome
  BY <1>2, EndsMoves
<1>4. ExecMove
  BY DEF ExecInsert, ExecMove
<1> QED
  BY <1>1, <1>3, <1>4 DEF Moves

(* What the dialog for a new execution offers can be fetched.                *)
LEMMA NewExecutionMoves == ASSUME TypeOK, NEW c \in Client, NewExecution(c) PROVE Moves
<1>1. RowsMove /\ CtxMove /\ ExecMove /\ kind' = kind
  BY RestStays DEF NewExecution, Rows, RowsMove
<1>2. PICK x \in LoadContexts, r \in LoadTree :
         Goes(c, [at |-> "pick", ctx |-> x, item |-> r.item, rev |-> r.rev])
  BY DEF NewExecution
<1> DEFINE q == [at |-> "pick", ctx |-> x, item |-> r.item, rev |-> r.rev]
<1>3. x \in Ctx /\ ctx[x] = "live" /\ r \in revs /\ r.item \in Item /\ r.rev \in Rev /\ Listed(r)
  BY <1>2 DEF LoadContexts, LoadTree, TypeOK, Revision
<1>4. q \in Calls /\ q.at = "pick" /\ q.ctx = x /\ q.item = r.item /\ q.rev = r.rev
  BY <1>3 DEF Calls
<1>5. Fetchable(q)
  BY <1>3, <1>4 DEF Fetchable, RevOf, RevsOf, Listed
<1>6. CallMove /\ said' \in Outcome
  BY <1>2, <1>4, <1>5 DEF Goes, CallMove, Outcome
<1> QED
  BY <1>1, <1>6 DEF Moves

(* A call that is given up leaves nothing behind.                            *)
LEMMA GiveUpMoves == ASSUME TypeOK, NEW c \in Client, GiveUp(c) PROVE Moves
<1>1. RowsMove /\ CtxMove /\ ExecMove /\ kind' = kind
  BY RestStays DEF GiveUp, Rows, RowsMove
<1>2. Idle \in Calls /\ Idle.at = "idle"
  BY DEF Calls, Idle
<1>3. CallMove /\ said' \in Outcome
  BY <1>2, GoesMoves DEF GiveUp
<1> QED
  BY <1>1, <1>3 DEF Moves

(* All steps together.                                                       *)
LEMMA StepMoves == TypeOK /\ [Next]_catVars => Moves
<1> SUFFICES ASSUME TypeOK, [Next]_catVars PROVE Moves
  OBVIOUS
<1>1. CASE UNCHANGED catVars
  BY <1>1 DEF catVars, Moves, RowsMove, CallMove, CtxMove, ExecMove, TypeOK
<1>2. CASE Next
  <2>1. PICK c \in Client :
          \/ \E i \in Item : \/ ModelCreate(c, i) \/ ModelUpdate(c, i) \/ ModelDelete(c, i)
                             \/ ModelRestore(c, i) \/ ModelMove(c, i) \/ ModelDialogOpen(c, i)
                             \/ SkillCreate(c, i) \/ SkillUpdate(c, i) \/ SkillDelete(c, i)
                             \/ SkillRestore(c, i) \/ SkillMove(c, i) \/ SkillDialogOpen(c, i)
          \/ SkillPatch(c) \/ UpdateRow(c) \/ ModelDialogSave(c) \/ SkillDialogSave(c)
          \/ \E x \in Ctx : \/ ContextCreate(c, x) \/ ContextDelete(c, x) \/ ContextRestore(c, x)
                            \/ \E i \in Item, n \in Rev : ExecCreate(c, x, i, n)
          \/ ExecInsert(c) \/ NewExecution(c) \/ PickSave(c) \/ GiveUp(c)
    BY <1>2 DEF Next
  <2>2. CASE \E i \in Item : ModelDialogOpen(c, i) \/ SkillDialogOpen(c, i)
    BY <2>2, DialogMoves DEF ModelDialogOpen, SkillDialogOpen
  <2>3. CASE ModelDialogSave(c) \/ SkillDialogSave(c)
    BY <2>3, DialogMoves DEF ModelDialogSave, SkillDialogSave
  <2> QED
    BY <2>1, <2>2, <2>3, RowStatementMoves, UpdateRowMoves, UpdateMoves, PatchMoves, ContextMoves,
       CreateMoves, ExecInsertMoves, NewExecutionMoves, PickSaveMoves, GiveUpMoves
<1> QED
  BY <1>1, <1>2

-----------------------------------------------------------------------------
(* Numbers of revisions                                                      *)

(* The highest number of those up to n.                                      *)
LEMMA MaxOfInterval == ASSUME NEW n \in Nat PROVE Max0(1..n) = n
<1>1. IsMax(n, (1..n) \cup {0})
  BY DEF IsMax
<1>2. \A m \in (1..n) \cup {0} : IsMax(m, (1..n) \cup {0}) => m = n
  <2> SUFFICES ASSUME NEW m \in (1..n) \cup {0}, IsMax(m, (1..n) \cup {0}) PROVE m = n
    OBVIOUS
  <2>1. n <= m /\ m <= n /\ m \in Nat
    BY DEF IsMax
  <2> QED
    BY <2>1
<1>3. n \in (1..n) \cup {0}
  OBVIOUS
<1> QED
  BY <1>1, <1>2, <1>3 DEF Max0

(* The next number is the next one.                                          *)
LEMMA NextNumber ==
    ASSUME NEW i \in Item, NEW n \in Nat, Numbers(RevsOf(i)) = 1..n
    PROVE  NextRev(i) = n + 1
BY MaxOfInterval DEF NextRev

(* There are at least as many rows as numbers.                               *)
LEMMA NumbersAreFew ==
    ASSUME IsFiniteSet(revs), NEW i \in Item, NEW n \in Nat, Numbers(RevsOf(i)) = 1..n
    PROVE  n <= Cardinality(revs) /\ Cardinality(revs) \in Nat
<1> DEFINE f == [r \in RevsOf(i) |-> r.rev]
<1>1. f \in Surjection(RevsOf(i), 1..n)
  BY DEF Surjection, Numbers
<1>2. IsFiniteSet(RevsOf(i)) /\ Cardinality(RevsOf(i)) <= Cardinality(revs)
  BY FS_Subset DEF RevsOf
<1>3. Cardinality(1..n) <= Cardinality(RevsOf(i))
  BY <1>1, <1>2, FS_Surjection
<1>4. Cardinality(1..n) = n
  BY FS_Interval
<1>5. Cardinality(RevsOf(i)) \in Nat /\ Cardinality(revs) \in Nat
  BY <1>2, FS_CardinalityType
<1> QED
  BY <1>2, <1>3, <1>4, <1>5

(* A row of the history more.                                                *)
LEMMA RevisionAdded ==
    ASSUME TypeOK, Numbered, Room, NEW i \in Item, NEW n \in Nat, Numbers(RevsOf(i)) = 1..n,
           NEW k \in Content, NEW gone \in BOOLEAN, AddRevision(i, n + 1, k, gone),
           NEW new, new = [item |-> i, rev |-> n + 1, content |-> k, gone |-> gone]
    PROVE  /\ revs' \subseteq Revision /\ IsFiniteSet(revs')
           /\ new \in RevsOf(i)' /\ \A q \in RevsOf(i)' : q = new \/ (q \in RevsOf(i) /\ q.rev <= n)
           /\ \A r \in RevsOf(i) : r \in RevsOf(i)' /\ r.rev <= n
           /\ Numbers(RevsOf(i))' = 1..(n + 1)
           /\ \A q, r \in RevsOf(i)' : q.rev = r.rev => q = r
           /\ \A j \in Item \ {i} : RevsOf(j)' = RevsOf(j)
<1>0. revs' = revs \cup {new}
  BY DEF AddRevision
<1>1. n + 1 \in Rev
  BY NumbersAreFew, CatalogBoundAssumption DEF Numbered, Room, Rev
<1>2. new \in Revision
  BY <1>1 DEF Revision
<1>3. revs' \subseteq Revision /\ IsFiniteSet(revs')
  BY <1>0, <1>2, FS_AddElement DEF TypeOK, Numbered
<1>4. RevsOf(i)' = RevsOf(i) \cup {new} /\ \A j \in Item \ {i} : RevsOf(j)' = RevsOf(j)
  BY <1>0 DEF RevsOf
<1>5. \A r \in RevsOf(i) : r.rev \in 1..n
  BY DEF Numbers
<1>6. Numbers(RevsOf(i))' = Numbers(RevsOf(i)) \cup {n + 1}
  <2>1. new.rev = n + 1
    OBVIOUS
  <2>2. {r.rev : r \in RevsOf(i) \cup {new}} = {r.rev : r \in RevsOf(i)} \cup {n + 1}
    BY <2>1
  <2> QED
    BY <1>4, <2>2 DEF Numbers
<1>7. (1..n) \cup {n + 1} = 1..(n + 1)
  OBVIOUS
<1>8. \A q, r \in RevsOf(i)' : q.rev = r.rev => q = r
  BY <1>4, <1>5 DEF Numbered
<1>9. new \in RevsOf(i)' /\ \A q \in RevsOf(i)' : q = new \/ q \in RevsOf(i)
  BY <1>4
<1>10. \A r \in RevsOf(i) : r \in RevsOf(i)' /\ r.rev <= n
  BY <1>4, <1>5
<1>11. Numbers(RevsOf(i))' = 1..(n + 1)
  BY <1>6, <1>7
<1>12. \A q \in RevsOf(i)' : q = new \/ (q \in RevsOf(i) /\ q.rev <= n)
  BY <1>9, <1>10
<1>13. \A j \in Item \ {i} : RevsOf(j)' = RevsOf(j)
  BY <1>4
<1> QED
  BY <1>3, <1>8, <1>9, <1>10, <1>11, <1>12, <1>13

-----------------------------------------------------------------------------
(* What a move leaves of a row and of its history                            *)

(* Numbered and HistoryTellsRow, of one row.                                 *)
RowOK(i) ==
    /\ \E n \in Nat : Numbers(RevsOf(i)) = 1..n
    /\ \A q, r \in RevsOf(i) : q.rev = r.rev => q = r
    /\ ~Exists(i) => RevsOf(i) = {}
    /\ Exists(i) => \E r \in RevsOf(i) : /\ ~r.gone /\ r.content = item[i].content
                                         /\ \A q \in RevsOf(i) : q.rev > r.rev => q.gone
    /\ Deleted(i) => \E r \in RevsOf(i) : r.gone /\ IsMax(r.rev, Numbers(RevsOf(i)))

(* The rows one by one.                                                      *)
LEMMA RowByRow == (Numbered /\ HistoryTellsRow) <=> (IsFiniteSet(revs) /\ \A i \in Item : RowOK(i))
BY DEF Numbered, HistoryTellsRow, RowOK

(* A row whose history stays and whose content stays, or that is restored.   *)
LEMMA RowKept ==
    ASSUME NEW i \in Item, RowOK(i), RevsOf(i)' = RevsOf(i),
           Exists(i)' = Exists(i), Exists(i) => item'[i].content = item[i].content,
           Deleted(i)' => Deleted(i)
    PROVE  RowOK(i)'
BY DEF RowOK

(* A row with a revision more: what it says now, or its tombstone.           *)
LEMMA RowWritten ==
    ASSUME TypeOK, Numbered, Room, NEW i \in Item, RowOK(i), NEW n \in Nat, Numbers(RevsOf(i)) = 1..n,
           NEW k \in Content, NEW gone \in BOOLEAN, AddRevision(i, n + 1, k, gone),
           item'[i] = [life |-> IF gone THEN "deleted" ELSE "live", content |-> k],
           gone => Live(i) /\ k = item[i].content
    PROVE  RowOK(i)'
<1>0. PICK new : new = [item |-> i, rev |-> n + 1, content |-> k, gone |-> gone]
  OBVIOUS
<1>1. /\ new \in RevsOf(i)'
      /\ \A q \in RevsOf(i)' : q = new \/ (q \in RevsOf(i) /\ q.rev <= n)
      /\ \A r \in RevsOf(i) : r \in RevsOf(i)' /\ r.rev <= n
      /\ Numbers(RevsOf(i))' = 1..(n + 1)
      /\ \A q, r \in RevsOf(i)' : q.rev = r.rev => q = r
  BY <1>0, RevisionAdded
<1>2. new.rev = n + 1 /\ new.gone = gone /\ new.content = k
  BY <1>0
<1>3. Exists(i)' /\ item'[i].content = k /\ (Deleted(i)' <=> gone)
  BY DEF Exists, Deleted
<1>4. \A r \in RevsOf(i) : r.rev \in Nat
  BY DEF Numbers
<1>5. \E r \in RevsOf(i)' : /\ ~r.gone /\ r.content = k
                            /\ \A q \in RevsOf(i)' : q.rev > r.rev => q.gone
  <2>1. CASE gone
    <3>1. PICK r \in RevsOf(i) : /\ ~r.gone /\ r.content = k
                                 /\ \A q \in RevsOf(i) : q.rev > r.rev => q.gone
      BY <2>1, LiveExists DEF RowOK
    <3>2. \A q \in RevsOf(i)' : q.rev > r.rev => q.gone
      BY <1>1, <1>2, <2>1, <3>1
    <3> QED
      BY <1>1, <3>1, <3>2
  <2>2. CASE ~gone
    <3>1. \A q \in RevsOf(i)' : ~(q.rev > new.rev)
      BY <1>1, <1>2, <1>4
    <3> QED
      BY <1>1, <1>2, <2>2, <3>1
  <2> QED
    BY <2>1, <2>2
<1>6. IsMax(new.rev, Numbers(RevsOf(i)))'
  <2>1. IsMax(n + 1, 1..(n + 1))
    BY DEF IsMax
  <2> QED
    BY <1>1, <1>2, <2>1 DEF IsMax
<1>7. gone => \E r \in RevsOf(i)' : r.gone /\ IsMax(r.rev, Numbers(RevsOf(i)))'
  BY <1>1, <1>2, <1>6
<1> QED
  BY <1>1, <1>3, <1>5, <1>7 DEF RowOK

(* A row that takes a key nobody else has leaves the keys different.         *)
LEMMA KeysKept ==
    ASSUME KeysDiffer, NEW i \in Item, NEW k, ~Taken(i, k), item'[i].content = k,
           \A j \in Item \ {i} : item'[j] = item[j]
    PROVE  KeysDiffer'
<1> SUFFICES ASSUME NEW a \in Item, NEW b \in Item, a # b, Exists(a)', Exists(b)',
                    SameKey(item'[a].content, item'[b].content)
             PROVE  FALSE
  BY DEF KeysDiffer, SameKey
<1>1. CASE a = i
  BY <1>1 DEF Taken, Exists, SameKey
<1>2. CASE b = i
  BY <1>2 DEF Taken, Exists, SameKey
<1>3. CASE a # i /\ b # i
  BY <1>3 DEF KeysDiffer, Exists
<1> QED
  BY <1>1, <1>2, <1>3

(* A row that is there has a key of its own.                                 *)
LEMMA OwnKey == ASSUME KeysDiffer, NEW i \in Item, Exists(i) PROVE ~Taken(i, item[i].content)
BY DEF KeysDiffer, Taken

-----------------------------------------------------------------------------
(* The five moves of the rows                                                *)

(* What every move keeps.                                                    *)
RowsKept ==
    /\ item' \in [Item -> ItemRow]
    /\ revs' \subseteq Revision /\ IsFiniteSet(revs') /\ revs \subseteq revs'
    /\ \A i \in Item : RowOK(i)'
    /\ KeysDiffer'

RowsInv == TypeOK /\ Numbered /\ HistoryTellsRow /\ KeysDiffer

(* The rows that a move does not touch.                                      *)
LEMMA OthersKept ==
    ASSUME RowsInv, NEW i \in Item, \A j \in Item \ {i} : item'[j] = item[j],
           \A j \in Item \ {i} : RevsOf(j)' = RevsOf(j), RowOK(i)'
    PROVE  \A j \in Item : RowOK(j)'
<1> SUFFICES ASSUME NEW j \in Item, j # i PROVE RowOK(j)'
  OBVIOUS
<1>1. RowOK(j)
  BY RowByRow DEF RowsInv
<1>2. item'[j] = item[j] /\ RevsOf(j)' = RevsOf(j)
  OBVIOUS
<1>3. Exists(j)' = Exists(j) /\ Deleted(j)' = Deleted(j)
  BY <1>2 DEF Exists, Deleted
<1> QED
  BY <1>1, <1>2, <1>3, RowKept

(* A revision that the triggers add, seen from all rows.                     *)
LEMMA WriteKeeps ==
    ASSUME RowsInv, Room, NEW i \in Item, NEW n \in Nat, Numbers(RevsOf(i)) = 1..n,
           NEW k \in Content, NEW gone \in BOOLEAN, AddRevision(i, n + 1, k, gone),
           NEW row, row = [life |-> IF gone THEN "deleted" ELSE "live", content |-> k],
           item' = [item EXCEPT ![i] = row],
           gone => Live(i) /\ k = item[i].content, ~Taken(i, k)
    PROVE  RowsKept
<1>1. row \in ItemRow
  BY DEF ItemRow
<1>2. item' \in [Item -> ItemRow] /\ item'[i] = row /\ \A j \in Item \ {i} : item'[j] = item[j]
  BY <1>1 DEF RowsInv, TypeOK
<1>3. PICK new : new = [item |-> i, rev |-> n + 1, content |-> k, gone |-> gone]
  OBVIOUS
<1>4. /\ revs' \subseteq Revision /\ IsFiniteSet(revs')
      /\ \A j \in Item \ {i} : RevsOf(j)' = RevsOf(j)
  BY <1>3, RevisionAdded DEF RowsInv
<1>5. revs \subseteq revs'
  BY DEF AddRevision
<1>6. RowOK(i)
  BY RowByRow DEF RowsInv
<1>7. RowOK(i)'
  BY <1>2, <1>6, RowWritten DEF RowsInv
<1>8. \A j \in Item : RowOK(j)'
  BY <1>2, <1>4, <1>7, OthersKept
<1>9. item'[i].content = k
  BY <1>2
<1>10. KeysDiffer'
  BY <1>2, <1>9, KeysKept DEF RowsInv
<1> QED
  BY <1>2, <1>4, <1>5, <1>8, <1>10 DEF RowsKept

(* A move that adds no revision.                                             *)
LEMMA NoRevisionKeeps ==
    ASSUME RowsInv, NEW i \in Item, Exists(i), ~Taken(i, item[i].content),
           NEW life \in {"live", "deleted"}, life = "deleted" => Deleted(i),
           item' = [item EXCEPT ![i] = [life |-> life, content |-> item[i].content]],
           revs' = revs
    PROVE  RowsKept
<1>1. item[i].content \in Content
  BY RowHasContent DEF RowsInv
<1>2. [life |-> life, content |-> item[i].content] \in ItemRow
  BY <1>1 DEF ItemRow
<1>3. /\ item' \in [Item -> ItemRow] /\ \A j \in Item \ {i} : item'[j] = item[j]
      /\ item'[i].life = life /\ item'[i].content = item[i].content
  BY <1>2 DEF RowsInv, TypeOK
<1>4. \A j \in Item : RevsOf(j)' = RevsOf(j)
  BY DEF RevsOf
<1>5. RowOK(i)
  BY RowByRow DEF RowsInv
<1>6. Exists(i)' = Exists(i) /\ (Deleted(i)' => Deleted(i))
  BY <1>3 DEF Exists, Deleted
<1>7. RowOK(i)'
  BY <1>3, <1>4, <1>5, <1>6, RowKept
<1>8. \A j \in Item : RowOK(j)'
  BY <1>3, <1>4, <1>7, OthersKept
<1>9. KeysDiffer'
  BY <1>3, KeysKept DEF RowsInv
<1>10. revs' \subseteq Revision /\ IsFiniteSet(revs')
  BY DEF RowsInv, TypeOK, Numbered
<1> QED
  BY <1>3, <1>8, <1>9, <1>10 DEF RowsKept

(* The row of a live item, written out.                                      *)
LEMMA RowIs ==
    ASSUME RowsInv, NEW i \in Item, Exists(i)
    PROVE  /\ item[i] = [life |-> item[i].life, content |-> item[i].content]
           /\ item[i].content \in Content
           /\ \A k : [item EXCEPT ![i].content = k]
                     = [item EXCEPT ![i] = [life |-> item[i].life, content |-> k]]
           /\ \A l : [item EXCEPT ![i].life = l]
                     = [item EXCEPT ![i] = [life |-> l, content |-> item[i].content]]
<1>1. item[i] \in [life : {"live", "deleted"}, content : Content]
  BY RowHasContent DEF RowsInv
<1>2. /\ \A k : [item[i] EXCEPT !.content = k] = [life |-> item[i].life, content |-> k]
      /\ \A l : [item[i] EXCEPT !.life = l] = [life |-> l, content |-> item[i].content]
  BY <1>1
<1> QED
  BY <1>1, <1>2

(* No insert, update, delete or restore breaks what the rows keep.           *)
LEMMA RowsMoveKeeps == ASSUME RowsInv, RowsMove PROVE RowsKept
<1>1. CASE UNCHANGED <<item, revs>>
  <2>1. \A i \in Item : RowOK(i)'
    BY <1>1, RowByRow DEF RowsInv, RowOK, RevsOf, Exists, Deleted
  <2> QED
    BY <1>1, <2>1 DEF RowsKept, RowsInv, TypeOK, Numbered, KeysDiffer, Exists
<1>2. ASSUME NEW i \in Item, NEW k \in Content, ~Exists(i), ~Taken(i, k), CreateRevision(i, k),
             item' = [item EXCEPT ![i] = [life |-> "live", content |-> k]]
      PROVE  RowsKept
  <2>1. Numbers(RevsOf(i)) = 1..0 /\ 0 + 1 = 1
    BY <1>2 DEF RowsInv, Numbered, Numbers
  <2>2. Room /\ AddRevision(i, 0 + 1, k, FALSE)
    BY <1>2, <2>1 DEF CreateRevision
  <2> QED
    BY <1>2, <2>1, <2>2, WriteKeeps
<1>3. ASSUME NEW i \in Item, NEW k \in Content, Live(i), ~Taken(i, k), UpdateRevision(i, k),
             item' = [item EXCEPT ![i].content = k]
      PROVE  RowsKept
  <2>1. Exists(i) /\ item[i].life = "live"
    BY <1>3, LiveExists DEF Live
  <2>0. item[i].content \in Content
    BY <2>1, RowIs
  <2>2. item' = [item EXCEPT ![i] = [life |-> "live", content |-> k]]
    <3>1. [item EXCEPT ![i].content = k] = [item EXCEPT ![i] = [life |-> item[i].life, content |-> k]]
      BY <2>1, RowIs
    <3> QED
      BY <1>3, <2>1, <3>1
  <2>3. CASE Tracked(item[i].content, k)
    <3>1. PICK n \in Nat : Numbers(RevsOf(i)) = 1..n
      BY DEF RowsInv, Numbered
    <3>2. Room /\ AddRevision(i, n + 1, k, FALSE)
      BY <1>3, <2>3, <3>1, NextNumber DEF UpdateRevision
    <3> QED
      BY <1>3, <2>2, <3>1, <3>2, WriteKeeps
  <2>4. CASE ~Tracked(item[i].content, k)
    <3>1. item[i].content = k
      <4>1. \A f \in Field : item[i].content[f] = k[f]
        BY <2>4 DEF Tracked
      <4>2. k \in [Field -> Value] /\ item[i].content \in [Field -> Value]
        BY <1>3, <2>0 DEF Content
      <4>3. k = [f \in Field |-> k[f]] /\ item[i].content = [f \in Field |-> item[i].content[f]]
        BY <4>2
      <4> QED
        BY <4>1, <4>3
    <3>2. revs' = revs
      BY <1>3, <2>4 DEF UpdateRevision
    <3> QED
      BY <1>3, <2>1, <2>2, <3>1, <3>2, NoRevisionKeeps
  <2> QED
    BY <2>3, <2>4
<1>4. ASSUME NEW i \in Item, Live(i), DeleteRevision(i), item' = [item EXCEPT ![i].life = "deleted"]
      PROVE  RowsKept
  <2>1. Exists(i) /\ ~Taken(i, item[i].content) /\ item[i].content \in Content
    BY <1>4, LiveExists, OwnKey, RowIs DEF RowsInv
  <2>2. item' = [item EXCEPT ![i] = [life |-> "deleted", content |-> item[i].content]]
    BY <1>4, <2>1, RowIs
  <2>3. PICK n \in Nat : Numbers(RevsOf(i)) = 1..n
    BY DEF RowsInv, Numbered
  <2>4. Room /\ AddRevision(i, n + 1, item[i].content, TRUE)
    BY <1>4, <2>3, NextNumber DEF DeleteRevision
  <2> QED
    BY <1>4, <2>1, <2>2, <2>3, <2>4, WriteKeeps
<1>5. ASSUME NEW i \in Item, Deleted(i), ~Taken(i, item[i].content), UNCHANGED revs,
             item' = [item EXCEPT ![i].life = "live"]
      PROVE  RowsKept
  <2>1. Exists(i)
    BY <1>5, LiveExists
  <2>2. item' = [item EXCEPT ![i] = [life |-> "live", content |-> item[i].content]]
    BY <1>5, <2>1, RowIs
  <2> QED
    BY <1>5, <2>1, <2>2, NoRevisionKeeps
<1> QED
  BY <1>1, <1>2, <1>3, <1>4, <1>5 DEF RowsMove

-----------------------------------------------------------------------------
(* What the calls under way rely on                                          *)

(* What could be fetched still can: no revision and no context goes.         *)
LEMMA FetchableStays ==
    ASSUME revs \subseteq revs', CtxMove, kind' = kind, NEW e, e.ctx \in Ctx
    PROVE  /\ Fetchable(e) => Fetchable(e)'
           /\ RevOf(e.item, e.rev) \subseteq RevOf(e.item, e.rev)'
<1>1. RevOf(e.item, e.rev) \subseteq RevOf(e.item, e.rev)'
  BY DEF RevOf, RevsOf
<1> QED
  BY <1>1 DEF Fetchable, CtxMove

(* A dialog's offer, and the context of an execution to be created, stay.    *)
LEMMA CallsKeep ==
    ASSUME TypeOK, PickedCanRun, CreateHasContext, CallMove, CtxMove,
           revs \subseteq revs', kind' = kind
    PROVE  call' \in [Client -> Calls] /\ PickedCanRun' /\ CreateHasContext'
<1>1. call' \in [Client -> Calls]
  BY DEF CallMove, TypeOK
<1>2. ASSUME NEW c \in Client
      PROVE  /\ (call[c].at = "pick" => Fetchable(call[c]))'
             /\ (call[c].at = "create" => ctx[call[c].ctx] # "none")'
  <2>1. PICK q : q = call'[c]
    OBVIOUS
  <2>2. q \in Calls
    BY <1>1, <2>1
  <2>3. q.at \in {"pick", "create"} => q.ctx \in Ctx
    BY <2>2 DEF Calls, Idle
  <2>4. (q.at = "pick" => Fetchable(q)) /\ (q.at = "create" => ctx[q.ctx] # "none")
    <3>1. q = call[c] \/ ((q.at = "pick" => Fetchable(q)) /\ (q.at = "create" => ctx[q.ctx] # "none"))
      BY <2>1 DEF CallMove, TypeOK
    <3> QED
      BY <3>1 DEF PickedCanRun, CreateHasContext, At
  <2>5. (q.at = "pick" => Fetchable(q)') /\ (q.at = "create" => ctx'[q.ctx] # "none")
    BY <2>3, <2>4, FetchableStays DEF CtxMove
  <2> QED
    BY <2>1, <2>5 DEF Fetchable
<1> QED
  BY <1>1, <1>2 DEF PickedCanRun, CreateHasContext, At

(* Executions are added, none is taken away.                                 *)
LEMMA ExecsKeep ==
    ASSUME TypeOK, ExecMove
    PROVE  execs \subseteq execs' /\ execs' \subseteq [ctx : Ctx, item : Item, rev : Rev]
BY CallFields DEF ExecMove, TypeOK, At

-----------------------------------------------------------------------------
(* The invariant                                                             *)

(* It holds of an empty database.                                            *)
LEMMA CatInit == Init => CatInv
<1> SUFFICES ASSUME Init PROVE CatInv
  OBVIOUS
<1>1. TypeOK
  BY DEF Init, TypeOK, ItemRow, NoItem, Life, Calls, Idle, Outcome
<1>2. \A i \in Item : ~Exists(i) /\ ~Deleted(i) /\ RevsOf(i) = {}
  BY DEF Init, Exists, Deleted, NoItem, RevsOf
<1>3. Numbered
  <2>1. IsFiniteSet(revs)
    BY FS_EmptySet DEF Init
  <2>2. \A i \in Item : Numbers(RevsOf(i)) = 1..0 /\ 0 \in Nat
    BY <1>2 DEF Numbers
  <2> QED
    BY <1>2, <2>1, <2>2 DEF Numbered
<1>4. \A c \in Client : ~At(c, "pick") /\ ~At(c, "create")
  BY DEF Init, At, Idle
<1> QED
  BY <1>1, <1>2, <1>3, <1>4 DEF CatInv, HistoryTellsRow, KeysDiffer, PickedCanRun, CreateHasContext

(* Every step keeps it, and takes no revision and no execution away.         *)
LEMMA CatStep ==
    ASSUME CatInv, [Next]_catVars
    PROVE  CatInv' /\ Moves /\ revs \subseteq revs' /\ execs \subseteq execs'
<1>1. Moves
  BY StepMoves DEF CatInv
<1>2. RowsKept
  BY <1>1, RowsMoveKeeps DEF Moves, RowsInv, CatInv
<1>3. call' \in [Client -> Calls] /\ PickedCanRun' /\ CreateHasContext'
  BY <1>1, <1>2, CallsKeep DEF Moves, RowsKept, CatInv
<1>4. execs \subseteq execs' /\ execs' \subseteq [ctx : Ctx, item : Item, rev : Rev]
  BY <1>1, ExecsKeep DEF Moves, CatInv
<1>5. TypeOK'
  BY <1>1, <1>2, <1>3, <1>4 DEF Moves, RowsKept, CtxMove, CatInv, TypeOK
<1>6. Numbered' /\ HistoryTellsRow'
  <2>1. IsFiniteSet(revs)' /\ \A i \in Item : RowOK(i)'
    BY <1>2 DEF RowsKept
  <2> QED
    BY <2>1 DEF Numbered, HistoryTellsRow, RowOK
<1>7. KeysDiffer'
  BY <1>2 DEF RowsKept
<1> QED
  BY <1>1, <1>2, <1>3, <1>4, <1>5, <1>6, <1>7 DEF CatInv, RowsKept

(* It always holds.                                                          *)
LEMMA CatInvariant == Spec => []CatInv
<1>1. CatInv /\ [Next]_catVars => CatInv'
  BY CatStep
<1> QED
  BY CatInit, <1>1, PTL DEF Spec

-----------------------------------------------------------------------------
(* Theorems                                                                  *)

(* Every variable keeps its type; the revisions never go past the bound.     *)
THEOREM CatalogTypes == Spec => []TypeOK
<1>1. CatInv => TypeOK
  BY DEF CatInv
<1> QED
  BY CatInvariant, <1>1, PTL

(* The history tells the row: whoever wrote it last, its newest revision that
   is no tombstone says what the row says, and of a deleted row the newest
   revision is a tombstone.                                                   *)
THEOREM HistoryAlwaysTellsRow == Spec => []HistoryTellsRow
<1>1. CatInv => HistoryTellsRow
  BY DEF CatInv
<1> QED
  BY CatInvariant, <1>1, PTL

(* Revisions are numbered without a gap and without a number given twice.    *)
THEOREM NumbersHaveNoGap == Spec => []RevisionsNumbered
<1>1. Numbered => RevisionsNumbered
  <2> SUFFICES ASSUME Numbered, NEW i \in Item, NEW r \in RevsOf(i)
               PROVE  1..r.rev \subseteq Numbers(RevsOf(i))
    BY DEF Numbered, RevisionsNumbered
  <2>1. PICK n \in Nat : Numbers(RevsOf(i)) = 1..n
    BY DEF Numbered
  <2>2. r.rev \in 1..n
    BY <2>1 DEF Numbers
  <2> QED
    BY <2>1, <2>2
<1>2. CatInv => RevisionsNumbered
  BY <1>1 DEF CatInv
<1> QED
  BY CatInvariant, <1>2, PTL

(* Nobody takes the key of a deleted item, so that it can be restored.       *)
THEOREM DeletedCanBeRestored == Spec => []RestoreIsPossible
<1>1. KeysDiffer => RestoreIsPossible
  BY LiveExists DEF KeysDiffer, RestoreIsPossible
<1>2. CatInv => RestoreIsPossible
  BY <1>1 DEF CatInv
<1> QED
  BY CatInvariant, <1>2, PTL

(* What the dialog for a new execution offers, a runner can fetch.           *)
THEOREM PicksAreFetchable == Spec => []PickedCanRun
<1>1. CatInv => PickedCanRun
  BY DEF CatInv
<1> QED
  BY CatInvariant, <1>1, PTL

(* What an execution refers to stays, with the content it had.               *)
THEOREM PinsAlwaysHold == Spec => PinsHold
<1>1. ASSUME CatInv, [Next]_catVars, NEW e \in execs
      PROVE  /\ e \in execs'
             /\ Fetchable(e) => Fetchable(e)'
             /\ \A r \in RevOf(e.item, e.rev) : \E q \in RevOf(e.item, e.rev)' :
                   q.content = r.content
  <2>1. e.ctx \in Ctx
    BY <1>1 DEF CatInv, TypeOK
  <2>2. Moves /\ revs \subseteq revs' /\ execs \subseteq execs'
    BY <1>1, CatStep
  <2>3. /\ Fetchable(e) => Fetchable(e)'
        /\ RevOf(e.item, e.rev) \subseteq RevOf(e.item, e.rev)'
    BY <2>1, <2>2, FetchableStays DEF Moves
  <2> QED
    BY <2>2, <2>3
<1>2. CatInv /\ [Next]_catVars =>
        [\A e \in execs : /\ e \in execs'
                          /\ Fetchable(e) => Fetchable(e)'
                          /\ \A r \in RevOf(e.item, e.rev) : \E q \in RevOf(e.item, e.rev)' :
                                q.content = r.content]_catVars
  BY <1>1
<1> QED
  BY CatInvariant, <1>2, PTL DEF Spec, PinsHold

-----------------------------------------------------------------------------
(* "ok" means written                                                        *)

(* A step of one client leaves the calls of the others, and a call that is
   about to write ends by writing or is given up.                             *)
OwnCall(d) == /\ \A c \in Client \ {d} : call'[c] = call[c]
              /\ At(d, "write") => UpdateRow(d) \/ GiveUp(d)

(* Every step is some client's own.                                          *)
LEMMA StepIsOwn ==
    ASSUME TypeOK, Next
    PROVE  \E d \in Client : OwnCall(d)
<1> USE DEF TypeOK, At, Ends, Goes, Idle
<1>1. PICK d \in Client :
          \/ \E i \in Item : \/ ModelCreate(d, i) \/ ModelUpdate(d, i) \/ ModelDelete(d, i)
                             \/ ModelRestore(d, i) \/ ModelMove(d, i) \/ ModelDialogOpen(d, i)
                             \/ SkillCreate(d, i) \/ SkillUpdate(d, i) \/ SkillDelete(d, i)
                             \/ SkillRestore(d, i) \/ SkillMove(d, i) \/ SkillDialogOpen(d, i)
          \/ SkillPatch(d) \/ UpdateRow(d) \/ ModelDialogSave(d) \/ SkillDialogSave(d)
          \/ \E x \in Ctx : \/ ContextCreate(d, x) \/ ContextDelete(d, x) \/ ContextRestore(d, x)
                            \/ \E i \in Item, n \in Rev : ExecCreate(d, x, i, n)
          \/ ExecInsert(d) \/ NewExecution(d) \/ PickSave(d) \/ GiveUp(d)
  BY DEF Next
<1>2. ASSUME NEW i \in Item,
             \/ ModelCreate(d, i) \/ ModelDelete(d, i) \/ ModelRestore(d, i)
             \/ SkillCreate(d, i) \/ SkillDelete(d, i) \/ SkillRestore(d, i)
      PROVE  OwnCall(d)
  BY <1>2 DEF OwnCall, ModelCreate, ModelDelete, ModelRestore, SkillCreate, SkillDelete, SkillRestore,
     ModelInsert, SkillInsert, ModelSoftDelete, SkillSoftDelete, ModelRestoreRow, SkillRestoreRow
<1>3. ASSUME NEW i \in Item, ModelMove(d, i) \/ SkillMove(d, i)
      PROVE  OwnCall(d)
  BY <1>3 DEF OwnCall, ModelMove, SkillMove, ModelMoveRow, SkillMoveRow, MoveRow
<1>4. ASSUME NEW i \in Item, \/ ModelUpdate(d, i) \/ SkillUpdate(d, i)
                             \/ ModelDialogOpen(d, i) \/ SkillDialogOpen(d, i)
      PROVE  OwnCall(d)
  BY <1>4 DEF OwnCall, ModelUpdate, SkillUpdate, Merge, ModelDialogOpen, SkillDialogOpen, DialogOpen
<1>5. CASE SkillPatch(d) \/ ModelDialogSave(d) \/ SkillDialogSave(d)
  BY <1>5 DEF OwnCall, SkillPatch, Merge, ModelDialogSave, SkillDialogSave, DialogSave
<1>6. CASE UpdateRow(d)
  BY <1>6 DEF OwnCall, UpdateRow, ModelUpdateRow, SkillUpdateRow
<1>7. CASE GiveUp(d)
  BY <1>7 DEF OwnCall, GiveUp
<1>8. ASSUME NEW x \in Ctx, ContextCreate(d, x) \/ ContextDelete(d, x) \/ ContextRestore(d, x)
      PROVE  OwnCall(d)
  BY <1>8 DEF OwnCall, ContextCreate, ContextDelete, ContextRestore, ContextInsert,
     ContextDeleteRow, ContextRestoreRow, ContextSet
<1>9. ASSUME NEW x \in Ctx, NEW i \in Item, NEW n \in Rev, ExecCheck(d, x, i, n), ~At(d, "write"),
             ctx[x] \in Life
      PROVE  OwnCall(d)
  BY <1>9 DEF OwnCall, ExecCheck, Life
<1>10. ASSUME NEW x \in Ctx, NEW i \in Item, NEW n \in Rev, ExecCreate(d, x, i, n)
       PROVE  OwnCall(d)
  BY <1>9, <1>10 DEF ExecCreate
<1>11. CASE PickSave(d)
  BY <1>9, <1>11, CallFields DEF PickSave
<1>12. CASE ExecInsert(d) \/ NewExecution(d)
  BY <1>12 DEF OwnCall, ExecInsert, NewExecution
<1> QED
  BY <1>1, <1>2, <1>3, <1>4, <1>5, <1>6, <1>7, <1>8, <1>10, <1>11, <1>12

(* The write that ends with "ok" found the row live and its key free.        *)
LEMMA UpdateWrites ==
    ASSUME RowsInv, NEW c \in Client, UpdateRow(c), said' = "ok"
    PROVE  item'[call[c].item] = [life |-> "live", content |-> call[c].row]
<1>1. PICK i \in Item, k \in Content : i = call[c].item /\ k = call[c].row
  BY CallFields DEF UpdateRow, At, RowsInv
<1>2. Overwrite(i, k) /\ said' \in {IF Hits(i, k) THEN "sql" ELSE Changes(i),
                                    IF Hits(i, k) THEN "duplicate" ELSE Changes(i)}
  BY <1>1 DEF UpdateRow, ModelUpdateRow, SkillUpdateRow, Ends
<1>3. Live(i) /\ ~Taken(i, k)
  BY <1>2 DEF Changes, Hits
<1>4. item' = [item EXCEPT ![i].content = k] /\ Exists(i) /\ item[i].life = "live"
  BY <1>2, <1>3, LiveExists DEF Overwrite, Live
<1>5. [item EXCEPT ![i].content = k] = [item EXCEPT ![i] = [life |-> item[i].life, content |-> k]]
  BY <1>4, RowIs
<1> QED
  BY <1>1, <1>4, <1>5 DEF RowsInv, TypeOK

(* An update that is reported as done has been done.                         *)
THEOREM ReportedIsWritten == Spec => OkMeansWritten
<1>1. ASSUME CatInv, Next, NEW c \in Client, At(c, "write"), call'[c] = Idle, said' = "ok"
      PROVE  item'[call[c].item] = [life |-> "live", content |-> call[c].row]
  <2>1. PICK d \in Client : OwnCall(d)
    BY <1>1, StepIsOwn DEF CatInv
  <2>2. d = c
    BY <1>1, <2>1 DEF OwnCall, At, Idle
  <2>3. UpdateRow(c)
    BY <1>1, <2>1, <2>2 DEF OwnCall, GiveUp, Goes
  <2> QED
    BY <1>1, <2>3, UpdateWrites DEF CatInv, RowsInv
<1>2. CatInv /\ [Next]_catVars =>
        [\A c \in Client : At(c, "write") /\ call'[c] = Idle /\ said' = "ok" =>
           item'[call[c].item] = [life |-> "live", content |-> call[c].row]]_catVars
  BY <1>1
<1> QED
  BY CatInvariant, <1>2, PTL DEF Spec, OkMeansWritten
=============================================================================

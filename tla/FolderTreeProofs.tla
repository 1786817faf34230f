-------------------------- MODULE FolderTreeProofs --------------------------
(***************************************************************************)
(* Theorems about FolderTree, for every set of folders, items and clients. *)
(*                                                                         *)
(*   FolderTypes     TypeOK, with any number of clients                    *)
(*   and with one client:                                                  *)
(*   DeletesAreSafe  DeleteLeavesNothingBehind                             *)
(*   SkillsAreATree  Acyclic for the walk of skill_folder.c                *)
(*   LiveMovesAreSafe   OnlyRestoreClosesLiveCycle for both walks          *)
(*   FoldersAreAtomic   CallsAreAtomic, the refinement of FolderCalls      *)
(*   RefusalsAreRight   a move that is refused would have closed a cycle   *)
(*                                                                         *)
(* They rest on one invariant of the walk (WalkInv): the folders it has    *)
(* passed form a chain from the target to where it is, without the folder  *)
(* that moves, or one that is closed already.  At the end the chain is     *)
(* closed under the parents the walk can see, so a cycle through the moved *)
(* folder would have to leave it, and cannot.                              *)
(***************************************************************************)
EXTENDS FolderTree, FiniteSetTheorems, TLAPS

-----------------------------------------------------------------------------
(* Types *)

FolderSteps == {"deleteItems", "deleteRow", "moveTarget", "walk", "moveRow"}

(* What a call in progress works on, and that its rows are there.            *)
CallOK == \A c \in Client :
            /\ call[c].step \in FolderSteps => call[c].what \in Folder
            /\ At(c, "itemRow") => call[c].what \in Item
            /\ call[c].step \in {"moveTarget", "walk"} => call[c].to \in Folder
            /\ call[c].step \in {"walk", "moveRow", "itemRow"} => Referable(call[c].to)
            /\ At(c, "walk") => Referable(call[c].cur)
            /\ call[c].blind => ReadsFail

TypeInv == TypeOK /\ CallOK

LEMMA TypeStep ==
    ASSUME TypeInv, NEW c \in Client, Continue(c) \/ Invoke(c)
    PROVE  TypeInv'
  <1>a. 0 \notin Folder BY FolderAssumption
  <1> USE <1>a, MaxDepthAssumption
      DEF TypeInv, TypeOK, CallOK, Referable, At, RowState, Call, FolderSteps
  <1>1. ASSUME NEW f \in Folder, NEW p \in Folder \cup {0}, Create(c, f, p)
        PROVE  TypeInv'
    BY <1>1 DEF Create
  <1>2. ASSUME NEW f \in Folder, DeleteFolders(c, f) PROVE TypeInv'
    BY <1>2 DEF DeleteFolders, Begin
  <1>3. ASSUME DeleteItems(c) PROVE TypeInv'
    <2>1. CASE Return(c) BY <1>3, <2>1 DEF DeleteItems, Return, NoCall
    <2>2. CASE Goto(c, "deleteRow") BY <1>3, <2>2 DEF DeleteItems, Goto
    <2> QED BY <1>3, <2>1, <2>2 DEF DeleteItems
  <1>4. ASSUME DeleteRow(c) PROVE TypeInv'
    BY <1>4 DEF DeleteRow, Return, NoCall
  <1>5. ASSUME NEW f \in Folder, Restore(c, f) PROVE TypeInv'
    BY <1>5 DEF Restore
  <1>6. ASSUME NEW f \in Folder, NEW p \in Folder \cup {0}, MoveSource(c, f, p)
        PROVE  TypeInv'
    BY <1>6 DEF MoveSource, Begin
  <1>7. ASSUME MoveTarget(c) PROVE TypeInv'
    <2>1. CASE Return(c) BY <1>7, <2>1 DEF MoveTarget, Return, NoCall
    <2>2. CASE state[call[c].to] = "live" BY <1>7, <2>2 DEF MoveTarget
    <2> QED BY <1>7, <2>1, <2>2 DEF MoveTarget
  <1>8. ASSUME WalkOn(c) PROVE TypeInv'
    BY <1>8 DEF WalkOn
  <1>9. ASSUME WalkFound(c) PROVE TypeInv'
    BY <1>9 DEF WalkFound, Return, NoCall
  <1>10. ASSUME WalkEnd(c) PROVE TypeInv'
    BY <1>10 DEF WalkEnd, Goto
  <1>11. ASSUME MoveRow(c) PROVE TypeInv'
    BY <1>11 DEF MoveRow, Return, NoCall
  <1>12. ASSUME ItemRow(c) PROVE TypeInv'
    BY <1>12 DEF ItemRow, Return, NoCall
  <1>13. ASSUME NEW m \in Item, ItemDelete(c, m) \/ ItemRestore(c, m) PROVE TypeInv'
    BY <1>13 DEF ItemDelete, ItemRestore
  <1>14. ASSUME NEW m \in Item, NEW f \in Folder \cup {0}, ItemWrite(c, m, f)
         PROVE  TypeInv'
    BY <1>14 DEF ItemWrite
  <1>15. ASSUME NEW m \in Item, NEW f \in Folder \cup {0}, ItemTarget(c, m, f)
         PROVE  TypeInv'
    BY <1>15 DEF ItemTarget, Begin, LiveOrRoot
  <1>16. ASSUME NEW f \in Folder, FoldersUncounted(c, f) PROVE TypeInv'
    BY <1>16 DEF FoldersUncounted, Begin
  <1>17. ASSUME ItemsUncounted(c) \/ WalkCut(c) PROVE TypeInv'
    BY <1>17 DEF ItemsUncounted, WalkCut, GotoBlind
  <1>18. ASSUME ReadRefused(c) PROVE TypeInv'
    BY <1>18 DEF ReadRefused, Return, NoCall
  <1> QED BY <1>1, <1>2, <1>3, <1>4, <1>5, <1>6, <1>7, <1>8, <1>9, <1>10, <1>11,
             <1>12, <1>13, <1>14, <1>15, <1>16, <1>17, <1>18 DEF Continue, Invoke

LEMMA TypesHold == Spec => []TypeInv
  <1>1. Init => TypeInv
    BY FolderAssumption, MaxDepthAssumption
    DEF Init, TypeInv, TypeOK, CallOK, Referable, At, NoCall, RowState, Call, FolderSteps
  <1>2. TypeInv /\ [Next]_vars => TypeInv'
    <2>1. CASE Next BY <2>1, TypeStep DEF Next
    <2>2. CASE UNCHANGED vars
      BY <2>2 DEF vars, TypeInv, TypeOK, CallOK, Referable, At, RowState, Call
    <2> QED BY <2>1, <2>2
  <1> QED BY <1>1, <1>2, PTL DEF Spec

(* Every variable of FolderTree keeps its type, and every parent_id refers to
   a row (model_folder.c, skill_folder.c), whatever clients interleave.      *)
THEOREM FolderTypes == Spec => []TypeOK
  BY TypesHold, PTL DEF TypeInv

-----------------------------------------------------------------------------
(* Deletion *)

(* What the two COUNTs found is still so: nobody else is there to change it. *)
DeleteInv ==
    \A c \in Client :
        /\ call[c].step \in {"deleteItems", "deleteRow"} /\ ~call[c].blind =>
              \A g \in Folder : parent[g] = call[c].what => state[g] # "live"
        /\ At(c, "deleteRow") /\ ~call[c].blind => ~Occupied(call[c].what)

LEMMA DeleteStep ==
    ASSUME Alone, TypeInv, DeleteInv, NEW c \in Client, Continue(c) \/ Invoke(c)
    PROVE  DeleteInv'
  <1> USE DEF Alone, DeleteInv, TypeInv, TypeOK, Call, At, Goto, Begin, Return,
              NoCall, Occupied
  <1>1. CASE Continue(c)
    BY <1>1 DEF Continue, DeleteItems, DeleteRow, MoveTarget, WalkOn, WalkFound,
                WalkEnd, MoveRow, ItemRow, ItemsUncounted, WalkCut, ReadRefused, GotoBlind
  <1>2. ASSUME NEW f \in Folder, DeleteFolders(c, f) \/ FoldersUncounted(c, f)
        PROVE  DeleteInv'
    BY <1>2 DEF DeleteFolders, FoldersUncounted
  <1>3. ASSUME NEW f \in Folder, NEW p \in Folder \cup {0}, MoveSource(c, f, p)
        PROVE  DeleteInv'
    BY <1>3 DEF MoveSource
  <1>4. ASSUME NEW m \in Item, NEW f \in Folder \cup {0}, ItemTarget(c, m, f)
        PROVE  DeleteInv'
    BY <1>4 DEF ItemTarget
  <1>5. ASSUME At(c, "idle"), UNCHANGED call PROVE DeleteInv'
    BY <1>5
  <1> QED BY <1>1, <1>2, <1>3, <1>4, <1>5
          DEF Invoke, Restore, Create, ItemDelete, ItemRestore, ItemWrite

LEMMA DeletesHold == ASSUME Alone PROVE Spec => []DeleteInv
  <1>1. Init => DeleteInv
    BY DEF Init, DeleteInv, At, NoCall
  <1>2. TypeInv /\ DeleteInv /\ [Next]_vars => DeleteInv'
    <2>1. CASE Next BY <2>1, DeleteStep DEF Next
    <2>2. CASE UNCHANGED vars BY <2>2 DEF vars, DeleteInv, At, Occupied
    <2> QED BY <2>1, <2>2
  <1> QED BY <1>1, <1>2, TypesHold, PTL DEF Spec

(* Only the UPDATE of soft_delete deletes a folder.                          *)
LEMMA DeletedBy ==
    ASSUME TypeInv, NEW c \in Client, Continue(c) \/ Invoke(c),
           NEW f \in Folder, state[f] = "live", state'[f] = "deleted"
    PROVE  DeleteRow(c) /\ call[c].what = f
  <1>1. DeleteRow(c)
    BY DEF Continue, Invoke, DeleteItems, MoveTarget, WalkOn, WalkFound, WalkEnd,
           MoveRow, ItemRow, DeleteFolders, Restore, Create, MoveSource,
           ItemDelete, ItemRestore, ItemWrite, ItemTarget, FoldersUncounted,
           ItemsUncounted, WalkCut, ReadRefused, TypeInv, TypeOK
  <1>2. call[c].what = f
    BY <1>1 DEF DeleteRow, TypeInv, TypeOK
  <1> QED BY <1>1, <1>2

(* With one client nothing live is left in a folder that is deleted, unless a
   COUNT has failed: the invariant of acta_db_model_folder_soft_delete and its
   twin.                                                                     *)
THEOREM DeletesAreSafe == ASSUME Alone PROVE Spec => DeleteLeavesNothingBehind
  <1>1. TypeInv /\ DeleteInv /\ [Next]_vars =>
           [\A f \in Folder : state[f] = "live" /\ state'[f] = "deleted" =>
               \/ \E c \in Client : Blind(c, "deleteRow")
               \/ /\ \A g \in Folder : parent[g] = f => state[g] # "live"
                  /\ \A m \in Item : place[m] = f => item[m] # "live"]_vars
    <2> SUFFICES ASSUME TypeInv, DeleteInv, NEW c \in Client,
                        Continue(c) \/ Invoke(c),
                        NEW f \in Folder, state[f] = "live", state'[f] = "deleted",
                        ~Blind(c, "deleteRow")
                 PROVE  /\ \A g \in Folder : parent[g] = f => state[g] # "live"
                        /\ \A m \in Item : place[m] = f => item[m] # "live"
      BY DEF Next
    <2>1. DeleteRow(c) /\ call[c].what = f
      BY DeletedBy
    <2> QED BY <2>1 DEF DeleteRow, DeleteInv, At, Occupied, Blind
  <1> QED BY <1>1, TypesHold, DeletesHold, PTL DEF Spec, DeleteLeavesNothingBehind

-----------------------------------------------------------------------------
(* The walk of move_to *)

(* The rows the walk's SELECT returns.                                       *)
Vis == {f \in Folder : Visible(f)}

(* The rows V the walk has passed so far: from the target to where it is now,
   each with its parent next, none of them the folder that moves.            *)
Passed(c, V) == /\ V \subseteq Vis \ {call[c].what}
                /\ Cardinality(V) = call[c].depth
                /\ call[c].to \in V \cup {call[c].cur}
                /\ \A x \in V : parent[x] \in V \cup {call[c].cur}

(* ... and when it has ended: no visible parent lies outside of V.           *)
Sealed(c, V) == /\ V \subseteq Vis \ {call[c].what}
                /\ call[c].to \in V
                /\ \A x \in V : parent[x] \in V \/ parent[x] \notin Vis

WalkInv ==
    \A c \in Client :
        /\ At(c, "moveTarget") => call[c].depth = 0
        /\ At(c, "walk") => /\ state[call[c].to] = "live"
                            /\ \E V \in SUBSET Folder : Passed(c, V) \/ Sealed(c, V)
        /\ At(c, "moveRow") /\ ~call[c].blind =>
              \/ call[c].to = 0
              \/ /\ state[call[c].to] = "live"
                 /\ \E V \in SUBSET Folder : Sealed(c, V)

(* One row further.  A chain that comes back to itself is sealed: whoever
   walks on in there meets no other row.                                     *)
LEMMA WalkFurther ==
    ASSUME TypeInv, IsFiniteSet(Folder), NEW c \in Client, WalkOn(c),
           NEW V \in SUBSET Folder, Passed(c, V) \/ Sealed(c, V)
    PROVE  \E W \in SUBSET Folder : (Passed(c, W) \/ Sealed(c, W))'
  <1>1. /\ call[c].cur \in Folder \ {call[c].what}
        /\ call[c].cur \in Vis
        /\ call' = [call EXCEPT ![c].cur = parent[call[c].cur],
                                ![c].depth = call[c].depth + 1]
        /\ UNCHANGED <<state, parent>>
    BY DEF WalkOn, Vis
  <1>2. /\ call[c]'.what = call[c].what
        /\ call[c]'.to = call[c].to
        /\ call[c]'.cur = parent[call[c].cur]
        /\ call[c]'.depth = call[c].depth + 1
    BY <1>1 DEF TypeInv, TypeOK, Call
  <1>3. Vis' = Vis
    BY <1>1 DEF Vis, Visible
  <1>4. CASE Sealed(c, V)
    <2>1. Sealed(c, V)' BY <1>1, <1>2, <1>3, <1>4 DEF Sealed
    <2> QED BY <2>1
  <1>5. CASE Passed(c, V) /\ call[c].cur \in V
    <2>1. Sealed(c, V)' BY <1>1, <1>2, <1>3, <1>5 DEF Passed, Sealed
    <2> QED BY <2>1
  <1>6. CASE Passed(c, V) /\ call[c].cur \notin V
    <2>1. PICK W \in SUBSET Folder : W = V \cup {call[c].cur} BY <1>1
    <2>2. Cardinality(W) = call[c].depth + 1
      <3>1. IsFiniteSet(V) BY FS_Subset
      <3> QED BY <1>6, <2>1, <3>1, FS_AddElement DEF Passed
    <2>3. W \subseteq Vis \ {call[c].what}
      BY <1>1, <1>6, <2>1 DEF Passed
    <2>4. call[c].to \in W /\ \A x \in W : parent[x] \in W \cup {parent[call[c].cur]}
      BY <1>6, <2>1 DEF Passed
    <2>5. Passed(c, W)'
      BY <1>1, <1>2, <1>3, <2>2, <2>3, <2>4 DEF Passed
    <2> QED BY <2>5
  <1> QED BY <1>4, <1>5, <1>6

(* The walk has ended: at the root or at a row it cannot see, never at its
   depth limit, unless it goes round in a cycle.                             *)
LEMMA WalkOver ==
    ASSUME TypeInv, IsFiniteSet(Folder), Cardinality(Folder) < MaxDepth,
           NEW c \in Client, WalkEnd(c),
           NEW V \in SUBSET Folder, Passed(c, V) \/ Sealed(c, V), call[c].to \in Vis
    PROVE  Sealed(c, V)'
  <1>1. ASSUME Passed(c, V) PROVE Sealed(c, V)
    <2>1. ~ (call[c].depth >= MaxDepth)
      <3>1. Cardinality(V) <= Cardinality(Folder) BY FS_Subset
      <3>2. Cardinality(V) \in Nat /\ Cardinality(Folder) \in Nat
        BY FS_Subset, FS_CardinalityType
      <3> QED BY <1>1, <3>1, <3>2, MaxDepthAssumption DEF Passed
    <2>2. call[c].cur \notin Vis
      BY <2>1, FolderAssumption DEF WalkEnd, Vis
    <2> QED BY <1>1, <2>2 DEF Passed, Sealed
  <1>2. Sealed(c, V)
    BY <1>1
  <1>3. /\ UNCHANGED <<state, parent>>
        /\ call[c]'.what = call[c].what
        /\ call[c]'.to = call[c].to
    BY DEF WalkEnd, Goto, TypeInv, TypeOK, Call
  <1>4. Vis' = Vis BY <1>3 DEF Vis, Visible
  <1> QED BY <1>2, <1>3, <1>4 DEF Sealed

LEMMA WalkStep ==
    ASSUME Alone, IsFiniteSet(Folder), Cardinality(Folder) < MaxDepth,
           TypeInv, WalkInv, NEW c \in Client, Continue(c) \/ Invoke(c)
    PROVE  WalkInv'
  <1> SUFFICES
        /\ At(c, "moveTarget")' => call[c]'.depth = 0
        /\ At(c, "walk")' => /\ state[call[c].to]' = "live"
                             /\ \E V \in SUBSET Folder : (Passed(c, V) \/ Sealed(c, V))'
        /\ At(c, "moveRow")' /\ ~call[c]'.blind =>
              \/ call[c]'.to = 0
              \/ /\ state[call[c].to]' = "live"
                 /\ \E V \in SUBSET Folder : Sealed(c, V)'
    BY DEF Alone, WalkInv
  <1> USE DEF At
  <1>1. CASE MoveTarget(c)
    <2>1. CASE state[call[c].to] = "live"
      <3>1. /\ UNCHANGED <<state, parent>>
            /\ call[c]'.step = "walk"
            /\ call[c]'.to = call[c].to
            /\ call[c]'.cur = call[c].to
            /\ call[c]'.depth = 0
        BY <1>1, <2>1 DEF MoveTarget, TypeInv, TypeOK, Call, WalkInv
      <3>2. Passed(c, {})'
        BY <3>1, FS_EmptySet DEF Passed
      <3> QED BY <2>1, <3>1, <3>2
    <2>2. CASE state[call[c].to] # "live"
      BY <1>1, <2>2 DEF MoveTarget, Return, NoCall, TypeInv, TypeOK
    <2> QED BY <2>1, <2>2
  <1>2. CASE WalkOn(c)
    <2>1. /\ UNCHANGED <<state, parent>>
          /\ call[c].step = "walk"
          /\ call[c]'.step = "walk"
          /\ call[c]'.to = call[c].to
      BY <1>2 DEF WalkOn, TypeInv, TypeOK, Call
    <2>2. PICK V \in SUBSET Folder : Passed(c, V) \/ Sealed(c, V)
      BY <2>1 DEF WalkInv
    <2>3. \E W \in SUBSET Folder : (Passed(c, W) \/ Sealed(c, W))'
      BY <1>2, <2>2, WalkFurther
    <2> QED BY <2>1, <2>3 DEF WalkInv
  <1>3. CASE WalkEnd(c)
    <2>1. /\ UNCHANGED <<state, parent>>
          /\ call[c].step = "walk"
          /\ call[c]'.step = "moveRow"
          /\ call[c]'.to = call[c].to
      BY <1>3 DEF WalkEnd, Goto, TypeInv, TypeOK, Call
    <2>2. call[c].to \in Vis
      BY <2>1 DEF WalkInv, Vis, Visible, TypeInv, CallOK
    <2>3. PICK V \in SUBSET Folder : Passed(c, V) \/ Sealed(c, V)
      BY <2>1 DEF WalkInv
    <2>4. Sealed(c, V)'
      BY <1>3, <2>2, <2>3, WalkOver
    <2> QED BY <2>1, <2>4 DEF WalkInv
  <1>4. CASE WalkCut(c)
    BY <1>4 DEF WalkCut, GotoBlind, TypeInv, TypeOK, Call
  <1>5. CASE DeleteItems(c) \/ DeleteRow(c) \/ WalkFound(c) \/ MoveRow(c) \/ ItemRow(c)
             \/ ItemsUncounted(c) \/ ReadRefused(c)
    BY <1>5 DEF DeleteItems, DeleteRow, WalkFound, MoveRow, ItemRow, ItemsUncounted,
                ReadRefused, Return, Goto, GotoBlind, NoCall, TypeInv, TypeOK, Call
  <1>6. ASSUME NEW f \in Folder, DeleteFolders(c, f) \/ FoldersUncounted(c, f)
        PROVE  call[c]'.step = "deleteItems"
    BY <1>6 DEF DeleteFolders, FoldersUncounted, Begin, NoCall, TypeInv, TypeOK
  <1>7. ASSUME NEW f \in Folder, NEW p \in Folder \cup {0}, MoveSource(c, f, p)
        PROVE  \/ call[c]'.step = "moveTarget" /\ call[c]'.depth = 0
               \/ call[c]'.step = "moveRow" /\ call[c]'.to = 0
    BY <1>7 DEF MoveSource, Begin, NoCall, TypeInv, TypeOK
  <1>8. ASSUME NEW m \in Item, NEW f \in Folder \cup {0}, ItemTarget(c, m, f)
        PROVE  call[c]'.step = "itemRow"
    BY <1>8 DEF ItemTarget, Begin, NoCall, TypeInv, TypeOK
  <1>9. CASE Invoke(c)
    BY <1>9, <1>6, <1>7, <1>8
    DEF Invoke, Restore, Create, ItemDelete, ItemRestore, ItemWrite
  <1> QED BY <1>1, <1>2, <1>3, <1>4, <1>5, <1>9 DEF Continue

(* The UPDATE of a move: a cycle through the moved folder would stay inside
   the sealed set, which is one without it.                                  *)
LEMMA MoveClosesNoCycle ==
    ASSUME TypeInv, WalkInv, NEW c \in Client, MoveRow(c), ~call[c].blind,
           NEW T, T \subseteq Vis, NEW S \in SUBSET T, S # {}, \A x \in S : parent'[x] \in S
    PROVE  Cycle(T)
  <1>1. CASE parent' = parent BY <1>1 DEF Cycle
  <1>2. CASE parent' = [parent EXCEPT ![call[c].what] = call[c].to]
    <2> DEFINE f == call[c].what
               p == call[c].to
    <2>1. /\ f \in Folder
          /\ parent'[f] = p
          /\ \A x \in Folder \ {f} : parent'[x] = parent[x]
      BY <1>2 DEF MoveRow, TypeInv, TypeOK, CallOK, At, FolderSteps
    <2>2. CASE f \notin S BY <2>1, <2>2 DEF Cycle, Vis
    <2>3. CASE f \in S
      <3>1. p \in S BY <2>1, <2>3
      <3>2. p # 0 BY <3>1, FolderAssumption DEF Vis
      <3>3. PICK V \in SUBSET Folder : Sealed(c, V)
        BY <3>2 DEF WalkInv, MoveRow
      <3>4. p \in S \cap V BY <3>1, <3>3 DEF Sealed
      <3>5. \A x \in S \cap V : parent[x] \in S \cap V
        BY <2>1, <3>3 DEF Sealed, Vis
      <3> QED BY <3>4, <3>5 DEF Cycle
    <2> QED BY <2>2, <2>3
  <1> QED BY <1>1, <1>2 DEF MoveRow

(* A new folder is nobody's parent.                                          *)
LEMMA CreateClosesNoCycle ==
    ASSUME TypeInv, NEW c \in Client, NEW f \in Folder, NEW p \in Folder \cup {0},
           Create(c, f, p), NEW T, T \subseteq Folder, NEW U, U \subseteq T \cup {f},
           NEW S \in SUBSET U, S # {}, \A x \in S : parent'[x] \in S
    PROVE  Cycle(T)
  <1>1. /\ parent'[f] = p
        /\ \A x \in Folder \ {f} : parent'[x] = parent[x]
    BY DEF Create, TypeInv, TypeOK
  <1>2. p # f BY FolderAssumption DEF Create, Referable
  <1>3. \A x \in Folder : parent[x] # f
    BY FolderAssumption DEF Create, Referable, TypeInv, TypeOK
  <1>4. CASE f \notin S BY <1>1, <1>4 DEF Cycle
  <1>5. CASE f \in S
    <2>1. p \in S \ {f} BY <1>1, <1>2, <1>5
    <2>2. \A x \in S \ {f} : parent[x] \in S \ {f} BY <1>1, <1>3
    <2> QED BY <2>1, <2>2 DEF Cycle
  <1> QED BY <1>4, <1>5

(* Every other step leaves the parents alone.                                *)
LEMMA ParentsStay ==
    ASSUME NEW c \in Client, Continue(c) \/ Invoke(c), ~MoveRow(c),
           ~ \E f \in Folder, p \in Folder \cup {0} : Create(c, f, p)
    PROVE  UNCHANGED parent
  BY DEF Continue, Invoke, DeleteItems, DeleteRow, MoveTarget, WalkOn, WalkFound,
         WalkEnd, ItemRow, DeleteFolders, Restore, MoveSource, ItemDelete,
         ItemRestore, ItemWrite, ItemTarget, FoldersUncounted, ItemsUncounted,
         WalkCut, ReadRefused

(* Among all folders, for the walk that reads deleted rows too.              *)
LEMMA TreeStep ==
    ASSUME ~WalkLiveOnly, ~ReadsFail, TypeInv, WalkInv, Acyclic,
           NEW c \in Client, Continue(c) \/ Invoke(c)
    PROVE  Acyclic'
  <1>1. Cycle(Vis) => Cycle(Folder)
    BY DEF Cycle, Vis
  <1>2. CASE MoveRow(c)
    <2> SUFFICES ASSUME NEW S \in SUBSET Folder, S # {}, \A x \in S : parent'[x] \in S
                 PROVE  Cycle(Vis)
      BY <1>1 DEF Acyclic, Cycle
    <2>1. TypeInv' /\ UNCHANGED state BY <1>2, TypeStep DEF MoveRow
    <2>2. S \subseteq Vis
      BY <2>1, FolderAssumption DEF Vis, Visible, TypeInv, TypeOK, RowState
    <2>3. ~call[c].blind BY DEF TypeInv, CallOK
    <2> QED BY <1>2, <2>2, <2>3, MoveClosesNoCycle
  <1>3. ASSUME NEW f \in Folder, NEW p \in Folder \cup {0}, Create(c, f, p)
        PROVE  Acyclic'
    BY <1>3, CreateClosesNoCycle DEF Acyclic, Cycle
  <1>4. CASE UNCHANGED parent BY <1>4 DEF Acyclic, Cycle
  <1> QED BY <1>2, <1>3, <1>4, ParentsStay

(* Among live folders, for either walk.                                      *)
LEMMA LiveStep ==
    ASSUME TypeInv, WalkInv, Cycle(LiveFolders)',
           NEW c \in Client, Continue(c) \/ Invoke(c)
    PROVE  \/ Cycle(LiveFolders)
           \/ \E f \in Folder : state[f] = "deleted" /\ state'[f] = "live"
           \/ Blind(c, "moveRow")
  <1>1. LiveFolders \subseteq Vis
    BY DEF LiveFolders, Vis, Visible
  <1>2. CASE MoveRow(c)
    <2>1. LiveFolders' = LiveFolders /\ At(c, "moveRow") BY <1>2 DEF MoveRow, LiveFolders
    <2>2. PICK S \in SUBSET LiveFolders : S # {} /\ \A x \in S : parent'[x] \in S
      BY <2>1 DEF Cycle
    <2> QED BY <1>1, <1>2, <2>1, <2>2, MoveClosesNoCycle DEF Blind
  <1>3. ASSUME NEW f \in Folder, NEW p \in Folder \cup {0}, Create(c, f, p)
        PROVE  Cycle(LiveFolders)
    <2>1. LiveFolders' \subseteq LiveFolders \cup {f}
      BY <1>3 DEF Create, LiveFolders, TypeInv, TypeOK
    <2>2. LiveFolders \subseteq Folder BY DEF LiveFolders
    <2>3. PICK S \in SUBSET LiveFolders' : S # {} /\ \A x \in S : parent'[x] \in S
      BY DEF Cycle
    <2> QED BY <1>3, <2>1, <2>2, <2>3, CreateClosesNoCycle
  <1>4. ASSUME ~MoveRow(c), ~ \E f \in Folder, p \in Folder \cup {0} : Create(c, f, p)
        PROVE  \/ Cycle(LiveFolders)
               \/ \E f \in Folder : state[f] = "deleted" /\ state'[f] = "live"
    <2>1. UNCHANGED parent BY <1>4, ParentsStay
    <2>2. CASE LiveFolders' \subseteq LiveFolders
      BY <2>1, <2>2 DEF Cycle
    <2>3. \A f \in Folder : state'[f] = "live" => state[f] \in {"live", "deleted"}
      BY <1>4
      DEF Continue, Invoke, DeleteItems, DeleteRow, MoveTarget, WalkOn, WalkFound,
          WalkEnd, ItemRow, DeleteFolders, Restore, MoveSource, ItemDelete,
          ItemRestore, ItemWrite, ItemTarget, FoldersUncounted, ItemsUncounted,
          WalkCut, ReadRefused, TypeInv, TypeOK
    <2> QED BY <2>2, <2>3 DEF LiveFolders
  <1> QED BY <1>2, <1>3, <1>4

-----------------------------------------------------------------------------
(* The inductive invariant, and what follows from it *)

TreeInv == TypeInv /\ WalkInv /\ (WalkLiveOnly \/ ReadsFail \/ Acyclic)

LEMMA TreeHolds ==
    ASSUME Alone, IsFiniteSet(Folder), Cardinality(Folder) < MaxDepth
    PROVE  Spec => []TreeInv
  <1>1. Init => WalkInv /\ Acyclic
    <2>1. Init => WalkInv BY DEF Init, WalkInv, At, NoCall
    <2>2. ASSUME Init, NEW S \in SUBSET Folder, NEW f \in S PROVE parent[f] \notin S
      BY <2>2, FolderAssumption DEF Init
    <2> QED BY <2>1, <2>2 DEF Acyclic, Cycle
  <1>2. TreeInv /\ [Next]_vars => (WalkInv /\ (WalkLiveOnly \/ ReadsFail \/ Acyclic))'
    <2>1. CASE Next
      BY <2>1, WalkStep, TreeStep DEF Next, TreeInv
    <2>2. CASE UNCHANGED vars
      <3>1. TreeInv => /\ \A V \in SUBSET Folder, c \in Client :
                             /\ Passed(c, V)' <=> Passed(c, V)
                             /\ Sealed(c, V)' <=> Sealed(c, V)
                       /\ Vis' = Vis
        BY <2>2 DEF vars, Passed, Sealed, Vis, Visible
      <3> QED BY <2>2, <3>1 DEF vars, TreeInv, WalkInv, Acyclic, Cycle, At
    <2> QED BY <2>1, <2>2
  <1> QED BY <1>1, <1>2, TypesHold, PTL DEF Spec, TreeInv

(* With one client, fewer than 4096 folders and reads that succeed, skill
   folders always form a forest (acta_db_skill_folder_move_to), whatever is
   deleted and restored.                                                     *)
THEOREM SkillsAreATree ==
    ASSUME Alone, ~WalkLiveOnly, ~ReadsFail, IsFiniteSet(Folder), Cardinality(Folder) < MaxDepth
    PROVE  Spec => []Acyclic
  <1>1. TreeInv => Acyclic BY DEF TreeInv
  <1> QED BY <1>1, TreeHolds, PTL

(* With one client and fewer folders than the walk goes deep, only a restore
   can close a cycle of live folders, in both files, or a move whose walk was
   cut by a read that failed.                                                *)
THEOREM LiveMovesAreSafe ==
    ASSUME Alone, IsFiniteSet(Folder), Cardinality(Folder) < MaxDepth
    PROVE  Spec => OnlyRestoreClosesLiveCycle
  <1>1. TreeInv /\ [Next]_vars =>
          [Cycle(LiveFolders)' =>
              \/ Cycle(LiveFolders)
              \/ \E f \in Folder : state[f] = "deleted" /\ state'[f] = "live"
              \/ \E c \in Client : Blind(c, "moveRow")]_vars
    BY LiveStep DEF Next, TreeInv
  <1> QED BY <1>1, TreeHolds, PTL DEF Spec, OnlyRestoreClosesLiveCycle

-----------------------------------------------------------------------------
(* One client's calls are atomic                                             *)

(* A sealed set without f, and with p: p is not within f.                    *)
LEMMA SealedIsOutside ==
    ASSUME NEW c \in Client, NEW V \in SUBSET Folder, Sealed(c, V)
    PROVE  ~Calls!Within(call[c].to, call[c].what)
  <1>1. Calls!Seen = Vis BY DEF Calls!Seen, Vis, Visible
  <1>2. V \in SUBSET Vis /\ call[c].what \notin V BY DEF Sealed
  <1> QED BY <1>1, <1>2 DEF Calls!Within, Sealed

LEMMA CallsInit == Init => Calls!Init
  BY DEF Init, Calls!Init

(* Each statement of a call is the call or leaves every row alone.           *)
LEMMA CallsStep ==
    ASSUME ~ReadsFail, TypeInv, DeleteInv, WalkInv, NEW c \in Client, Continue(c) \/ Invoke(c)
    PROVE  Calls!Next \/ UNCHANGED Calls!rows
  <1>1. ~call[c].blind BY DEF TypeInv, CallOK
  <1>2. ASSUME NEW f \in Folder, NEW p \in Folder \cup {0}, Create(c, f, p)
        PROVE  Calls!Create(f, p)
    BY <1>2 DEF Create, Calls!Create, Calls!Exists, Referable
  <1>3. ASSUME DeleteRow(c), state' # state PROVE \E f \in Folder : Calls!Delete(f)
    <2>1. PICK f \in Folder : f = call[c].what
      BY <1>3 DEF DeleteRow, TypeInv, CallOK, At, FolderSteps
    <2>2. Calls!Empty(f)
      BY <1>1, <1>3, <2>1 DEF DeleteRow, DeleteInv, Occupied, At, Calls!Empty
    <2>3. Calls!Delete(f)
      BY <1>3, <2>1, <2>2 DEF DeleteRow, Calls!Delete
    <2> QED BY <2>3
  <1>4. ASSUME NEW f \in Folder, Restore(c, f) PROVE Calls!Restore(f)
    BY <1>4 DEF Restore, Calls!Restore
  <1>5. ASSUME MoveRow(c), parent' # parent
        PROVE  \E f \in Folder, p \in Folder \cup {0} : Calls!Move(f, p)
    <2>1. PICK f \in Folder, p \in Folder \cup {0} : f = call[c].what /\ p = call[c].to
      BY <1>5 DEF MoveRow, TypeInv, TypeOK, Call, CallOK, At, FolderSteps
    <2>2. /\ p = 0 \/ state[p] = "live"
          /\ p # 0 => \E V \in SUBSET Folder : Sealed(c, V)
      BY <1>1, <1>5, <2>1 DEF MoveRow, WalkInv
    <2>3. Calls!Lives(p)
      BY <2>2 DEF Calls!Lives
    <2>4. p # 0 => ~Calls!Within(p, f)
      BY <2>1, <2>2, SealedIsOutside
    <2>5. Calls!Move(f, p)
      BY <1>5, <2>1, <2>3, <2>4 DEF MoveRow, Calls!Move
    <2> QED BY <2>5
  <1>6. ASSUME NEW m \in Item, NEW f \in Folder \cup {0}, ItemWrite(c, m, f)
        PROVE  Calls!Write(m, f)
    BY <1>6 DEF ItemWrite, Calls!Write, Calls!Exists, Referable
  <1>7. ASSUME NEW m \in Item, ItemDelete(c, m) PROVE Calls!Switch(m, "live", "deleted")
    BY <1>7 DEF ItemDelete, Calls!Switch
  <1>8. ASSUME NEW m \in Item, ItemRestore(c, m) PROVE Calls!Switch(m, "deleted", "live")
    BY <1>8 DEF ItemRestore, Calls!Switch
  <1>9. ASSUME ItemRow(c), place' # place
        PROVE  \E m \in Item, f \in Folder \cup {0} : Calls!Write(m, f)
    <2>1. PICK m \in Item, f \in Folder \cup {0} : m = call[c].what /\ f = call[c].to
      BY <1>9 DEF ItemRow, TypeInv, TypeOK, Call, CallOK, At
    <2>2. Calls!Exists(f)
      BY <1>9, <2>1 DEF ItemRow, TypeInv, CallOK, Referable, Calls!Exists, At
    <2>3. Calls!Write(m, f)
      BY <1>9, <2>1, <2>2 DEF ItemRow, Calls!Write, TypeInv, TypeOK
    <2> QED BY <2>3
  <1>10. DeleteRow(c) => UNCHANGED <<parent, item, place>> BY DEF DeleteRow
  <1>11. MoveRow(c) => UNCHANGED <<state, item, place>> BY DEF MoveRow
  <1>12. ItemRow(c) => UNCHANGED <<state, parent, item>> BY DEF ItemRow
  <1>13. \/ DeleteItems(c) \/ ItemsUncounted(c) \/ MoveTarget(c) \/ WalkOn(c) \/ WalkFound(c)
         \/ WalkEnd(c) \/ WalkCut(c) \/ ReadRefused(c)
         \/ \E f \in Folder : \/ DeleteFolders(c, f) \/ FoldersUncounted(c, f)
                              \/ \E p \in Folder \cup {0} : MoveSource(c, f, p)
         \/ \E m \in Item, f \in Folder \cup {0} : ItemTarget(c, m, f)
         => UNCHANGED <<state, parent, item, place>>
    BY DEF DeleteItems, ItemsUncounted, MoveTarget, WalkOn, WalkFound, WalkEnd, WalkCut,
           ReadRefused, DeleteFolders, FoldersUncounted, MoveSource, ItemTarget
  <1> QED
    BY <1>2, <1>3, <1>4, <1>5, <1>6, <1>7, <1>8, <1>9, <1>10, <1>11, <1>12, <1>13
    DEF Continue, Invoke, Calls!Next, Calls!rows

(* With one client, fewer folders than the walk goes deep and reads that
   succeed, soft_delete and move_to, each several statements without a
   transaction, and every other call of the folder files, are atomic: each
   happens as a whole, under the conditions the headers give.                *)
THEOREM FoldersAreAtomic ==
    ASSUME Alone, ~ReadsFail, IsFiniteSet(Folder), Cardinality(Folder) < MaxDepth
    PROVE  Spec => CallsAreAtomic
  <1>1. TreeInv /\ DeleteInv /\ [Next]_vars => [Calls!Next]_(Calls!rows)
    <2>1. ASSUME TreeInv, DeleteInv, Next PROVE [Calls!Next]_(Calls!rows)
      BY <2>1, CallsStep DEF Next, TreeInv
    <2>2. UNCHANGED vars => UNCHANGED Calls!rows
      BY DEF vars, Calls!rows
    <2> QED BY <2>1, <2>2
  <1> QED
    BY <1>1, CallsInit, TreeHolds, DeletesHold, PTL DEF Spec, CallsAreAtomic, Calls!Spec

(* What a walk is still to meet: whoever has the target, and with a folder the
   visible one above it, has where the walk is now.                          *)
ReachInv ==
    \A c \in Client :
        /\ call[c].step \in {"moveTarget", "walk"} => state[call[c].what] = "live"
        /\ At(c, "walk") =>
              \A V \in SUBSET Vis :
                  call[c].to \in V /\ (\A x \in V : parent[x] \in V \/ parent[x] \notin Vis)
                  => call[c].cur \in V \/ call[c].cur \notin Vis

LEMMA ReachStep ==
    ASSUME Alone, TypeInv, ReachInv, NEW c \in Client, Continue(c) \/ Invoke(c)
    PROVE  ReachInv'
  <1> SUFFICES
        /\ call[c]'.step \in {"moveTarget", "walk"} => state[call[c].what]' = "live"
        /\ call[c]'.step = "walk" =>
              \A V \in SUBSET Vis' :
                  call[c]'.to \in V /\ (\A x \in V : parent'[x] \in V \/ parent'[x] \notin Vis')
                  => call[c]'.cur \in V \/ call[c]'.cur \notin Vis'
    BY DEF Alone, ReachInv, At
  <1> USE DEF At
  <1>1. CASE MoveTarget(c)
    <2>1. CASE Return(c)
      BY <1>1, <2>1 DEF Return, NoCall, TypeInv, TypeOK
    <2>2. CASE state[call[c].to] = "live"
      BY <1>1, <2>2 DEF MoveTarget, ReachInv, TypeInv, TypeOK, Call
    <2> QED BY <1>1, <2>1, <2>2 DEF MoveTarget
  <1>2. CASE WalkOn(c)
    <2>1. /\ UNCHANGED <<state, parent>>
          /\ call[c].step = "walk"
          /\ call[c]'.what = call[c].what
          /\ call[c]'.to = call[c].to
          /\ call[c]'.cur = parent[call[c].cur]
          /\ call[c].cur \in Vis
      BY <1>2 DEF WalkOn, Vis, TypeInv, TypeOK, Call
    <2>2. Vis' = Vis
      BY <2>1 DEF Vis, Visible
    <2> QED BY <2>1, <2>2 DEF ReachInv
  <1>3. CASE WalkEnd(c) \/ WalkCut(c)
    BY <1>3 DEF WalkEnd, WalkCut, Goto, GotoBlind, TypeInv, TypeOK, Call
  <1>4. CASE DeleteItems(c) \/ DeleteRow(c) \/ WalkFound(c) \/ MoveRow(c) \/ ItemRow(c)
             \/ ItemsUncounted(c) \/ ReadRefused(c)
    BY <1>4 DEF DeleteItems, DeleteRow, WalkFound, MoveRow, ItemRow, ItemsUncounted,
                ReadRefused, Return, Goto, GotoBlind, NoCall, TypeInv, TypeOK, Call
  <1>5. ASSUME NEW f \in Folder, DeleteFolders(c, f) \/ FoldersUncounted(c, f)
        PROVE  call[c]'.step = "deleteItems"
    BY <1>5 DEF DeleteFolders, FoldersUncounted, Begin, TypeInv, TypeOK
  <1>6. ASSUME NEW f \in Folder, NEW p \in Folder \cup {0}, MoveSource(c, f, p)
        PROVE  /\ call[c]'.step \in {"moveTarget", "moveRow"}
               /\ state[call[c].what]' = "live"
    BY <1>6 DEF MoveSource, Begin, TypeInv, TypeOK
  <1>7. ASSUME NEW m \in Item, NEW f \in Folder \cup {0}, ItemTarget(c, m, f)
        PROVE  call[c]'.step = "itemRow"
    BY <1>7 DEF ItemTarget, Begin, TypeInv, TypeOK
  <1>8. CASE Invoke(c)
    BY <1>8, <1>5, <1>6, <1>7
    DEF Invoke, Restore, Create, ItemDelete, ItemRestore, ItemWrite
  <1> QED BY <1>1, <1>2, <1>3, <1>4, <1>8 DEF Continue

(* With one client a move is refused as a cycle only when its target is within
   the folder that moves: the walk is not misled by cycles above the target,
   by deleted rows or by its depth limit.                                    *)
THEOREM RefusalsAreRight ==
    ASSUME Alone
    PROVE  Spec => [][\A c \in Client : WalkFound(c) =>
                         Calls!Within(call[c].to, call[c].what)]_vars
  <1>1. Init => ReachInv
    BY DEF Init, ReachInv, At, NoCall
  <1>2. TypeInv /\ ReachInv /\ [Next]_vars => ReachInv'
    <2>1. CASE Next BY <2>1, ReachStep DEF Next
    <2>2. CASE UNCHANGED vars
      <3>1. Vis' = Vis BY <2>2 DEF vars, Vis, Visible
      <3> QED BY <2>2, <3>1 DEF vars, ReachInv, At
    <2> QED BY <2>1, <2>2
  <1>3. TypeInv /\ ReachInv /\ [Next]_vars =>
           [\A c \in Client : WalkFound(c) => Calls!Within(call[c].to, call[c].what)]_vars
    <2> SUFFICES ASSUME TypeInv, ReachInv, NEW c \in Client, WalkFound(c)
                 PROVE  Calls!Within(call[c].to, call[c].what)
      OBVIOUS
    <2>1. call[c].cur = call[c].what /\ call[c].step = "walk" /\ call[c].what \in Folder
      BY DEF WalkFound, At, TypeInv, CallOK, FolderSteps
    <2>2. call[c].what \in Vis
      BY <2>1 DEF ReachInv, Vis, Visible
    <2>3. Calls!Seen = Vis
      BY DEF Calls!Seen, Vis, Visible
    <2> QED BY <2>1, <2>2, <2>3 DEF ReachInv, At, Calls!Within
  <1> QED BY <1>1, <1>2, <1>3, TypesHold, PTL DEF Spec
=============================================================================

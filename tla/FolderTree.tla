----------------------------- MODULE FolderTree -----------------------------
(***************************************************************************)
(* The folder hierarchy of models (acta_db/src/model_folder.c) and of      *)
(* skills (skill_folder.c), with the models or skills filed in it          *)
(* (model.c, skill.c).  The two files are twins but for the walk that      *)
(* keeps move_to from closing a cycle: model_folder.c reads only live      *)
(* rows, skill_folder.c reads deleted ones too.                            *)
(*                                                                         *)
(* Nothing is done inside a transaction: delete and move are several       *)
(* statements, and each is a step, so that other clients interleave.  A    *)
(* call refused by its first statement is no step at all.  Names are left  *)
(* out: a duplicate one makes an INSERT or UPDATE fail.  A SELECT that     *)
(* fails (ReadsFail) is taken for one that finds nothing.                  *)
(***************************************************************************)
EXTENDS Integers, FiniteSets

CONSTANTS
    Folder,        \* folder ids, positive, assigned in insertion order
    Item,          \* the models or the skills
    Client,        \* database connections: acta_cli processes, acta_gui
    WalkLiveOnly,  \* TRUE for model_folder.c, FALSE for skill_folder.c
    ReadsFail,     \* whether a SELECT may fail (I/O, memory, a lock)
    MaxDepth       \* the cycle walk gives up there: 10000 or 4096 in the code

ASSUME FolderAssumption == Folder \subseteq Nat \ {0}
ASSUME WalkAssumption == WalkLiveOnly \in BOOLEAN /\ ReadsFail \in BOOLEAN
ASSUME MaxDepthAssumption == MaxDepth \in Nat

VARIABLES
    state,         \* of the folder rows: "none" (no row), "live", "deleted"
    parent,        \* parent_id, 0 for NULL
    item,          \* of the models or skills, likewise
    place,         \* folder_id, 0 for NULL
    call           \* what each client is in the middle of

vars == <<state, parent, item, place, call>>

RowState == {"none", "live", "deleted"}

(* blind: a SELECT of the call has failed and nobody noticed.                *)
NoCall == [step |-> "idle", what |-> 0, to |-> 0, cur |-> 0, depth |-> 0, blind |-> FALSE]

Init == /\ state  = [f \in Folder |-> "none"]
        /\ parent = [f \in Folder |-> 0]
        /\ item   = [m \in Item |-> "none"]
        /\ place  = [m \in Item |-> 0]
        /\ call   = [c \in Client |-> NoCall]

At(c, step) == call[c].step = step
Goto(c, step) == call' = [call EXCEPT ![c].step = step]
Begin(c, step, what, to, blind) ==
    call' = [call EXCEPT ![c] = [step |-> step, what |-> what, to |-> to,
                                 cur |-> 0, depth |-> 0, blind |-> blind]]
GotoBlind(c, step) == call' = [call EXCEPT ![c].step = step, ![c].blind = TRUE]
Return(c) == call' = [call EXCEPT ![c] = NoCall]

(* What the foreign keys ask of a parent: a row, live or deleted.            *)
Referable(f) == f = 0 \/ (f \in Folder /\ state[f] # "none")
LiveOrRoot(f) == f = 0 \/ (f \in Folder /\ state[f] = "live")

-----------------------------------------------------------------------------
(* Slips the properties have to catch, never used by the specification.      *)

(* The target of a move is left to the foreign key.                          *)
MoveTarget_KeyOnly(c) ==
    /\ At(c, "moveTarget")
    /\ call' = [call EXCEPT ![c].step = "walk", ![c].cur = call[c].to]
    /\ UNCHANGED <<state, parent, item, place>>

(* The walk of model_folder.c in the place of that of skill_folder.c.        *)
Visible_LiveOnly(f) == state[f] = "live"

(* The second COUNT with its deleted_at test the wrong way round.            *)
Occupied_Inverted(f) == \E m \in Item : place[m] = f /\ item[m] = "deleted"

(* The walk begins above the target.                                         *)
MoveTarget_StartsAbove(c) ==
    /\ At(c, "moveTarget")
    /\ IF state[call[c].to] = "live"
       THEN call' = [call EXCEPT ![c].step = "walk",
                                 ![c].cur = parent[call[c].to]]
       ELSE Return(c)
    /\ UNCHANGED <<state, parent, item, place>>

(* The walk of model_folder.c without its depth guard.                       *)
WalkOn_Unguarded(c) == /\ At(c, "walk")
                       /\ call[c].cur \in Folder \ {call[c].what}
                       /\ state[call[c].cur] = "live"
                       /\ call' = [call EXCEPT ![c].cur = parent[call[c].cur]]
                       /\ UNCHANGED <<state, parent, item, place>>

-----------------------------------------------------------------------------
(* Folders *)

Create(c, f, p) == /\ At(c, "idle")
                   /\ state[f] = "none"
                   /\ \A g \in Folder : state[g] = "none" => f <= g
                   /\ Referable(p)
                   /\ state'  = [state EXCEPT ![f] = "live"]
                   /\ parent' = [parent EXCEPT ![f] = p]
                   /\ UNCHANGED <<item, place, call>>

(* soft_delete: COUNT the live sub-folders, COUNT the live items, UPDATE.    *)
DeleteFolders(c, f) == /\ At(c, "idle")
                       /\ state[f] # "none"
                       /\ ~ \E g \in Folder : parent[g] = f /\ state[g] = "live"
                       /\ Begin(c, "deleteItems", f, 0, FALSE)
                       /\ UNCHANGED <<state, parent, item, place>>

(* A COUNT whose step fails leaves the count at 0.                           *)
FoldersUncounted(c, f) ==
    /\ ReadsFail /\ At(c, "idle")
    /\ state[f] # "none"
    /\ Begin(c, "deleteItems", f, 0, TRUE)
    /\ UNCHANGED <<state, parent, item, place>>

Occupied(f) == \E m \in Item : place[m] = f /\ item[m] = "live"

DeleteItems(c) == /\ At(c, "deleteItems")
                  /\ IF Occupied(call[c].what) THEN Return(c) ELSE Goto(c, "deleteRow")
                  /\ UNCHANGED <<state, parent, item, place>>

ItemsUncounted(c) == /\ ReadsFail /\ At(c, "deleteItems")
                     /\ GotoBlind(c, "deleteRow")
                     /\ UNCHANGED <<state, parent, item, place>>

DeleteRow(c) == /\ At(c, "deleteRow")
                /\ \/ /\ state[call[c].what] = "live"
                      /\ state' = [state EXCEPT ![call[c].what] = "deleted"]
                   \/ state' = state          \* no longer live, or busy
                /\ Return(c)
                /\ UNCHANGED <<parent, item, place>>

(* No look at the parent.                                                    *)
Restore(c, f) == /\ At(c, "idle")
                 /\ state[f] = "deleted"
                 /\ state' = [state EXCEPT ![f] = "live"]
                 /\ UNCHANGED <<parent, item, place, call>>

(* move_to: the source is live (model_folder.c also returns here when the
   parent is the same); the target is live; the walk from the target does not
   reach the source; UPDATE.                                                 *)
MoveSource(c, f, p) == /\ At(c, "idle")
                       /\ state[f] = "live"
                       /\ WalkLiveOnly => parent[f] # p
                       /\ Begin(c, IF p = 0 THEN "moveRow" ELSE "moveTarget", f, p, FALSE)
                       /\ UNCHANGED <<state, parent, item, place>>

MoveTarget(c) == /\ At(c, "moveTarget")
                 /\ IF state[call[c].to] = "live"
                    THEN call' = [call EXCEPT ![c].step = "walk",
                                              ![c].cur = call[c].to]
                    ELSE Return(c)
                 /\ UNCHANGED <<state, parent, item, place>>

(* Does the walk's SELECT return the row of f?                               *)
Visible(f) == IF WalkLiveOnly THEN state[f] = "live" ELSE state[f] # "none"

WalkOn(c) == /\ At(c, "walk")
             /\ call[c].depth < MaxDepth
             /\ call[c].cur \in Folder \ {call[c].what}
             /\ Visible(call[c].cur)
             /\ call' = [call EXCEPT ![c].cur = parent[call[c].cur],
                                     ![c].depth = call[c].depth + 1]
             /\ UNCHANGED <<state, parent, item, place>>

WalkFound(c) == /\ At(c, "walk")
                /\ call[c].depth < MaxDepth
                /\ call[c].cur = call[c].what
                /\ Return(c)
                /\ UNCHANGED <<state, parent, item, place>>

WalkEnd(c) == /\ At(c, "walk")
              /\ \/ call[c].depth >= MaxDepth
                 \/ call[c].cur = 0
                 \/ /\ call[c].cur \in Folder \ {call[c].what}
                    /\ ~Visible(call[c].cur)
              /\ Goto(c, "moveRow")
              /\ UNCHANGED <<state, parent, item, place>>

(* A SELECT whose step fails ends the walk like the row it does not find.    *)
WalkCut(c) == /\ ReadsFail /\ At(c, "walk")
              /\ call[c].depth < MaxDepth
              /\ call[c].cur \in Folder \ {call[c].what}
              /\ GotoBlind(c, "moveRow")
              /\ UNCHANGED <<state, parent, item, place>>

(* A statement that cannot be prepared, and a target that cannot be read, end
   the call.                                                                 *)
ReadRefused(c) == /\ ReadsFail
                  /\ \/ At(c, "deleteItems") \/ At(c, "moveTarget")
                     \/ At(c, "walk") /\ call[c].depth = 0
                  /\ Return(c)
                  /\ UNCHANGED <<state, parent, item, place>>

MoveRow(c) == /\ At(c, "moveRow")
              /\ \/ /\ state[call[c].what] = "live"
                    /\ parent' = [parent EXCEPT ![call[c].what] = call[c].to]
                 \/ parent' = parent          \* not live, duplicate name, busy
              /\ Return(c)
              /\ UNCHANGED <<state, item, place>>

-----------------------------------------------------------------------------
(* Models or skills, as far as they concern folders *)

(* create and update: the foreign key only.                                  *)
ItemWrite(c, m, f) == /\ At(c, "idle")
                      /\ item[m] # "deleted"
                      /\ Referable(f)
                      /\ item'  = [item EXCEPT ![m] = "live"]
                      /\ place' = [place EXCEPT ![m] = f]
                      /\ UNCHANGED <<state, parent, call>>

ItemDelete(c, m) == /\ At(c, "idle")
                    /\ item[m] = "live"
                    /\ item' = [item EXCEPT ![m] = "deleted"]
                    /\ UNCHANGED <<state, parent, place, call>>

ItemRestore(c, m) == /\ At(c, "idle")
                     /\ item[m] = "deleted"
                     /\ item' = [item EXCEPT ![m] = "live"]
                     /\ UNCHANGED <<state, parent, place, call>>

(* move_to_folder: the folder is live, then UPDATE.                          *)
ItemTarget(c, m, f) == /\ At(c, "idle")
                       /\ item[m] # "none"
                       /\ LiveOrRoot(f)
                       /\ Begin(c, "itemRow", m, f, FALSE)
                       /\ UNCHANGED <<state, parent, item, place>>

ItemRow(c) == /\ At(c, "itemRow")
              /\ \/ /\ item[call[c].what] = "live"
                    /\ place' = [place EXCEPT ![call[c].what] = call[c].to]
                 \/ place' = place            \* not live, duplicate name, busy
              /\ Return(c)
              /\ UNCHANGED <<state, parent, item>>

-----------------------------------------------------------------------------
(* The next statement of a call that has begun.                              *)
Continue(c) == \/ DeleteItems(c) \/ ItemsUncounted(c) \/ DeleteRow(c)
               \/ MoveTarget(c) \/ WalkOn(c) \/ WalkFound(c) \/ WalkEnd(c) \/ WalkCut(c)
               \/ MoveRow(c) \/ ReadRefused(c) \/ ItemRow(c)

(* A client begins a call.                                                   *)
Invoke(c) == \/ \E f \in Folder : \/ DeleteFolders(c, f) \/ FoldersUncounted(c, f)
                                  \/ Restore(c, f)
                                  \/ \E p \in Folder \cup {0} : \/ Create(c, f, p)
                                                                \/ MoveSource(c, f, p)
             \/ \E m \in Item : \/ ItemDelete(c, m)
                                \/ ItemRestore(c, m)
                                \/ \E f \in Folder \cup {0} : \/ ItemWrite(c, m, f)
                                                              \/ ItemTarget(c, m, f)

Next == \E c \in Client : Continue(c) \/ Invoke(c)

Spec == Init /\ [][Next]_vars

(* A call that has begun goes on: it waits for nobody but the database.      *)
FairSpec == Spec /\ \A c \in Client : WF_vars(Continue(c))

-----------------------------------------------------------------------------
(* Properties *)

(* What the checks of several statements rely on: one client at a time.      *)
Alone == \A c, d \in Client : c = d

Call == [step : {"idle", "deleteItems", "deleteRow", "moveTarget", "walk",
                 "moveRow", "itemRow"},
         what : Folder \cup Item \cup {0}, to : Folder \cup {0},
         cur : Folder \cup {0}, depth : 0..MaxDepth, blind : BOOLEAN]

(* Every variable has its type; a row that is not there has no parent, and a
   parent is always a row.                                                   *)
TypeOK == /\ state \in [Folder -> RowState]
          /\ parent \in [Folder -> Folder \cup {0}]
          /\ item \in [Item -> RowState]
          /\ place \in [Item -> Folder \cup {0}]
          /\ call \in [Client -> Call]
          /\ \A f \in Folder : Referable(parent[f])
          /\ \A f \in Folder : state[f] = "none" => parent[f] = 0

(* Some of these folders form a cycle.                                       *)
Cycle(folders) == \E S \in SUBSET folders : S # {} /\ \A f \in S : parent[f] \in S

LiveFolders == {f \in Folder : state[f] = "live"}

(* acta_db/include/model_folder.h:96, skill_folder.h: "new_parent_id is a
   descendant of folder_id (cycle)" is refused: the folders always form a
   forest, those in the trash included, whatever is deleted, restored and
   moved in whatever order.  Only true of skill_folder.c, with one client,
   and as long as reads succeed.                                             *)
Acyclic == ~Cycle(Folder)

Blind(c, step) == At(c, step) /\ call[c].blind

(* With the walk of either file, and one client, no move makes a cycle among
   live folders, which acta_gui would not show at all: only a restore can,
   and a move whose walk was cut by a read that failed.                      *)
OnlyRestoreClosesLiveCycle ==
    [][Cycle(LiveFolders)' =>
          \/ Cycle(LiveFolders)
          \/ \E f \in Folder : state[f] = "deleted" /\ state'[f] = "live"
          \/ \E c \in Client : Blind(c, "moveRow")]_vars

(* "live children (of any kind)" keep a folder from being deleted
   (model_folder.h:62): nobody's folder or model disappears with it from the
   trees acta_gui shows, unless a COUNT has failed.  With one client.        *)
DeleteLeavesNothingBehind ==
    [][\A f \in Folder : state[f] = "live" /\ state'[f] = "deleted" =>
          \/ \E c \in Client : Blind(c, "deleteRow")
          \/ /\ \A g \in Folder : parent[g] = f => state[g] # "live"
             /\ \A m \in Item : place[m] = f => item[m] # "live"]_vars

(* As long as reads succeed, the statements of one client's call are as good
   as one: what it found at its first is still so at its last, and the walk
   misses no target within the folder that moves, not even in a tree where
   restores have closed a cycle.                                             *)
Calls == INSTANCE FolderCalls
CallsAreAtomic == Calls!Spec

(* Every call returns, moves inside "corrupted circular data"
   (model_folder.c:282) included.                                            *)
CallsReturn == \A c \in Client : ~At(c, "idle") ~> At(c, "idle")
=============================================================================

---------------------------- MODULE FolderCalls ----------------------------
(***************************************************************************)
(* What the folder calls of acta_db promise their callers (model_folder.h, *)
(* skill_folder.h, model.h, skill.h): each call is one step, which either  *)
(* happens as a whole or leaves every row as it was.  A folder is deleted  *)
(* only when nothing live is in it, and moved only to a live folder that   *)
(* is not itself or below it, as far as the call can see.                  *)
(***************************************************************************)
CONSTANTS
    Folder,        \* folder ids
    Item,          \* the models or the skills
    WalkLiveOnly   \* whether a deleted folder hides what is above it

VARIABLES
    state,         \* of the folder rows: "none" (no row), "live", "deleted"
    parent,        \* parent_id, 0 for NULL
    item,          \* of the models or skills, likewise
    place          \* folder_id, 0 for NULL

rows == <<state, parent, item, place>>

Init == /\ state  = [f \in Folder |-> "none"]
        /\ parent = [f \in Folder |-> 0]
        /\ item   = [m \in Item |-> "none"]
        /\ place  = [m \in Item |-> 0]

Exists(f) == f = 0 \/ (f \in Folder /\ state[f] # "none")
Lives(f) == f = 0 \/ (f \in Folder /\ state[f] = "live")

Seen == {f \in Folder : IF WalkLiveOnly THEN state[f] = "live" ELSE state[f] # "none"}

(* p is f, or f is above p: who has p, and with a folder the one above it,
   has f.                                                                    *)
Within(p, f) == \A V \in SUBSET Seen :
                   p \in V /\ (\A x \in V : parent[x] \in V \/ parent[x] \notin Seen)
                   => f \in V

Empty(f) == /\ \A g \in Folder : parent[g] = f => state[g] # "live"
            /\ \A m \in Item : place[m] = f => item[m] # "live"

Create(f, p) == /\ state[f] = "none" /\ Exists(p)
                /\ state' = [state EXCEPT ![f] = "live"]
                /\ parent' = [parent EXCEPT ![f] = p]
                /\ UNCHANGED <<item, place>>

Delete(f) == /\ state[f] = "live" /\ Empty(f)
             /\ state' = [state EXCEPT ![f] = "deleted"]
             /\ UNCHANGED <<parent, item, place>>

Restore(f) == /\ state[f] = "deleted"
              /\ state' = [state EXCEPT ![f] = "live"]
              /\ UNCHANGED <<parent, item, place>>

Move(f, p) == /\ state[f] = "live" /\ Lives(p)
              /\ p # 0 => ~Within(p, f)
              /\ parent' = [parent EXCEPT ![f] = p]
              /\ UNCHANGED <<state, item, place>>

(* create and update of a model or skill, and move_to_folder, which asks more. *)
Write(m, f) == /\ item[m] # "deleted" /\ Exists(f)
               /\ item' = [item EXCEPT ![m] = "live"]
               /\ place' = [place EXCEPT ![m] = f]
               /\ UNCHANGED <<state, parent>>

Switch(m, from, to) == /\ item[m] = from
                       /\ item' = [item EXCEPT ![m] = to]
                       /\ UNCHANGED <<state, parent, place>>

Next == \/ \E f \in Folder : \/ Delete(f) \/ Restore(f)
                             \/ \E p \in Folder \cup {0} : Create(f, p) \/ Move(f, p)
        \/ \E m \in Item : \/ Switch(m, "live", "deleted") \/ Switch(m, "deleted", "live")
                           \/ \E f \in Folder \cup {0} : Write(m, f)

Spec == Init /\ [][Next]_rows
=============================================================================

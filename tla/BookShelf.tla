------------------------------ MODULE BookShelf ------------------------------
(***************************************************************************)
(* What creating and deleting books promises, whatever fails on the way: a *)
(* book is absent, being built or imported, or ready; it is given one      *)
(* runtime project, once; a ready book stays ready, with that project,     *)
(* until it is deleted.  Only an import may be given up.                   *)
(***************************************************************************)
CONSTANTS Books, Projects, None

VARIABLES stage, project

shelfVars == <<stage, project>>

InTheMaking == {"building", "importing"}

Init ==
    /\ stage = [b \in Books |-> "absent"]
    /\ project = [b \in Books |-> None]

Reserve(b) ==
    /\ stage[b] = "absent"
    /\ \E s \in InTheMaking : stage' = [stage EXCEPT ![b] = s]
    /\ UNCHANGED project

Assign(b) ==
    /\ stage[b] \in InTheMaking /\ project[b] = None
    /\ \E p \in Projects \ {project[c] : c \in Books} :
          project' = [project EXCEPT ![b] = p]
    /\ UNCHANGED stage

Finish(b) ==
    /\ stage[b] \in InTheMaking /\ project[b] # None
    /\ stage' = [stage EXCEPT ![b] = "ready"]
    /\ UNCHANGED project

Remove(b) ==
    /\ stage[b] \in {"ready", "importing"}
    /\ stage' = [stage EXCEPT ![b] = "absent"]
    /\ project' = [project EXCEPT ![b] = None]

Next == \E b \in Books : Reserve(b) \/ Assign(b) \/ Finish(b) \/ Remove(b)

Spec == Init /\ [][Next]_shelfVars
=============================================================================

---------------------------- MODULE RecipeStore ----------------------------
(***************************************************************************)
(* The file of a book's workflow recipes (workflow-store.ts) and the two   *)
(* that edit it: the author's workflow pages, where a canvas holds a       *)
(* working copy of the selected recipe (WorkflowTimelinePanel.tsx,         *)
(* WorkflowRecipeEditor.tsx), and the narrator's edit_recipe tool          *)
(* (workflow-recipe-tools.ts), which only touches drafts.  A save reads    *)
(* the whole file, compares the recipe's revision with the one the caller  *)
(* names, and writes the whole file back after an await; nothing is locked *)
(* in between.  A recipe's content is the set of edits made to it.         *)
(*                                                                         *)
(* Three constants admit the situations in which the revision check does   *)
(* not protect an edit, so that each can be looked at by itself.           *)
(***************************************************************************)
EXTENDS Naturals, FiniteSets

CONSTANTS
    Ids,                 \* recipe ids
    NoId,                \* nothing selected
    Pages,               \* workflow pages the author has open
    Tools,               \* edit_recipe calls the narrator may have in flight
    MaxEdits,            \* bound: edits in all
    MaxRevision,         \* bound: saves of one recipe
    OverlappingSaves,    \* a save may read while another is about to write
    ReloadWhileDirty,    \* the page may reload under unsaved changes
    ReusedIds            \* a deleted recipe's id may be given to a new one

ASSUME RecipeStoreAssumption ==
    /\ NoId \notin Ids
    /\ Pages \cap Tools = {}
    /\ MaxEdits \in Nat /\ MaxRevision \in Nat
    /\ {OverlappingSaves, ReloadWhileDirty, ReusedIds} \subseteq BOOLEAN

VARIABLES
    file,      \* id |-> [revision, status, edits], the stored list
    recipes,   \* page |-> the list it last loaded, and its unsaved new recipes
    selected,  \* page |-> id of the recipe on its canvas
    working,   \* page |-> edits of the canvas's working copy
    dirty,     \* page |-> the working copy has unsaved changes
    call,      \* caller |-> the request it has in flight
    edits,     \* edits made so far
    saved,     \* <<id, edit>> a caller was told is saved
    retired    \* ids of deleted recipes

canvas == <<recipes, selected, working, dirty>>
vars   == <<file, canvas, call, edits, saved, retired>>

Callers == Pages \cup Tools
Stored  == [revision : Nat, status : {"draft", "published"}, edits : SUBSET (1..MaxEdits)]
Idle    == [at |-> "idle"]

IsList(f) == DOMAIN f \subseteq Ids /\ \A id \in DOMAIN f : f[id] \in Stored

\* The stored list is never empty; a request is about to read ("save",
\* "delete") or about to replace the file with what it computed ("write").
TypeOK ==
    /\ IsList(file) /\ DOMAIN file # {}
    /\ \A p \in Pages : /\ IsList(recipes[p])
                        /\ selected[p] \in DOMAIN recipes[p] \cup {NoId}
                        /\ working[p] \subseteq 1..MaxEdits
                        /\ dirty[p] \in BOOLEAN
    /\ \A c \in Callers : /\ call[c].at \in {"idle", "save", "delete", "write"}
                          /\ call[c].at = "write" => IsList(call[c].file)
    /\ edits \in 0..MaxEdits

Put(f, id, x)   == [i \in DOMAIN f \cup {id} |-> IF i = id THEN x ELSE f[i]]
Without(f, D)   == [i \in DOMAIN f \ D |-> f[i]]
Revision(f, id) == IF id \in DOMAIN f THEN f[id].revision ELSE 0
FirstOf(f)      == IF DOMAIN f = {} THEN NoId ELSE CHOOSE id \in DOMAIN f : TRUE

\* The page shows list f with recipe id selected.  The editor keeps a dirty
\* working copy of the same recipe and otherwise takes over what f holds.
Show(p, f, id, keep) ==
    LET same == keep /\ dirty[p] /\ id = selected[p] /\ Revision(f, id) # 0
    IN  /\ recipes'  = [recipes EXCEPT ![p] = f]
        /\ selected' = [selected EXCEPT ![p] = id]
        /\ working'  = [working EXCEPT ![p] = IF same THEN @
                                              ELSE IF id = NoId THEN {} ELSE f[id].edits]
        /\ dirty'    = [dirty EXCEPT ![p] = same \/ (id # NoId /\ Revision(f, id) = 0)]

\* The editor waits for its own request; selecting another recipe opens
\* another editor.  (A page with two requests is two pages to the store.)
busy(p) == call[p] # Idle /\ call[p].id = selected[p]

----------------------------------------------------------------------------

Init ==
    /\ \E D \in (SUBSET Ids) \ {{}} : \E status \in [D -> {"draft", "published"}] :
          file = [id \in D |-> [revision |-> 1, status |-> status[id], edits |-> {}]]
    /\ recipes  = [p \in Pages |-> file]
    /\ selected = [p \in Pages |-> FirstOf(file)]
    /\ working  = [p \in Pages |-> {}]
    /\ dirty    = [p \in Pages |-> FALSE]
    /\ call     = [c \in Callers |-> Idle]
    /\ edits    = 0
    /\ saved    = {}
    /\ retired  = {}

\* The refresh button is locked while the canvas is dirty; a failed start of
\* a run and a change of narrator reload all the same.
Load(p) ==
    /\ ReloadWhileDirty \/ ~ dirty[p]
    /\ Show(p, file, IF selected[p] \in DOMAIN file THEN selected[p] ELSE FirstOf(file), TRUE)
    /\ UNCHANGED <<file, call, edits, saved, retired>>

\* A load that fails takes the list, and the canvas with it, off the page.
LoadFails(p) ==
    /\ ReloadWhileDirty \/ ~ dirty[p]
    /\ Show(p, Without(recipes[p], DOMAIN recipes[p]), NoId, FALSE)
    /\ UNCHANGED <<file, call, edits, saved, retired>>

SelectRecipe(p, id) ==
    /\ ~ dirty[p]
    /\ id \in DOMAIN recipes[p]
    /\ Show(p, recipes[p], id, FALSE)
    /\ UNCHANGED <<file, call, edits, saved, retired>>

\* A new recipe stays on the page, at revision 0, until it is saved.
handleCreate(p, id) ==
    /\ ~ dirty[p] /\ ~ busy(p)
    /\ id \notin DOMAIN recipes[p]
    /\ Show(p, Put(recipes[p], id, [revision |-> 0, status |-> "draft", edits |-> {}]), id, FALSE)
    /\ UNCHANGED <<file, call, edits, saved, retired>>

EditCanvas(p) ==
    /\ selected[p] # NoId
    /\ edits < MaxEdits
    /\ edits'   = edits + 1
    /\ working' = [working EXCEPT ![p] = @ \cup {edits + 1}]
    /\ dirty'   = [dirty EXCEPT ![p] = TRUE]
    /\ UNCHANGED <<file, recipes, selected, call, saved, retired>>

\* Gives up the unsaved changes; an unsaved new recipe goes altogether.
discard(p) ==
    LET id == selected[p]
        f  == IF Revision(recipes[p], id) = 0 THEN Without(recipes[p], {id}) ELSE recipes[p]
    IN  /\ dirty[p]
        /\ call[p] = Idle
        /\ Show(p, f, IF id \in DOMAIN f THEN id ELSE FirstOf(f), FALSE)
        /\ UNCHANGED <<file, call, edits, saved, retired>>

\* The canvas sends its working copy with the revision of the list it last
\* loaded.
save(p, status) ==
    LET id == selected[p]
    IN  /\ call[p] = Idle
        /\ id # NoId
        /\ dirty[p] \/ status # recipes[p][id].status
        /\ call' = [call EXCEPT ![p] =
                       [at |-> "save", id |-> id, expected |-> recipes[p][id].revision,
                        status |-> status, edits |-> working[p]]]
        /\ UNCHANGED <<file, canvas, edits, saved, retired>>

remove(p) ==
    LET id == selected[p]
    IN  /\ call[p] = Idle
        /\ Revision(recipes[p], id) # 0
        /\ call' = [call EXCEPT ![p] = [at |-> "delete", id |-> id,
                                        expected |-> recipes[p][id].revision]]
        /\ UNCHANGED <<file, canvas, edits, saved, retired>>

\* Slip: published recipes are not looked out for.
editRecipe_AnyStatus(t, id) ==
    /\ call[t] = Idle
    /\ edits < MaxEdits
    /\ edits' = edits + 1
    /\ call' = [call EXCEPT ![t] =
                   [at |-> "save", id |-> id, expected |-> Revision(file, id), status |-> "draft",
                    edits |-> {edits + 1} \cup IF id \in DOMAIN file THEN file[id].edits ELSE {}]]
    /\ UNCHANGED <<file, canvas, saved, retired>>

\* edit_recipe reads the list: it changes a draft, or starts a recipe under
\* an id that is not taken.
editRecipe(t, id) ==
    /\ call[t] = Idle
    /\ edits < MaxEdits
    /\ id \in DOMAIN file => file[id].status = "draft"
    /\ edits' = edits + 1
    /\ call' = [call EXCEPT ![t] =
                   [at |-> "save", id |-> id, expected |-> Revision(file, id), status |-> "draft",
                    edits |-> {edits + 1} \cup IF id \in DOMAIN file THEN file[id].edits ELSE {}]]
    /\ UNCHANGED <<file, canvas, saved, retired>>

\* Slip: the caller's revision is not compared with the file's.
saveWorkflowRecipe_NoCheck(q) ==
    [at |-> "write", id |-> q.id,
     file |-> Put(file, q.id, [revision |-> Revision(file, q.id) + 1, status |-> q.status,
                               edits |-> q.edits])]

\* The request's own read: what it will write, or Idle when it is refused.
saveWorkflowRecipe(q) ==
    IF q.expected = Revision(file, q.id)
    THEN [at |-> "write", id |-> q.id,
          file |-> Put(file, q.id, [revision |-> q.expected + 1, status |-> q.status,
                                    edits |-> q.edits])]
    ELSE Idle

\* Slip: the last recipe may go.
deleteWorkflowRecipe_Last(q) ==
    IF q.id \in DOMAIN file /\ q.expected = Revision(file, q.id)
    THEN [at |-> "write", id |-> q.id, file |-> Without(file, {q.id})]
    ELSE Idle

deleteWorkflowRecipe(q) ==
    IF q.id \in DOMAIN file /\ q.expected = Revision(file, q.id) /\ Cardinality(DOMAIN file) # 1
    THEN [at |-> "write", id |-> q.id, file |-> Without(file, {q.id})]
    ELSE Idle

ReadAndCheck(c) ==
    /\ call[c].at \in {"save", "delete"}
    /\ OverlappingSaves \/ \A d \in Callers : call[d].at # "write"
    /\ Revision(file, call[c].id) < MaxRevision
    /\ ReusedIds \/ call[c].expected # 0 \/ call[c].id \notin retired
    /\ call' = [call EXCEPT ![c] = IF @.at = "save" THEN saveWorkflowRecipe(@)
                                   ELSE deleteWorkflowRecipe(@)]
    /\ UNCHANGED <<file, canvas, edits, saved, retired>>

\* The list replaces the file and the caller learns of it.  The canvas is
\* then clean and shows what was saved, or moves on from what was deleted.
writeRecipesFile(c) ==
    LET id   == call[c].id
        next == call[c].file
    IN  /\ call[c].at = "write"
        /\ file' = next
        /\ call' = [call EXCEPT ![c] = Idle]
        /\ IF id \in DOMAIN next
           THEN /\ saved' = saved \cup {<<id, e>> : e \in next[id].edits}
                /\ UNCHANGED retired
           ELSE /\ saved' = {x \in saved : x[1] # id}
                /\ retired' = retired \cup {id}
        /\ IF c \in Tools THEN UNCHANGED canvas
           ELSE IF id \in DOMAIN next
           THEN LET f == IF id \in DOMAIN recipes[c] THEN Put(recipes[c], id, next[id])
                         ELSE recipes[c]
                IN  Show(c, f, selected[c], selected[c] # id)
           ELSE LET f == Without(recipes[c], {id}) IN Show(c, f, FirstOf(f), FALSE)
        /\ UNCHANGED edits

Next ==
    \/ \E p \in Pages :
          \/ Load(p)
          \/ LoadFails(p)
          \/ \E id \in Ids : SelectRecipe(p, id) \/ handleCreate(p, id)
          \/ EditCanvas(p)
          \/ discard(p)
          \/ \E status \in {"draft", "published"} : save(p, status)
          \/ remove(p)
    \/ \E t \in Tools, id \in Ids : editRecipe(t, id)
    \/ \E c \in Callers : ReadAndCheck(c) \/ writeRecipesFile(c)

Spec == Init /\ [][Next]_vars

----------------------------------------------------------------------------
(* Properties. *)

\* "The later one gets a conflict": an edit its maker was told is saved
\* stays in the recipe until the recipe is deleted, whoever saves next.
NoSavedEditLost ==
    \A x \in saved : x[1] \in DOMAIN file /\ x[2] \in file[x[1]].edits

\* The narrator never alters what the author has published, although it
\* decides that from a list it read before the author's last save.
NarratorLeavesPublishedAlone ==
    [][\A t \in Tools : writeRecipesFile(t) =>
          \A id \in DOMAIN file : file[id].status = "published" =>
              id \in DOMAIN file' /\ file'[id] = file[id]]_vars
============================================================================

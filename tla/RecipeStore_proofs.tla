------------------------- MODULE RecipeStore_proofs -------------------------
(***************************************************************************)
(* Safety of the recipe file, for any number of recipes, pages and         *)
(* narrator's calls.  Well-formedness holds whatever overlaps.  That no    *)
(* saved edit is lost, and no published recipe altered by the narrator,    *)
(* needs saves that do not overlap and ids that are not used again: then a *)
(* list read earlier that has the file's revision of a recipe has the      *)
(* recipe as the file has it, and a list about to be written differs from  *)
(* the file in the caller's own recipe only.                               *)
(***************************************************************************)
EXTENDS RecipeStore, FiniteSetTheorems, TLAPS

USE DEF Callers

----------------------------------------------------------------------------
(* Lists of recipes. *)

\* Replacing, adding or dropping a recipe leaves a well-formed list.
LEMMA PutList ==
    ASSUME NEW f, IsList(f), NEW id, NEW x, id \in Ids, x \in Stored
    PROVE  IsList(Put(f, id, x))
  BY DEF IsList, Put

\* A list without some of its recipes keeps the others as they are.
LEMMA WithoutList ==
    ASSUME NEW f, IsList(f), NEW D
    PROVE  /\ IsList(Without(f, D))
           /\ DOMAIN Without(f, D) = DOMAIN f \ D
           /\ \A i \in DOMAIN f \ D : Without(f, D)[i] = f[i]
  BY DEF IsList, Without

\* The first recipe of a list is one of the list, if there is any.
LEMMA FirstOfList ==
    ASSUME NEW f
    PROVE  FirstOf(f) \in DOMAIN f \cup {NoId}
  BY DEF FirstOf

\* The revision a list names for an id is a number, zero if it has none.
LEMMA RevisionType ==
    ASSUME NEW f, IsList(f), NEW id
    PROVE  Revision(f, id) \in Nat
  BY DEF Revision, IsList, Stored

----------------------------------------------------------------------------
(* Types. *)

RequestOK(q) ==
    /\ q.at \in {"idle", "save", "delete", "write"}
    /\ q.at # "idle" => q.id \in Ids
    /\ q.at \in {"save", "delete"} => q.expected \in Nat
    /\ q.at = "save" => q.status \in {"draft", "published"} /\ q.edits \subseteq 1..MaxEdits
    /\ q.at = "write" => IsList(q.file) /\ DOMAIN q.file # {}

PageOK(p) ==
    /\ IsList(recipes[p])
    /\ selected[p] \in DOMAIN recipes[p] \cup {NoId}
    /\ working[p] \subseteq 1..MaxEdits
    /\ dirty[p] \in BOOLEAN

Shapes ==
    /\ recipes  = [p \in Pages |-> recipes[p]]
    /\ selected = [p \in Pages |-> selected[p]]
    /\ working  = [p \in Pages |-> working[p]]
    /\ dirty    = [p \in Pages |-> dirty[p]]
    /\ call     = [c \in Callers |-> call[c]]

TypeInv ==
    /\ Shapes
    /\ IsList(file) /\ DOMAIN file # {}
    /\ \A p \in Pages : PageOK(p)
    /\ \A c \in Callers : RequestOK(call[c])
    /\ edits \in 0..MaxEdits

\* What Show does to the page and to no other; its working copy stays only
\* when the editor keeps the dirty one it has.
LEMMA ShowPage ==
    ASSUME Shapes, NEW p \in Pages, NEW f, NEW id, NEW keep, Show(p, f, id, keep)
    PROVE  /\ recipes'  = [q \in Pages |-> recipes'[q]]
           /\ selected' = [q \in Pages |-> selected'[q]]
           /\ working'  = [q \in Pages |-> working'[q]]
           /\ dirty'    = [q \in Pages |-> dirty'[q]]
           /\ \A q \in Pages : q # p =>
                 /\ recipes'[q] = recipes[q] /\ selected'[q] = selected[q]
                 /\ working'[q] = working[q] /\ dirty'[q] = dirty[q]
           /\ recipes'[p] = f /\ selected'[p] = id /\ dirty'[p] \in BOOLEAN
           /\ \/ /\ keep /\ dirty[p] /\ id = selected[p]
                 /\ working'[p] = working[p]
              \/ working'[p] = IF id = NoId THEN {} ELSE f[id].edits
  <1> DEFINE same == keep /\ dirty[p] /\ id = selected[p] /\ Revision(f, id) # 0
  <1>1. /\ recipes'  = [recipes EXCEPT ![p] = f]
        /\ selected' = [selected EXCEPT ![p] = id]
        /\ working'  = [working EXCEPT ![p] = IF same THEN working[p]
                                              ELSE IF id = NoId THEN {} ELSE f[id].edits]
        /\ dirty'    = [dirty EXCEPT ![p] = same \/ (id # NoId /\ Revision(f, id) = 0)]
    BY DEF Show
  <1>2. same => keep /\ dirty[p] /\ id = selected[p]
    OBVIOUS
  <1>3. (same \/ (id # NoId /\ Revision(f, id) = 0)) \in BOOLEAN
    OBVIOUS
  <1> HIDE DEF same
  <1> QED
    BY <1>1, <1>2, <1>3 DEF Shapes

\* A page that shows a well-formed list stays well-formed, and so do the others.
LEMMA ShowType ==
    ASSUME TypeInv, NEW p \in Pages, NEW f, IsList(f), NEW id \in DOMAIN f \cup {NoId},
           NEW keep, Show(p, f, id, keep)
    PROVE  /\ \A q \in Pages : PageOK(q)'
           /\ recipes'  = [q \in Pages |-> recipes'[q]]
           /\ selected' = [q \in Pages |-> selected'[q]]
           /\ working'  = [q \in Pages |-> working'[q]]
           /\ dirty'    = [q \in Pages |-> dirty'[q]]
  <1>1. Shapes /\ \A q \in Pages : PageOK(q)
    BY DEF TypeInv
  <1>2. id # NoId => f[id].edits \subseteq 1..MaxEdits
    BY DEF IsList, Stored
  <1>3. \A q \in Pages : PageOK(q)'
    BY <1>1, <1>2, ShowPage DEF PageOK
  <1> QED
    BY <1>1, <1>3, ShowPage

\* A request in flight is replaced by another well-formed one.
LEMMA CallType ==
    ASSUME TypeInv, NEW c \in Callers, NEW q, RequestOK(q), call' = [call EXCEPT ![c] = q]
    PROVE  /\ call' = [d \in Callers |-> call'[d]] /\ call'[c] = q
           /\ \A d \in Callers : d # c => call'[d] = call[d]
           /\ \A d \in Callers : RequestOK(call'[d])
  BY DEF TypeInv, Shapes

\* At first nothing is stored and no tab is open.
LEMMA InitTypes == Init => TypeInv
  <1> SUFFICES ASSUME Init PROVE TypeInv
    OBVIOUS
  <1>1. IsList(file) /\ DOMAIN file # {}
    BY DEF Init, IsList, Stored
  <1>2. FirstOf(file) \in DOMAIN file \cup {NoId}
    BY FirstOfList
  <1>3. \A p \in Pages : PageOK(p)
    BY <1>1, <1>2 DEF Init, PageOK
  <1>4. edits \in 0..MaxEdits
    BY RecipeStoreAssumption DEF Init
  <1> QED
    BY <1>1, <1>3, <1>4 DEF Init, TypeInv, Shapes, RequestOK, Idle

\* What a request is about to write: a well-formed list that is not empty.
LEMMA CheckedRequest ==
    ASSUME IsList(file), DOMAIN file # {}, NEW q, RequestOK(q)
    PROVE  /\ q.at = "save" => RequestOK(saveWorkflowRecipe(q))
           /\ q.at = "delete" => RequestOK(deleteWorkflowRecipe(q))
  <1>1. RequestOK(Idle)
    BY DEF RequestOK, Idle
  <1>2. ASSUME q.at = "save"
        PROVE  RequestOK(saveWorkflowRecipe(q))
    <2> DEFINE x == [revision |-> q.expected + 1, status |-> q.status, edits |-> q.edits]
               w == [at |-> "write", id |-> q.id, file |-> Put(file, q.id, x)]
    <2>1. q.id \in Ids /\ x \in Stored
      BY <1>2 DEF RequestOK, Stored
    <2> HIDE DEF x
    <2>2. IsList(Put(file, q.id, x)) /\ DOMAIN Put(file, q.id, x) # {}
      <3>1. IsList(Put(file, q.id, x))
        BY <2>1, PutList
      <3>2. DOMAIN Put(file, q.id, x) = DOMAIN file \cup {q.id}
        BY DEF Put
      <3> QED
        BY <3>1, <3>2
    <2>3. RequestOK(w)
      BY <2>1, <2>2 DEF RequestOK
    <2> QED
      BY <1>1, <2>3 DEF saveWorkflowRecipe, x
  <1>3. ASSUME q.at = "delete"
        PROVE  RequestOK(deleteWorkflowRecipe(q))
    <2> DEFINE w == [at |-> "write", id |-> q.id, file |-> Without(file, {q.id})]
    <2>1. CASE q.id \in DOMAIN file /\ q.expected = Revision(file, q.id)
               /\ Cardinality(DOMAIN file) # 1
      <3>1. DOMAIN file \ {q.id} # {}
        <4>1. SUFFICES ASSUME DOMAIN file = {q.id} PROVE FALSE
          BY <2>1
        <4> QED
          BY <2>1, <4>1, FS_Singleton
      <3>2. RequestOK(w)
        BY <1>3, <3>1, WithoutList DEF RequestOK
      <3> QED
        BY <2>1, <3>2 DEF deleteWorkflowRecipe
    <2>2. CASE ~ (q.id \in DOMAIN file /\ q.expected = Revision(file, q.id)
                  /\ Cardinality(DOMAIN file) # 1)
      BY <1>1, <2>2 DEF deleteWorkflowRecipe
    <2> QED
      BY <2>1, <2>2
  <1> QED
    BY <1>2, <1>3

\* Every action of pages, narrator and server leaves well-formed values.
LEMMA NextTypes == TypeInv /\ [Next]_vars => TypeInv'
  <1> SUFFICES ASSUME TypeInv, [Next]_vars PROVE TypeInv'
    OBVIOUS
  <1>1. /\ Shapes /\ IsList(file) /\ DOMAIN file # {} /\ edits \in Nat /\ NoId \notin Ids
        /\ \A p \in Pages : PageOK(p)
        /\ \A c \in Callers : RequestOK(call[c])
    BY RecipeStoreAssumption DEF TypeInv
  <1>2. ASSUME NEW p \in Pages, NEW f, IsList(f), NEW id \in DOMAIN f \cup {NoId}, NEW keep,
               Show(p, f, id, keep), UNCHANGED <<file, call, edits>>
        PROVE  TypeInv'
    <2>1. /\ \A q \in Pages : PageOK(q)'
          /\ recipes'  = [q \in Pages |-> recipes'[q]]
          /\ selected' = [q \in Pages |-> selected'[q]]
          /\ working'  = [q \in Pages |-> working'[q]]
          /\ dirty'    = [q \in Pages |-> dirty'[q]]
      BY <1>2, ShowType
    <2> QED
      BY <1>1, <1>2, <2>1 DEF TypeInv, Shapes, IsList, RequestOK
  <1>3. ASSUME NEW c \in Callers, NEW q, RequestOK(q), call' = [call EXCEPT ![c] = q],
               UNCHANGED <<file, canvas>>, edits' \in 0..MaxEdits
        PROVE  TypeInv'
    <2>1. /\ call' = [d \in Callers |-> call'[d]]
          /\ \A d \in Callers : RequestOK(call'[d])
      BY <1>3, CallType
    <2>2. \A d \in Callers : RequestOK(call[d])'
      BY <2>1 DEF RequestOK, IsList
    <2> QED
      BY <1>1, <1>3, <2>1, <2>2 DEF TypeInv, Shapes, PageOK, IsList, canvas
  <1>4. ASSUME NEW p \in Pages, Load(p)
        PROVE  TypeInv'
    BY <1>1, <1>2, <1>4, FirstOfList DEF Load
  <1>5. ASSUME NEW p \in Pages, LoadFails(p)
        PROVE  TypeInv'
    BY <1>1, <1>2, <1>5, WithoutList DEF LoadFails, PageOK
  <1>6. ASSUME NEW p \in Pages, NEW id \in Ids, SelectRecipe(p, id)
        PROVE  TypeInv'
    BY <1>1, <1>2, <1>6 DEF SelectRecipe, PageOK
  <1>7. ASSUME NEW p \in Pages, NEW id \in Ids, handleCreate(p, id)
        PROVE  TypeInv'
    <2> DEFINE f == Put(recipes[p], id, [revision |-> 0, status |-> "draft", edits |-> {}])
    <2>1. IsList(f) /\ id \in DOMAIN f
      <3>1. IsList(f)
        BY <1>1, PutList DEF PageOK, Stored
      <3>2. id \in DOMAIN f
        BY DEF Put
      <3> QED
        BY <3>1, <3>2
    <2> HIDE DEF f
    <2>2. Show(p, f, id, FALSE) /\ UNCHANGED <<file, call, edits>>
      BY <1>7 DEF handleCreate, f
    <2> QED
      BY <1>2, <2>1, <2>2
  <1>8. ASSUME NEW p \in Pages, EditCanvas(p)
        PROVE  TypeInv'
    <2>1. edits + 1 \in 1..MaxEdits /\ edits' \in 0..MaxEdits
      BY <1>1, <1>8, RecipeStoreAssumption DEF EditCanvas
    <2>2. \A q \in Pages : PageOK(q)'
      BY <1>1, <1>8, <2>1 DEF EditCanvas, PageOK, Shapes
    <2> QED
      BY <1>1, <1>8, <2>1, <2>2 DEF EditCanvas, TypeInv, Shapes, IsList, RequestOK
  <1>9. ASSUME NEW p \in Pages, discard(p)
        PROVE  TypeInv'
    <2> DEFINE sel == selected[p]
               f  == IF Revision(recipes[p], sel) = 0 THEN Without(recipes[p], {sel}) ELSE recipes[p]
               id == IF sel \in DOMAIN f THEN sel ELSE FirstOf(f)
    <2>1. IsList(f)
      BY <1>1, WithoutList DEF PageOK
    <2>2. Show(p, f, id, FALSE) /\ UNCHANGED <<file, call, edits>>
      BY <1>9 DEF discard
    <2> HIDE DEF f
    <2>3. id \in DOMAIN f \cup {NoId}
      BY FirstOfList
    <2> HIDE DEF id
    <2> QED
      BY <1>2, <2>1, <2>2, <2>3
  <1>10. ASSUME NEW p \in Pages, NEW status \in {"draft", "published"}, save(p, status)
         PROVE  TypeInv'
    <2> DEFINE q == [at |-> "save", id |-> selected[p],
                     expected |-> recipes[p][selected[p]].revision,
                     status |-> status, edits |-> working[p]]
    <2>1. selected[p] \in Ids /\ recipes[p][selected[p]] \in Stored
      BY <1>1, <1>10 DEF save, PageOK, IsList
    <2>2. RequestOK(q)
      BY <1>1, <2>1 DEF RequestOK, PageOK, Stored
    <2>3. call' = [call EXCEPT ![p] = q] /\ UNCHANGED <<file, canvas>> /\ edits' \in 0..MaxEdits
      BY <1>10 DEF save, TypeInv
    <2> HIDE DEF q
    <2> QED
      BY <1>3, <2>2, <2>3
  <1>11. ASSUME NEW p \in Pages, remove(p)
         PROVE  TypeInv'
    <2> DEFINE q == [at |-> "delete", id |-> selected[p],
                     expected |-> recipes[p][selected[p]].revision]
    <2>1. selected[p] \in DOMAIN recipes[p] /\ selected[p] \in Ids
      BY <1>1, <1>11 DEF remove, PageOK, IsList, Revision
    <2>2. RequestOK(q)
      BY <1>1, <2>1 DEF RequestOK, PageOK, IsList, Stored
    <2>3. call' = [call EXCEPT ![p] = q] /\ UNCHANGED <<file, canvas>> /\ edits' \in 0..MaxEdits
      BY <1>11 DEF remove, TypeInv
    <2> HIDE DEF q
    <2> QED
      BY <1>3, <2>2, <2>3
  <1>12. ASSUME NEW t \in Tools, NEW id \in Ids, editRecipe(t, id)
         PROVE  TypeInv'
    <2> DEFINE was == IF id \in DOMAIN file THEN file[id].edits ELSE {}
               q == [at |-> "save", id |-> id, expected |-> Revision(file, id),
                     status |-> "draft", edits |-> {edits + 1} \cup was]
    <2>1. edits + 1 \in 1..MaxEdits /\ edits' \in 0..MaxEdits
      BY <1>1, <1>12, RecipeStoreAssumption DEF editRecipe
    <2>2. was \subseteq 1..MaxEdits /\ Revision(file, id) \in Nat
      BY <1>1, RevisionType DEF IsList, Stored
    <2>3. call' = [call EXCEPT ![t] = q] /\ UNCHANGED <<file, canvas>>
      BY <1>12 DEF editRecipe
    <2> HIDE DEF was
    <2>4. RequestOK(q)
      BY <2>1, <2>2 DEF RequestOK
    <2> HIDE DEF q
    <2> QED
      BY <1>3, <2>1, <2>3, <2>4
  <1>13. ASSUME NEW c \in Callers, ReadAndCheck(c)
         PROVE  TypeInv'
    <2> DEFINE q == IF call[c].at = "save" THEN saveWorkflowRecipe(call[c])
                    ELSE deleteWorkflowRecipe(call[c])
    <2>1. RequestOK(q)
      BY <1>1, <1>13, CheckedRequest DEF ReadAndCheck
    <2>2. call' = [call EXCEPT ![c] = q] /\ UNCHANGED <<file, canvas>> /\ edits' \in 0..MaxEdits
      BY <1>13 DEF ReadAndCheck, TypeInv
    <2> HIDE DEF q
    <2> QED
      BY <1>3, <2>1, <2>2
  <1>14. ASSUME NEW c \in Callers, writeRecipesFile(c)
         PROVE  TypeInv'
    <2> DEFINE id   == call[c].id
               next == call[c].file
    <2>1. id \in Ids /\ IsList(next) /\ DOMAIN next # {}
      BY <1>1, <1>14 DEF writeRecipesFile, RequestOK
    <2>2. /\ file' = next /\ call' = [call EXCEPT ![c] = Idle] /\ UNCHANGED edits
      BY <1>14 DEF writeRecipesFile
    <2>3. /\ call' = [d \in Callers |-> call'[d]]
          /\ \A d \in Callers : RequestOK(call[d])'
      <3>1. RequestOK(Idle)
        BY DEF RequestOK, Idle
      <3>2. /\ call' = [d \in Callers |-> call'[d]]
            /\ \A d \in Callers : RequestOK(call'[d])
        BY <2>2, <3>1, CallType
      <3> QED
        BY <3>2 DEF RequestOK, IsList
    <2>4. /\ \A q \in Pages : PageOK(q)'
          /\ recipes'  = [q \in Pages |-> recipes'[q]]
          /\ selected' = [q \in Pages |-> selected'[q]]
          /\ working'  = [q \in Pages |-> working'[q]]
          /\ dirty'    = [q \in Pages |-> dirty'[q]]
      <3>1. CASE UNCHANGED canvas
        BY <1>1, <3>1 DEF canvas, Shapes, PageOK, IsList
      <3>2. CASE c \in Pages /\ id \in DOMAIN next
        <4> DEFINE f == IF id \in DOMAIN recipes[c] THEN Put(recipes[c], id, next[id])
                        ELSE recipes[c]
        <4>1. Show(c, f, selected[c], selected[c] # id)
          BY <1>14, <3>2, RecipeStoreAssumption DEF writeRecipesFile
        <4>2. IsList(f) /\ DOMAIN f = DOMAIN recipes[c]
          <5>1. next[id] \in Stored
            BY <2>1, <3>2 DEF IsList
          <5>2. IsList(recipes[c]) /\ IsList(Put(recipes[c], id, next[id]))
            BY <1>1, <2>1, <3>2, <5>1, PutList DEF PageOK
          <5>3. DOMAIN Put(recipes[c], id, next[id]) = DOMAIN recipes[c] \cup {id}
            BY DEF Put
          <5> QED
            BY <5>2, <5>3
        <4> HIDE DEF f
        <4> QED
          BY <1>1, <3>2, <4>1, <4>2, ShowType DEF PageOK
      <3>3. CASE c \in Pages /\ id \notin DOMAIN next
        <4> DEFINE f == Without(recipes[c], {id})
        <4>1. Show(c, f, FirstOf(f), FALSE)
          BY <1>14, <3>3, RecipeStoreAssumption DEF writeRecipesFile
        <4>2. IsList(f) /\ FirstOf(f) \in DOMAIN f \cup {NoId}
          BY <1>1, <3>3, WithoutList, FirstOfList DEF PageOK
        <4> HIDE DEF f
        <4> QED
          BY <3>3, <4>1, <4>2, ShowType
      <3> QED
        BY <1>14, <3>1, <3>2, <3>3 DEF writeRecipesFile
    <2>5. IsList(file')
      BY <2>1, <2>2
    <2> QED
      BY <2>1, <2>2, <2>3, <2>4, <2>5 DEF TypeInv, Shapes, IsList
  <1>15. CASE UNCHANGED vars
    BY <1>1, <1>15 DEF vars, canvas, TypeInv, Shapes, PageOK, IsList, RequestOK
  <1> QED
    BY <1>4, <1>5, <1>6, <1>7, <1>8, <1>9, <1>10, <1>11, <1>12, <1>13, <1>14, <1>15 DEF Next

\* The invariant about types holds of every behaviour.
LEMMA TypesInvariance == Spec => []TypeInv
  BY InitTypes, NextTypes, PTL DEF Spec

\* The stored list is never empty or ill-formed, and no page shows an
\* ill-formed one, however many saves overlap and whatever is reloaded or
\* deleted in between (saveWorkflowRecipe, deleteWorkflowRecipe, the panel).
THEOREM RecipesTypeCorrect == Spec => []TypeOK
  <1>1. TypeInv => TypeOK
    BY DEF TypeInv, TypeOK, PageOK, RequestOK
  <1> QED
    BY <1>1, TypesInvariance, PTL

----------------------------------------------------------------------------
(* Saves one after the other, and no id used twice.                        *)

\* The revision somebody holds of id is none, or of a recipe deleted since,
\* or not ahead of the file's.
Seen(id, revision) ==
    revision = 0 \/ id \in retired \/ (id \in DOMAIN file /\ revision <= file[id].revision)

Current(id, revision) == id \in DOMAIN file /\ revision = file[id].revision

FileInv == \A id \in DOMAIN file : file[id].revision # 0 /\ id \notin retired

\* Who holds the file's revision of a recipe holds the recipe.
EntrySeen(id, x) == Seen(id, x.revision) /\ (Current(id, x.revision) => x = file[id])

ListSeen(f) == \A id \in DOMAIN f : EntrySeen(id, f[id])

\* The working copy has all that the list it was taken from has.
WorkingKeeps(p) ==
    ~ ReloadWhileDirty /\ selected[p] # NoId => recipes[p][selected[p]].edits \subseteq working[p]

\* A save under the file's revision holds all the edits of the file's
\* recipe; the narrator saves drafts, and deletes nothing.
RequestSeen(c, q) ==
    /\ q.at \in {"save", "delete"} => Seen(q.id, q.expected)
    /\ q.at = "save" /\ Current(q.id, q.expected) =>
          /\ ~ ReloadWhileDirty => file[q.id].edits \subseteq q.edits
          /\ c \in Tools => file[q.id].status = "draft"
    /\ c \in Tools => q.at # "delete"

\* The list about to be written is the file but for the caller's recipe.
Saves(c, q) ==
    /\ q.id \in DOMAIN q.file /\ DOMAIN q.file = DOMAIN file \cup {q.id}
    /\ q.id \notin retired /\ q.file[q.id].revision # 0
    /\ q.id \in DOMAIN file =>
          /\ file[q.id].revision < q.file[q.id].revision
          /\ ~ ReloadWhileDirty => file[q.id].edits \subseteq q.file[q.id].edits
          /\ c \in Tools => file[q.id].status = "draft"

Deletes(c, q) ==
    q.id \in DOMAIN file /\ DOMAIN q.file = DOMAIN file \ {q.id} /\ c \notin Tools

WriteSeen(c, q) ==
    q.at = "write" =>
        /\ Saves(c, q) \/ Deletes(c, q)
        /\ \A i \in DOMAIN file : i # q.id => q.file[i] = file[i]

SerialInv ==
    /\ FileInv
    /\ \A p \in Pages : ListSeen(recipes[p]) /\ WorkingKeeps(p)
    /\ \A c \in Callers : RequestSeen(c, call[c]) /\ WriteSeen(c, call[c])
    /\ \A c, d \in Callers : call[c].at = "write" /\ call[d].at = "write" => c = d
    /\ ~ ReloadWhileDirty => NoSavedEditLost

Serial == ~ OverlappingSaves /\ ~ ReusedIds

\* At first nothing is stored and nothing is edited.
LEMMA InitSerial == Init => SerialInv
  <1> SUFFICES ASSUME Init PROVE SerialInv
    OBVIOUS
  <1>1. FileInv /\ NoSavedEditLost /\ IsList(file)
    <2>1. \A id \in DOMAIN file : file[id].revision = 1
      BY DEF Init
    <2>2. FileInv
      BY <2>1 DEF Init, FileInv
    <2>3. NoSavedEditLost
      BY DEF Init, NoSavedEditLost
    <2> QED
      BY <2>2, <2>3, InitTypes DEF TypeInv
  <1>2. ListSeen(file)
    BY <1>1 DEF ListSeen, EntrySeen, Seen, IsList, Stored
  <1>3. \A id \in DOMAIN file : file[id].edits = {}
    BY DEF Init
  <1>4. FirstOf(file) \in DOMAIN file \cup {NoId}
    BY FirstOfList
  <1>5. \A p \in Pages : ListSeen(recipes[p]) /\ WorkingKeeps(p)
    BY <1>2, <1>3, <1>4 DEF Init, WorkingKeeps
  <1>6. \A c \in Callers : call[c].at = "idle"
    BY DEF Init, Idle
  <1> QED
    BY <1>1, <1>5, <1>6 DEF SerialInv, RequestSeen, WriteSeen

\* A page may show any list that was seen, unless it takes one under a
\* working copy it keeps.
LEMMA PageShows ==
    ASSUME TypeInv, SerialInv, NEW p \in Pages, NEW f, ListSeen(f),
           NEW id, NEW keep, Show(p, f, id, keep),
           keep /\ dirty[p] /\ id = selected[p] /\ id # NoId /\ ~ ReloadWhileDirty
               => f[id].edits \subseteq working[p],
           UNCHANGED <<file, call, saved, retired>>
    PROVE  SerialInv'
  <1>1. /\ \A q \in Pages : q # p =>
              /\ recipes'[q] = recipes[q] /\ selected'[q] = selected[q]
              /\ working'[q] = working[q]
        /\ recipes'[p] = f /\ selected'[p] = id
        /\ \/ /\ keep /\ dirty[p] /\ id = selected[p]
              /\ working'[p] = working[p]
           \/ working'[p] = IF id = NoId THEN {} ELSE f[id].edits
    BY ShowPage DEF TypeInv
  <1>2. \A q \in Pages : ListSeen(recipes'[q]) /\ WorkingKeeps(q)'
    BY <1>1 DEF SerialInv, WorkingKeeps
  <1>3. \A q \in Pages : ListSeen(recipes[q])'
    BY <1>2 DEF ListSeen, EntrySeen, Seen, Current
  <1> QED
    BY <1>2, <1>3 DEF SerialInv, FileInv, RequestSeen, WriteSeen, Saves, Deletes, Seen, Current,
                      NoSavedEditLost

\* A caller may put any request that was seen, and only one a write.
LEMMA CallerAsks ==
    ASSUME TypeInv, SerialInv, NEW c \in Callers, NEW q, RequestSeen(c, q), WriteSeen(c, q),
           q.at = "write" => \A d \in Callers : call[d].at # "write",
           call' = [call EXCEPT ![c] = q], UNCHANGED <<file, canvas, saved, retired>>
    PROVE  SerialInv'
  <1>1. call'[c] = q /\ \A d \in Callers : d # c => call'[d] = call[d]
    BY DEF TypeInv, Shapes
  <1>2. \A d \in Callers : RequestSeen(d, call'[d]) /\ WriteSeen(d, call'[d])
    BY <1>1 DEF SerialInv
  <1>3. \A d, e \in Callers : call'[d].at = "write" /\ call'[e].at = "write" => d = e
    BY <1>1 DEF SerialInv
  <1>4. \A d \in Callers : RequestSeen(d, call[d])' /\ WriteSeen(d, call[d])'
    BY <1>2 DEF RequestSeen, WriteSeen, Saves, Deletes, Seen, Current
  <1> QED
    BY <1>3, <1>4 DEF SerialInv, FileInv, ListSeen, EntrySeen, Seen, Current, WorkingKeeps,
                      NoSavedEditLost, canvas

\* What the file becomes when a list is written: old revisions of the recipe
\* saved are behind it, the others stand for what they stood for.
LEMMA FileWritten ==
    ASSUME TypeInv, SerialInv, NEW c \in Callers, writeRecipesFile(c),
           NEW i, NEW revision \in Nat, Seen(i, revision)
    PROVE  /\ Seen(i, revision)'
           /\ Current(i, revision)' =>
                 Current(i, revision) /\ i # call[c].id /\ file'[i] = file[i]
  <1> DEFINE q == call[c]
  <1>1. /\ q.at = "write" /\ file' = q.file /\ RequestOK(q) /\ WriteSeen(c, q) /\ FileInv
        /\ IsList(file) /\ IsList(q.file)
        /\ q.id \in DOMAIN q.file => retired' = retired
        /\ q.id \notin DOMAIN q.file => retired' = retired \cup {q.id}
    BY DEF writeRecipesFile, TypeInv, SerialInv, RequestOK
  <1>2. /\ \A j \in DOMAIN file : file[j].revision \in Nat
        /\ \A j \in DOMAIN q.file : q.file[j].revision \in Nat
    BY <1>1 DEF IsList, Stored
  <1>3. CASE Saves(c, q)
    <2>1. CASE i = q.id
      BY <1>1, <1>2, <1>3, <2>1 DEF Saves, Seen, Current
    <2>2. CASE i # q.id
      BY <1>1, <1>3, <2>2 DEF WriteSeen, Saves, Seen, Current
    <2> QED
      BY <2>1, <2>2
  <1>4. CASE Deletes(c, q)
    BY <1>1, <1>4 DEF WriteSeen, Deletes, Seen, Current
  <1> QED
    BY <1>1, <1>3, <1>4 DEF WriteSeen

\* Edits that were saved stay, whoever writes next.
LEMMA EditsStay ==
    ASSUME TypeInv, SerialInv, NEW c \in Callers, writeRecipesFile(c),
           ~ ReloadWhileDirty
    PROVE  NoSavedEditLost'
  <1> DEFINE q == call[c]
  <1>1. /\ q.at = "write" /\ file' = q.file /\ WriteSeen(c, q) /\ NoSavedEditLost
        /\ q.id \in DOMAIN q.file => saved' = saved \cup {<<q.id, e>> : e \in q.file[q.id].edits}
        /\ q.id \notin DOMAIN q.file => saved' = {x \in saved : x[1] # q.id}
    BY DEF writeRecipesFile, SerialInv
  <1>2. ASSUME NEW x \in saved'
        PROVE  x[1] \in DOMAIN file' /\ x[2] \in file'[x[1]].edits
    <2>1. CASE q.id \in DOMAIN q.file /\ x \in saved
      <3>1. Saves(c, q)
        BY <1>1, <2>1 DEF WriteSeen, Deletes
      <3> QED
        BY <1>1, <2>1, <3>1 DEF WriteSeen, Saves, NoSavedEditLost
    <2>2. CASE q.id \in DOMAIN q.file /\ x \notin saved
      <3>1. PICK e \in q.file[q.id].edits : x = <<q.id, e>>
        BY <1>1, <2>2
      <3> QED
        BY <1>1, <2>2, <3>1
    <2>3. CASE q.id \notin DOMAIN q.file
      <3>1. x \in saved /\ x[1] # q.id /\ Deletes(c, q)
        BY <1>1, <2>3 DEF WriteSeen, Saves
      <3> QED
        BY <1>1, <3>1 DEF WriteSeen, Deletes, NoSavedEditLost
    <2> QED
      BY <2>1, <2>2, <2>3
  <1> QED
    BY <1>2 DEF NoSavedEditLost

\* A list is written: what everybody else has seen stays seen.
LEMMA ListWritten ==
    ASSUME TypeInv, SerialInv, NEW c \in Callers, writeRecipesFile(c)
    PROVE  SerialInv'
  <1> PICK q : q = call[c]
    OBVIOUS
  <1> DEFINE id   == q.id
             next == q.file
  <1>1. /\ q.at = "write" /\ file' = next /\ WriteSeen(c, q) /\ FileInv /\ Shapes
        /\ call' = [call EXCEPT ![c] = Idle]
        /\ id \in DOMAIN next => retired' = retired
        /\ id \notin DOMAIN next => retired' = retired \cup {id}
    BY DEF writeRecipesFile, TypeInv, SerialInv
  <1>2. FileInv'
    <2>1. CASE Saves(c, q)
      BY <1>1, <2>1 DEF WriteSeen, Saves, FileInv
    <2>2. CASE Deletes(c, q)
      BY <1>1, <2>2 DEF WriteSeen, Deletes, FileInv
    <2> QED
      BY <1>1, <2>1, <2>2 DEF WriteSeen
  <1>3. ASSUME NEW f, IsList(f), ListSeen(f), NEW i \in DOMAIN f
        PROVE  EntrySeen(i, f[i])'
    <2>1. f[i].revision \in Nat /\ EntrySeen(i, f[i])
      BY <1>3 DEF IsList, Stored, ListSeen
    <2> QED
      BY <2>1, FileWritten DEF EntrySeen
  <1>4. id \in DOMAIN next => EntrySeen(id, next[id])'
    <2>1. ASSUME id \in DOMAIN next
          PROVE  next[id].revision \in Nat
      BY <2>1 DEF TypeInv, RequestOK, IsList, Stored, writeRecipesFile
    <2> QED
      BY <1>1, <2>1 DEF EntrySeen, Seen, Current
  <1>5. \A p \in Pages : IsList(recipes[p]) /\ ListSeen(recipes[p]) /\ WorkingKeeps(p)
    BY DEF TypeInv, PageOK, SerialInv
  <1>6. \A p \in Pages : p # c => ListSeen(recipes[p])' /\ WorkingKeeps(p)'
    <2>1. ASSUME NEW p \in Pages, p # c
          PROVE  recipes'[p] = recipes[p] /\ selected'[p] = selected[p] /\ working'[p] = working[p]
      <3>1. CASE UNCHANGED canvas
        BY <3>1 DEF canvas
      <3>2. ASSUME c \in Pages, NEW f, NEW s, NEW keep, Show(c, f, s, keep)
            PROVE  recipes'[p] = recipes[p] /\ selected'[p] = selected[p]
                   /\ working'[p] = working[p]
        BY <1>1, <2>1, <3>2, ShowPage
      <3> QED
        BY <3>1, <3>2 DEF writeRecipesFile
    <2> QED
      BY <1>3, <1>5, <2>1 DEF ListSeen, WorkingKeeps
  <1>7. c \in Pages => ListSeen(recipes[c])' /\ WorkingKeeps(c)'
    <2>1. ASSUME c \in Pages, id \in DOMAIN next
          PROVE  ListSeen(recipes[c])' /\ WorkingKeeps(c)'
      <3> PICK f : f = IF id \in DOMAIN recipes[c] THEN Put(recipes[c], id, next[id])
                       ELSE recipes[c]
        OBVIOUS
      <3> PICK keep \in BOOLEAN : keep = (selected[c] # id)
        OBVIOUS
      <3>1. Show(c, f, selected[c], keep)
        BY <2>1, RecipeStoreAssumption DEF writeRecipesFile
      <3>2. /\ DOMAIN f = DOMAIN recipes[c]
            /\ \A i \in DOMAIN f : f[i] = recipes[c][i] \/ (i = id /\ f[i] = next[id])
            /\ \A i \in DOMAIN f : i # id => f[i] = recipes[c][i]
        BY DEF Put
      <3>3. /\ recipes'[c] = f /\ selected'[c] = selected[c]
            /\ \/ keep /\ working'[c] = working[c]
               \/ working'[c] = IF selected[c] = NoId THEN {} ELSE f[selected[c]].edits
        BY <1>1, <2>1, <3>1, ShowPage
      <3>4. \A i \in DOMAIN f : EntrySeen(i, f[i])'
        BY <1>3, <1>4, <1>5, <2>1, <3>2
      <3>5. selected[c] \in DOMAIN recipes[c] \cup {NoId} /\ WorkingKeeps(c)
        BY <1>5, <2>1 DEF TypeInv, PageOK
      <3> QED
        BY <3>2, <3>3, <3>4, <3>5 DEF ListSeen, WorkingKeeps
    <2>2. ASSUME c \in Pages, id \notin DOMAIN next
          PROVE  ListSeen(recipes[c])' /\ WorkingKeeps(c)'
      <3> PICK f : f = Without(recipes[c], {id})
        OBVIOUS
      <3> PICK s : s = FirstOf(f)
        OBVIOUS
      <3> PICK keep \in BOOLEAN : ~ keep
        OBVIOUS
      <3>1. Show(c, f, s, keep)
        BY <2>2, RecipeStoreAssumption DEF writeRecipesFile
      <3>2. \A i \in DOMAIN f : i \in DOMAIN recipes[c] /\ f[i] = recipes[c][i]
        BY DEF Without
      <3>3. /\ recipes'[c] = f /\ selected'[c] = s
            /\ working'[c] = IF s = NoId THEN {} ELSE f[s].edits
        BY <1>1, <2>2, <3>1, ShowPage
      <3>4. \A i \in DOMAIN f : EntrySeen(i, f[i])'
        BY <1>3, <1>5, <2>2, <3>2
      <3> QED
        BY <3>3, <3>4 DEF ListSeen, WorkingKeeps
    <2> QED
      BY <2>1, <2>2
  <1>8. /\ call'[c] = Idle /\ \A d \in Callers : d # c => call'[d] = call[d]
        /\ \A d \in Callers : d # c => call[d].at # "write"
    BY <1>1 DEF Shapes, SerialInv
  <1>9. ASSUME NEW d \in Callers
        PROVE  RequestSeen(d, call[d])' /\ WriteSeen(d, call[d])'
    <2>1. CASE d = c
      BY <1>8, <2>1 DEF RequestSeen, WriteSeen, Idle
    <2>2. CASE d # c
      <3>1. /\ RequestSeen(d, call[d]) /\ RequestOK(call[d])
            /\ call'[d] = call[d] /\ call[d].at # "write"
        BY <1>8, <2>2 DEF SerialInv, TypeInv
      <3> PICK r : r = call[d]
        OBVIOUS
      <3>2. r.at \in {"save", "delete"} => r.expected \in Nat /\ Seen(r.id, r.expected)
        BY <3>1 DEF RequestSeen, RequestOK
      <3>3. r.at \in {"save", "delete"} =>
               /\ Seen(r.id, r.expected)'
               /\ Current(r.id, r.expected)' =>
                     Current(r.id, r.expected) /\ file'[r.id] = file[r.id]
        BY <3>2, FileWritten
      <3>4. RequestSeen(d, r)'
        BY <3>1, <3>3 DEF RequestSeen
      <3>5. call'[d] = r /\ r.at # "write"
        BY <3>1
      <3> QED
        BY <3>4, <3>5 DEF RequestSeen, WriteSeen
    <2> QED
      BY <2>1, <2>2
  <1>10. \A d, e \in Callers : call'[d].at = "write" /\ call'[e].at = "write" => d = e
    BY <1>8 DEF Idle
  <1> QED
    BY <1>2, <1>6, <1>7, <1>9, <1>10, EditsStay DEF SerialInv

\* With saves one after the other and no id used twice, every step keeps it.
LEMMA NextSerial ==
    ASSUME Serial, TypeInv, SerialInv, [Next]_vars
    PROVE  SerialInv'
  <1>1. /\ Shapes /\ IsList(file) /\ FileInv
        /\ \A p \in Pages : PageOK(p) /\ ListSeen(recipes[p]) /\ WorkingKeeps(p)
        /\ \A c \in Callers : RequestOK(call[c]) /\ RequestSeen(c, call[c])
        /\ Pages \cap Tools = {} /\ NoId \notin Ids
    BY RecipeStoreAssumption DEF TypeInv, SerialInv
  <1>2. ListSeen(file)
    BY <1>1 DEF ListSeen, EntrySeen, Seen, IsList, Stored
  <1>3. \A c \in Callers : \A q : q.at # "write" => WriteSeen(c, q)
    BY DEF WriteSeen
  <1>4. ASSUME NEW p \in Pages, Load(p)
        PROVE  SerialInv'
    <2> PICK id : id = IF selected[p] \in DOMAIN file THEN selected[p] ELSE FirstOf(file)
      OBVIOUS
    <2> PICK keep \in BOOLEAN : keep
      OBVIOUS
    <2>1. Show(p, file, id, keep) /\ UNCHANGED <<file, call, saved, retired>>
      BY <1>4 DEF Load
    <2>2. dirty[p] => ReloadWhileDirty
      BY <1>4 DEF Load
    <2> QED
      BY <1>2, <2>1, <2>2, PageShows
  <1>5. ASSUME NEW p \in Pages, LoadFails(p)
        PROVE  SerialInv'
    <2> PICK f : f = Without(recipes[p], DOMAIN recipes[p])
      OBVIOUS
    <2> PICK keep \in BOOLEAN : ~ keep
      OBVIOUS
    <2>1. Show(p, f, NoId, keep) /\ UNCHANGED <<file, call, saved, retired>>
      BY <1>5 DEF LoadFails
    <2>2. ListSeen(f)
      BY DEF ListSeen, Without
    <2> QED
      BY <2>1, <2>2, PageShows
  <1>6. ASSUME NEW p \in Pages, NEW id \in Ids, SelectRecipe(p, id)
        PROVE  SerialInv'
    <2> PICK keep \in BOOLEAN : ~ keep
      OBVIOUS
    <2>1. Show(p, recipes[p], id, keep) /\ UNCHANGED <<file, call, saved, retired>>
      BY <1>6 DEF SelectRecipe
    <2> QED
      BY <1>1, <2>1, PageShows
  <1>7. ASSUME NEW p \in Pages, NEW id \in Ids, handleCreate(p, id)
        PROVE  SerialInv'
    <2> DEFINE x == [revision |-> 0, status |-> "draft", edits |-> {}]
    <2> PICK f : f = Put(recipes[p], id, x)
      OBVIOUS
    <2> PICK keep \in BOOLEAN : ~ keep
      OBVIOUS
    <2>1. Show(p, f, id, keep) /\ UNCHANGED <<file, call, saved, retired>>
      BY <1>7 DEF handleCreate
    <2>2. EntrySeen(id, x)
      BY <1>1 DEF EntrySeen, Seen, Current, FileInv
    <2> HIDE DEF x
    <2>3. /\ DOMAIN f = DOMAIN recipes[p] \cup {id} /\ f[id] = x
          /\ \A i \in DOMAIN recipes[p] : i # id => f[i] = recipes[p][i]
      BY DEF Put
    <2>4. ListSeen(f)
      BY <1>1, <2>2, <2>3 DEF ListSeen
    <2> QED
      BY <2>1, <2>4, PageShows
  <1>8. ASSUME NEW p \in Pages, EditCanvas(p)
        PROVE  SerialInv'
    <2>1. \A q \in Pages : working[q] \subseteq working'[q]
      BY <1>1, <1>8 DEF EditCanvas, Shapes
    <2>2. \A q \in Pages : WorkingKeeps(q)'
      BY <1>1, <1>8, <2>1 DEF EditCanvas, WorkingKeeps
    <2> QED
      BY <1>8, <2>2 DEF EditCanvas, SerialInv, FileInv, ListSeen, EntrySeen, RequestSeen,
                        WriteSeen, Saves, Deletes, Seen, Current, NoSavedEditLost
  <1>9. ASSUME NEW p \in Pages, discard(p)
        PROVE  SerialInv'
    <2> PICK f : f = IF Revision(recipes[p], selected[p]) = 0
                     THEN Without(recipes[p], {selected[p]}) ELSE recipes[p]
      OBVIOUS
    <2> PICK id : id = IF selected[p] \in DOMAIN f THEN selected[p] ELSE FirstOf(f)
      OBVIOUS
    <2> PICK keep \in BOOLEAN : ~ keep
      OBVIOUS
    <2>1. Show(p, f, id, keep) /\ UNCHANGED <<file, call, saved, retired>>
      BY <1>9 DEF discard
    <2>2. \A i \in DOMAIN f : i \in DOMAIN recipes[p] /\ f[i] = recipes[p][i]
      BY DEF Without
    <2>3. ListSeen(f)
      BY <1>1, <2>2 DEF ListSeen
    <2> QED
      BY <2>1, <2>3, PageShows
  <1>10. ASSUME NEW p \in Pages, NEW status, save(p, status)
         PROVE  SerialInv'
    <2> PICK q : q = [at |-> "save", id |-> selected[p],
                      expected |-> recipes[p][selected[p]].revision,
                      status |-> status, edits |-> working[p]]
      OBVIOUS
    <2>1. call' = [call EXCEPT ![p] = q] /\ UNCHANGED <<file, canvas, saved, retired>>
      BY <1>10 DEF save
    <2>2. EntrySeen(selected[p], recipes[p][selected[p]]) /\ selected[p] # NoId
      BY <1>1, <1>10 DEF save, PageOK, ListSeen
    <2>3. RequestSeen(p, q)
      BY <1>1, <2>2 DEF EntrySeen, RequestSeen, WorkingKeeps
    <2>4. q.at # "write"
      OBVIOUS
    <2> QED
      BY <1>3, <2>1, <2>3, <2>4, CallerAsks
  <1>11. ASSUME NEW p \in Pages, remove(p)
         PROVE  SerialInv'
    <2> PICK q : q = [at |-> "delete", id |-> selected[p],
                      expected |-> recipes[p][selected[p]].revision]
      OBVIOUS
    <2>1. call' = [call EXCEPT ![p] = q] /\ UNCHANGED <<file, canvas, saved, retired>>
      BY <1>11 DEF remove
    <2>2. EntrySeen(selected[p], recipes[p][selected[p]])
      BY <1>1, <1>11 DEF remove, Revision, ListSeen
    <2>3. RequestSeen(p, q)
      BY <1>1, <2>2 DEF EntrySeen, RequestSeen
    <2>4. q.at # "write"
      OBVIOUS
    <2> QED
      BY <1>3, <2>1, <2>3, <2>4, CallerAsks
  <1>12. ASSUME NEW t \in Tools, NEW id \in Ids, editRecipe(t, id)
         PROVE  SerialInv'
    <2> DEFINE was == IF id \in DOMAIN file THEN file[id].edits ELSE {}
    <2> PICK q : q = [at |-> "save", id |-> id, expected |-> Revision(file, id),
                      status |-> "draft", edits |-> {edits + 1} \cup was]
      OBVIOUS
    <2>1. call' = [call EXCEPT ![t] = q] /\ UNCHANGED <<file, canvas, saved, retired>>
      BY <1>12 DEF editRecipe
    <2>2. Seen(id, Revision(file, id))
      BY <1>1 DEF Seen, Revision, IsList, Stored
    <2>3. id \in DOMAIN file => file[id].edits \subseteq {edits + 1} \cup was
                             /\ file[id].status = "draft"
      BY <1>12 DEF editRecipe
    <2> HIDE DEF was
    <2>4. RequestSeen(t, q)
      BY <2>2, <2>3 DEF RequestSeen, Current
    <2>5. q.at # "write"
      OBVIOUS
    <2> QED
      BY <1>3, <2>1, <2>4, <2>5, CallerAsks
  <1>13. ASSUME NEW c \in Callers, ReadAndCheck(c)
         PROVE  SerialInv'
    <2> PICK r : r = call[c]
      OBVIOUS
    <2> PICK q : q = IF r.at = "save" THEN saveWorkflowRecipe(r) ELSE deleteWorkflowRecipe(r)
      OBVIOUS
    <2>1. /\ call' = [call EXCEPT ![c] = q] /\ UNCHANGED <<file, canvas, saved, retired>>
          /\ r.at \in {"save", "delete"} /\ \A d \in Callers : call[d].at # "write"
          /\ r.expected # 0 \/ r.id \notin retired
          /\ RequestOK(r) /\ RequestSeen(c, r)
      BY <1>1, <1>13 DEF ReadAndCheck, Serial
    <2>2. CASE q = Idle
      <3>1. RequestSeen(c, q) /\ q.at # "write"
        BY <2>2 DEF RequestSeen, Idle
      <3> QED
        BY <1>3, <2>1, <3>1, CallerAsks
    <2>3. CASE q # Idle /\ r.at = "save"
      <3> DEFINE x == [revision |-> r.expected + 1, status |-> r.status, edits |-> r.edits]
      <3>1. /\ r.expected = Revision(file, r.id)
            /\ q = [at |-> "write", id |-> r.id, file |-> Put(file, r.id, x)]
        BY <2>3 DEF saveWorkflowRecipe
      <3>2. /\ DOMAIN q.file = DOMAIN file \cup {r.id} /\ q.file[r.id] = x
            /\ \A i \in DOMAIN file : i # r.id => q.file[i] = file[i]
        BY <3>1 DEF Put
      <3>3. r.expected \in Nat /\ x.revision # 0 /\ r.expected < x.revision
        BY <2>1, <2>3 DEF RequestOK
      <3>4. x.edits = r.edits
        OBVIOUS
      <3> HIDE DEF x
      <3>5. r.id \notin retired
        BY <1>1, <2>1, <3>1 DEF Revision, FileInv
      <3>6. r.id \in DOMAIN file =>
               /\ file[r.id].revision = r.expected
               /\ ~ ReloadWhileDirty => file[r.id].edits \subseteq r.edits
               /\ c \in Tools => file[r.id].status = "draft"
        BY <2>1, <2>3, <3>1 DEF RequestSeen, Current, Revision
      <3>7. q.id = r.id /\ q.at = "write"
        BY <3>1
      <3>8. Saves(c, q)
        BY <3>2, <3>3, <3>4, <3>5, <3>6, <3>7 DEF Saves
      <3>9. WriteSeen(c, q)
        BY <3>2, <3>7, <3>8 DEF WriteSeen
      <3>10. RequestSeen(c, q)
        BY <3>7 DEF RequestSeen
      <3> QED
        BY <2>1, <3>9, <3>10, CallerAsks
    <2>4. CASE q # Idle /\ r.at = "delete"
      <3>1. /\ r.id \in DOMAIN file
            /\ q = [at |-> "write", id |-> r.id, file |-> Without(file, {r.id})]
        BY <2>4 DEF deleteWorkflowRecipe
      <3>2. /\ DOMAIN q.file = DOMAIN file \ {r.id}
            /\ \A i \in DOMAIN file : i # r.id => q.file[i] = file[i]
        BY <3>1 DEF Without
      <3>3. q.id = r.id /\ q.at = "write"
        BY <3>1
      <3>4. c \notin Tools
        BY <2>1, <2>4 DEF RequestSeen
      <3>5. WriteSeen(c, q) /\ RequestSeen(c, q)
        BY <3>1, <3>2, <3>3, <3>4 DEF WriteSeen, Deletes, RequestSeen
      <3> QED
        BY <2>1, <3>5, CallerAsks
    <2> QED
      BY <2>1, <2>2, <2>3, <2>4
  <1>14. ASSUME NEW c \in Callers, writeRecipesFile(c)
         PROVE  SerialInv'
    BY <1>14, ListWritten
  <1>15. CASE UNCHANGED vars
    BY <1>15 DEF vars, canvas, SerialInv, FileInv, ListSeen, EntrySeen, WorkingKeeps, RequestSeen,
                 WriteSeen, Saves, Deletes, Seen, Current, NoSavedEditLost
  <1> QED
    BY <1>4, <1>5, <1>6, <1>7, <1>8, <1>9, <1>10, <1>11, <1>12, <1>13, <1>14, <1>15 DEF Next

\* The invariant about edits holds of every behaviour without overlapping saves.
LEMMA SerialInvariance == ASSUME Serial PROVE Spec => []SerialInv
  <1>1. TypeInv /\ SerialInv /\ [Next]_vars => SerialInv'
    BY NextSerial
  <1> QED
    BY <1>1, InitSerial, TypesInvariance, PTL DEF Spec

\* When saves do not overlap, ids are not used again and a page does not
\* reload under unsaved changes, an edit that was acknowledged stays in its
\* recipe until the recipe is deleted, whoever saves next and from however
\* old a list (the compare of revisions in saveWorkflowRecipe).
THEOREM SavedEditsStay ==
    ASSUME ~ OverlappingSaves, ~ ReusedIds, ~ ReloadWhileDirty
    PROVE  Spec => []NoSavedEditLost
  <1>1. SerialInv => NoSavedEditLost
    BY DEF SerialInv
  <1>2. Serial
    BY DEF Serial
  <1> QED
    BY <1>1, <1>2, SerialInvariance, PTL

\* When saves do not overlap and ids are not used again, the narrator's
\* edit_recipe changes no published recipe, though it looked at the status
\* in a list read before (workflow-recipe-tools.ts).
THEOREM PublishedRecipesStay ==
    ASSUME ~ OverlappingSaves, ~ ReusedIds
    PROVE  Spec => NarratorLeavesPublishedAlone
  <1> DEFINE Leaves == \A t \in Tools : writeRecipesFile(t) =>
                          \A id \in DOMAIN file : file[id].status = "published" =>
                              id \in DOMAIN file' /\ file'[id] = file[id]
  <1>1. ASSUME SerialInv PROVE Leaves
    <2> SUFFICES ASSUME NEW t \in Tools, writeRecipesFile(t), NEW id \in DOMAIN file,
                        file[id].status = "published"
                 PROVE  id \in DOMAIN file' /\ file'[id] = file[id]
      OBVIOUS
    <2>1. call[t].at = "write" /\ file' = call[t].file /\ WriteSeen(t, call[t])
      BY <1>1 DEF writeRecipesFile, SerialInv
    <2>2. Saves(t, call[t]) /\ id # call[t].id
      BY <2>1 DEF WriteSeen, Deletes, Saves
    <2> QED
      BY <2>1, <2>2 DEF WriteSeen, Saves
  <1>2. SerialInv => [Leaves]_vars
    BY <1>1
  <1>3. Serial
    BY DEF Serial
  <1> HIDE DEF Leaves
  <1>4. Spec => [][Leaves]_vars
    BY <1>2, <1>3, SerialInvariance, PTL
  <1> QED
    BY <1>4 DEF NarratorLeavesPublishedAlone, Leaves
=============================================================================

---------------------------- MODULE BookProvision ----------------------------
(***************************************************************************)
(* Creating, importing, resuming, claiming and deleting a book in a        *)
(* controlled directory.  A durable operation row leads the way through five stores   *)
(* that no transaction spans: the row itself, the core `book` row, the     *)
(* book's directory, the runtime's project with its chapter and narrator,  *)
(* and the binding of book and project.  A task is one request; it works   *)
(* on the copy of the row it has read, one store operation at a time.      *)
(***************************************************************************)
EXTENDS Naturals, FiniteSets

CONSTANTS
    Books, Keys, Tasks,
    Operations,       \* ids of operation rows; bounds how many are made
    None,
    Legacy,           \* a directory with an old book that has no row
    Broken,           \* a directory without a readable book.json
    MaxMishaps,       \* bound on failing steps, crashes, old books turning up
    OverlappingWork,  \* may two requests work on one book at the same time?
    RowRemovalFails,  \* may a deletion end between its last two steps?
    BackfillFails     \* may an import fail between its rows and its directory?

ASSUME BookProvisionAssumption ==
    /\ MaxMishaps \in Nat
    /\ {OverlappingWork, RowRemovalFails, BackfillFails} \subseteq BOOLEAN
    /\ None \notin Operations \cup Books \cup Keys
    /\ {None, Legacy, Broken} \cap Operations = {}
    /\ None # Legacy /\ None # Broken /\ Legacy # Broken

VARIABLES
    ops,       \* book -> its operation row, or None
    core,      \* books with a core row
    dir,       \* book -> None, Legacy, Broken, or the operation that wrote it
    staging,   \* operation -> its staging directory: absent, partial, complete
    runtime,   \* project id -> which of its three rows exist
    binding,   \* book -> the project it is bound to, or None
    task,      \* what each request is doing
    reserved,  \* operation -> the book it was made for (history)
    remains,   \* books whose import was cut off, or not wholly undone (history)
    undone,    \* operations whose project the undoing of an import took away (history)
    mishaps

history == <<reserved, remains, undone>>
vars == <<ops, core, dir, staging, runtime, binding, task, history, mishaps>>
stores == <<core, dir, staging, runtime, binding>>

\* An id is generated by one request for one operation.
Projects == Operations \X Tasks
Pieces == {"project", "chapter", "narrator"}

ProvisionState == {"reserved", "core-staged", "filesystem-promoted",
                   "runtime-bound", "ready", "failed", "compensation-required"}

Operation == [id : Operations, key : Keys \cup {None}, origin : {"create", "claim", "archive"},
              state : ProvisionState, ids : Projects \cup {None}]

\* No row and no project is the value that says there is none.
ASSUME NoneAssumption == None \notin Operation \cup Projects

Waiting == {"idle", "check", "insert", "raced"}
Resuming == {"stage", "staged", "promote", "scaffold", "write", "rename", "promoted",
             "bind", "ids", "project", "chapter", "narrator", "upsert", "bound",
             "finish", "catch"}
Deleting == {"deleteProject", "purge", "removeDir", "unbind", "deleteRow"}
Unpacking == {"unpack", "load", "backfill"}
Registering == {"place", "register"}
Undoing == {"undoProject", "undoBinding", "undoRow", "undoData", "undoDir"}

Idle == [pc |-> "idle", book |-> None, key |-> None, op |-> None, owned |-> FALSE,
         import |-> FALSE]

Task == [pc : UNION {Waiting, Resuming, Deleting, Unpacking, Registering, Undoing},
         book : Books \cup {None}, key : Keys \cup {None},
         op : Operation \cup {None}, owned : BOOLEAN, import : BOOLEAN]

TypeOK ==
    /\ ops \in [Books -> Operation \cup {None}]
    /\ core \subseteq Books
    /\ dir \in [Books -> Operations \cup {None, Legacy, Broken}]
    /\ staging \in [Operations -> {"absent", "partial", "complete"}]
    /\ runtime \in [Projects -> SUBSET Pieces]
    /\ binding \in [Books -> Projects \cup {None}]
    /\ task \in [Tasks -> Task]
    /\ reserved \in [Operations -> Books \cup {None}]
    /\ remains \subseteq Books
    /\ undone \subseteq Operations
    /\ mishaps \in 0..MaxMishaps

Init ==
    /\ ops = [b \in Books |-> None]
    /\ core = {}
    /\ dir = [b \in Books |-> None]
    /\ staging = [o \in Operations |-> "absent"]
    /\ runtime = [p \in Projects |-> {}]
    /\ binding = [b \in Books |-> None]
    /\ task = [t \in Tasks |-> Idle]
    /\ reserved = [o \in Operations |-> None]
    /\ remains = {}
    /\ undone = {}
    /\ mishaps = 0

-----------------------------------------------------------------------------
(* Taking up an operation.                                                 *)

Has(b, state) == ops[b] # None /\ ops[b].state = state
HasKey(b, k) == ops[b] # None /\ ops[b].key = k
Free(b) == OverlappingWork \/ \A t \in Tasks : task[t].book = b => task[t].pc \in Waiting

\* resume: where the row's state takes up the work.
FirstStep(state) ==
    CASE state \in {"reserved", "failed"} -> "stage"
      [] state \in {"core-staged", "compensation-required"} -> "promote"
      [] state = "filesystem-promoted" -> "bind"
      [] state = "runtime-bound" -> "finish"
      [] state = "ready" -> "idle"

Goto(t, pc) == task' = [task EXCEPT ![t].pc = pc]
Return(t) == task' = [task EXCEPT ![t] = Idle]

\* Operator: the task that works on operation row r of book b.
Working(b, r) ==
    IF FirstStep(r.state) = "idle" THEN Idle
    ELSE [Idle EXCEPT !.pc = FirstStep(r.state), !.book = b, !.op = r]

\* The bound on rows: a request begins only if an id will be left for it.
IdLeft ==
    Cardinality({t \in Tasks : task[t].pc \in {"check", "insert"}})
        < Cardinality({o \in Operations : reserved[o] = None})

\* The name of an imported book has a random part: nobody uses it by chance.
Importing(b) == \E t \in Tasks : task[t].import /\ task[t].book = b
Known(b) == ~Importing(b) /\ b \notin remains

resume(t, b) ==
    /\ Free(b)
    /\ task' = [task EXCEPT ![t] = Working(b, ops[b])]

\* create: a key that is known leads to its operation, whatever the book id.
create(t, b, k) ==
    /\ task[t].pc = "idle"
    /\ \/ \E c \in Books : HasKey(c, k) /\ resume(t, c)
       \/ /\ ~\E c \in Books : HasKey(c, k)
          /\ ops[b] = None /\ IdLeft /\ Known(b)
          /\ task' = [task EXCEPT ![t] = [Idle EXCEPT !.pc = "check", !.book = b, !.key = k]]
    /\ UNCHANGED <<ops, stores, history, mishaps>>

\* A controlled directory of that name must not exist yet.
checkDirectory(t) ==
    /\ task[t].pc = "check"
    /\ IF dir[task[t].book] = None THEN Goto(t, "insert") ELSE Return(t)
    /\ UNCHANGED <<ops, stores, history, mishaps>>

Row(o, k, origin, state) ==
    [id |-> o, key |-> k, origin |-> origin, state |-> state, ids |-> None]

Insert(t, b, row) ==
    /\ reserved[row.id] = None
    /\ reserved' = [reserved EXCEPT ![row.id] = b]
    /\ ops' = [ops EXCEPT ![b] = row]
    /\ task' = [task EXCEPT ![t] = Working(b, row)]

\* Both the key and the book id are unique in the table.
insertOperation(t) ==
    LET b == task[t].book  k == task[t].key IN
    /\ task[t].pc = "insert"
    /\ IF ops[b] # None \/ \E c \in Books : HasKey(c, k)
       THEN Goto(t, "raced") /\ UNCHANGED <<ops, reserved>>
       ELSE Free(b) /\ \E o \in Operations : Insert(t, b, Row(o, k, "create", "reserved"))
    /\ UNCHANGED <<stores, remains, undone, mishaps>>

findRaced(t) ==
    /\ task[t].pc = "raced"
    /\ \/ \E c \in Books : HasKey(c, task[t].key) /\ resume(t, c)
       \/ (~\E c \in Books : HasKey(c, task[t].key)) /\ Return(t)
    /\ UNCHANGED <<ops, stores, history, mishaps>>

\* retry, repair, and claim of a book that has a row.
retry(t, b) ==
    /\ task[t].pc = "idle"
    /\ ops[b] # None /\ ops[b].state # "ready"
    /\ resume(t, b)
    /\ UNCHANGED <<ops, stores, history, mishaps>>

\* claim: an administrator takes up a directory that has no row.
claim(t, b) ==
    /\ task[t].pc = "idle"
    /\ ops[b] = None /\ binding[b] = None /\ Free(b) /\ IdLeft
    /\ dir[b] \notin {None, Broken}
    /\ \E o \in Operations : Insert(t, b, Row(o, None, "claim", "filesystem-promoted"))
    /\ UNCHANGED <<stores, remains, undone, mishaps>>

-----------------------------------------------------------------------------
(* resume: the steps, in the order of the code.                            *)

stageCore(t) ==
    /\ task[t].pc = "stage"
    /\ core' = core \cup {task[t].book}
    /\ Goto(t, "staged")
    /\ UNCHANGED <<ops, dir, staging, runtime, binding, history, mishaps>>

\* Slip: any readable directory is taken over.
Adoptable_Any(op, d) == d # Broken
\* Slip: a new book's directory must not exist, whoever wrote it.
Adoptable_None(op, d) == op.origin # "create" /\ d # Broken

\* The directory is the one this operation wrote (createdAt agrees), or the
\* operation is one that takes up directories as they are.
Adoptable(op, d) == d = op.id \/ (op.origin # "create" /\ d # Broken)

promoteFilesystem(t) ==
    LET d == dir[task[t].book] IN
    /\ task[t].pc = "promote"
    /\ Goto(t, IF d = None THEN "scaffold"
               ELSE IF Adoptable(task[t].op, d) THEN "promoted" ELSE "catch")
    /\ UNCHANGED <<ops, stores, history, mishaps>>

clearStaging(t) ==
    /\ task[t].pc = "scaffold"
    /\ staging' = [staging EXCEPT ![task[t].op.id] = "partial"]
    /\ Goto(t, "write")
    /\ UNCHANGED <<ops, core, dir, runtime, binding, history, mishaps>>

writeBookScaffold(t) ==
    LET o == task[t].op.id IN
    /\ task[t].pc = "write"
    /\ IF staging[o] = "absent"
       THEN Goto(t, "catch") /\ UNCHANGED staging
       ELSE Goto(t, "rename") /\ staging' = [staging EXCEPT ![o] = "complete"]
    /\ UNCHANGED <<ops, core, dir, runtime, binding, history, mishaps>>

\* The staging directory becomes the book's, unless there is one by now.
renameStaging(t) ==
    LET o == task[t].op.id  b == task[t].book IN
    /\ task[t].pc = "rename"
    /\ staging' = [staging EXCEPT ![o] = "absent"]
    /\ IF dir[b] = None /\ staging[o] # "absent"
       THEN /\ dir' = [dir EXCEPT ![b] = IF staging[o] = "complete" THEN o ELSE Broken]
            /\ Goto(t, "promoted")
       ELSE Goto(t, "catch") /\ UNCHANGED dir
    /\ UNCHANGED <<ops, core, runtime, binding, history, mishaps>>

\* Slip: every attempt makes new ids.
bindRuntime_NewIdsEachTime(t) ==
    /\ task[t].pc = "bind"
    /\ Goto(t, IF dir[task[t].book] \in {None, Broken} THEN "catch" ELSE "ids")
    /\ UNCHANGED <<ops, stores, history, mishaps>>

\* bindRuntime: needs a readable book.json; the ids of the runtime's rows are
\* recorded before the first of them is inserted.
bindRuntime(t) ==
    /\ task[t].pc = "bind"
    /\ Goto(t, IF dir[task[t].book] \in {None, Broken} THEN "catch"
               ELSE IF task[t].op.ids = None THEN "ids" ELSE "project")
    /\ UNCHANGED <<ops, stores, history, mishaps>>

\* updateOperation acts on the row's id and hands back the row as it is now.
OwnRow(t) == LET b == task[t].book IN ops[b] # None /\ ops[b].id = task[t].op.id

GoOnWith(t, row, pc) == task' = [task EXCEPT ![t].op = row, ![t].pc = pc]

UpdateRow(t, row, pc) ==
    /\ ops' = [ops EXCEPT ![task[t].book] = row]
    /\ GoOnWith(t, row, pc)

\* Slip: the ids are kept in the task only.
persistIds_InMemory(t) ==
    /\ task[t].pc = "ids"
    /\ task' = [task EXCEPT ![t].op.ids = <<task[t].op.id, t>>, ![t].pc = "project"]
    /\ UNCHANGED <<ops, stores, history, mishaps>>

persistIds(t) ==
    /\ task[t].pc = "ids"
    /\ IF OwnRow(t)
       THEN UpdateRow(t, [ops[task[t].book] EXCEPT !.ids = <<task[t].op.id, t>>], "project")
       ELSE Goto(t, "catch") /\ UNCHANGED ops
    /\ UNCHANGED <<stores, history, mishaps>>

NextPiece == [project |-> "chapter", chapter |-> "narrator", narrator |-> "upsert"]
Needs == [project |-> {}, chapter |-> {"project"}, narrator |-> {"chapter"}]

\* Slip: a project that exists is taken to have its chapter and narrator.
Missing_ProjectMeansAll(p, piece) == "project" \notin runtime[p]

Missing(p, piece) == piece \notin runtime[p]

insertRow(t) ==
    LET piece == task[t].pc  p == task[t].op.ids IN
    /\ piece \in Pieces
    /\ IF Missing(p, piece)
       THEN IF Needs[piece] \subseteq runtime[p]
            THEN /\ runtime' = [runtime EXCEPT ![p] = @ \cup {piece}]
                 /\ Goto(t, NextPiece[piece])
            ELSE Goto(t, "catch") /\ UNCHANGED runtime
       ELSE Goto(t, NextPiece[piece]) /\ UNCHANGED runtime
    /\ UNCHANGED <<ops, core, dir, staging, binding, history, mishaps>>

upsertBinding(t) ==
    LET b == task[t].book  p == task[t].op.ids IN
    /\ task[t].pc = "upsert"
    /\ IF "project" \in runtime[p] /\ dir[b] # None /\ binding[b] \in {None, p}
       THEN binding' = [binding EXCEPT ![b] = p] /\ Goto(t, "bound")
       ELSE Goto(t, "catch") /\ UNCHANGED binding
    /\ UNCHANGED <<ops, core, dir, staging, runtime, history, mishaps>>

Recorded == [staged |-> "core-staged", promoted |-> "filesystem-promoted",
             bound |-> "runtime-bound", finish |-> "ready"]
Then == [staged |-> "promote", promoted |-> "bind", bound |-> "finish"]

recordState(t) ==
    LET pc == task[t].pc  b == task[t].book IN
    /\ pc \in DOMAIN Recorded
    /\ IF ~OwnRow(t) THEN Goto(t, "catch") /\ UNCHANGED ops
       ELSE IF pc = "finish"
       THEN ops' = [ops EXCEPT ![b].state = "ready"] /\ Return(t)
       ELSE UpdateRow(t, [ops[b] EXCEPT !.state = Recorded[pc]], Then[pc])
    /\ UNCHANGED <<stores, history, mishaps>>

\* The state a failed attempt leaves, by the state the copy had reached.
FailureState(state) == IF state = "reserved" THEN "failed" ELSE "compensation-required"

\* An import that does not get its book ready is undone.
GiveUp(t) == IF task[t].import THEN Goto(t, "undoProject") ELSE Return(t)

handleError(t) ==
    LET b == task[t].book IN
    /\ task[t].pc = "catch"
    /\ ops' = IF OwnRow(t) THEN [ops EXCEPT ![b].state = FailureState(task[t].op.state)]
              ELSE ops
    /\ GiveUp(t)
    /\ UNCHANGED <<stores, history, mishaps>>

-----------------------------------------------------------------------------
(* importBookArchive: files and rows first, then the operation row (a key   *)
(* that is known leads to its operation, as in create).  compensateArchive- *)
(* Import undoes it store by store.                                         *)

Fresh(b) ==
    /\ ops[b] = None /\ dir[b] = None /\ binding[b] = None
    /\ b \notin core \cup remains
    /\ \A t \in Tasks : task[t].book # b

importBookArchive(t, b, k) ==
    /\ task[t].pc = "idle"
    /\ ~\E c \in Books : HasKey(c, k)
    /\ Fresh(b) /\ IdLeft
    /\ \E o \in Operations :
          /\ reserved[o] = None
          /\ reserved' = [reserved EXCEPT ![o] = b]
          /\ task' = [task EXCEPT ![t] =
                [Idle EXCEPT !.pc = "unpack", !.book = b, !.key = k, !.import = TRUE,
                             !.op = Row(o, k, "archive", "filesystem-promoted")]]
    /\ UNCHANGED <<ops, stores, remains, undone, mishaps>>

unpackFiles(t) ==
    /\ task[t].pc = "unpack"
    /\ staging' = [staging EXCEPT ![task[t].op.id] = "complete"]
    /\ Goto(t, "load")
    /\ UNCHANGED <<ops, core, dir, runtime, binding, history, mishaps>>

\* All rows of the archive, the book's among them, in one transaction.
loadRows(t) ==
    /\ task[t].pc = "load"
    /\ core' = core \cup {task[t].book}
    /\ Goto(t, "backfill")
    /\ UNCHANGED <<ops, dir, staging, runtime, binding, history, mishaps>>

\* Derived keys, in a transaction after the archive's own.
backfillNarrativeFactSlotKeys(t) ==
    /\ task[t].pc = "backfill"
    /\ Goto(t, "place")
    /\ UNCHANGED <<ops, stores, history, mishaps>>

placeDirectory(t) ==
    LET o == task[t].op.id IN
    /\ task[t].pc = "place"
    /\ staging' = [staging EXCEPT ![o] = "absent"]
    /\ dir' = [dir EXCEPT ![task[t].book] = o]
    /\ Goto(t, "register")
    /\ UNCHANGED <<ops, core, runtime, binding, history, mishaps>>

\* The same archive may have been sent twice: the key is unique.
registerImport(t) ==
    /\ task[t].pc = "register"
    /\ IF \E c \in Books : HasKey(c, task[t].key)
       THEN Goto(t, "undoData") /\ UNCHANGED ops
       ELSE ops' = [ops EXCEPT ![task[t].book] = task[t].op] /\ Goto(t, "bind")
    /\ UNCHANGED <<stores, history, mishaps>>

\* Only the row tells which project and binding there may be.
undoProject(t) ==
    LET row == ops[task[t].book] IN
    /\ task[t].pc = "undoProject"
    /\ IF OwnRow(t) /\ row.ids # None
       THEN /\ runtime' = [runtime EXCEPT ![row.ids] = {}]
            /\ undone' = undone \cup {row.id}
            /\ GoOnWith(t, row, "undoBinding")
       ELSE Goto(t, "undoRow") /\ UNCHANGED <<runtime, undone>>
    /\ UNCHANGED <<ops, core, dir, staging, binding, reserved, remains, mishaps>>

undoBinding(t) ==
    /\ task[t].pc = "undoBinding"
    /\ binding' = [b \in Books |-> IF binding[b] = task[t].op.ids THEN None ELSE binding[b]]
    /\ Goto(t, "undoRow")
    /\ UNCHANGED <<ops, core, dir, staging, runtime, history, mishaps>>

undoRow(t) ==
    /\ task[t].pc = "undoRow"
    /\ ops' = IF OwnRow(t) THEN [ops EXCEPT ![task[t].book] = None] ELSE ops
    /\ Goto(t, "undoData")
    /\ UNCHANGED <<stores, history, mishaps>>

purgeBookArchiveData(t) ==
    /\ task[t].pc = "undoData"
    /\ core' = core \ {task[t].book}
    /\ Goto(t, "undoDir")
    /\ UNCHANGED <<ops, dir, staging, runtime, binding, history, mishaps>>

undoDirectory(t) ==
    /\ task[t].pc = "undoDir"
    /\ dir' = [dir EXCEPT ![task[t].book] = None]
    /\ staging' = [staging EXCEPT ![task[t].op.id] = "absent"]
    /\ Return(t)
    /\ UNCHANGED <<ops, core, runtime, binding, history, mishaps>>

-----------------------------------------------------------------------------
(* deleteBook: the runtime's project first, the row last.                  *)

\* Slip: the runtime's project must still be there.
MayDelete_WithProject(b) ==
    /\ Has(b, "ready") /\ ops[b].ids # None /\ binding[b] = ops[b].ids
    /\ "project" \in runtime[ops[b].ids]

MayDelete(b) == Has(b, "ready") /\ ops[b].ids # None /\ binding[b] = ops[b].ids

deleteBook(t, b) ==
    /\ task[t].pc = "idle" /\ MayDelete(b) /\ Free(b)
    /\ task' = [task EXCEPT ![t] = [Idle EXCEPT !.pc = "deleteProject", !.book = b,
                                                !.op = ops[b], !.owned = dir[b] # None]]
    /\ UNCHANGED <<ops, stores, history, mishaps>>

\* The runtime removes the project with its chapters and narrators.
deleteProject(t) ==
    /\ task[t].pc = "deleteProject"
    /\ runtime' = [runtime EXCEPT ![task[t].op.ids] = {}]
    /\ Goto(t, "purge")
    /\ UNCHANGED <<ops, core, dir, staging, binding, history, mishaps>>

purgeBookScopedStorage(t) ==
    /\ task[t].pc = "purge"
    /\ core' = core \ {task[t].book}
    /\ Goto(t, IF task[t].owned THEN "removeDir" ELSE "unbind")
    /\ UNCHANGED <<ops, dir, staging, runtime, binding, history, mishaps>>

\* Slip: the directory is left.
removeDirectory_Skipped(t) ==
    /\ task[t].pc = "removeDir"
    /\ Goto(t, "unbind")
    /\ UNCHANGED <<ops, stores, history, mishaps>>

removeDirectory(t) ==
    /\ task[t].pc = "removeDir"
    /\ dir' = [dir EXCEPT ![task[t].book] = None]
    /\ Goto(t, "unbind")
    /\ UNCHANGED <<ops, core, staging, runtime, binding, history, mishaps>>

deleteBinding(t) ==
    /\ task[t].pc = "unbind"
    /\ binding' = [b \in Books |-> IF binding[b] = task[t].op.ids THEN None ELSE binding[b]]
    /\ Goto(t, "deleteRow")
    /\ UNCHANGED <<ops, core, dir, staging, runtime, history, mishaps>>

deleteRow(t) ==
    /\ task[t].pc = "deleteRow"
    /\ ops' = IF OwnRow(t) THEN [ops EXCEPT ![task[t].book] = None] ELSE ops
    /\ Return(t)
    /\ UNCHANGED <<stores, history, mishaps>>

-----------------------------------------------------------------------------
(* What goes wrong.                                                        *)

Stoppable(t) == task[t].pc # "deleteRow" \/ RowRemovalFails

AfterFailure(t) ==
    LET pc == task[t].pc IN
    CASE pc \in Resuming \ {"catch"} -> Goto(t, "catch")
      [] pc = "catch" -> GiveUp(t)
      [] pc \in Registering -> Goto(t, "undoData")
      [] pc \in Deleting \cup Unpacking -> Return(t)

\* A step throws: a failed attempt is recorded, a failed deletion reported, an
\* import undone; what was staged is removed.
stepFails(t) ==
    LET pc == task[t].pc IN
    /\ mishaps < MaxMishaps /\ mishaps' = mishaps + 1
    /\ pc \in UNION {Resuming, Deleting, Unpacking, Registering} /\ Stoppable(t)
    /\ pc = "backfill" => BackfillFails
    /\ staging' = IF pc \in {"write", "rename"} \cup Unpacking
                  THEN [staging EXCEPT ![task[t].op.id] = "absent"] ELSE staging
    /\ AfterFailure(t)
    /\ UNCHANGED <<ops, core, dir, runtime, binding, history>>

UndoThen == [undoProject |-> {"undoBinding", "undoRow"}, undoBinding |-> {"undoRow"},
             undoRow |-> {"undoData"}, undoData |-> {"undoDir"}, undoDir |-> {"idle"}]

\* The undoing passes over what it cannot undo; without the row it knows of no
\* project and no binding.
undoFails(t) ==
    /\ mishaps < MaxMishaps /\ mishaps' = mishaps + 1
    /\ task[t].pc \in Undoing
    /\ remains' = remains \cup {task[t].book}
    /\ \E next \in UndoThen[task[t].pc] : IF next = "idle" THEN Return(t) ELSE Goto(t, next)
    /\ UNCHANGED <<ops, stores, reserved, undone>>

\* The process ends; rows and directories stay as they are.
crash ==
    /\ mishaps < MaxMishaps /\ mishaps' = mishaps + 1
    /\ \A t \in Tasks : Stoppable(t)
    /\ task' = [t \in Tasks |-> Idle]
    /\ remains' = remains \cup {b \in Books : Importing(b) /\ ops[b] = None}
    /\ UNCHANGED <<ops, stores, reserved, undone>>

\* Somebody puts an old book where no directory is.
oldBookAppears(b) ==
    /\ mishaps < MaxMishaps /\ mishaps' = mishaps + 1
    /\ dir[b] = None /\ Known(b)
    /\ dir' = [dir EXCEPT ![b] = Legacy]
    /\ UNCHANGED <<ops, core, staging, runtime, binding, task, history>>

TaskStep(t) ==
    \/ checkDirectory(t) \/ insertOperation(t) \/ findRaced(t)
    \/ stageCore(t) \/ promoteFilesystem(t) \/ clearStaging(t) \/ writeBookScaffold(t)
    \/ renameStaging(t) \/ bindRuntime(t) \/ persistIds(t) \/ insertRow(t)
    \/ upsertBinding(t) \/ recordState(t) \/ handleError(t)
    \/ deleteProject(t) \/ purgeBookScopedStorage(t) \/ removeDirectory(t)
    \/ deleteBinding(t) \/ deleteRow(t)
    \/ unpackFiles(t) \/ loadRows(t) \/ backfillNarrativeFactSlotKeys(t)
    \/ placeDirectory(t) \/ registerImport(t)
    \/ undoProject(t) \/ undoBinding(t) \/ undoRow(t) \/ purgeBookArchiveData(t)
    \/ undoDirectory(t)

Next ==
    \/ \E t \in Tasks, b \in Books :
          \/ \E k \in Keys : create(t, b, k) \/ importBookArchive(t, b, k)
          \/ retry(t, b) \/ claim(t, b) \/ deleteBook(t, b)
    \/ \E t \in Tasks : TaskStep(t) \/ stepFails(t) \/ undoFails(t)
    \/ crash
    \/ \E b \in Books : oldBookAppears(b)

Spec == Init /\ [][Next]_vars

\* Requests are carried on; who waits for a book retries, and who was told
\* that a deletion failed repeats it.
DeletionBegun(b) == Has(b, "ready") /\ "project" \notin runtime[ops[b].ids]
FairSpec ==
    /\ Spec
    /\ \A t \in Tasks : WF_vars(TaskStep(t))
    /\ \A b \in Books :
          /\ WF_vars(\E t \in Tasks : retry(t, b))
          /\ WF_vars(\E t \in Tasks : DeletionBegun(b) /\ deleteBook(t, b))

-----------------------------------------------------------------------------
(* Properties.                                                             *)

ProjectsOf(b) == {p \in Projects : reserved[p[1]] = b /\ "project" \in runtime[p]}

\* However often an attempt fails, is repeated or is cut off by a crash, a book
\* gets one runtime project (bindRuntime: ids recorded before rows).  An import
\* whose undoing failed may leave a project that a later claim knows nothing of.
OneProjectPerBook == \A b \in Books \ remains : Cardinality(ProjectsOf(b)) <= 1

\* A book is called ready only when its directory, its project, chapter and
\* narrator and the binding are all there, whichever attempts made them.  An
\* import that is being undone may leave its row with the word "runtime-bound"
\* (neither that it is ready nor that it failed could be written) when the
\* project is gone; whoever takes the row up then takes it at its word.
Unmade(b) == ops[b].origin = "archive" /\ (b \in remains \/ ops[b].id \in undone)
Complete(b) ==
    /\ binding[b] = ops[b].ids
    /\ runtime[binding[b]] = Pieces
    /\ dir[b] = ops[b].id \/ (ops[b].origin = "claim" /\ dir[b] \notin {None, Broken})
ReadyOnlyWhenComplete ==
    [][\A b \in Books :
          (~Has(b, "ready") /\ Has(b, "ready")' /\ ~Unmade(b)') => Complete(b)']_vars

\* When a book's row is gone nothing of the book is left in any store, also if
\* the deletion failed and was repeated, or somebody else was at work on it.  An
\* import that failed at whatever step, or lost against another with its key,
\* leaves nothing once its undoing is through ("没有留下半本书").
NothingLeftBehind ==
    \A b \in Books \ remains : ops[b] = None /\ ~Importing(b) =>
        /\ ProjectsOf(b) = {} /\ binding[b] = None /\ b \notin core
        /\ dir[b] \in {None, Legacy}

\* A new book never gets hold of a directory it did not write: an old book that
\* turns up at any moment is bound only through a claim (promoteFilesystem).
OldBooksOnlyByClaim ==
    \A b \in Books : binding[b] # None /\ ops[b] # None /\ dir[b] = Legacy
        => ops[b].origin = "claim" \/ DeletionBegun(b)

\* Once nothing more goes wrong, an operation that was begun gets its book
\* ready, from whatever point it was left at, unless an old book is in the way.
EveryBookGetsReady ==
    \A b \in Books : (ops[b] # None /\ ~Has(b, "ready"))
        ~> (ops[b] = None \/ Has(b, "ready") \/ dir[b] = Legacy)

\* A deletion that was begun can be repeated until the book is gone
\* (the comment in deleteBook says so).
DeletionEnds == \A b \in Books : DeletionBegun(b) ~> (ops[b] = None)

\* The row's words "filesystem-promoted" and later mean that the core row is
\* there (importBookArchive says so of that state), for books made here.
PromotedHasCoreRow ==
    \A b \in Books :
        /\ ops[b] # None /\ ops[b].origin = "create"
        /\ \/ Has(b, "filesystem-promoted") \/ Has(b, "runtime-bound")
           \/ Has(b, "ready") /\ ~DeletionBegun(b)
        => b \in core

\* What the reader of the shelf sees of all this.
Shelf == INSTANCE BookShelf WITH
    stage <- [b \in Books |-> IF ops[b] = None THEN "absent"
                              ELSE IF ops[b].state = "ready" THEN "ready"
                              ELSE IF ops[b].origin = "archive" THEN "importing"
                              ELSE "building"],
    project <- [b \in Books |-> IF ops[b] = None THEN None ELSE ops[b].ids]
ImplementsShelf == Shelf!Spec
=============================================================================

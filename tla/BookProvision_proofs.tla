------------------------ MODULE BookProvision_proofs ------------------------
(***************************************************************************)
(* What making, importing, claiming and deleting books keep, for any       *)
(* number of books, requests, operations and mishaps.  Where one request   *)
(* at a time works on a book (~OverlappingWork) the properties follow from *)
(* an invariant that says, for every place a request can have got to, what *)
(* the stores have of its book: SerialInv.  Its parts about books are named *)
(* after what they speak of (rows, directory, binding, what no row names), *)
(* those about requests after what the request relies on.  A step of one   *)
(* request disturbs nothing of another's (OtherTaskOK, OtherBookOK, gathered *)
(* in StepAt and BusyStep): each action has a lemma that shows its own     *)
(* request's part and its own book's.                                      *)
(***************************************************************************)
EXTENDS BookProvision, FiniteSetTheorems, TLAPS

----------------------------------------------------------------------------
(* Rows and requests. *)

LEMMA RowFields ==
    ASSUME NEW r \in Operation
    PROVE  /\ r # None
           /\ r.id \in Operations
           /\ r.origin \in {"create", "claim", "archive"}
           /\ r.state \in ProvisionState
           /\ r.ids \in Projects \cup {None}
  BY NoneAssumption DEF Operation

\* What updateOperation changes of a row, and what it leaves.
LEMMA RowUpdate ==
    ASSUME NEW r \in Operation, NEW s \in ProvisionState, NEW p \in Projects
    PROVE  /\ [r EXCEPT !.state = s] \in Operation
           /\ [r EXCEPT !.state = s].state = s
           /\ [r EXCEPT !.state = s].id = r.id
           /\ [r EXCEPT !.state = s].ids = r.ids
           /\ [r EXCEPT !.state = s].origin = r.origin
           /\ [r EXCEPT !.ids = p] \in Operation
           /\ [r EXCEPT !.ids = p].state = r.state
           /\ [r EXCEPT !.ids = p].id = r.id
           /\ [r EXCEPT !.ids = p].ids = p
           /\ [r EXCEPT !.ids = p].origin = r.origin
  BY DEF Operation

\* A row as it is inserted.
LEMMA NewRow ==
    ASSUME NEW o \in Operations, NEW k \in Keys \cup {None},
           NEW origin \in {"create", "claim", "archive"}, NEW s \in ProvisionState
    PROVE  /\ Row(o, k, origin, s) \in Operation
           /\ Row(o, k, origin, s).id = o
           /\ Row(o, k, origin, s).origin = origin
           /\ Row(o, k, origin, s).state = s
           /\ Row(o, k, origin, s).ids = None
  BY DEF Row, Operation

Pcs == UNION {Waiting, Resuming, Deleting, Unpacking, Registering, Undoing}

\* The fields of a request.
LEMMA TaskFields ==
    ASSUME NEW q \in Task
    PROVE  /\ q.pc \in Pcs
           /\ q.book \in Books \cup {None}
           /\ q.key \in Keys \cup {None}
           /\ q.op \in Operation \cup {None}
           /\ q.owned \in BOOLEAN /\ q.import \in BOOLEAN
  BY DEF Task, Pcs

\* A request that has ended, or not begun.
LEMMA IdleTask ==
    /\ Idle \in Task /\ Idle.pc = "idle" /\ Idle.book = None /\ Idle.op = None
    /\ Idle.import = FALSE /\ Idle.owned = FALSE
  BY DEF Idle, Task, Waiting

\* Replacing the place a request has got to, and its copy of the row.
LEMMA PlaceUpdate ==
    ASSUME NEW q \in Task, NEW pc \in Pcs
    PROVE  /\ [q EXCEPT !.pc = pc] \in Task
           /\ [q EXCEPT !.pc = pc].pc = pc
           /\ [q EXCEPT !.pc = pc].book = q.book
           /\ [q EXCEPT !.pc = pc].key = q.key
           /\ [q EXCEPT !.pc = pc].op = q.op
           /\ [q EXCEPT !.pc = pc].owned = q.owned
           /\ [q EXCEPT !.pc = pc].import = q.import
  BY DEF Task, Pcs

\* Replacing the copy of the row as well.
LEMMA CopyUpdate ==
    ASSUME NEW q \in Task, NEW pc \in Pcs, NEW r \in Operation
    PROVE  /\ [q EXCEPT !.op = r, !.pc = pc] \in Task
           /\ [q EXCEPT !.op = r, !.pc = pc].pc = pc
           /\ [q EXCEPT !.op = r, !.pc = pc].book = q.book
           /\ [q EXCEPT !.op = r, !.pc = pc].key = q.key
           /\ [q EXCEPT !.op = r, !.pc = pc].op = r
           /\ [q EXCEPT !.op = r, !.pc = pc].owned = q.owned
           /\ [q EXCEPT !.op = r, !.pc = pc].import = q.import
  BY DEF Task, Pcs

\* What a request is when it takes up a row, or begins something else.
LEMMA WorkingTask ==
    ASSUME NEW b \in Books, NEW r \in Operation
    PROVE  /\ Working(b, r) \in Task
           /\ r.state = "ready" => Working(b, r) = Idle
           /\ r.state # "ready" =>
                /\ Working(b, r).pc = FirstStep(r.state)
                /\ Working(b, r).pc \in {"stage", "promote", "bind", "finish"}
                /\ Working(b, r).book = b
                /\ Working(b, r).op = r
                /\ Working(b, r).import = FALSE
           /\ r.state = "filesystem-promoted" => Working(b, r).pc = "bind"
           /\ Working(b, r).pc = "bind" => r.state = "filesystem-promoted"
           /\ Working(b, r).pc = "finish" => r.state = "runtime-bound"
  <1>1. r.state \in ProvisionState
    BY RowFields
  <1>2. /\ r.state = "ready" <=> FirstStep(r.state) = "idle"
        /\ r.state # "ready" => FirstStep(r.state) \in {"stage", "promote", "bind", "finish"}
        /\ r.state = "filesystem-promoted" <=> FirstStep(r.state) = "bind"
        /\ r.state = "runtime-bound" <=> FirstStep(r.state) = "finish"
    BY <1>1 DEF FirstStep, ProvisionState
  <1>3. Idle.pc = "idle" /\ Idle \in Task
    BY IdleTask
  <1> QED
    BY <1>2, <1>3 DEF Working, Idle, Task, Waiting, Resuming

----------------------------------------------------------------------------
(* Types. *)

\* A request that has left the waiting room has a book and a row.
Formed(t) ==
    /\ task[t].pc # "idle" => task[t].book # None
    /\ task[t].pc \notin Waiting => task[t].op # None
    /\ task[t].pc \in {"check", "insert", "raced"} => task[t].key \in Keys

TypeInv == TypeOK /\ \A t \in Tasks : Formed(t)

\* All is empty at first.
LEMMA TypeInit ==
    Init => TypeInv
  BY IdleTask, BookProvisionAssumption DEF Init, TypeInv, TypeOK, Formed, Waiting

\* What a step does to the requests: one moves on, returns, or takes up a row.
LEMMA GotoStep ==
    ASSUME TypeOK, NEW t \in Tasks, NEW pc \in Pcs, Goto(t, pc)
    PROVE  /\ task' \in [Tasks -> Task]
           /\ \A u \in Tasks \ {t} : task'[u] = task[u]
           /\ task'[t].pc = pc
           /\ task'[t].book = task[t].book
           /\ task'[t].key = task[t].key
           /\ task'[t].op = task[t].op
           /\ task'[t].owned = task[t].owned
           /\ task'[t].import = task[t].import
  <1>1. task[t] \in Task /\ task'[t] = [task[t] EXCEPT !.pc = pc]
        /\ \A u \in Tasks \ {t} : task'[u] = task[u]
    BY DEF TypeOK, Goto
  <1>2. task' = [task EXCEPT ![t] = [task[t] EXCEPT !.pc = pc]]
    BY DEF TypeOK, Goto
  <1> QED
    BY <1>1, <1>2, PlaceUpdate DEF TypeOK

\* The request ends.
LEMMA ReturnStep ==
    ASSUME TypeOK, NEW t \in Tasks, Return(t)
    PROVE  /\ task' \in [Tasks -> Task]
           /\ \A u \in Tasks \ {t} : task'[u] = task[u]
           /\ task'[t] = Idle
  BY IdleTask DEF TypeOK, Return

\* The request takes up row r of book b.
LEMMA ResumeStep ==
    ASSUME TypeOK, NEW t \in Tasks, NEW b \in Books, NEW r \in Operation,
           task' = [task EXCEPT ![t] = Working(b, r)]
    PROVE  /\ task' \in [Tasks -> Task]
           /\ \A u \in Tasks \ {t} : task'[u] = task[u]
           /\ task'[t] = Working(b, r)
  <1>1. PICK q : q = Working(b, r)
    OBVIOUS
  <1>2. q \in Task /\ task' = [task EXCEPT ![t] = q]
    BY <1>1, WorkingTask
  <1> QED
    BY <1>1, <1>2 DEF TypeOK

\* The request goes on with the row as it is now.
LEMMA CopyStep ==
    ASSUME TypeOK, NEW t \in Tasks, NEW pc \in Pcs, NEW r \in Operation,
           GoOnWith(t, r, pc)
    PROVE  /\ task' \in [Tasks -> Task]
           /\ \A u \in Tasks \ {t} : task'[u] = task[u]
           /\ task'[t].pc = pc
           /\ task'[t].book = task[t].book
           /\ task'[t].key = task[t].key
           /\ task'[t].op = r
           /\ task'[t].owned = task[t].owned
           /\ task'[t].import = task[t].import
  <1>1. task[t] \in Task
    BY DEF TypeOK
  <1>2. PICK q : q = [task[t] EXCEPT !.op = r, !.pc = pc]
    OBVIOUS
  <1>3. task' = [task EXCEPT ![t] = q]
    BY <1>2 DEF GoOnWith
  <1>4. /\ q \in Task /\ q.pc = pc /\ q.book = task[t].book /\ q.key = task[t].key
        /\ q.op = r /\ q.owned = task[t].owned /\ q.import = task[t].import
    BY <1>1, <1>2 DEF Task, Pcs
  <1>5. /\ task' \in [Tasks -> Task] /\ task'[t] = q
        /\ \A u \in Tasks \ {t} : task'[u] = task[u]
    <2> task \in [Tasks -> Task]
      BY DEF TypeOK
    <2> QED
      BY <1>3, <1>4
  <1> QED
    BY <1>4, <1>5

\* A request that moves on keeps its form; so does one that returns or begins.
LEMMA GotoTypes ==
    ASSUME TypeInv, NEW t \in Tasks, NEW pc \in Pcs, Goto(t, pc),
           task[t].pc # "idle",
           pc \in Waiting \/ task[t].pc \notin Waiting,
           pc \in {"check", "insert", "raced"} => task[t].pc \in {"check", "insert", "raced"}
    PROVE  task' \in [Tasks -> Task] /\ \A u \in Tasks : Formed(u)'
  BY GotoStep DEF TypeInv, Formed

\* The same of a request that ends.
LEMMA ReturnTypes ==
    ASSUME TypeInv, NEW t \in Tasks, Return(t)
    PROVE  task' \in [Tasks -> Task] /\ \A u \in Tasks : Formed(u)'
  BY ReturnStep, IdleTask DEF TypeInv, Formed, Waiting

\* The same of one that takes up a row.
LEMMA ResumeTypes ==
    ASSUME TypeInv, NEW t \in Tasks, NEW b \in Books, NEW r \in Operation,
           task' = [task EXCEPT ![t] = Working(b, r)]
    PROVE  task' \in [Tasks -> Task] /\ \A u \in Tasks : Formed(u)'
  <1>1. Working(b, r) = Idle \/
              /\ Working(b, r).book = b /\ Working(b, r).op = r
              /\ Working(b, r).pc \in {"stage", "promote", "bind", "finish"}
    BY WorkingTask
  <1>2. b # None /\ r # None
    BY RowFields, BookProvisionAssumption
  <1> QED
    BY <1>1, <1>2, ResumeStep, IdleTask DEF TypeInv, Formed, Waiting

\* The same of one that goes on with the row as it is now.
LEMMA CopyTypes ==
    ASSUME TypeInv, NEW t \in Tasks, NEW pc \in Pcs \ Waiting, NEW r \in Operation,
           GoOnWith(t, r, pc), task[t].pc \notin Waiting
    PROVE  task' \in [Tasks -> Task] /\ \A u \in Tasks : Formed(u)'
  <1>1. /\ task' \in [Tasks -> Task]
        /\ \A u \in Tasks \ {t} : task'[u] = task[u]
        /\ task'[t].pc = pc /\ task'[t].book = task[t].book /\ task'[t].op = r
    <2> TypeOK /\ pc \in Pcs
      BY DEF TypeInv
    <2> QED
      BY CopyStep
  <1>2. r # None /\ pc \notin Waiting /\ task[t].book # None
    BY RowFields DEF TypeInv, Formed, Waiting
  <1> QED
    BY <1>1, <1>2 DEF TypeInv, Formed, Waiting

\* The places a request can be at, as the provers need them.
LEMMA Places ==
    /\ \A pc \in Waiting : pc \in Pcs
    /\ \A pc \in UNION {Resuming, Deleting, Unpacking, Registering, Undoing} :
          pc \in Pcs /\ pc \notin Waiting
  BY DEF Pcs, Waiting, Resuming, Deleting, Unpacking, Registering, Undoing

\* Each step of a request keeps the types.
LEMMA TypeOfTaskStep ==
    ASSUME TypeInv, NEW t \in Tasks, TaskStep(t)
    PROVE  TypeInv'
  <1> USE DEF Pcs, Waiting, Resuming, Deleting, Unpacking, Registering, Undoing
  <1>t. task[t] \in Task /\ Formed(t)
    BY DEF TypeInv, TypeOK
  <1>1. CASE checkDirectory(t)
    BY <1>1, <1>t, GotoTypes, ReturnTypes, RowFields, TaskFields DEF TypeInv, TypeOK, Formed, checkDirectory, stores, history
  <1>2. CASE stageCore(t)
    BY <1>2, <1>t, GotoTypes, RowFields, TaskFields DEF TypeInv, TypeOK, Formed, stageCore, history
  <1>3. CASE promoteFilesystem(t)
    BY <1>3, <1>t, GotoTypes, RowFields, TaskFields DEF TypeInv, TypeOK, Formed, promoteFilesystem, stores, history
  <1>4. CASE clearStaging(t)
    BY <1>4, <1>t, GotoTypes, RowFields, TaskFields DEF TypeInv, TypeOK, Formed, clearStaging, history
  <1>5. CASE writeBookScaffold(t)
    BY <1>5, <1>t, GotoTypes, RowFields, TaskFields DEF TypeInv, TypeOK, Formed, writeBookScaffold, history
  <1>6. CASE bindRuntime(t)
    BY <1>6, <1>t, GotoTypes, RowFields, TaskFields DEF TypeInv, TypeOK, Formed, bindRuntime, stores, history
  <1>7. CASE loadRows(t)
    BY <1>7, <1>t, GotoTypes, RowFields, TaskFields DEF TypeInv, TypeOK, Formed, loadRows, history
  <1>8. CASE unpackFiles(t)
    BY <1>8, <1>t, GotoTypes, RowFields, TaskFields DEF TypeInv, TypeOK, Formed, unpackFiles, history
  <1>9. CASE backfillNarrativeFactSlotKeys(t)
    BY <1>9, <1>t, GotoTypes, RowFields, TaskFields DEF TypeInv, TypeOK, Formed, backfillNarrativeFactSlotKeys, stores, history
  <1>10. CASE deleteProject(t)
    BY <1>10, <1>t, GotoTypes, RowFields, TaskFields DEF TypeInv, TypeOK, Formed, deleteProject, history
  <1>11. CASE purgeBookScopedStorage(t)
    BY <1>11, <1>t, GotoTypes, RowFields, TaskFields DEF TypeInv, TypeOK, Formed, purgeBookScopedStorage, history
  <1>12. CASE removeDirectory(t)
    BY <1>12, <1>t, GotoTypes, RowFields, TaskFields DEF TypeInv, TypeOK, Formed, removeDirectory, history
  <1>13. CASE deleteBinding(t)
    BY <1>13, <1>t, GotoTypes, RowFields, TaskFields DEF TypeInv, TypeOK, Formed, deleteBinding, history
  <1>14. CASE undoBinding(t)
    BY <1>14, <1>t, GotoTypes, RowFields, TaskFields DEF TypeInv, TypeOK, Formed, undoBinding, history
  <1>15. CASE purgeBookArchiveData(t)
    BY <1>15, <1>t, GotoTypes, RowFields, TaskFields DEF TypeInv, TypeOK, Formed, purgeBookArchiveData, history
  <1>16. CASE undoRow(t)
    BY <1>16, <1>t, GotoTypes, RowFields, TaskFields DEF TypeInv, TypeOK, Formed, undoRow, stores, history
  <1>17. CASE deleteRow(t)
    BY <1>17, <1>t, ReturnTypes, RowFields, TaskFields DEF TypeInv, TypeOK, Formed, deleteRow, stores, history
  <1>18. CASE undoDirectory(t)
    BY <1>18, <1>t, ReturnTypes, RowFields, TaskFields DEF TypeInv, TypeOK, Formed, undoDirectory, history
  <1>19. CASE insertRow(t)
    BY <1>19, <1>t, GotoTypes, RowFields, TaskFields DEF TypeInv, TypeOK, Formed, insertRow, history, NextPiece, Pieces
  <1>20. CASE upsertBinding(t)
    BY <1>20, <1>t, GotoTypes, RowFields, TaskFields DEF TypeInv, TypeOK, Formed, upsertBinding, history
  <1>21. CASE renameStaging(t)
    BY <1>21, <1>t, GotoTypes, RowFields, TaskFields DEF TypeInv, TypeOK, Formed, renameStaging, history
  <1>22. CASE placeDirectory(t)
    BY <1>22, <1>t, GotoTypes, RowFields, TaskFields DEF TypeInv, TypeOK, Formed, placeDirectory, history
  <1>23. CASE findRaced(t)
    <2>1. CASE Return(t)
      BY <1>23, <2>1, ReturnTypes DEF TypeInv, TypeOK, findRaced, stores, history
    <2>2. CASE \E c \in Books : HasKey(c, task[t].key) /\ resume(t, c)
      <3>1. PICK c \in Books : HasKey(c, task[t].key) /\ resume(t, c)
        BY <2>2
      <3>2. ops[c] \in Operation /\ task' = [task EXCEPT ![t] = Working(c, ops[c])]
        BY <3>1 DEF HasKey, resume, TypeInv, TypeOK
      <3> QED
        BY <1>23, <3>2, ResumeTypes DEF TypeInv, TypeOK, findRaced, stores, history
    <2> QED
      BY <1>23, <2>1, <2>2 DEF findRaced
  <1>24. CASE insertOperation(t)
    <2>1. task[t].book \in Books /\ task[t].key \in Keys
      BY <1>t, <1>24, TaskFields DEF insertOperation, Formed
    <2>2. CASE Goto(t, "raced") /\ UNCHANGED <<ops, reserved>>
      BY <1>24, <2>2, GotoTypes DEF TypeInv, TypeOK, insertOperation, stores, history
    <2>3. CASE \E o \in Operations :
                  Insert(t, task[t].book, Row(o, task[t].key, "create", "reserved"))
      <3>1. PICK o \in Operations :
                  Insert(t, task[t].book, Row(o, task[t].key, "create", "reserved"))
        BY <2>3
      <3>2. PICK r : r = Row(o, task[t].key, "create", "reserved")
        OBVIOUS
      <3>3. r \in Operation /\ r.id = o
        BY <2>1, <3>2, NewRow DEF ProvisionState
      <3> QED
        BY <1>24, <2>1, <3>1, <3>2, <3>3, ResumeTypes
           DEF TypeInv, TypeOK, Insert, insertOperation, stores
    <2> QED
      BY <1>24, <2>2, <2>3 DEF insertOperation
  <1>25. CASE persistIds(t)
    <2>1. CASE OwnRow(t)
      <3>1. task[t].book \in Books /\ ops[task[t].book] \in Operation
        BY <1>25, <1>t, <2>1, TaskFields DEF persistIds, Formed, OwnRow, TypeInv, TypeOK
      <3>2. <<task[t].op.id, t>> \in Projects
        BY <3>1, <2>1, RowFields DEF OwnRow, Projects
      <3>3. PICK r : r = [ops[task[t].book] EXCEPT !.ids = <<task[t].op.id, t>>]
        OBVIOUS
      <3>4. r \in Operation
        BY <3>1, <3>2, <3>3 DEF Operation
      <3>5. UpdateRow(t, r, "project")
        BY <1>25, <2>1, <3>3 DEF persistIds
      <3> QED
        BY <1>25, <3>1, <3>4, <3>5, CopyTypes
           DEF TypeInv, TypeOK, UpdateRow, persistIds, stores, history
    <2>2. CASE ~ OwnRow(t)
      BY <1>25, <2>2, GotoTypes DEF TypeInv, TypeOK, persistIds, stores, history
    <2> QED
      BY <2>1, <2>2
  <1>26. CASE recordState(t)
    <2>1. CASE ~ OwnRow(t)
      BY <1>26, <2>1, GotoTypes DEF TypeInv, TypeOK, recordState, Recorded, stores, history
    <2>2. CASE OwnRow(t)
      <3>1. task[t].book \in Books /\ ops[task[t].book] \in Operation
        BY <1>26, <1>t, <2>2, TaskFields DEF recordState, Recorded, Formed, OwnRow, TypeInv, TypeOK
      <3>2. CASE task[t].pc = "finish"
        BY <1>26, <2>2, <3>1, <3>2, ReturnTypes
           DEF TypeInv, TypeOK, recordState, Recorded, stores, history, Operation, ProvisionState
      <3>3. CASE task[t].pc # "finish"
        <4>1. PICK r : r = [ops[task[t].book] EXCEPT !.state = Recorded[task[t].pc]]
          OBVIOUS
        <4>2. r \in Operation
          BY <1>26, <3>1, <4>1 DEF Operation, ProvisionState, recordState, Recorded
        <4>3. PICK pc : pc = Then[task[t].pc]
          OBVIOUS
        <4>4. pc \in Pcs \ Waiting
          BY <1>26, <3>3, <4>3 DEF recordState, Recorded, Then
        <4>5. UpdateRow(t, r, pc)
          BY <1>26, <2>2, <3>3, <4>1, <4>3 DEF recordState
        <4>6. task[t].pc \notin Waiting
          BY <1>26 DEF recordState, Recorded
        <4> QED
          BY <1>26, <3>1, <4>2, <4>4, <4>5, <4>6, CopyTypes
             DEF TypeInv, TypeOK, UpdateRow, recordState, stores, history
      <3> QED
        BY <3>2, <3>3
    <2> QED
      BY <2>1, <2>2
  <1>27. CASE handleError(t)
    <2>1. task' \in [Tasks -> Task] /\ \A u \in Tasks : Formed(u)'
      BY <1>27, GotoTypes, ReturnTypes DEF handleError, GiveUp
    <2>2. ops' \in [Books -> Operation \cup {None}]
      <3>1. CASE ~ OwnRow(t)
        BY <1>27, <3>1 DEF handleError, TypeInv, TypeOK
      <3>2. CASE OwnRow(t)
        <4>1. task[t].book \in Books /\ ops[task[t].book] \in Operation
          BY <1>27, <1>t, <3>2, TaskFields DEF handleError, Formed, OwnRow, TypeInv, TypeOK
        <4>2. FailureState(task[t].op.state) \in ProvisionState
          BY DEF FailureState, ProvisionState
        <4> QED
          BY <1>27, <3>2, <4>1, <4>2 DEF handleError, TypeInv, TypeOK, Operation
      <3> QED
        BY <3>1, <3>2
    <2> QED
      BY <1>27, <2>1, <2>2 DEF handleError, TypeInv, TypeOK, stores, history
  <1>28. CASE registerImport(t)
    BY <1>28, <1>t, GotoTypes, TaskFields DEF TypeInv, TypeOK, Formed, registerImport, stores, history
  <1>29. CASE undoProject(t)
    <2>1. CASE OwnRow(t) /\ ops[task[t].book].ids # None
      <3>1. task[t].book \in Books /\ ops[task[t].book] \in Operation
        BY <1>29, <1>t, <2>1, TaskFields DEF undoProject, Formed, OwnRow, TypeInv, TypeOK
      <3>2. GoOnWith(t, ops[task[t].book], "undoBinding")
        BY <1>29, <2>1 DEF undoProject
      <3>3. PICK r : r = ops[task[t].book]
        OBVIOUS
      <3>4. task' \in [Tasks -> Task] /\ \A u \in Tasks : Formed(u)'
        BY <1>29, <3>1, <3>2, <3>3, CopyTypes DEF undoProject
      <3> QED
        BY <1>29, <2>1, <3>1, <3>4, RowFields DEF undoProject, TypeInv, TypeOK
    <2>2. CASE ~ (OwnRow(t) /\ ops[task[t].book].ids # None)
      BY <1>29, <2>2, GotoTypes DEF TypeInv, TypeOK, undoProject
    <2> QED
      BY <2>1, <2>2
  <1> QED
    BY <1>1, <1>2, <1>3, <1>4, <1>5, <1>6, <1>7, <1>8, <1>9, <1>10, <1>11, <1>12, <1>13, <1>14, <1>15, <1>16, <1>17, <1>18, <1>19, <1>20, <1>21, <1>22, <1>23, <1>24, <1>25, <1>26, <1>27, <1>28, <1>29 DEF TaskStep

\* Requests that begin or are cut off, and what goes wrong.
LEMMA TypeNext ==
    TypeInv /\ [Next]_vars => TypeInv'
  <1> SUFFICES ASSUME TypeInv, [Next]_vars PROVE TypeInv'
    OBVIOUS
  <1> USE DEF Waiting
  <1>1. ASSUME NEW t \in Tasks, NEW b \in Books, NEW k \in Keys, create(t, b, k)
        PROVE  TypeInv'
    <2>1. CASE \E c \in Books : HasKey(c, k) /\ resume(t, c)
      <3>1. PICK c \in Books : HasKey(c, k) /\ resume(t, c)
        BY <2>1
      <3>2. ops[c] \in Operation /\ task' = [task EXCEPT ![t] = Working(c, ops[c])]
        BY <3>1 DEF HasKey, resume, TypeInv, TypeOK
      <3> QED
        BY <1>1, <3>2, ResumeTypes DEF TypeInv, TypeOK, create, stores, history
    <2>2. CASE task' = [task EXCEPT ![t] = [Idle EXCEPT !.pc = "check", !.book = b, !.key = k]]
      <3>1. PICK q : q = [Idle EXCEPT !.pc = "check", !.book = b, !.key = k]
        OBVIOUS
      <3>2. q \in Task /\ q.pc = "check" /\ q.book = b /\ q.key = k
        BY <3>1 DEF Idle, Task
      <3>3. task' = [task EXCEPT ![t] = q]
        BY <2>2, <3>1
      <3>4. b # None
        BY BookProvisionAssumption
      <3> QED
        BY <1>1, <3>2, <3>3, <3>4 DEF TypeInv, TypeOK, Formed, create, stores, history
    <2> QED
      BY <1>1, <2>1, <2>2 DEF create
  <1>2. ASSUME NEW t \in Tasks, NEW b \in Books, NEW k \in Keys, importBookArchive(t, b, k)
        PROVE  TypeInv'
    <2>1. PICK o \in Operations :
             /\ reserved' = [reserved EXCEPT ![o] = b]
             /\ task' = [task EXCEPT ![t] =
                   [Idle EXCEPT !.pc = "unpack", !.book = b, !.key = k, !.import = TRUE,
                                !.op = Row(o, k, "archive", "filesystem-promoted")]]
      BY <1>2 DEF importBookArchive
    <2>2. PICK r : r = Row(o, k, "archive", "filesystem-promoted")
      OBVIOUS
    <2>3. r \in Operation /\ r # None /\ b # None
      BY <2>2, NewRow, RowFields, BookProvisionAssumption DEF ProvisionState
    <2>4. PICK q : q = [Idle EXCEPT !.pc = "unpack", !.book = b, !.key = k, !.import = TRUE, !.op = r]
      OBVIOUS
    <2>5. q \in Task /\ q.pc = "unpack" /\ q.book = b /\ q.op = r
      BY <2>3, <2>4 DEF Idle, Task, Unpacking
    <2>6. task' = [task EXCEPT ![t] = q] /\ reserved' = [reserved EXCEPT ![o] = b]
      BY <2>1, <2>2, <2>4
    <2>7. UNCHANGED <<ops, stores, remains, undone, mishaps>>
      BY <1>2 DEF importBookArchive
    <2> QED
      BY <2>3, <2>5, <2>6, <2>7 DEF TypeInv, TypeOK, Formed, stores
  <1>3. ASSUME NEW t \in Tasks, NEW b \in Books, retry(t, b)
        PROVE  TypeInv'
    <2>1. ops[b] \in Operation /\ task' = [task EXCEPT ![t] = Working(b, ops[b])]
      BY <1>3 DEF retry, resume, TypeInv, TypeOK
    <2> QED
      BY <1>3, <2>1, ResumeTypes DEF TypeInv, TypeOK, retry, stores, history
  <1>4. ASSUME NEW t \in Tasks, NEW b \in Books, claim(t, b)
        PROVE  TypeInv'
    <2>1. PICK o \in Operations : Insert(t, b, Row(o, None, "claim", "filesystem-promoted"))
      BY <1>4 DEF claim
    <2>2. PICK r : r = Row(o, None, "claim", "filesystem-promoted")
      OBVIOUS
    <2>3. r \in Operation /\ r.id = o
      BY <2>2, NewRow DEF ProvisionState
    <2> QED
      BY <1>4, <2>1, <2>2, <2>3, ResumeTypes DEF TypeInv, TypeOK, Insert, claim, stores
  <1>5. ASSUME NEW t \in Tasks, NEW b \in Books, deleteBook(t, b)
        PROVE  TypeInv'
    <2>1. PICK q : q = [Idle EXCEPT !.pc = "deleteProject", !.book = b,
                                   !.op = ops[b], !.owned = dir[b] # None]
      OBVIOUS
    <2>2. ops[b] \in Operation /\ ops[b] # None /\ b # None
      BY <1>5, BookProvisionAssumption DEF deleteBook, MayDelete, Has, TypeInv, TypeOK
    <2>3. q \in Task /\ q.pc = "deleteProject" /\ q.book = b /\ q.op = ops[b]
      BY <2>1, <2>2 DEF Idle, Task, Deleting
    <2>4. task' = [task EXCEPT ![t] = q]
      BY <1>5, <2>1 DEF deleteBook
    <2> QED
      BY <1>5, <2>2, <2>3, <2>4 DEF TypeInv, TypeOK, Formed, deleteBook, stores, history
  <1>6. ASSUME NEW t \in Tasks, TaskStep(t)
        PROVE  TypeInv'
    BY <1>6, TypeOfTaskStep
  <1>7. ASSUME NEW t \in Tasks, stepFails(t)
        PROVE  TypeInv'
    <2>1. task' \in [Tasks -> Task] /\ \A u \in Tasks : Formed(u)'
      BY <1>7, GotoTypes, ReturnTypes
         DEF stepFails, AfterFailure, GiveUp, Pcs, Resuming, Deleting, Unpacking, Registering, Undoing
    <2>2. mishaps' \in 0..MaxMishaps
      BY <1>7, BookProvisionAssumption DEF stepFails, TypeInv, TypeOK
    <2> QED
      BY <1>7, <2>1, <2>2 DEF stepFails, TypeInv, TypeOK, history
  <1>8. ASSUME NEW t \in Tasks, undoFails(t)
        PROVE  TypeInv'
    <2>1. task' \in [Tasks -> Task] /\ \A u \in Tasks : Formed(u)'
      BY <1>8, GotoTypes, ReturnTypes DEF undoFails, UndoThen, Pcs, Undoing
    <2>2. mishaps' \in 0..MaxMishaps
      BY <1>8, BookProvisionAssumption DEF undoFails, TypeInv, TypeOK
    <2>3. task[t].book \in Books
      BY <1>8, TaskFields DEF undoFails, Undoing, TypeInv, TypeOK, Formed
    <2> QED
      BY <1>8, <2>1, <2>2, <2>3 DEF undoFails, TypeInv, TypeOK, stores
  <1>9. CASE crash
    <2>1. mishaps' \in 0..MaxMishaps
      BY <1>9, BookProvisionAssumption DEF crash, TypeInv, TypeOK
    <2> QED
      BY <1>9, <2>1, IdleTask DEF crash, TypeInv, TypeOK, Formed, stores
  <1>10. ASSUME NEW b \in Books, oldBookAppears(b)
         PROVE  TypeInv'
    <2>1. mishaps' \in 0..MaxMishaps
      BY <1>10, BookProvisionAssumption DEF oldBookAppears, TypeInv, TypeOK
    <2> QED
      BY <1>10, <2>1 DEF oldBookAppears, TypeInv, TypeOK, Formed, history
  <1>11. CASE UNCHANGED vars
    BY <1>11 DEF vars, history, TypeInv, TypeOK, Formed
  <1> QED
    BY <1>1, <1>2, <1>3, <1>4, <1>5, <1>6, <1>7, <1>8, <1>9, <1>10, <1>11 DEF Next

\* Every store and every request stays within its type, also when requests
\* overlap: a request at work has a book and a row to work on.
THEOREM BooksTypeCorrect ==
    Spec => []TypeOK
  <1>1. TypeInv => TypeOK
    BY DEF TypeInv
  <1> QED
    BY <1>1, TypeInit, TypeNext, PTL DEF Spec

----------------------------------------------------------------------------
(* One request at a time on a book.  The invariant has a part for every    *)
(* book, about its row and what the stores have of it, and one for every   *)
(* request, about the row it works on and how far it has got.              *)

\* An operation's row is the row of the book its id was made for; its project
\* has the operation's id in its own.
Own(b, r) ==
    /\ reserved[r.id] = b
    /\ r.ids # None => r.ids[1] = r.id
    /\ r.state \in {"runtime-bound", "ready"} => r.ids # None

\* The directory is the one the operation wrote, or one it was let have.
Held(b) ==
    dir[b] = ops[b].id \/ (ops[b].origin = "claim" /\ dir[b] \notin {None, Broken})

\* The row of an import that the undoing left.
LeftByImport(b) == ops[b].origin = "archive" /\ b \in remains

\* From here on an operation has got its directory, and keeps it until the
\* deletion begins.
PastPromotion(b) ==
    \/ ops[b].origin # "create"
    \/ binding[b] # None
    \/ ops[b].state \in {"filesystem-promoted", "runtime-bound", "ready"}

RowsOK(b) ==
    /\ ops[b] # None => Own(b, ops[b])
    /\ binding[b] # None => reserved[binding[b][1]] = b

DirectoryOK(b) ==
    /\ b \in remains => dir[b] # Legacy
    /\ ops[b] # None /\ LeftByImport(b) => dir[b] \in {None, ops[b].id}
    /\ ops[b] # None /\ ~LeftByImport(b) /\ ~DeletionBegun(b) /\ PastPromotion(b)
          => Held(b)

BoundOK(b) == Has(b, "runtime-bound") /\ ~Unmade(b) => Complete(b)

\* The runtime and the bindings have nothing of a book but what its row names.
NothingUnnamed(b) == b \notin remains =>
    /\ \A p \in Projects : reserved[p[1]] = b /\ "project" \in runtime[p]
          => ops[b] # None /\ ops[b].ids = p
    /\ binding[b] # None => ops[b] # None /\ ops[b].ids = binding[b]
    /\ ops[b] = None /\ ~Importing(b) => dir[b] \in {None, Legacy}

BookOK(b) == RowsOK(b) /\ DirectoryOK(b) /\ BoundOK(b) /\ NothingUnnamed(b)

Assigned == {"project", "chapter", "narrator", "upsert", "bound", "finish"}
HasDirectory == {"promoted", "ids", "project", "chapter", "narrator", "upsert", "bound"}

RequestOK(t) == LET q == task[t] IN
    /\ q.pc = "idle" => q = Idle
    /\ q.pc \in Waiting => ~q.import
    /\ q.pc \in {"check", "insert"} => q.book \notin remains
    /\ q.pc \notin Waiting => Own(q.book, q.op)
    /\ q.import => q.op.origin = "archive"
    /\ q.pc \in Unpacking \cup Registering \cup Undoing => q.import

\* The copy a request works on is the row as it is.
CopyOK(t) == LET q == task[t]  r == ops[q.book] IN
    /\ q.pc \in Resuming => r = q.op /\ r.state # "ready"
    /\ q.pc \in Assigned => q.op.ids # None
    /\ q.pc = "ids" => q.op.ids = None
    /\ q.pc = "bind" => q.op.state = "filesystem-promoted"
    /\ q.pc = "finish" => q.op.state = "runtime-bound"
    /\ q.pc \in Deleting => r = q.op /\ r.state = "ready" /\ ~q.import
    /\ q.pc \in Unpacking \cup Registering =>
          r = None /\ q.op.state = "filesystem-promoted" /\ q.op.ids = None
    /\ q.pc \in Undoing /\ r # None =>
          r.id = q.op.id /\ r.ids = q.op.ids /\ r.origin = "archive" /\ r.state # "ready"

FilesOK(t) == LET q == task[t]  b == q.book IN
    /\ q.pc = "write" => staging[q.op.id] = "partial"
    /\ q.pc = "rename" => staging[q.op.id] = "complete"
    /\ q.pc \in HasDirectory => Held(b)
    /\ q.import => dir[b] # Legacy
    /\ q.pc \in Unpacking \cup {"place"} => dir[b] = None
    /\ q.pc = "register" => dir[b] = q.op.id
    /\ q.pc \in {"unbind", "deleteRow"} \/ (q.pc \in Deleting /\ ~q.owned)
          => dir[b] \in {None, Legacy}

PiecesOK(t) == LET q == task[t] IN
    /\ q.pc = "chapter" => "project" \in runtime[q.op.ids]
    /\ q.pc = "narrator" => {"project", "chapter"} \subseteq runtime[q.op.ids]
    /\ q.pc \in {"upsert", "bound"} => runtime[q.op.ids] = Pieces
    /\ q.pc = "bound" => binding[q.book] = q.op.ids

\* How far a deletion, or the undoing of an import, has got.
RemovalOK(t) == LET q == task[t]  b == q.book  r == ops[b] IN
    /\ q.pc \in Deleting \ {"deleteProject"} => "project" \notin runtime[q.op.ids]
    /\ q.pc = "deleteRow" => binding[b] # q.op.ids
    /\ q.pc = "undoBinding" /\ r # None => Unmade(b)
    /\ q.pc \in {"undoData", "undoDir"} /\ r # None => b \in remains
    /\ b \notin remains =>
       /\ q.pc \in {"undoProject", "undoBinding", "undoRow"} => r # None
       /\ q.pc \in {"undoBinding", "undoRow"} /\ r.ids # None =>
             "project" \notin runtime[r.ids]
       /\ q.pc = "undoRow" => binding[b] = None

TaskOK(t) == RequestOK(t) /\ CopyOK(t) /\ FilesOK(t) /\ PiecesOK(t) /\ RemovalOK(t)

\* Nobody else is at work on a busy request's book; an import's book is known
\* to nobody else.
Alone == \A t, u \in Tasks :
    t # u /\ task[t].book = task[u].book /\ task[t].pc \notin Waiting
      => task[u].pc \in Waiting /\ ~task[t].import

Unused == \A p \in Projects : reserved[p[1]] = None => runtime[p] = {}

SerialInv ==
    /\ TypeInv /\ Alone /\ Unused
    /\ \A b \in Books : BookOK(b)
    /\ \A t \in Tasks : TaskOK(t)

----------------------------------------------------------------------------
(* What a step leaves alone. *)

\* Nothing that concerns book c changes.
SameBook(c) ==
    /\ ops'[c] = ops[c] /\ dir'[c] = dir[c] /\ binding'[c] = binding[c]
    /\ c \in remains' <=> c \in remains
    /\ \A p \in Projects : reserved[p[1]] = c => runtime'[p] = runtime[p]
    /\ \A o \in Operations :
          /\ reserved'[o] = c <=> reserved[o] = c
          /\ reserved[o] = c => (o \in undone' <=> o \in undone)
    /\ Importing(c)' <=> Importing(c)

\* A step of request t, on behalf of book b.
OnlyAt(t, b) ==
    /\ \A u \in Tasks \ {t} : task'[u] = task[u]
    /\ task[t].import => task[t].book = b
    /\ task'[t].book \in {b, None}
    /\ b \in remains' => b \in remains \/ task[t].import
    /\ \A c \in Books \ {b} :
          /\ ops'[c] = ops[c] /\ dir'[c] = dir[c] /\ binding'[c] = binding[c]
          /\ c \in remains' <=> c \in remains
    /\ \A o \in Operations :
          /\ reserved[o] = b => reserved'[o] = b
          /\ reserved[o] # b =>
                /\ reserved'[o] = reserved[o] \/ (reserved[o] = None /\ reserved'[o] = b)
                /\ staging'[o] = staging[o]
                /\ o \in undone' <=> o \in undone
    /\ \A p \in Projects : reserved[p[1]] # b => runtime'[p] = runtime[p]

\* A project's id has the operation's in it.
LEMMA ProjectParts ==
    ASSUME NEW p \in Projects
    PROVE  p[1] \in Operations /\ p # None
  BY NoneAssumption DEF Projects

\* A book of which nothing changes stays as the invariant says.
LEMMA SameBookOK ==
    ASSUME TypeInv, TypeInv', NEW c \in Books, BookOK(c), SameBook(c)
    PROVE  BookOK(c)'
  <1>1. /\ ops[c] \in Operation \cup {None}
        /\ binding[c] \in Projects \cup {None}
    BY DEF TypeInv, TypeOK
  <1>2. ops[c] # None => /\ reserved[ops[c].id] = c /\ ops[c].id \in Operations
                         /\ reserved'[ops[c].id] = c
                         /\ ops[c].ids # None => ops[c].ids \in Projects /\ ops[c].ids[1] = ops[c].id
    BY <1>1, RowFields DEF BookOK, RowsOK, Own, SameBook
  <1>3. ops[c] # None /\ ops[c].ids # None => runtime'[ops[c].ids] = runtime[ops[c].ids]
    BY <1>2 DEF SameBook
  <1>4. RowsOK(c)'
    BY <1>1, <1>2, ProjectParts DEF BookOK, RowsOK, Own, SameBook
  <1>5. Has(c, "ready") => (DeletionBegun(c)' <=> DeletionBegun(c))
    BY <1>2, <1>3 DEF DeletionBegun, Has, SameBook, BookOK, RowsOK, Own
  <1>6. DirectoryOK(c)'
    BY <1>5 DEF BookOK, DirectoryOK, DeletionBegun, Has, SameBook, LeftByImport, PastPromotion, Held
  <1>7. BoundOK(c)'
    BY <1>2, <1>3 DEF BookOK, BoundOK, Has, SameBook, Complete, Unmade, RowsOK, Own
  <1>8. NothingUnnamed(c)'
    <2>1. ASSUME NEW p \in Projects, reserved'[p[1]] = c
          PROVE  reserved[p[1]] = c /\ runtime'[p] = runtime[p]
      BY <2>1, ProjectParts DEF SameBook
    <2> QED
      BY <2>1 DEF BookOK, NothingUnnamed, SameBook
  <1> QED
    BY <1>4, <1>6, <1>7, <1>8 DEF BookOK

\* So does every book but the one a step is for.
LEMMA OtherBookOK ==
    ASSUME TypeInv, TypeInv', NEW t \in Tasks, NEW b \in Books, OnlyAt(t, b),
           NEW c \in Books, c # b, BookOK(c)
    PROVE  BookOK(c)'
  <1>1. Importing(c)' <=> Importing(c)
    <2>1. c # None
      BY BookProvisionAssumption
    <2>2. \A u \in Tasks : task'[u].import /\ task'[u].book = c <=> task[u].import /\ task[u].book = c
      BY <2>1 DEF OnlyAt
    <2> QED
      BY <2>2 DEF Importing
  <1>2. c # None
    BY BookProvisionAssumption
  <1>3. SameBook(c)
    BY <1>1, <1>2 DEF OnlyAt, SameBook
  <1> QED
    BY <1>3, SameBookOK

\* A request that returns, or waits, has nothing more to do with any row.
LEMMA WaitingTaskOK ==
    ASSUME NEW t \in Tasks
    PROVE  /\ task[t].pc \in Waiting /\ ~task[t].import
           /\ task[t].pc = "idle" => task[t] = Idle
           /\ task[t].pc \in {"check", "insert"} => task[t].book \notin remains
           => TaskOK(t)
  BY DEF TaskOK, RequestOK, CopyOK, FilesOK, PiecesOK, RemovalOK, Waiting, Resuming, Deleting,
         Unpacking, Registering, Undoing, Assigned, HasDirectory

\* The same of the next state.
LEMMA WaitingTaskNext ==
    ASSUME NEW t \in Tasks,
           task'[t].pc \in Waiting, ~task'[t].import, task'[t].pc = "idle" => task'[t] = Idle,
           task'[t].pc \in {"check", "insert"} => task'[t].book \notin remains'
    PROVE  TaskOK(t)'
  <1>1. (/\ task[t].pc \in Waiting /\ ~task[t].import
         /\ task[t].pc = "idle" => task[t] = Idle
         /\ task[t].pc \in {"check", "insert"} => task[t].book \notin remains
         => TaskOK(t))'
    BY WaitingTaskOK, PTL
  <1> QED
    BY <1>1

\* A request is served by its own book and row only.
LEMMA OtherTaskOK ==
    ASSUME TypeInv, TypeInv', NEW t \in Tasks, NEW b \in Books, OnlyAt(t, b),
           NEW u \in Tasks, u # t, TaskOK(u), \A c \in Books : RowsOK(c),
           task[u].book = b => task[u].pc \in Waiting /\ ~task[t].import
    PROVE  TaskOK(u)'
  <1>1. task'[u] = task[u]
    BY DEF OnlyAt
  <1>2. CASE task[u].pc \in Waiting
    <2>1. task[u].pc \in {"check", "insert"} => task[u].book \in Books
      BY TaskFields DEF TypeInv, TypeOK, Formed
    <2>2. task[u].pc \in {"check", "insert"} => task[u].book \notin remains'
      BY <2>1 DEF OnlyAt, TaskOK, RequestOK
    <2>3. ~task[u].import /\ (task[u].pc = "idle" => task[u] = Idle)
      BY <1>2 DEF TaskOK, RequestOK
    <2> QED
      BY <1>1, <1>2, <2>2, <2>3, WaitingTaskNext
  <1>3. CASE task[u].pc \notin Waiting
    <2> DEFINE c == task[u].book
               r == task[u].op
    <2>1. c \in Books /\ c # b /\ c # None /\ r \in Operation
      BY <1>3, TaskFields DEF TypeInv, TypeOK, Formed, Waiting
    <2>2. r.id \in Operations /\ reserved[r.id] = c /\ r.ids \in Projects \cup {None}
          /\ (r.ids # None => r.ids[1] = r.id)
      BY <1>3, <2>1, RowFields DEF TaskOK, RequestOK, Own
    <2>3. ops'[c] = ops[c] /\ dir'[c] = dir[c] /\ binding'[c] = binding[c]
          /\ (c \in remains' <=> c \in remains)
      BY <2>1 DEF OnlyAt
    <2>4. reserved'[r.id] = c /\ staging'[r.id] = staging[r.id]
          /\ (r.id \in undone' <=> r.id \in undone)
      BY <2>1, <2>2 DEF OnlyAt
    <2>5. r.ids # None => runtime'[r.ids] = runtime[r.ids]
      BY <2>1, <2>2 DEF OnlyAt
    <2>6. ops[c] # None /\ ops[c].ids # None => runtime'[ops[c].ids] = runtime[ops[c].ids]
      <3>1. ops[c] \in Operation \cup {None}
        BY <2>1 DEF TypeInv, TypeOK
      <3>2. ops[c] # None /\ ops[c].ids # None =>
              ops[c].ids \in Projects /\ reserved[ops[c].ids[1]] = c
        BY <2>1, <3>1, RowFields DEF RowsOK, Own
      <3> QED
        BY <2>1, <3>2 DEF OnlyAt
    <2>7. RequestOK(u)'
      BY <1>1, <1>3, <2>4 DEF TaskOK, RequestOK, Own, Waiting
    <2>8. CopyOK(u)'
      BY <1>1, <2>3 DEF TaskOK, CopyOK
    <2>9. FilesOK(u)'
      BY <1>1, <2>3, <2>4 DEF TaskOK, FilesOK, Held
    <2>10. PiecesOK(u)'
      BY <1>1, <2>3, <2>5 DEF TaskOK, PiecesOK, CopyOK, Assigned
    <2>11. RemovalOK(u)'
      <3>1. task[u].pc \in Deleting => r.ids # None
        BY <1>3 DEF TaskOK, RequestOK, CopyOK, Own
      <3>2. task[u].pc = "undoBinding" /\ ops[c] # None => (Unmade(c)' <=> Unmade(c))
        BY <1>1, <2>3, <2>4 DEF Unmade, TaskOK, CopyOK, Undoing
      <3> QED
        BY <1>1, <2>3, <2>5, <2>6, <3>1, <3>2 DEF TaskOK, RemovalOK
    <2> QED
      BY <2>7, <2>8, <2>9, <2>10, <2>11 DEF TaskOK
  <1> QED
    BY <1>2, <1>3

\* What is left to show of a step: the request's own part and its book's.
LEMMA StepAt ==
    ASSUME SerialInv, TypeInv', NEW t \in Tasks, NEW b \in Books, OnlyAt(t, b),
           \A u \in Tasks \ {t} : task[u].book = b => task[u].pc \in Waiting,
           task'[t].import => \A u \in Tasks \ {t} : task[u].book # b,
           BookOK(b)', TaskOK(t)'
    PROVE  SerialInv'
  <1>1. Alone'
    <2>1. b # None
      BY BookProvisionAssumption
    <2> SUFFICES ASSUME NEW u \in Tasks, NEW v \in Tasks, u # v,
                        task'[u].book = task'[v].book, task'[u].pc \notin Waiting
                 PROVE  task'[v].pc \in Waiting /\ ~task'[u].import
      BY DEF Alone
    <2>2. task'[u].book \in Books
      BY TaskFields DEF TypeInv, TypeOK, Formed, Waiting
    <2>3. CASE u = t
      BY <2>2, <2>3, BookProvisionAssumption DEF OnlyAt
    <2>4. CASE v = t
      BY <2>2, <2>4, BookProvisionAssumption DEF OnlyAt
    <2>5. CASE u # t /\ v # t
      BY <2>5 DEF OnlyAt, SerialInv, Alone
    <2> QED
      BY <2>3, <2>4, <2>5
  <1>2. Unused'
    <2> SUFFICES ASSUME NEW p \in Projects, reserved'[p[1]] = None PROVE runtime'[p] = {}
      BY DEF Unused
    <2>1. p[1] \in Operations
      BY ProjectParts
    <2>2. b # None
      BY BookProvisionAssumption
    <2> QED
      BY <2>1, <2>2 DEF OnlyAt, SerialInv, Unused
  <1>3. \A c \in Books : BookOK(c)'
    BY OtherBookOK DEF SerialInv
  <1>4. \A u \in Tasks \ {t} : task[u].book = b => ~task[t].import
    BY DEF OnlyAt, SerialInv, TaskOK, RequestOK, Alone
  <1>5. \A u \in Tasks : TaskOK(u)'
    BY <1>4, OtherTaskOK DEF SerialInv, BookOK
  <1> QED
    BY <1>1, <1>2, <1>3, <1>5 DEF SerialInv

\* What is known of a request that is at work.
Busy(t) == task[t].pc \notin Waiting

\* Its book, its row, and who else may be there.
LEMMA BusyFacts ==
    ASSUME SerialInv, NEW t \in Tasks, Busy(t)
    PROVE  /\ task[t] \in Task
           /\ task[t].book \in Books /\ task[t].book # None
           /\ task[t].op \in Operation /\ task[t].op # None
           /\ task[t].op.id \in Operations
           /\ reserved[task[t].op.id] = task[t].book
           /\ task[t].op.ids \in Projects \cup {None}
           /\ task[t].op.ids # None => task[t].op.ids[1] = task[t].op.id
           /\ Importing(task[t].book) <=> task[t].import
           /\ \A u \in Tasks \ {t} : task[u].book = task[t].book => task[u].pc \in Waiting
           /\ task[t].import => \A u \in Tasks \ {t} : task[u].book # task[t].book
           /\ BookOK(task[t].book) /\ TaskOK(t)
           /\ ops[task[t].book] \in Operation \cup {None}
           /\ binding[task[t].book] \in Projects \cup {None}
           /\ dir[task[t].book] \in Operations \cup {None, Legacy, Broken}
  <1>1. task[t] \in Task /\ task[t].book \in Books /\ task[t].op \in Operation
        /\ task[t].book # None
    BY TaskFields, BookProvisionAssumption DEF SerialInv, TypeInv, TypeOK, Formed, Busy, Waiting
  <1>2. \A u \in Tasks \ {t} : /\ task[u].book = task[t].book => task[u].pc \in Waiting
                               /\ task[t].import => task[u].book # task[t].book
    BY DEF SerialInv, Alone, Busy
  <1>3. TaskOK(t) /\ BookOK(task[t].book)
    BY <1>1 DEF SerialInv
  <1>4. Importing(task[t].book) <=> task[t].import
    <2>1. \A u \in Tasks : task[u].pc \in Waiting => ~task[u].import
      BY DEF SerialInv, TaskOK, RequestOK
    <2> QED
      BY <1>2, <2>1 DEF Importing
  <1> QED
    BY <1>1, <1>2, <1>3, <1>4, RowFields
       DEF TaskOK, RequestOK, Own, Busy, SerialInv, TypeInv, TypeOK

\* What is left to show of a busy request's step.
LEMMA BusyStep ==
    ASSUME SerialInv, TypeInv', NEW t \in Tasks, Busy(t), OnlyAt(t, task[t].book),
           task'[t].import => task[t].import,
           NEW b \in Books, b = task[t].book, BookOK(b)', TaskOK(t)'
    PROVE  SerialInv'
  BY BusyFacts, StepAt

\* A request that ends.
LEMMA IdleTaskNext ==
    ASSUME NEW t \in Tasks, task'[t] = Idle
    PROVE  TaskOK(t)'
  BY IdleTask, WaitingTaskNext DEF Waiting

\* A request moves on; of its book and row at most what is staged changes.
MovesOn(t, pc) ==
    /\ Goto(t, pc)
    /\ UNCHANGED <<ops, dir, runtime, binding, history>>
    /\ \A o \in Operations \ {task[t].op.id} : staging'[o] = staging[o]

\* Only the request's own part is left to show of such a step.
LEMMA MoveStep ==
    ASSUME SerialInv, TypeInv', NEW t \in Tasks, Busy(t), NEW pc \in Pcs, MovesOn(t, pc)
    PROVE  /\ task'[t].pc = pc /\ task'[t].book = task[t].book /\ task'[t].op = task[t].op
           /\ task'[t].owned = task[t].owned /\ task'[t].import = task[t].import
           /\ OnlyAt(t, task[t].book)
           /\ \A c \in Books : BookOK(c)'
           /\ TaskOK(t)' => SerialInv'
  <1>1. /\ task'[t].pc = pc /\ task'[t].book = task[t].book /\ task'[t].op = task[t].op
        /\ task'[t].owned = task[t].owned /\ task'[t].import = task[t].import
        /\ \A u \in Tasks \ {t} : task'[u] = task[u]
    BY GotoStep DEF SerialInv, TypeInv, MovesOn
  <1>2. OnlyAt(t, task[t].book)
    BY <1>1, BusyFacts DEF OnlyAt, MovesOn, history
  <1>3. ASSUME NEW c \in Books PROVE BookOK(c)'
    <2>1. Importing(c)' <=> Importing(c)
      BY <1>1 DEF Importing
    <2>2. SameBook(c)
      BY <2>1 DEF SameBook, MovesOn, history
    <2> QED
      BY <2>2, SameBookOK DEF SerialInv
  <1>4. TaskOK(t)' => SerialInv'
    <2>1. PICK b : b = task[t].book
      OBVIOUS
    <2> QED
      BY <1>1, <1>2, <1>3, <2>1, BusyFacts, BusyStep
  <1> QED
    BY <1>1, <1>2, <1>3, <1>4

\* An attempt that fails: the copy is still the row.
LEMMA CatchStep ==
    ASSUME SerialInv, TypeInv', NEW t \in Tasks, task[t].pc \in Resuming, MovesOn(t, "catch")
    PROVE  SerialInv'
  <1>1. "catch" \in Pcs /\ Busy(t)
    BY DEF Pcs, Resuming, Busy, Waiting
  <1>2. PICK q : q = task[t]
    OBVIOUS
  <1>3. /\ task'[t].pc = "catch" /\ task'[t].book = q.book /\ task'[t].op = q.op
        /\ task'[t].import = q.import
        /\ TaskOK(t)' => SerialInv'
    BY <1>1, <1>2, MoveStep
  <1>4. TaskOK(t)
    BY <1>1, BusyFacts
  <1>5. UNCHANGED <<ops, dir, reserved, remains>>
    BY DEF MovesOn, history
  <1>6. TaskOK(t)'
    BY <1>1, <1>2, <1>3, <1>4, <1>5
       DEF TaskOK, RequestOK, CopyOK, FilesOK, PiecesOK, RemovalOK, Waiting, Resuming, Deleting,
           Unpacking, Registering, Undoing, Assigned, HasDirectory, Own, Busy
  <1> QED
    BY <1>3, <1>6

----------------------------------------------------------------------------
(* The steps of an attempt.                                                *)

\* The core row.
LEMMA StageCore ==
    ASSUME SerialInv, TypeInv', NEW t \in Tasks, stageCore(t)
    PROVE  SerialInv'
  <1>1. Busy(t) /\ task[t].pc = "stage"
    BY DEF stageCore, Busy, Waiting
  <1>2. PICK q : q = task[t]
    OBVIOUS
  <1>3. /\ TaskOK(t) /\ BookOK(q.book)
        /\ staging \in [Operations -> {"absent", "partial", "complete"}]
    BY <1>1, <1>2, BusyFacts DEF SerialInv, TypeInv, TypeOK
  <1>4. CASE Goto(t, "staged")
    <2>1. MovesOn(t, "staged")
      BY <1>3, <1>4, BusyFacts DEF stageCore, MovesOn, stores, history
    <2>2. /\ task'[t].pc = "staged" /\ task'[t].book = q.book /\ task'[t].op = q.op
          /\ task'[t].owned = q.owned /\ task'[t].import = q.import
          /\ TaskOK(t)' => SerialInv'
      BY <1>1, <1>2, <2>1, MoveStep DEF Pcs, Resuming, Deleting, Unpacking, Registering, Undoing
    <2>4. TaskOK(t)'
      BY <1>1, <1>2, <1>3, <2>1, <2>2
         DEF TaskOK, RequestOK, CopyOK, FilesOK, PiecesOK, RemovalOK, Waiting, Resuming, Deleting,
           Unpacking, Registering, Undoing, Assigned, HasDirectory, Own, MovesOn, history
    <2> QED
      BY <2>2, <2>4
  <1> QED
    BY <1>4 DEF stageCore

\* An operation lets itself be given only what it may have.
LEMMA PromoteFilesystem ==
    ASSUME SerialInv, TypeInv', NEW t \in Tasks, promoteFilesystem(t)
    PROVE  SerialInv'
  <1>1. Busy(t) /\ task[t].pc = "promote"
    BY DEF promoteFilesystem, Busy, Waiting
  <1>2. PICK q : q = task[t]
    OBVIOUS
  <1>3. /\ TaskOK(t) /\ BookOK(q.book)
        /\ staging \in [Operations -> {"absent", "partial", "complete"}]
    BY <1>1, <1>2, BusyFacts DEF SerialInv, TypeInv, TypeOK
  <1>4. CASE Goto(t, "scaffold")
    <2>1. MovesOn(t, "scaffold")
      BY <1>3, <1>4, BusyFacts DEF promoteFilesystem, MovesOn, stores, history
    <2>2. /\ task'[t].pc = "scaffold" /\ task'[t].book = q.book /\ task'[t].op = q.op
          /\ task'[t].owned = q.owned /\ task'[t].import = q.import
          /\ TaskOK(t)' => SerialInv'
      BY <1>1, <1>2, <2>1, MoveStep DEF Pcs, Resuming, Deleting, Unpacking, Registering, Undoing
    <2>4. TaskOK(t)'
      BY <1>1, <1>2, <1>3, <2>1, <2>2
         DEF TaskOK, RequestOK, CopyOK, FilesOK, PiecesOK, RemovalOK, Waiting, Resuming, Deleting,
           Unpacking, Registering, Undoing, Assigned, HasDirectory, Own, MovesOn, history
    <2> QED
      BY <2>2, <2>4
  <1>5. CASE Goto(t, "promoted")
    <2>1. MovesOn(t, "promoted")
      BY <1>3, <1>5, BusyFacts DEF promoteFilesystem, MovesOn, stores, history
    <2>2. /\ task'[t].pc = "promoted" /\ task'[t].book = q.book /\ task'[t].op = q.op
          /\ task'[t].owned = q.owned /\ task'[t].import = q.import
          /\ TaskOK(t)' => SerialInv'
      BY <1>1, <1>2, <2>1, MoveStep DEF Pcs, Resuming, Deleting, Unpacking, Registering, Undoing
    <2>3. Held(q.book)'
      <3>1. PICK x : x = IF dir[q.book] = None THEN "scaffold"
                         ELSE IF Adoptable(q.op, dir[q.book]) THEN "promoted" ELSE "catch"
        OBVIOUS
      <3>2. task'[t].pc = x
        BY <1>2, <3>1, GotoStep DEF promoteFilesystem, Pcs, Resuming, SerialInv, TypeInv
      <3>3. dir[q.book] # None /\ Adoptable(q.op, dir[q.book])
        BY <2>2, <3>1, <3>2
      <3>4. Held(q.book)
        BY <1>1, <1>2, <1>3, <3>3, BusyFacts
           DEF Adoptable, Held, TaskOK, CopyOK, Resuming, BookOK, DirectoryOK, DeletionBegun, Has,
               LeftByImport, PastPromotion
      <3> QED
        BY <2>1, <3>4 DEF MovesOn, Held
    <2>4. TaskOK(t)'
      BY <1>1, <1>2, <1>3, <2>1, <2>2, <2>3
         DEF TaskOK, RequestOK, CopyOK, FilesOK, PiecesOK, RemovalOK, Waiting, Resuming, Deleting,
           Unpacking, Registering, Undoing, Assigned, HasDirectory, Own, MovesOn, history
    <2> QED
      BY <2>2, <2>4
  <1>6. CASE Goto(t, "catch")
    <2>1. MovesOn(t, "catch")
      BY <1>3, <1>6 DEF promoteFilesystem, MovesOn, stores, history
    <2> QED
      BY <1>1, <2>1, CatchStep DEF Resuming
  <1> QED
    BY <1>4, <1>5, <1>6 DEF promoteFilesystem

\* Staging is begun anew.
LEMMA ClearStaging ==
    ASSUME SerialInv, TypeInv', NEW t \in Tasks, clearStaging(t)
    PROVE  SerialInv'
  <1>1. Busy(t) /\ task[t].pc = "scaffold"
    BY DEF clearStaging, Busy, Waiting
  <1>2. PICK q : q = task[t]
    OBVIOUS
  <1>3. /\ TaskOK(t) /\ BookOK(q.book)
        /\ staging \in [Operations -> {"absent", "partial", "complete"}]
    BY <1>1, <1>2, BusyFacts DEF SerialInv, TypeInv, TypeOK
  <1>4. CASE Goto(t, "write")
    <2>1. MovesOn(t, "write")
      BY <1>3, <1>4, BusyFacts DEF clearStaging, MovesOn, stores, history
    <2>2. /\ task'[t].pc = "write" /\ task'[t].book = q.book /\ task'[t].op = q.op
          /\ task'[t].owned = q.owned /\ task'[t].import = q.import
          /\ TaskOK(t)' => SerialInv'
      BY <1>1, <1>2, <2>1, MoveStep DEF Pcs, Resuming, Deleting, Unpacking, Registering, Undoing
    <2>3. staging'[q.op.id] = "partial"
      BY <1>1, <1>2, BusyFacts DEF clearStaging, SerialInv, TypeInv, TypeOK
    <2>4. TaskOK(t)'
      BY <1>1, <1>2, <1>3, <2>1, <2>2, <2>3
         DEF TaskOK, RequestOK, CopyOK, FilesOK, PiecesOK, RemovalOK, Waiting, Resuming, Deleting,
           Unpacking, Registering, Undoing, Assigned, HasDirectory, Own, MovesOn, history
    <2> QED
      BY <2>2, <2>4
  <1> QED
    BY <1>4 DEF clearStaging

\* What is promoted later has been written wholly.
LEMMA WriteBookScaffold ==
    ASSUME SerialInv, TypeInv', NEW t \in Tasks, writeBookScaffold(t)
    PROVE  SerialInv'
  <1>1. Busy(t) /\ task[t].pc = "write"
    BY DEF writeBookScaffold, Busy, Waiting
  <1>2. PICK q : q = task[t]
    OBVIOUS
  <1>3. /\ TaskOK(t) /\ BookOK(q.book)
        /\ staging \in [Operations -> {"absent", "partial", "complete"}]
    BY <1>1, <1>2, BusyFacts DEF SerialInv, TypeInv, TypeOK
  <1>4. CASE Goto(t, "rename")
    <2>1. MovesOn(t, "rename")
      BY <1>3, <1>4, BusyFacts DEF writeBookScaffold, MovesOn, stores, history
    <2>2. /\ task'[t].pc = "rename" /\ task'[t].book = q.book /\ task'[t].op = q.op
          /\ task'[t].owned = q.owned /\ task'[t].import = q.import
          /\ TaskOK(t)' => SerialInv'
      BY <1>1, <1>2, <2>1, MoveStep DEF Pcs, Resuming, Deleting, Unpacking, Registering, Undoing
    <2>3. staging'[q.op.id] = "complete"
      BY <1>1, <1>2, <1>3, BusyFacts DEF writeBookScaffold, SerialInv, TypeInv, TypeOK, TaskOK, FilesOK
    <2>4. TaskOK(t)'
      BY <1>1, <1>2, <1>3, <2>1, <2>2, <2>3
         DEF TaskOK, RequestOK, CopyOK, FilesOK, PiecesOK, RemovalOK, Waiting, Resuming, Deleting,
           Unpacking, Registering, Undoing, Assigned, HasDirectory, Own, MovesOn, history
    <2> QED
      BY <2>2, <2>4
  <1>5. CASE Goto(t, "catch")
    <2>1. MovesOn(t, "catch")
      BY <1>3, <1>5 DEF writeBookScaffold, MovesOn, stores, history
    <2> QED
      BY <1>1, <2>1, CatchStep DEF Resuming
  <1> QED
    BY <1>4, <1>5 DEF writeBookScaffold

\* A runtime project is made for a directory that is there, once.
LEMMA BindRuntime ==
    ASSUME SerialInv, TypeInv', NEW t \in Tasks, bindRuntime(t)
    PROVE  SerialInv'
  <1>1. Busy(t) /\ task[t].pc = "bind"
    BY DEF bindRuntime, Busy, Waiting
  <1>2. PICK q : q = task[t]
    OBVIOUS
  <1>3. /\ TaskOK(t) /\ BookOK(q.book)
        /\ staging \in [Operations -> {"absent", "partial", "complete"}]
    BY <1>1, <1>2, BusyFacts DEF SerialInv, TypeInv, TypeOK
  <1>4. CASE Goto(t, "ids")
    <2>1. MovesOn(t, "ids")
      BY <1>3, <1>4, BusyFacts DEF bindRuntime, MovesOn, stores, history
    <2>2. /\ task'[t].pc = "ids" /\ task'[t].book = q.book /\ task'[t].op = q.op
          /\ task'[t].owned = q.owned /\ task'[t].import = q.import
          /\ TaskOK(t)' => SerialInv'
      BY <1>1, <1>2, <2>1, MoveStep DEF Pcs, Resuming, Deleting, Unpacking, Registering, Undoing
    <2>3. q.op.ids = None /\ Held(q.book)'
      <3>1. PICK x : x = IF dir[q.book] \in {None, Broken} THEN "catch"
                         ELSE IF q.op.ids = None THEN "ids" ELSE "project"
        OBVIOUS
      <3>2. task'[t].pc = x
        BY <1>2, <3>1, GotoStep DEF bindRuntime, Pcs, Resuming, SerialInv, TypeInv
      <3>3. dir[q.book] \notin {None, Broken} /\ q.op.ids = None
        BY <2>2, <3>1, <3>2
      <3>4. Held(q.book)
        BY <1>1, <1>2, <1>3, <3>3, BusyFacts
           DEF Held, TaskOK, CopyOK, Resuming, BookOK, DirectoryOK, DeletionBegun, Has,
               LeftByImport, PastPromotion
      <3> QED
        BY <2>1, <3>3, <3>4 DEF MovesOn, Held
    <2>4. TaskOK(t)'
      BY <1>1, <1>2, <1>3, <2>1, <2>2, <2>3
         DEF TaskOK, RequestOK, CopyOK, FilesOK, PiecesOK, RemovalOK, Waiting, Resuming, Deleting,
           Unpacking, Registering, Undoing, Assigned, HasDirectory, Own, MovesOn, history
    <2> QED
      BY <2>2, <2>4
  <1>5. CASE Goto(t, "project")
    <2>1. MovesOn(t, "project")
      BY <1>3, <1>5, BusyFacts DEF bindRuntime, MovesOn, stores, history
    <2>2. /\ task'[t].pc = "project" /\ task'[t].book = q.book /\ task'[t].op = q.op
          /\ task'[t].owned = q.owned /\ task'[t].import = q.import
          /\ TaskOK(t)' => SerialInv'
      BY <1>1, <1>2, <2>1, MoveStep DEF Pcs, Resuming, Deleting, Unpacking, Registering, Undoing
    <2>3. q.op.ids # None /\ Held(q.book)'
      <3>1. PICK x : x = IF dir[q.book] \in {None, Broken} THEN "catch"
                         ELSE IF q.op.ids = None THEN "ids" ELSE "project"
        OBVIOUS
      <3>2. task'[t].pc = x
        BY <1>2, <3>1, GotoStep DEF bindRuntime, Pcs, Resuming, SerialInv, TypeInv
      <3>3. dir[q.book] \notin {None, Broken} /\ q.op.ids # None
        BY <2>2, <3>1, <3>2
      <3>4. Held(q.book)
        BY <1>1, <1>2, <1>3, <3>3, BusyFacts
           DEF Held, TaskOK, CopyOK, Resuming, BookOK, DirectoryOK, DeletionBegun, Has,
               LeftByImport, PastPromotion
      <3> QED
        BY <2>1, <3>3, <3>4 DEF MovesOn, Held
    <2>4. TaskOK(t)'
      BY <1>1, <1>2, <1>3, <2>1, <2>2, <2>3
         DEF TaskOK, RequestOK, CopyOK, FilesOK, PiecesOK, RemovalOK, Waiting, Resuming, Deleting,
           Unpacking, Registering, Undoing, Assigned, HasDirectory, Own, MovesOn, history
    <2> QED
      BY <2>2, <2>4
  <1>6. CASE Goto(t, "catch")
    <2>1. MovesOn(t, "catch")
      BY <1>3, <1>6 DEF bindRuntime, MovesOn, stores, history
    <2> QED
      BY <1>1, <2>1, CatchStep DEF Resuming
  <1> QED
    BY <1>4, <1>5, <1>6 DEF bindRuntime

\* The staging directory becomes the book's only where there is none.
LEMMA RenameStaging ==
    ASSUME SerialInv, TypeInv', NEW t \in Tasks, renameStaging(t)
    PROVE  SerialInv'
  <1>1. Busy(t) /\ task[t].pc = "rename"
    BY DEF renameStaging, Busy, Waiting
  <1>2. PICK q : q = task[t]
    OBVIOUS
  <1>3. /\ TaskOK(t) /\ BookOK(q.book)
        /\ staging \in [Operations -> {"absent", "partial", "complete"}]
        /\ dir \in [Books -> Operations \cup {None, Legacy, Broken}]
    BY <1>1, <1>2, BusyFacts DEF SerialInv, TypeInv, TypeOK
  <1>4. /\ ops[q.book] = q.op /\ q.op # None /\ q.op.state # "ready" /\ q.op.id \in Operations
        /\ staging[q.op.id] = "complete"
        /\ q.op.origin \in {"create", "claim", "archive"}
    BY <1>1, <1>2, <1>3, BusyFacts, RowFields DEF TaskOK, CopyOK, FilesOK, Resuming
  <1>5. CASE dir[q.book] = None
    <2>1. /\ dir' = [dir EXCEPT ![q.book] = q.op.id]
          /\ Goto(t, "promoted")
          /\ staging' = [staging EXCEPT ![q.op.id] = "absent"]
          /\ UNCHANGED <<ops, core, runtime, binding, history, mishaps>>
      BY <1>2, <1>4, <1>5 DEF renameStaging
    <2>2. /\ task'[t].pc = "promoted" /\ task'[t].book = q.book /\ task'[t].op = q.op
          /\ task'[t].owned = q.owned /\ task'[t].import = q.import
          /\ \A u \in Tasks \ {t} : task'[u] = task[u]
      BY <1>2, <2>1, GotoStep DEF SerialInv, TypeInv, Pcs, Resuming
    <2>3. q.book \in Books /\ reserved[q.op.id] = q.book
      BY <1>1, <1>2, BusyFacts
    <2>4. dir'[q.book] = q.op.id /\ \A c \in Books \ {q.book} : dir'[c] = dir[c]
      BY <1>3, <2>1, <2>3
    <2>5. OnlyAt(t, q.book)
      BY <1>2, <1>3, <2>1, <2>2, <2>3, <2>4 DEF OnlyAt, history
    <2>6. Importing(q.book)' <=> Importing(q.book)
      BY <1>2, <2>2 DEF Importing
    <2>7. BookOK(q.book)'
      <3>1. RowsOK(q.book)'
        BY <1>3, <2>1 DEF BookOK, RowsOK, Own, history
      <3>2. DirectoryOK(q.book)'
        BY <1>4, <2>1, <2>4, BookProvisionAssumption
           DEF DirectoryOK, LeftByImport, Held, history
      <3>3. BoundOK(q.book)'
        BY <1>3, <1>4, <2>1, <2>4 DEF BookOK, BoundOK, Complete, Unmade, Has, history
      <3>4. NothingUnnamed(q.book)'
        BY <1>3, <1>4, <2>1, <2>6 DEF BookOK, NothingUnnamed, history
      <3> QED
        BY <3>1, <3>2, <3>3, <3>4 DEF BookOK
    <2>8. TaskOK(t)'
      BY <1>1, <1>2, <1>3, <1>4, <2>1, <2>2, <2>4, BookProvisionAssumption
         DEF TaskOK, RequestOK, CopyOK, FilesOK, PiecesOK, RemovalOK, Waiting, Resuming, Deleting,
           Unpacking, Registering, Undoing, Assigned, HasDirectory, Own, Held, history
    <2> QED
      BY <1>1, <1>2, <2>2, <2>3, <2>5, <2>7, <2>8, BusyStep
  <1>6. CASE dir[q.book] # None
    <2>1. MovesOn(t, "catch")
      BY <1>2, <1>3, <1>6 DEF renameStaging, MovesOn, history
    <2> QED
      BY <1>1, <2>1, CatchStep DEF Resuming
  <1> QED
    BY <1>5, <1>6

\* The ids are recorded before there is a project.
LEMMA PersistIds ==
    ASSUME SerialInv, TypeInv', NEW t \in Tasks, persistIds(t)
    PROVE  SerialInv'
  <1>1. Busy(t) /\ task[t].pc = "ids"
    BY DEF persistIds, Busy, Waiting
  <1>2. PICK q : q = task[t]
    OBVIOUS
  <1>3. /\ TaskOK(t) /\ BookOK(q.book) /\ q.book \in Books
        /\ q.op \in Operation /\ reserved[q.op.id] = q.book
        /\ ops \in [Books -> Operation \cup {None}]
        /\ ops[q.book] = q.op /\ q.op # None /\ q.op.id \in Operations /\ q.op.ids = None
        /\ q.op.state \notin {"ready", "runtime-bound"}
    BY <1>1, <1>2, BusyFacts DEF SerialInv, TypeInv, TypeOK, TaskOK, CopyOK, Resuming, RequestOK, Own, Busy
  <1>4. PICK p : p = <<q.op.id, t>>
    OBVIOUS
  <1>5. p \in Projects /\ p[1] = q.op.id /\ p # None
    BY <1>3, <1>4, ProjectParts DEF Projects
  <1>6. PICK r : r = [q.op EXCEPT !.ids = p]
    OBVIOUS
  <1>7. /\ r \in Operation /\ r # None /\ r.id = q.op.id /\ r.state = q.op.state
        /\ r.origin = q.op.origin /\ r.ids = p
    BY <1>3, <1>5, <1>6, RowFields DEF Operation
  <1>8. OwnRow(t)
    BY <1>2, <1>3 DEF OwnRow
  <1>9. /\ ops' = [ops EXCEPT ![q.book] = r] /\ GoOnWith(t, r, "project")
        /\ UNCHANGED <<stores, history, mishaps>>
    BY <1>2, <1>3, <1>4, <1>6, <1>8 DEF persistIds, UpdateRow
  <1>10. /\ task'[t].pc = "project" /\ task'[t].book = q.book /\ task'[t].op = r
         /\ task'[t].owned = q.owned /\ task'[t].import = q.import
         /\ \A u \in Tasks \ {t} : task'[u] = task[u]
    BY <1>2, <1>7, <1>9, CopyStep DEF SerialInv, TypeInv, Pcs, Resuming
  <1>11. ops'[q.book] = r /\ \A c \in Books \ {q.book} : ops'[c] = ops[c]
    BY <1>3, <1>9
  <1>12. OnlyAt(t, q.book)
    BY <1>2, <1>9, <1>10, <1>11 DEF OnlyAt, history, stores
  <1>13. BookOK(q.book)'
    <2>1. RowsOK(q.book)'
      BY <1>3, <1>5, <1>7, <1>9, <1>11 DEF BookOK, RowsOK, Own, history, stores
    <2>2. DirectoryOK(q.book)'
      BY <1>3, <1>7, <1>9, <1>11
         DEF BookOK, DirectoryOK, DeletionBegun, Has, LeftByImport, PastPromotion, Held, history, stores
    <2>3. BoundOK(q.book)'
      BY <1>3, <1>7, <1>11 DEF BoundOK, Has
    <2>4. NothingUnnamed(q.book)'
      BY <1>3, <1>7, <1>9, <1>11, ProjectParts DEF BookOK, NothingUnnamed, history, stores
    <2> QED
      BY <2>1, <2>2, <2>3, <2>4 DEF BookOK
  <1>14. TaskOK(t)'
    BY <1>1, <1>2, <1>3, <1>5, <1>7, <1>9, <1>10, <1>11
       DEF TaskOK, RequestOK, CopyOK, FilesOK, PiecesOK, RemovalOK, Waiting, Resuming, Deleting,
           Unpacking, Registering, Undoing, Assigned, HasDirectory, Own, Held, history, stores
  <1> QED
    BY <1>1, <1>2, <1>3, <1>10, <1>12, <1>13, <1>14, BusyStep

\* Project, chapter, narrator: each is made where it is missing.
LEMMA InsertRow ==
    ASSUME SerialInv, TypeInv', NEW t \in Tasks, insertRow(t)
    PROVE  SerialInv'
  <1>1. Busy(t) /\ task[t].pc \in Pieces
    BY DEF insertRow, Busy, Waiting, Pieces
  <1>2. PICK q : q = task[t]
    OBVIOUS
  <1>3. /\ TaskOK(t) /\ BookOK(q.book) /\ q.book \in Books
        /\ q.op \in Operation /\ reserved[q.op.id] = q.book
        /\ runtime \in [Projects -> SUBSET Pieces]
        /\ ops[q.book] = q.op /\ q.op # None /\ q.op.id \in Operations /\ q.op.ids \in Projects
        /\ q.op.ids[1] = q.op.id /\ q.op.ids # None
        /\ q.op.state # "ready"
    BY <1>1, <1>2, BusyFacts
       DEF SerialInv, TypeInv, TypeOK, TaskOK, CopyOK, Resuming, RequestOK, Own, Busy, Assigned, Pieces
  <1>4. PICK p : p = q.op.ids
    OBVIOUS
  <1>5. PICK piece : piece = q.pc
    OBVIOUS
  <1>6. Needs[piece] \subseteq runtime[p]
    BY <1>1, <1>2, <1>3, <1>4, <1>5 DEF Needs, Pieces, TaskOK, PiecesOK
  <1>7. /\ Goto(t, NextPiece[piece])
        /\ runtime' = [runtime EXCEPT ![p] = @ \cup {piece}]
        /\ UNCHANGED <<ops, core, dir, staging, binding, history, mishaps>>
    <2>1. CASE Missing(p, piece)
      BY <1>1, <1>2, <1>4, <1>5, <1>6, <2>1 DEF insertRow
    <2>2. CASE ~Missing(p, piece)
      <3>1. runtime[p] \cup {piece} = runtime[p]
        BY <2>2 DEF Missing
      <3>2. runtime = [runtime EXCEPT ![p] = runtime[p]]
        BY <1>3, <1>4
      <3> QED
        BY <1>1, <1>2, <1>4, <1>5, <2>2, <3>1, <3>2 DEF insertRow
    <2> QED
      BY <2>1, <2>2
  <1>8. NextPiece[piece] \in Pcs
    BY <1>1, <1>2, <1>5 DEF NextPiece, Pieces, Pcs, Resuming
  <1>9. /\ task'[t].pc = NextPiece[piece] /\ task'[t].book = q.book /\ task'[t].op = q.op
        /\ task'[t].owned = q.owned /\ task'[t].import = q.import
        /\ \A u \in Tasks \ {t} : task'[u] = task[u]
    BY <1>2, <1>7, <1>8, GotoStep DEF SerialInv, TypeInv
  <1>10. runtime'[p] = runtime[p] \cup {piece} /\ \A p2 \in Projects \ {p} : runtime'[p2] = runtime[p2]
    BY <1>3, <1>4, <1>7
  <1>11. OnlyAt(t, q.book)
    BY <1>2, <1>3, <1>4, <1>7, <1>9, <1>10 DEF OnlyAt, history
  <1>12. Importing(q.book)' <=> Importing(q.book)
    BY <1>2, <1>9 DEF Importing
  <1>13. BookOK(q.book)'
    <2>1. RowsOK(q.book)'
      BY <1>3, <1>7 DEF BookOK, RowsOK, Own, history
    <2>2. DirectoryOK(q.book)'
      BY <1>3, <1>7
         DEF BookOK, DirectoryOK, DeletionBegun, Has, LeftByImport, PastPromotion, Held, history
    <2>3. BoundOK(q.book)'
      <3>1. runtime[p] = Pieces => runtime'[p] = Pieces
        BY <1>1, <1>2, <1>5, <1>10
      <3> QED
        BY <1>3, <1>4, <1>7, <3>1 DEF BookOK, BoundOK, Has, Complete, Unmade, history
    <2>4. NothingUnnamed(q.book)'
      BY <1>3, <1>4, <1>7, <1>10, <1>12 DEF BookOK, NothingUnnamed, history
    <2> QED
      BY <2>1, <2>2, <2>3, <2>4 DEF BookOK
  <1>14. TaskOK(t)'
    <2>1. CASE piece = "project"
      BY <1>2, <1>3, <1>4, <1>5, <1>7, <1>9, <1>10, <2>1
         DEF NextPiece, TaskOK, RequestOK, CopyOK, FilesOK, PiecesOK, RemovalOK, Waiting, Resuming, Deleting,
           Unpacking, Registering, Undoing, Assigned, HasDirectory, Own, Held, history
    <2>2. CASE piece = "chapter"
      <3>1. {"project", "chapter"} \subseteq runtime'[p]
        BY <1>6, <1>10, <2>2 DEF Needs
      <3> QED
        BY <1>2, <1>3, <1>4, <1>5, <1>7, <1>9, <2>2, <3>1
           DEF NextPiece, TaskOK, RequestOK, CopyOK, FilesOK, PiecesOK, RemovalOK, Waiting, Resuming, Deleting,
           Unpacking, Registering, Undoing, Assigned, HasDirectory, Own, Held, history
    <2>3. CASE piece = "narrator"
      <3>1. runtime'[p] = Pieces
        <4>1. {"project", "chapter"} \subseteq runtime[p] /\ runtime[p] \subseteq Pieces
          BY <1>2, <1>3, <1>4, <1>5, <2>3 DEF TaskOK, PiecesOK
        <4> QED
          BY <1>10, <2>3, <4>1 DEF Pieces
      <3> QED
        BY <1>2, <1>3, <1>4, <1>5, <1>7, <1>9, <2>3, <3>1
           DEF NextPiece, TaskOK, RequestOK, CopyOK, FilesOK, PiecesOK, RemovalOK, Waiting, Resuming, Deleting,
           Unpacking, Registering, Undoing, Assigned, HasDirectory, Own, Held, history
    <2> QED
      BY <1>1, <1>2, <1>5, <2>1, <2>2, <2>3 DEF Pieces
  <1> QED
    BY <1>1, <1>2, <1>3, <1>9, <1>11, <1>13, <1>14, BusyStep

\* The book is bound to the project its row names.
LEMMA UpsertBinding ==
    ASSUME SerialInv, TypeInv', NEW t \in Tasks, upsertBinding(t)
    PROVE  SerialInv'
  <1>1. Busy(t) /\ task[t].pc = "upsert"
    BY DEF upsertBinding, Busy, Waiting
  <1>2. PICK q : q = task[t]
    OBVIOUS
  <1>3. /\ TaskOK(t) /\ BookOK(q.book) /\ q.book \in Books
        /\ q.op \in Operation /\ reserved[q.op.id] = q.book
        /\ binding \in [Books -> Projects \cup {None}]
        /\ ops[q.book] = q.op /\ q.op # None /\ q.op.id \in Operations /\ q.op.ids \in Projects
        /\ q.op.ids[1] = q.op.id /\ q.op.ids # None
        /\ q.op.state # "ready" /\ Held(q.book)
    BY <1>1, <1>2, BusyFacts
       DEF SerialInv, TypeInv, TypeOK, TaskOK, CopyOK, FilesOK, Resuming, RequestOK, Own, Busy,
           Assigned, HasDirectory
  <1>4. CASE Goto(t, "catch") /\ UNCHANGED binding
    <2>1. MovesOn(t, "catch")
      BY <1>4 DEF upsertBinding, MovesOn, history
    <2> QED
      BY <1>1, <2>1, CatchStep DEF Resuming
  <1>5. CASE binding' = [binding EXCEPT ![q.book] = q.op.ids] /\ Goto(t, "bound")
    <2>1. UNCHANGED <<ops, core, dir, staging, runtime, history, mishaps>>
      BY DEF upsertBinding
    <2>2. /\ task'[t].pc = "bound" /\ task'[t].book = q.book /\ task'[t].op = q.op
          /\ task'[t].owned = q.owned /\ task'[t].import = q.import
          /\ \A u \in Tasks \ {t} : task'[u] = task[u]
      BY <1>2, <1>5, GotoStep DEF SerialInv, TypeInv, Pcs, Resuming
    <2>3. binding'[q.book] = q.op.ids /\ \A c \in Books \ {q.book} : binding'[c] = binding[c]
      BY <1>3, <1>5
    <2>4. OnlyAt(t, q.book)
      BY <1>2, <2>1, <2>2, <2>3 DEF OnlyAt, history
    <2>5. Importing(q.book)' <=> Importing(q.book)
      BY <1>2, <2>2 DEF Importing
    <2>6. BookOK(q.book)'
      <3>1. RowsOK(q.book)'
        BY <1>3, <2>1, <2>3 DEF BookOK, RowsOK, Own, history
      <3>2. DirectoryOK(q.book)'
        BY <1>3, <2>1 DEF BookOK, DirectoryOK, LeftByImport, Held, history
      <3>3. BoundOK(q.book)'
        BY <1>3, <2>1, <2>3 DEF BookOK, BoundOK, Has, Complete, Unmade, history
      <3>4. NothingUnnamed(q.book)'
        BY <1>3, <2>1, <2>3, <2>5 DEF BookOK, NothingUnnamed, history
      <3> QED
        BY <3>1, <3>2, <3>3, <3>4 DEF BookOK
    <2>7. TaskOK(t)'
      BY <1>1, <1>2, <1>3, <2>1, <2>2, <2>3
         DEF TaskOK, RequestOK, CopyOK, FilesOK, PiecesOK, RemovalOK, Waiting, Resuming, Deleting,
           Unpacking, Registering, Undoing, Assigned, HasDirectory, Own, Held, history
    <2> QED
      BY <1>1, <1>2, <1>3, <2>2, <2>4, <2>6, <2>7, BusyStep
  <1> QED
    BY <1>2, <1>4, <1>5 DEF upsertBinding

\* What has been reached is recorded, once it is there.
LEMMA RecordState ==
    ASSUME SerialInv, TypeInv', NEW t \in Tasks, recordState(t)
    PROVE  SerialInv'
  <1>1. Busy(t) /\ task[t].pc \in {"staged", "promoted", "bound", "finish"}
    BY DEF recordState, Recorded, Busy, Waiting
  <1>2. PICK q : q = task[t]
    OBVIOUS
  <1>3. /\ TaskOK(t) /\ BookOK(q.book) /\ q.book \in Books
        /\ q.op \in Operation /\ reserved[q.op.id] = q.book
        /\ ops \in [Books -> Operation \cup {None}]
        /\ ops[q.book] = q.op /\ q.op # None /\ q.op.id \in Operations
        /\ q.op.state # "ready"
        /\ q.op.ids # None => q.op.ids[1] = q.op.id
        /\ q.pc \in {"bound", "finish"} => q.op.ids # None
        /\ q.pc = "finish" => q.op.state = "runtime-bound"
    BY <1>1, <1>2, BusyFacts
       DEF SerialInv, TypeInv, TypeOK, TaskOK, CopyOK, Resuming, RequestOK, Own, Busy, Assigned
  <1>4. OwnRow(t) /\ q.pc \in DOMAIN Recorded
    BY <1>1, <1>2, <1>3 DEF OwnRow, Recorded
  <1>5. PICK s : s = Recorded[q.pc]
    OBVIOUS
  <1>6. /\ s \in ProvisionState
        /\ q.pc = "staged" => s = "core-staged"
        /\ q.pc = "promoted" => s = "filesystem-promoted"
        /\ q.pc = "bound" => s = "runtime-bound"
        /\ q.pc = "finish" => s = "ready"
    BY <1>1, <1>2, <1>5 DEF Recorded, ProvisionState
  <1>7. PICK r : r = [q.op EXCEPT !.state = s]
    OBVIOUS
  <1>8. /\ r \in Operation /\ r # None /\ r.id = q.op.id /\ r.state = s
        /\ r.origin = q.op.origin /\ r.ids = q.op.ids
    BY <1>3, <1>6, <1>7, RowFields DEF Operation
  <1>9. /\ ops' = [ops EXCEPT ![q.book] = r]
        /\ UNCHANGED <<stores, history, mishaps>>
    <2>1. CASE q.pc = "finish"
      BY <1>2, <1>3, <1>4, <1>6, <1>7, <2>1 DEF recordState
    <2>2. CASE q.pc # "finish"
      BY <1>2, <1>3, <1>4, <1>5, <1>7, <2>2 DEF recordState, UpdateRow
    <2> QED
      BY <2>1, <2>2
  <1>10. ops'[q.book] = r /\ \A c \in Books \ {q.book} : ops'[c] = ops[c]
    BY <1>3, <1>9
  <1>11. BookOK(q.book)'
    <2>1. RowsOK(q.book)'
      BY <1>3, <1>6, <1>8, <1>9, <1>10, <1>1, <1>2 DEF BookOK, RowsOK, Own, history, stores
    <2>2. DirectoryOK(q.book)'
      BY <1>1, <1>2, <1>3, <1>6, <1>8, <1>9, <1>10
         DEF BookOK, DirectoryOK, DeletionBegun, Has, LeftByImport, PastPromotion, Held, history, stores,
             TaskOK, FilesOK, HasDirectory
    <2>3. BoundOK(q.book)'
      BY <1>1, <1>2, <1>3, <1>6, <1>8, <1>9, <1>10
         DEF BoundOK, Has, Complete, Held, TaskOK, FilesOK, PiecesOK, HasDirectory, stores
    <2>4. NothingUnnamed(q.book)'
      BY <1>3, <1>8, <1>9, <1>10 DEF BookOK, NothingUnnamed, history, stores
    <2> QED
      BY <2>1, <2>2, <2>3, <2>4 DEF BookOK
  <1>12. CASE q.pc = "finish"
    <2>1. Return(t)
      BY <1>2, <1>4, <1>12 DEF recordState
    <2>2. task'[t] = Idle /\ \A u \in Tasks \ {t} : task'[u] = task[u]
      BY <2>1, ReturnStep DEF SerialInv, TypeInv
    <2>3. OnlyAt(t, q.book)
      BY <1>2, <1>9, <1>10, <2>2, IdleTask DEF OnlyAt, history, stores
    <2>4. TaskOK(t)'
      BY <2>2, IdleTaskNext
    <2> QED
      BY <1>1, <1>2, <1>3, <1>11, <2>2, <2>3, <2>4, BusyStep, IdleTask
  <1>13. CASE q.pc # "finish"
    <2>1. PICK pc : pc = Then[q.pc]
      OBVIOUS
    <2>2. /\ pc \in Pcs
          /\ q.pc = "staged" => pc = "promote"
          /\ q.pc = "promoted" => pc = "bind"
          /\ q.pc = "bound" => pc = "finish"
      BY <1>1, <1>2, <1>13, <2>1 DEF Then, Pcs, Resuming
    <2>3. GoOnWith(t, r, pc)
      BY <1>2, <1>3, <1>4, <1>5, <1>7, <1>13, <2>1 DEF recordState, UpdateRow
    <2>4. /\ task'[t].pc = pc /\ task'[t].book = q.book /\ task'[t].op = r
          /\ task'[t].owned = q.owned /\ task'[t].import = q.import
          /\ \A u \in Tasks \ {t} : task'[u] = task[u]
      BY <1>2, <1>8, <2>2, <2>3, CopyStep DEF SerialInv, TypeInv
    <2>5. OnlyAt(t, q.book)
      BY <1>2, <1>9, <1>10, <2>4 DEF OnlyAt, history, stores
    <2>6. TaskOK(t)'
      BY <1>1, <1>2, <1>3, <1>6, <1>8, <1>9, <1>10, <1>13, <2>2, <2>4
         DEF TaskOK, RequestOK, CopyOK, FilesOK, PiecesOK, RemovalOK, Waiting, Resuming, Deleting,
           Unpacking, Registering, Undoing, Assigned, HasDirectory, Own, Held, history, stores
    <2> QED
      BY <1>1, <1>2, <1>3, <1>11, <2>4, <2>5, <2>6, BusyStep
  <1> QED
    BY <1>12, <1>13

\* A failed attempt is recorded; an import is undone.
LEMMA HandleError ==
    ASSUME SerialInv, TypeInv', NEW t \in Tasks, handleError(t)
    PROVE  SerialInv'
  <1>1. Busy(t) /\ task[t].pc = "catch"
    BY DEF handleError, Busy, Waiting
  <1>2. PICK q : q = task[t]
    OBVIOUS
  <1>3. /\ TaskOK(t) /\ BookOK(q.book) /\ q.book \in Books
        /\ q.op \in Operation /\ reserved[q.op.id] = q.book
        /\ ops \in [Books -> Operation \cup {None}]
        /\ ops[q.book] = q.op /\ q.op # None /\ q.op.id \in Operations
        /\ q.op.state # "ready"
        /\ q.op.ids # None => q.op.ids[1] = q.op.id
        /\ q.import => q.op.origin = "archive"
        /\ Importing(q.book) <=> q.import
    BY <1>1, <1>2, BusyFacts
       DEF SerialInv, TypeInv, TypeOK, TaskOK, CopyOK, Resuming, RequestOK, Own, Busy
  <1>4. OwnRow(t)
    BY <1>2, <1>3 DEF OwnRow
  <1>5. PICK s : s = FailureState(q.op.state)
    OBVIOUS
  <1>6. s \in {"failed", "compensation-required"} /\ s \in ProvisionState
    BY <1>5 DEF FailureState, ProvisionState
  <1>7. PICK r : r = [q.op EXCEPT !.state = s]
    OBVIOUS
  <1>8. /\ r \in Operation /\ r # None /\ r.id = q.op.id /\ r.state = s
        /\ r.origin = q.op.origin /\ r.ids = q.op.ids
    BY <1>3, <1>6, <1>7, RowFields DEF Operation
  <1>9. /\ ops' = [ops EXCEPT ![q.book] = r]
        /\ UNCHANGED <<stores, history, mishaps>>
    BY <1>2, <1>3, <1>4, <1>5, <1>7 DEF handleError
  <1>10. ops'[q.book] = r /\ \A c \in Books \ {q.book} : ops'[c] = ops[c]
    BY <1>3, <1>9
  <1>11. BookOK(q.book)'
    <2>1. RowsOK(q.book)'
      BY <1>3, <1>6, <1>8, <1>9, <1>10 DEF BookOK, RowsOK, Own, history, stores
    <2>2. DirectoryOK(q.book)'
      BY <1>3, <1>6, <1>8, <1>9, <1>10
         DEF BookOK, DirectoryOK, DeletionBegun, Has, LeftByImport, PastPromotion, Held, history, stores
    <2>3. BoundOK(q.book)'
      BY <1>6, <1>8, <1>10 DEF BoundOK, Has
    <2>4. NothingUnnamed(q.book)'
      BY <1>3, <1>8, <1>9, <1>10 DEF BookOK, NothingUnnamed, history, stores
    <2> QED
      BY <2>1, <2>2, <2>3, <2>4 DEF BookOK
  <1>12. CASE q.import
    <2>1. Goto(t, "undoProject")
      BY <1>2, <1>12 DEF handleError, GiveUp
    <2>2. /\ task'[t].pc = "undoProject" /\ task'[t].book = q.book /\ task'[t].op = q.op
          /\ task'[t].owned = q.owned /\ task'[t].import = q.import
          /\ \A u \in Tasks \ {t} : task'[u] = task[u]
      BY <1>2, <2>1, GotoStep DEF SerialInv, TypeInv, Pcs, Undoing
    <2>3. OnlyAt(t, q.book)
      BY <1>2, <1>9, <1>10, <2>2 DEF OnlyAt, history, stores
    <2>4. TaskOK(t)'
      BY <1>1, <1>2, <1>3, <1>6, <1>8, <1>9, <1>10, <1>12, <2>2
         DEF TaskOK, RequestOK, CopyOK, FilesOK, PiecesOK, RemovalOK, Waiting, Resuming, Deleting,
           Unpacking, Registering, Undoing, Assigned, HasDirectory, Own, Busy, history, stores
    <2> QED
      BY <1>1, <1>2, <1>3, <1>11, <2>2, <2>3, <2>4, BusyStep
  <1>13. CASE ~q.import
    <2>1. Return(t)
      BY <1>2, <1>13 DEF handleError, GiveUp
    <2>2. task'[t] = Idle /\ \A u \in Tasks \ {t} : task'[u] = task[u]
      BY <2>1, ReturnStep DEF SerialInv, TypeInv
    <2>3. OnlyAt(t, q.book)
      BY <1>2, <1>9, <1>10, <1>13, <2>2, IdleTask DEF OnlyAt, history, stores
    <2>4. TaskOK(t)'
      BY <2>2, IdleTaskNext
    <2> QED
      BY <1>1, <1>2, <1>3, <1>11, <2>2, <2>3, <2>4, BusyStep, IdleTask
  <1> QED
    BY <1>12, <1>13

----------------------------------------------------------------------------
(* The steps of a deletion.                                                *)

\* The project goes first: from here on the deletion has begun.
LEMMA DeleteProject ==
    ASSUME SerialInv, TypeInv', NEW t \in Tasks, deleteProject(t)
    PROVE  SerialInv'
  <1>1. Busy(t) /\ task[t].pc = "deleteProject"
    BY DEF deleteProject, Busy, Waiting
  <1>2. PICK q : q = task[t]
    OBVIOUS
  <1>3. /\ TaskOK(t) /\ BookOK(q.book) /\ q.book \in Books
        /\ q.op \in Operation /\ reserved[q.op.id] = q.book
        /\ ops[q.book] = q.op /\ q.op # None /\ q.op.id \in Operations /\ q.op.ids \in Projects
        /\ q.op.ids[1] = q.op.id /\ q.op.ids # None
        /\ q.op.state = "ready" /\ ~q.import
        /\ runtime \in [Projects -> SUBSET Pieces]
    BY <1>1, <1>2, BusyFacts
       DEF SerialInv, TypeInv, TypeOK, TaskOK, CopyOK, Deleting, RequestOK, Own, Busy
  <1>4. PICK p : p = q.op.ids
    OBVIOUS
  <1>5. /\ runtime' = [runtime EXCEPT ![p] = {}] /\ Goto(t, "purge")
        /\ UNCHANGED <<ops, core, dir, staging, binding, history, mishaps>>
    BY <1>2, <1>4 DEF deleteProject
  <1>6. /\ task'[t].pc = "purge" /\ task'[t].book = q.book /\ task'[t].op = q.op
        /\ task'[t].owned = q.owned /\ task'[t].import = q.import
        /\ \A u \in Tasks \ {t} : task'[u] = task[u]
    BY <1>2, <1>5, GotoStep DEF SerialInv, TypeInv, Pcs, Deleting
  <1>7. runtime'[p] = {} /\ \A p2 \in Projects \ {p} : runtime'[p2] = runtime[p2]
    BY <1>3, <1>4, <1>5
  <1>8. OnlyAt(t, q.book)
    BY <1>2, <1>3, <1>4, <1>5, <1>6, <1>7 DEF OnlyAt, history
  <1>9. BookOK(q.book)'
    <2>1. RowsOK(q.book)'
      BY <1>3, <1>5 DEF BookOK, RowsOK, Own, history
    <2>2. DirectoryOK(q.book)'
      BY <1>3, <1>4, <1>5, <1>7
         DEF BookOK, DirectoryOK, DeletionBegun, Has, LeftByImport, history
    <2>3. BoundOK(q.book)'
      BY <1>3, <1>5 DEF BoundOK, Has
    <2>4. NothingUnnamed(q.book)'
      BY <1>3, <1>4, <1>5, <1>7 DEF BookOK, NothingUnnamed, history
    <2> QED
      BY <2>1, <2>2, <2>3, <2>4 DEF BookOK
  <1>10. TaskOK(t)'
    BY <1>1, <1>2, <1>3, <1>4, <1>5, <1>6, <1>7
       DEF TaskOK, RequestOK, CopyOK, FilesOK, PiecesOK, RemovalOK, Waiting, Resuming, Deleting,
           Unpacking, Registering, Undoing, Assigned, HasDirectory, Own, history
  <1> QED
    BY <1>1, <1>2, <1>3, <1>6, <1>8, <1>9, <1>10, BusyStep

\* The core data; the directory only if there was one when the deletion began.
LEMMA PurgeBookScopedStorage ==
    ASSUME SerialInv, TypeInv', NEW t \in Tasks, purgeBookScopedStorage(t)
    PROVE  SerialInv'
  <1>1. Busy(t) /\ task[t].pc = "purge"
    BY DEF purgeBookScopedStorage, Busy, Waiting
  <1>2. PICK q : q = task[t]
    OBVIOUS
  <1>3. TaskOK(t) /\ BookOK(q.book)
    BY <1>1, <1>2, BusyFacts
  <1>4. PICK pc : pc = IF q.owned THEN "removeDir" ELSE "unbind"
    OBVIOUS
  <1>5. MovesOn(t, pc) /\ pc \in Pcs /\ pc \in {"removeDir", "unbind"} /\ (pc = "unbind" => ~q.owned)
    BY <1>2, <1>4 DEF purgeBookScopedStorage, MovesOn, history, Pcs, Deleting
  <1>6. /\ task'[t].pc = pc /\ task'[t].book = q.book /\ task'[t].op = q.op
        /\ task'[t].owned = q.owned /\ task'[t].import = q.import
        /\ TaskOK(t)' => SerialInv'
    BY <1>1, <1>2, <1>5, MoveStep
  <1>7. TaskOK(t)'
    BY <1>1, <1>2, <1>3, <1>5, <1>6
       DEF TaskOK, RequestOK, CopyOK, FilesOK, PiecesOK, RemovalOK, Waiting, Resuming, Deleting,
           Unpacking, Registering, Undoing, Assigned, HasDirectory, Own, MovesOn, history
  <1> QED
    BY <1>6, <1>7

\* The directory: the row stays, so that the deletion can be repeated.
LEMMA RemoveDirectory ==
    ASSUME SerialInv, TypeInv', NEW t \in Tasks, removeDirectory(t)
    PROVE  SerialInv'
  <1>1. Busy(t) /\ task[t].pc = "removeDir"
    BY DEF removeDirectory, Busy, Waiting
  <1>2. PICK q : q = task[t]
    OBVIOUS
  <1>3. /\ TaskOK(t) /\ BookOK(q.book) /\ q.book \in Books
        /\ q.op \in Operation /\ reserved[q.op.id] = q.book
        /\ ops[q.book] = q.op /\ q.op # None /\ q.op.id \in Operations /\ q.op.ids \in Projects
        /\ q.op.ids[1] = q.op.id /\ q.op.ids # None
        /\ q.op.state = "ready" /\ ~q.import
        /\ dir \in [Books -> Operations \cup {None, Legacy, Broken}]
        /\ "project" \notin runtime[q.op.ids]
    BY <1>1, <1>2, BusyFacts
       DEF SerialInv, TypeInv, TypeOK, TaskOK, CopyOK, RemovalOK, Deleting, RequestOK, Own, Busy
  <1>5. /\ dir' = [dir EXCEPT ![q.book] = None] /\ Goto(t, "unbind")
        /\ UNCHANGED <<ops, core, staging, runtime, binding, history, mishaps>>
    BY <1>2 DEF removeDirectory
  <1>6. /\ task'[t].pc = "unbind" /\ task'[t].book = q.book /\ task'[t].op = q.op
        /\ task'[t].owned = q.owned /\ task'[t].import = q.import
        /\ \A u \in Tasks \ {t} : task'[u] = task[u]
    BY <1>2, <1>5, GotoStep DEF SerialInv, TypeInv, Pcs, Deleting
  <1>7. dir'[q.book] = None /\ \A c \in Books \ {q.book} : dir'[c] = dir[c]
    BY <1>3, <1>5
  <1>8. OnlyAt(t, q.book)
    BY <1>2, <1>3, <1>5, <1>6, <1>7 DEF OnlyAt, history
  <1>9. BookOK(q.book)'
    <2>1. RowsOK(q.book)'
      BY <1>3, <1>5 DEF BookOK, RowsOK, Own, history
    <2>2. DirectoryOK(q.book)'
      BY <1>3, <1>5, <1>7, BookProvisionAssumption
         DEF DirectoryOK, DeletionBegun, Has, history
    <2>3. BoundOK(q.book)'
      BY <1>3, <1>5 DEF BoundOK, Has
    <2>4. NothingUnnamed(q.book)'
      BY <1>3, <1>5, <1>7 DEF BookOK, NothingUnnamed, history
    <2> QED
      BY <2>1, <2>2, <2>3, <2>4 DEF BookOK
  <1>10. TaskOK(t)'
    BY <1>1, <1>2, <1>3, <1>5, <1>6, <1>7
       DEF TaskOK, RequestOK, CopyOK, FilesOK, PiecesOK, RemovalOK, Waiting, Resuming, Deleting,
           Unpacking, Registering, Undoing, Assigned, HasDirectory, Own, history
  <1> QED
    BY <1>1, <1>2, <1>3, <1>6, <1>8, <1>9, <1>10, BusyStep

\* No other book is bound to the project of this one.
LEMMA OwnBinding ==
    ASSUME SerialInv, NEW b \in Books, NEW p \in Projects \cup {None},
           p # None => reserved[p[1]] = b,
           binding' = [c \in Books |-> IF binding[c] = p THEN None ELSE binding[c]]
    PROVE  /\ binding'[b] = IF binding[b] = p THEN None ELSE binding[b]
           /\ \A c \in Books \ {b} : binding'[c] = binding[c]
  <1>1. \A c \in Books \ {b} : binding[c] = p => binding[c] = None
    BY DEF SerialInv, BookOK, RowsOK
  <1> QED
    BY <1>1

\* The binding goes; only this book's can be the one.
LEMMA DeleteBinding ==
    ASSUME SerialInv, TypeInv', NEW t \in Tasks, deleteBinding(t)
    PROVE  SerialInv'
  <1>1. Busy(t) /\ task[t].pc = "unbind"
    BY DEF deleteBinding, Busy, Waiting
  <1>2. PICK q : q = task[t]
    OBVIOUS
  <1>3. /\ TaskOK(t) /\ BookOK(q.book) /\ q.book \in Books
        /\ q.op \in Operation /\ reserved[q.op.id] = q.book
        /\ ops[q.book] = q.op /\ q.op # None /\ q.op.id \in Operations /\ q.op.ids \in Projects
        /\ q.op.ids[1] = q.op.id /\ q.op.ids # None
        /\ q.op.state = "ready" /\ ~q.import
        /\ binding \in [Books -> Projects \cup {None}]
        /\ "project" \notin runtime[q.op.ids]
    BY <1>1, <1>2, BusyFacts
       DEF SerialInv, TypeInv, TypeOK, TaskOK, CopyOK, RemovalOK, Deleting, RequestOK, Own, Busy
  <1>4. PICK p : p = q.op.ids
    OBVIOUS
  <1>5. /\ binding' = [c \in Books |-> IF binding[c] = p THEN None ELSE binding[c]]
        /\ Goto(t, "deleteRow")
        /\ UNCHANGED <<ops, core, dir, staging, runtime, history, mishaps>>
    BY <1>2, <1>4 DEF deleteBinding
  <1>6. /\ task'[t].pc = "deleteRow" /\ task'[t].book = q.book /\ task'[t].op = q.op
        /\ task'[t].owned = q.owned /\ task'[t].import = q.import
        /\ \A u \in Tasks \ {t} : task'[u] = task[u]
    BY <1>2, <1>5, GotoStep DEF SerialInv, TypeInv, Pcs, Deleting
  <1>7. /\ binding'[q.book] \in {None, binding[q.book]} /\ binding'[q.book] # q.op.ids
        /\ \A c \in Books \ {q.book} : binding'[c] = binding[c]
    <2>1. /\ binding'[q.book] = IF binding[q.book] = p THEN None ELSE binding[q.book]
          /\ \A c \in Books \ {q.book} : binding'[c] = binding[c]
      BY <1>3, <1>4, <1>5, OwnBinding
    <2> QED
      BY <1>3, <1>4, <2>1
  <1>8. OnlyAt(t, q.book)
    BY <1>2, <1>3, <1>5, <1>6, <1>7 DEF OnlyAt, history
  <1>9. BookOK(q.book)'
    <2>1. RowsOK(q.book)'
      BY <1>3, <1>5, <1>7 DEF BookOK, RowsOK, Own, history
    <2>2. DirectoryOK(q.book)'
      BY <1>3, <1>5
         DEF BookOK, DirectoryOK, DeletionBegun, Has, LeftByImport, history
    <2>3. BoundOK(q.book)'
      BY <1>3, <1>5 DEF BoundOK, Has
    <2>4. NothingUnnamed(q.book)'
      BY <1>3, <1>5, <1>7 DEF BookOK, NothingUnnamed, history
    <2> QED
      BY <2>1, <2>2, <2>3, <2>4 DEF BookOK
  <1>10. TaskOK(t)'
    BY <1>1, <1>2, <1>3, <1>5, <1>6, <1>7
       DEF TaskOK, RequestOK, CopyOK, FilesOK, PiecesOK, RemovalOK, Waiting, Resuming, Deleting,
           Unpacking, Registering, Undoing, Assigned, HasDirectory, Own, history
  <1> QED
    BY <1>1, <1>2, <1>3, <1>6, <1>8, <1>9, <1>10, BusyStep

\* The row goes when nothing else is left.
LEMMA DeleteRow ==
    ASSUME SerialInv, TypeInv', NEW t \in Tasks, deleteRow(t)
    PROVE  SerialInv'
  <1>1. Busy(t) /\ task[t].pc = "deleteRow"
    BY DEF deleteRow, Busy, Waiting
  <1>2. PICK q : q = task[t]
    OBVIOUS
  <1>3. /\ TaskOK(t) /\ BookOK(q.book) /\ q.book \in Books
        /\ q.op \in Operation /\ reserved[q.op.id] = q.book
        /\ ops[q.book] = q.op /\ q.op # None /\ q.op.id \in Operations /\ q.op.ids \in Projects
        /\ q.op.ids[1] = q.op.id /\ q.op.ids # None
        /\ q.op.state = "ready" /\ ~q.import
        /\ ops \in [Books -> Operation \cup {None}]
        /\ "project" \notin runtime[q.op.ids]
        /\ dir[q.book] \in {None, Legacy} /\ binding[q.book] # q.op.ids
    BY <1>1, <1>2, BusyFacts
       DEF SerialInv, TypeInv, TypeOK, TaskOK, CopyOK, RemovalOK, FilesOK, Deleting, RequestOK, Own, Busy
  <1>4. OwnRow(t)
    BY <1>2, <1>3 DEF OwnRow
  <1>5. /\ ops' = [ops EXCEPT ![q.book] = None]
        /\ Return(t)
        /\ UNCHANGED <<stores, history, mishaps>>
    BY <1>2, <1>4 DEF deleteRow
  <1>6. task'[t] = Idle /\ \A u \in Tasks \ {t} : task'[u] = task[u]
    BY <1>5, ReturnStep DEF SerialInv, TypeInv
  <1>7. ops'[q.book] = None /\ \A c \in Books \ {q.book} : ops'[c] = ops[c]
    BY <1>3, <1>5
  <1>8. OnlyAt(t, q.book)
    BY <1>2, <1>3, <1>5, <1>6, <1>7, IdleTask DEF OnlyAt, history, stores
  <1>9. BookOK(q.book)'
    <2>1. RowsOK(q.book)'
      BY <1>3, <1>5, <1>7 DEF BookOK, RowsOK, history, stores
    <2>2. DirectoryOK(q.book)'
      BY <1>3, <1>5, <1>7 DEF BookOK, DirectoryOK, history, stores
    <2>3. BoundOK(q.book)'
      BY <1>7 DEF BoundOK, Has
    <2>4. NothingUnnamed(q.book)'
      BY <1>3, <1>5, <1>7 DEF BookOK, NothingUnnamed, history, stores
    <2> QED
      BY <2>1, <2>2, <2>3, <2>4 DEF BookOK
  <1>10. TaskOK(t)'
    BY <1>6, IdleTaskNext
  <1> QED
    BY <1>1, <1>2, <1>3, <1>6, <1>8, <1>9, <1>10, BusyStep, IdleTask

----------------------------------------------------------------------------
(* The steps of an import, and of its undoing.                             *)

\* Nothing of the book is seen while its archive is unpacked and loaded.
LEMMA UnpackFiles ==
    ASSUME SerialInv, TypeInv', NEW t \in Tasks, unpackFiles(t)
    PROVE  SerialInv'
  <1>1. Busy(t) /\ task[t].pc = "unpack"
    BY DEF unpackFiles, Busy, Waiting
  <1>2. PICK q : q = task[t]
    OBVIOUS
  <1>3. /\ TaskOK(t) /\ BookOK(q.book)
        /\ staging \in [Operations -> {"absent", "partial", "complete"}]
    BY <1>1, <1>2, BusyFacts DEF SerialInv, TypeInv, TypeOK
  <1>4. CASE Goto(t, "load")
    <2>1. MovesOn(t, "load")
      BY <1>3, <1>4, BusyFacts DEF unpackFiles, MovesOn, stores, history
    <2>2. /\ task'[t].pc = "load" /\ task'[t].book = q.book /\ task'[t].op = q.op
          /\ task'[t].owned = q.owned /\ task'[t].import = q.import
          /\ TaskOK(t)' => SerialInv'
      BY <1>1, <1>2, <2>1, MoveStep DEF Pcs, Resuming, Deleting, Unpacking, Registering, Undoing
    <2>4. TaskOK(t)'
      BY <1>1, <1>2, <1>3, <2>1, <2>2
         DEF TaskOK, RequestOK, CopyOK, FilesOK, PiecesOK, RemovalOK, Waiting, Resuming, Deleting,
           Unpacking, Registering, Undoing, Assigned, HasDirectory, Own, MovesOn, history
    <2> QED
      BY <2>2, <2>4
  <1> QED
    BY <1>4 DEF unpackFiles

\* The rows of the archive.
LEMMA LoadRows ==
    ASSUME SerialInv, TypeInv', NEW t \in Tasks, loadRows(t)
    PROVE  SerialInv'
  <1>1. Busy(t) /\ task[t].pc = "load"
    BY DEF loadRows, Busy, Waiting
  <1>2. PICK q : q = task[t]
    OBVIOUS
  <1>3. /\ TaskOK(t) /\ BookOK(q.book)
        /\ staging \in [Operations -> {"absent", "partial", "complete"}]
    BY <1>1, <1>2, BusyFacts DEF SerialInv, TypeInv, TypeOK
  <1>4. CASE Goto(t, "backfill")
    <2>1. MovesOn(t, "backfill")
      BY <1>3, <1>4, BusyFacts DEF loadRows, MovesOn, stores, history
    <2>2. /\ task'[t].pc = "backfill" /\ task'[t].book = q.book /\ task'[t].op = q.op
          /\ task'[t].owned = q.owned /\ task'[t].import = q.import
          /\ TaskOK(t)' => SerialInv'
      BY <1>1, <1>2, <2>1, MoveStep DEF Pcs, Resuming, Deleting, Unpacking, Registering, Undoing
    <2>4. TaskOK(t)'
      BY <1>1, <1>2, <1>3, <2>1, <2>2
         DEF TaskOK, RequestOK, CopyOK, FilesOK, PiecesOK, RemovalOK, Waiting, Resuming, Deleting,
           Unpacking, Registering, Undoing, Assigned, HasDirectory, Own, MovesOn, history
    <2> QED
      BY <2>2, <2>4
  <1> QED
    BY <1>4 DEF loadRows

\* Derived keys.
LEMMA Backfill ==
    ASSUME SerialInv, TypeInv', NEW t \in Tasks, backfillNarrativeFactSlotKeys(t)
    PROVE  SerialInv'
  <1>1. Busy(t) /\ task[t].pc = "backfill"
    BY DEF backfillNarrativeFactSlotKeys, Busy, Waiting
  <1>2. PICK q : q = task[t]
    OBVIOUS
  <1>3. /\ TaskOK(t) /\ BookOK(q.book)
        /\ staging \in [Operations -> {"absent", "partial", "complete"}]
    BY <1>1, <1>2, BusyFacts DEF SerialInv, TypeInv, TypeOK
  <1>4. CASE Goto(t, "place")
    <2>1. MovesOn(t, "place")
      BY <1>3, <1>4, BusyFacts DEF backfillNarrativeFactSlotKeys, MovesOn, stores, history
    <2>2. /\ task'[t].pc = "place" /\ task'[t].book = q.book /\ task'[t].op = q.op
          /\ task'[t].owned = q.owned /\ task'[t].import = q.import
          /\ TaskOK(t)' => SerialInv'
      BY <1>1, <1>2, <2>1, MoveStep DEF Pcs, Resuming, Deleting, Unpacking, Registering, Undoing
    <2>4. TaskOK(t)'
      BY <1>1, <1>2, <1>3, <2>1, <2>2
         DEF TaskOK, RequestOK, CopyOK, FilesOK, PiecesOK, RemovalOK, Waiting, Resuming, Deleting,
           Unpacking, Registering, Undoing, Assigned, HasDirectory, Own, MovesOn, history
    <2> QED
      BY <2>2, <2>4
  <1> QED
    BY <1>4 DEF backfillNarrativeFactSlotKeys

\* The rows of the archive go.
LEMMA PurgeBookArchiveData ==
    ASSUME SerialInv, TypeInv', NEW t \in Tasks, purgeBookArchiveData(t)
    PROVE  SerialInv'
  <1>1. Busy(t) /\ task[t].pc = "undoData"
    BY DEF purgeBookArchiveData, Busy, Waiting
  <1>2. PICK q : q = task[t]
    OBVIOUS
  <1>3. /\ TaskOK(t) /\ BookOK(q.book)
        /\ staging \in [Operations -> {"absent", "partial", "complete"}]
    BY <1>1, <1>2, BusyFacts DEF SerialInv, TypeInv, TypeOK
  <1>4. CASE Goto(t, "undoDir")
    <2>1. MovesOn(t, "undoDir")
      BY <1>3, <1>4, BusyFacts DEF purgeBookArchiveData, MovesOn, stores, history
    <2>2. /\ task'[t].pc = "undoDir" /\ task'[t].book = q.book /\ task'[t].op = q.op
          /\ task'[t].owned = q.owned /\ task'[t].import = q.import
          /\ TaskOK(t)' => SerialInv'
      BY <1>1, <1>2, <2>1, MoveStep DEF Pcs, Resuming, Deleting, Unpacking, Registering, Undoing
    <2>4. TaskOK(t)'
      BY <1>1, <1>2, <1>3, <2>1, <2>2
         DEF TaskOK, RequestOK, CopyOK, FilesOK, PiecesOK, RemovalOK, Waiting, Resuming, Deleting,
           Unpacking, Registering, Undoing, Assigned, HasDirectory, Own, MovesOn, history
    <2> QED
      BY <2>2, <2>4
  <1> QED
    BY <1>4 DEF purgeBookArchiveData

\* The import's directory is put where none is.
LEMMA PlaceDirectory ==
    ASSUME SerialInv, TypeInv', NEW t \in Tasks, placeDirectory(t)
    PROVE  SerialInv'
  <1>1. Busy(t) /\ task[t].pc = "place"
    BY DEF placeDirectory, Busy, Waiting
  <1>2. PICK q : q = task[t]
    OBVIOUS
  <1>3. /\ TaskOK(t) /\ BookOK(q.book) /\ q.book \in Books
        /\ q.op \in Operation /\ reserved[q.op.id] = q.book
        /\ q.op # None /\ q.op.id \in Operations /\ q.op.ids \in Projects \cup {None}
        /\ q.op.ids # None => q.op.ids[1] = q.op.id
        /\ q.import /\ q.op.origin = "archive"
        /\ ops[q.book] = None
        /\ dir \in [Books -> Operations \cup {None, Legacy, Broken}]
        /\ staging \in [Operations -> {"absent", "partial", "complete"}]
    BY <1>1, <1>2, BusyFacts
       DEF SerialInv, TypeInv, TypeOK, TaskOK, CopyOK, Registering, RequestOK, Own, Busy
  <1>5. /\ dir' = [dir EXCEPT ![q.book] = q.op.id] /\ Goto(t, "register")
        /\ staging' = [staging EXCEPT ![q.op.id] = "absent"]
        /\ UNCHANGED <<ops, core, runtime, binding, history, mishaps>>
    BY <1>2 DEF placeDirectory
  <1>6. /\ task'[t].pc = "register" /\ task'[t].book = q.book /\ task'[t].op = q.op
        /\ task'[t].owned = q.owned /\ task'[t].import = q.import
        /\ \A u \in Tasks \ {t} : task'[u] = task[u]
    BY <1>2, <1>5, GotoStep DEF SerialInv, TypeInv, Pcs, Registering
  <1>7. dir'[q.book] = q.op.id /\ \A c \in Books \ {q.book} : dir'[c] = dir[c]
    BY <1>3, <1>5
  <1>8. OnlyAt(t, q.book)
    BY <1>2, <1>3, <1>5, <1>6, <1>7 DEF OnlyAt, history
  <1>9. BookOK(q.book)'
    <2>1. RowsOK(q.book)'
      BY <1>3, <1>5 DEF BookOK, RowsOK, Own, history
    <2>2. DirectoryOK(q.book)'
      BY <1>3, <1>5, <1>7, BookProvisionAssumption DEF DirectoryOK, history
    <2>3. BoundOK(q.book)'
      BY <1>3, <1>5 DEF BoundOK, Has
    <2>4. Importing(q.book)'
      BY <1>3, <1>6 DEF Importing
    <2>5. NothingUnnamed(q.book)'
      BY <1>3, <1>5, <2>4 DEF BookOK, NothingUnnamed, history
    <2> QED
      BY <2>1, <2>2, <2>3, <2>5 DEF BookOK
  <1>10. TaskOK(t)'
    BY <1>1, <1>2, <1>3, <1>5, <1>6, <1>7, BookProvisionAssumption
       DEF TaskOK, RequestOK, CopyOK, FilesOK, PiecesOK, RemovalOK, Waiting, Resuming, Deleting,
           Unpacking, Registering, Undoing, Assigned, HasDirectory, Own, history
  <1> QED
    BY <1>1, <1>2, <1>3, <1>6, <1>8, <1>9, <1>10, BusyStep

\* The row: from here on the import is an operation like any other.
LEMMA RegisterImport ==
    ASSUME SerialInv, TypeInv', NEW t \in Tasks, registerImport(t)
    PROVE  SerialInv'
  <1>1. Busy(t) /\ task[t].pc = "register"
    BY DEF registerImport, Busy, Waiting
  <1>2. PICK q : q = task[t]
    OBVIOUS
  <1>3. /\ TaskOK(t) /\ BookOK(q.book) /\ q.book \in Books
        /\ q.op \in Operation /\ reserved[q.op.id] = q.book
        /\ q.op # None /\ q.op.id \in Operations /\ q.op.ids \in Projects \cup {None}
        /\ q.op.ids # None => q.op.ids[1] = q.op.id
        /\ q.import /\ q.op.origin = "archive"
        /\ ops[q.book] = None /\ q.op.ids = None /\ q.op.state = "filesystem-promoted"
        /\ ops \in [Books -> Operation \cup {None}]
        /\ dir[q.book] = q.op.id
    BY <1>1, <1>2, BusyFacts
       DEF SerialInv, TypeInv, TypeOK, TaskOK, CopyOK, FilesOK, Registering, RequestOK, Own, Busy
  <1>4. CASE \E c \in Books : HasKey(c, task[t].key)
    <2>1. MovesOn(t, "undoData")
      BY <1>4 DEF registerImport, MovesOn, stores, history
    <2>2. /\ task'[t].pc = "undoData" /\ task'[t].book = q.book /\ task'[t].op = q.op
          /\ task'[t].owned = q.owned /\ task'[t].import = q.import
          /\ TaskOK(t)' => SerialInv'
      BY <1>1, <1>2, <2>1, MoveStep DEF Pcs, Undoing
    <2>3. TaskOK(t)'
      BY <1>1, <1>2, <1>3, <2>1, <2>2
         DEF TaskOK, RequestOK, CopyOK, FilesOK, PiecesOK, RemovalOK, Waiting, Resuming, Deleting,
           Unpacking, Registering, Undoing, Assigned, HasDirectory, Own, MovesOn, history
    <2> QED
      BY <2>2, <2>3
  <1>5. CASE ~ \E c \in Books : HasKey(c, task[t].key)
    <2>1. /\ ops' = [ops EXCEPT ![q.book] = q.op] /\ Goto(t, "bind")
          /\ UNCHANGED <<stores, history, mishaps>>
      BY <1>2, <1>5 DEF registerImport
    <2>2. /\ task'[t].pc = "bind" /\ task'[t].book = q.book /\ task'[t].op = q.op
        /\ task'[t].owned = q.owned /\ task'[t].import = q.import
        /\ \A u \in Tasks \ {t} : task'[u] = task[u]
      BY <1>2, <2>1, GotoStep DEF SerialInv, TypeInv, Pcs, Resuming
    <2>3. ops'[q.book] = q.op /\ \A c \in Books \ {q.book} : ops'[c] = ops[c]
      BY <1>3, <2>1
    <2>4. OnlyAt(t, q.book)
      BY <1>2, <1>3, <2>1, <2>2, <2>3 DEF OnlyAt, history, stores
    <2>5. BookOK(q.book)'
      <3>1. RowsOK(q.book)'
        BY <1>3, <2>1, <2>3 DEF BookOK, RowsOK, Own, history, stores
      <3>2. DirectoryOK(q.book)'
        BY <1>3, <2>1, <2>3 DEF BookOK, DirectoryOK, LeftByImport, Held, history, stores
      <3>3. BoundOK(q.book)'
        BY <1>3, <2>3 DEF BoundOK, Has
      <3>4. NothingUnnamed(q.book)'
        BY <1>3, <2>1, <2>3 DEF BookOK, NothingUnnamed, history, stores
      <3> QED
        BY <3>1, <3>2, <3>3, <3>4 DEF BookOK
    <2>6. TaskOK(t)'
      BY <1>1, <1>2, <1>3, <2>1, <2>2, <2>3
         DEF TaskOK, RequestOK, CopyOK, FilesOK, PiecesOK, RemovalOK, Waiting, Resuming, Deleting,
           Unpacking, Registering, Undoing, Assigned, HasDirectory, Own, history, stores
    <2> QED
      BY <1>1, <1>2, <1>3, <2>2, <2>4, <2>5, <2>6, BusyStep
  <1> QED
    BY <1>4, <1>5

\* The project the row names goes, where there is a row.
LEMMA UndoProject ==
    ASSUME SerialInv, TypeInv', NEW t \in Tasks, undoProject(t)
    PROVE  SerialInv'
  <1>1. Busy(t) /\ task[t].pc = "undoProject"
    BY DEF undoProject, Busy, Waiting
  <1>2. PICK q : q = task[t]
    OBVIOUS
  <1>3. /\ TaskOK(t) /\ BookOK(q.book) /\ q.book \in Books
        /\ q.op \in Operation /\ reserved[q.op.id] = q.book
        /\ q.op # None /\ q.op.id \in Operations /\ q.op.ids \in Projects \cup {None}
        /\ q.op.ids # None => q.op.ids[1] = q.op.id
        /\ q.import /\ q.op.origin = "archive"
        /\ runtime \in [Projects -> SUBSET Pieces]
        /\ ops[q.book] \in Operation \cup {None}
        /\ ops[q.book] # None => /\ ops[q.book].id = q.op.id /\ ops[q.book].ids = q.op.ids
                                 /\ ops[q.book].origin = "archive" /\ ops[q.book].state # "ready"
        /\ q.book \notin remains => ops[q.book] # None
        /\ binding[q.book] # None => binding[q.book] \in Projects
    BY <1>1, <1>2, BusyFacts
       DEF SerialInv, TypeInv, TypeOK, TaskOK, CopyOK, RemovalOK, Undoing, RequestOK, Own, Busy
  <1>4. PICK r : r = ops[q.book]
    OBVIOUS
  <1>5. CASE OwnRow(t) /\ r.ids # None
    <2>1. PICK p : p = r.ids
      OBVIOUS
    <2>2. /\ r \in Operation /\ r # None /\ p \in Projects /\ p = q.op.ids /\ p[1] = q.op.id
          /\ r.id = q.op.id
      BY <1>2, <1>3, <1>4, <1>5, <2>1, RowFields DEF OwnRow
    <2>3. /\ runtime' = [runtime EXCEPT ![p] = {}]
          /\ undone' = undone \cup {q.op.id}
          /\ GoOnWith(t, r, "undoBinding")
          /\ UNCHANGED <<ops, core, dir, staging, binding, reserved, remains, mishaps>>
      BY <1>2, <1>3, <1>4, <1>5, <2>1, <2>2 DEF undoProject
    <2>4. /\ task'[t].pc = "undoBinding" /\ task'[t].book = q.book /\ task'[t].op = r
          /\ task'[t].owned = q.owned /\ task'[t].import = q.import
          /\ \A u \in Tasks \ {t} : task'[u] = task[u]
      BY <1>2, <2>2, <2>3, CopyStep DEF SerialInv, TypeInv, Pcs, Undoing
    <2>5. runtime'[p] = {} /\ \A p2 \in Projects \ {p} : runtime'[p2] = runtime[p2]
      BY <1>3, <2>2, <2>3
    <2>6. OnlyAt(t, q.book)
      BY <1>2, <1>3, <2>2, <2>3, <2>4, <2>5 DEF OnlyAt
    <2>7. BookOK(q.book)'
      <3>1. RowsOK(q.book)'
        BY <1>3, <2>3 DEF BookOK, RowsOK, Own
      <3>2. DirectoryOK(q.book)'
        BY <1>3, <1>4, <2>2, <2>3
           DEF BookOK, DirectoryOK, DeletionBegun, Has, LeftByImport, PastPromotion, Held
      <3>3. BoundOK(q.book)'
        BY <1>3, <1>4, <2>2, <2>3 DEF BoundOK, Has, Unmade
      <3>4. NothingUnnamed(q.book)'
        BY <1>3, <1>4, <2>2, <2>3, <2>5 DEF BookOK, NothingUnnamed
      <3> QED
        BY <3>1, <3>2, <3>3, <3>4 DEF BookOK
    <2>8. TaskOK(t)'
      <3>1. Own(q.book, r) /\ r.origin = "archive" /\ r.state # "ready"
        BY <1>3, <1>4, <2>2 DEF BookOK, RowsOK, Own
      <3>2. RequestOK(t)'
        BY <1>3, <2>2, <2>3, <2>4, <3>1 DEF RequestOK, Own, Waiting
      <3>3. CopyOK(t)'
        BY <1>4, <2>2, <2>3, <2>4, <3>1
           DEF CopyOK, Resuming, Assigned, Deleting, Unpacking, Registering, Undoing
      <3>4. FilesOK(t)'
        BY <1>1, <1>2, <1>3, <2>3, <2>4 DEF TaskOK, FilesOK, HasDirectory, Unpacking, Deleting
      <3>5. PiecesOK(t)'
        BY <2>4 DEF PiecesOK
      <3>6. RemovalOK(t)'
        BY <1>4, <2>1, <2>2, <2>3, <2>4, <2>5, <3>1 DEF RemovalOK, Deleting, Unmade
      <3> QED
        BY <3>2, <3>3, <3>4, <3>5, <3>6 DEF TaskOK
    <2> QED
      BY <1>1, <1>2, <1>3, <2>4, <2>6, <2>7, <2>8, BusyStep
  <1>6. CASE ~(OwnRow(t) /\ r.ids # None)
    <2>1. MovesOn(t, "undoRow")
      BY <1>2, <1>4, <1>6 DEF undoProject, MovesOn, history
    <2>2. /\ task'[t].pc = "undoRow" /\ task'[t].book = q.book /\ task'[t].op = q.op
          /\ task'[t].owned = q.owned /\ task'[t].import = q.import
          /\ TaskOK(t)' => SerialInv'
      BY <1>1, <1>2, <2>1, MoveStep DEF Pcs, Undoing
    <2>3. r # None => r.ids = None
      BY <1>2, <1>3, <1>4, <1>6 DEF OwnRow
    <2>4. q.book \notin remains => binding[q.book] = None
      BY <1>3, <1>4, <2>3, ProjectParts DEF BookOK, NothingUnnamed
    <2>5. TaskOK(t)'
      BY <1>1, <1>2, <1>3, <1>4, <2>1, <2>2, <2>3, <2>4
         DEF TaskOK, RequestOK, CopyOK, FilesOK, PiecesOK, RemovalOK, Waiting, Resuming, Deleting,
           Unpacking, Registering, Undoing, Assigned, HasDirectory, Own, MovesOn, history, Busy
    <2> QED
      BY <2>2, <2>5
  <1> QED
    BY <1>5, <1>6

\* The binding of the project that was taken away.
LEMMA UndoBinding ==
    ASSUME SerialInv, TypeInv', NEW t \in Tasks, undoBinding(t)
    PROVE  SerialInv'
  <1>1. Busy(t) /\ task[t].pc = "undoBinding"
    BY DEF undoBinding, Busy, Waiting
  <1>2. PICK q : q = task[t]
    OBVIOUS
  <1>3. /\ TaskOK(t) /\ BookOK(q.book) /\ q.book \in Books
        /\ q.op \in Operation /\ reserved[q.op.id] = q.book
        /\ q.op # None /\ q.op.id \in Operations /\ q.op.ids \in Projects \cup {None}
        /\ q.op.ids # None => q.op.ids[1] = q.op.id
        /\ q.import /\ q.op.origin = "archive"
        /\ binding \in [Books -> Projects \cup {None}]
        /\ ops[q.book] # None => /\ ops[q.book].id = q.op.id /\ ops[q.book].ids = q.op.ids
                                 /\ ops[q.book].origin = "archive" /\ ops[q.book].state # "ready"
                                 /\ Unmade(q.book)
        /\ q.book \notin remains =>
             /\ ops[q.book] # None
             /\ q.op.ids # None => "project" \notin runtime[q.op.ids]
    BY <1>1, <1>2, BusyFacts
       DEF SerialInv, TypeInv, TypeOK, TaskOK, CopyOK, RemovalOK, Undoing, RequestOK, Own, Busy
  <1>4. PICK p : p = q.op.ids
    OBVIOUS
  <1>5. /\ binding' = [c \in Books |-> IF binding[c] = p THEN None ELSE binding[c]]
        /\ Goto(t, "undoRow")
        /\ UNCHANGED <<ops, core, dir, staging, runtime, history, mishaps>>
    BY <1>2, <1>4 DEF undoBinding
  <1>6. /\ task'[t].pc = "undoRow" /\ task'[t].book = q.book /\ task'[t].op = q.op
        /\ task'[t].owned = q.owned /\ task'[t].import = q.import
        /\ \A u \in Tasks \ {t} : task'[u] = task[u]
    BY <1>2, <1>5, GotoStep DEF SerialInv, TypeInv, Pcs, Undoing
  <1>7. /\ binding'[q.book] \in {None, binding[q.book]}
        /\ binding[q.book] = q.op.ids => binding'[q.book] = None
        /\ \A c \in Books \ {q.book} : binding'[c] = binding[c]
    <2>1. /\ binding'[q.book] = IF binding[q.book] = p THEN None ELSE binding[q.book]
          /\ \A c \in Books \ {q.book} : binding'[c] = binding[c]
      BY <1>3, <1>4, <1>5, OwnBinding
    <2> QED
      BY <1>3, <1>4, <2>1
  <1>8. OnlyAt(t, q.book)
    BY <1>2, <1>3, <1>5, <1>6, <1>7 DEF OnlyAt, history
  <1>9. BookOK(q.book)'
    <2>1. RowsOK(q.book)'
      BY <1>3, <1>5, <1>7 DEF BookOK, RowsOK, Own, history
    <2>2. DirectoryOK(q.book)'
      BY <1>3, <1>5, <1>7
         DEF BookOK, DirectoryOK, DeletionBegun, Has, LeftByImport, PastPromotion, Held, history
    <2>3. BoundOK(q.book)'
      BY <1>3, <1>5 DEF BoundOK, Has, Unmade, history
    <2>4. NothingUnnamed(q.book)'
      BY <1>3, <1>5, <1>6, <1>7 DEF BookOK, NothingUnnamed, Importing, history
    <2> QED
      BY <2>1, <2>2, <2>3, <2>4 DEF BookOK
  <1>10. q.book \notin remains => binding'[q.book] = None
    BY <1>3, <1>7 DEF BookOK, NothingUnnamed
  <1>11. TaskOK(t)'
    BY <1>1, <1>2, <1>3, <1>5, <1>6, <1>7, <1>10
       DEF TaskOK, RequestOK, CopyOK, FilesOK, PiecesOK, RemovalOK, Waiting, Resuming, Deleting,
           Unpacking, Registering, Undoing, Assigned, HasDirectory, Own, history, Busy
  <1> QED
    BY <1>1, <1>2, <1>3, <1>6, <1>8, <1>9, <1>11, BusyStep

\* The row, if it is still the import's.
LEMMA UndoRow ==
    ASSUME SerialInv, TypeInv', NEW t \in Tasks, undoRow(t)
    PROVE  SerialInv'
  <1>1. Busy(t) /\ task[t].pc = "undoRow"
    BY DEF undoRow, Busy, Waiting
  <1>2. PICK q : q = task[t]
    OBVIOUS
  <1>3. /\ TaskOK(t) /\ BookOK(q.book) /\ q.book \in Books
        /\ q.op \in Operation /\ reserved[q.op.id] = q.book
        /\ q.op # None /\ q.op.id \in Operations /\ q.op.ids \in Projects \cup {None}
        /\ q.op.ids # None => q.op.ids[1] = q.op.id
        /\ q.import /\ q.op.origin = "archive"
        /\ ops \in [Books -> Operation \cup {None}]
        /\ ops[q.book] # None => ops[q.book].id = q.op.id /\ ops[q.book].ids = q.op.ids
        /\ q.book \notin remains =>
             /\ q.op.ids # None /\ ops[q.book] # None => "project" \notin runtime[q.op.ids]
             /\ binding[q.book] = None
    BY <1>1, <1>2, BusyFacts
       DEF SerialInv, TypeInv, TypeOK, TaskOK, CopyOK, RemovalOK, Undoing, RequestOK, Own, Busy
  <1>5. ops'[q.book] = None /\ \A c \in Books \ {q.book} : ops'[c] = ops[c]
    BY <1>2, <1>3 DEF undoRow, OwnRow
  <1>6. /\ task'[t].pc = "undoData" /\ task'[t].book = q.book /\ task'[t].op = q.op
        /\ task'[t].owned = q.owned /\ task'[t].import = q.import
        /\ \A u \in Tasks \ {t} : task'[u] = task[u]
    BY <1>2, GotoStep DEF undoRow, SerialInv, TypeInv, Pcs, Undoing
  <1>7. UNCHANGED <<stores, history, mishaps>>
    BY DEF undoRow
  <1>8. OnlyAt(t, q.book)
    BY <1>2, <1>3, <1>5, <1>6, <1>7 DEF OnlyAt, history, stores
  <1>9. BookOK(q.book)'
    <2>1. RowsOK(q.book)'
      BY <1>3, <1>5, <1>7 DEF BookOK, RowsOK, history, stores
    <2>2. DirectoryOK(q.book)'
      BY <1>3, <1>5, <1>7 DEF BookOK, DirectoryOK, history, stores
    <2>3. BoundOK(q.book)'
      BY <1>5 DEF BoundOK, Has
    <2>4. Importing(q.book)'
      BY <1>3, <1>6 DEF Importing
    <2>5. NothingUnnamed(q.book)'
      BY <1>3, <1>5, <1>7, <2>4, ProjectParts DEF BookOK, NothingUnnamed, history, stores
    <2> QED
      BY <2>1, <2>2, <2>3, <2>5 DEF BookOK
  <1>10. TaskOK(t)'
    BY <1>1, <1>2, <1>3, <1>5, <1>6, <1>7
       DEF TaskOK, RequestOK, CopyOK, FilesOK, PiecesOK, RemovalOK, Waiting, Resuming, Deleting,
           Unpacking, Registering, Undoing, Assigned, HasDirectory, Own, history, stores, Busy
  <1> QED
    BY <1>1, <1>2, <1>3, <1>6, <1>8, <1>9, <1>10, BusyStep

\* The directory last; a row that is left now has none.
LEMMA UndoDirectory ==
    ASSUME SerialInv, TypeInv', NEW t \in Tasks, undoDirectory(t)
    PROVE  SerialInv'
  <1>1. Busy(t) /\ task[t].pc = "undoDir"
    BY DEF undoDirectory, Busy, Waiting
  <1>2. PICK q : q = task[t]
    OBVIOUS
  <1>3. /\ TaskOK(t) /\ BookOK(q.book) /\ q.book \in Books
        /\ q.op \in Operation /\ reserved[q.op.id] = q.book
        /\ q.op # None /\ q.op.id \in Operations /\ q.op.ids \in Projects \cup {None}
        /\ q.op.ids # None => q.op.ids[1] = q.op.id
        /\ q.import /\ q.op.origin = "archive"
        /\ dir \in [Books -> Operations \cup {None, Legacy, Broken}]
        /\ staging \in [Operations -> {"absent", "partial", "complete"}]
        /\ ops[q.book] # None => q.book \in remains /\ ops[q.book].origin = "archive"
    BY <1>1, <1>2, BusyFacts
       DEF SerialInv, TypeInv, TypeOK, TaskOK, CopyOK, RemovalOK, Undoing, RequestOK, Own, Busy
  <1>5. /\ dir' = [dir EXCEPT ![q.book] = None] /\ Return(t)
        /\ staging' = [staging EXCEPT ![q.op.id] = "absent"]
        /\ UNCHANGED <<ops, core, runtime, binding, history, mishaps>>
    BY <1>2 DEF undoDirectory
  <1>6. task'[t] = Idle /\ \A u \in Tasks \ {t} : task'[u] = task[u]
    BY <1>5, ReturnStep DEF SerialInv, TypeInv
  <1>7. dir'[q.book] = None /\ \A c \in Books \ {q.book} : dir'[c] = dir[c]
    BY <1>3, <1>5
  <1>8. OnlyAt(t, q.book)
    BY <1>2, <1>3, <1>5, <1>6, <1>7, IdleTask DEF OnlyAt, history
  <1>9. BookOK(q.book)'
    <2>1. RowsOK(q.book)'
      BY <1>3, <1>5 DEF BookOK, RowsOK, Own, history
    <2>2. DirectoryOK(q.book)'
      BY <1>3, <1>5, <1>7, BookProvisionAssumption DEF DirectoryOK, LeftByImport, history
    <2>3. BoundOK(q.book)'
      BY <1>3, <1>5 DEF BoundOK, Has, Unmade, history
    <2>4. NothingUnnamed(q.book)'
      BY <1>3, <1>5, <1>7 DEF BookOK, NothingUnnamed, history
    <2> QED
      BY <2>1, <2>2, <2>3, <2>4 DEF BookOK
  <1>10. TaskOK(t)'
    BY <1>6, IdleTaskNext
  <1> QED
    BY <1>1, <1>2, <1>3, <1>6, <1>8, <1>9, <1>10, BusyStep, IdleTask

----------------------------------------------------------------------------
(* Requests that wait, and requests that begin. *)

\* Whoever waits is in nobody's way, unless the book is being imported.
LEMMA StillWaiting ==
    ASSUME SerialInv, TypeInv', NEW t \in Tasks, task[t].pc \in Waiting,
           \A u \in Tasks \ {t} : task'[u] = task[u],
           task'[t].pc \in Waiting, ~task'[t].import,
           task'[t].pc = "idle" => task'[t] = Idle,
           task'[t].pc \in {"check", "insert"} => task'[t].book \notin remains,
           task'[t].book \in Books => ~Importing(task'[t].book),
           UNCHANGED <<ops, stores, history>>
    PROVE  SerialInv'
  <1>1. \A u \in Tasks : task[u].pc \in Waiting => ~task[u].import
    BY DEF SerialInv, TaskOK, RequestOK
  <1>2. Alone'
    <2> SUFFICES ASSUME NEW u \in Tasks, NEW v \in Tasks, u # v,
                        task'[u].book = task'[v].book, task'[u].pc \notin Waiting
                 PROVE  task'[v].pc \in Waiting /\ ~task'[u].import
      BY DEF Alone
    <2>1. u # t /\ task'[u] = task[u] /\ task[u].book \in Books
      BY TaskFields DEF SerialInv, TypeInv, TypeOK, Formed, Waiting
    <2>2. CASE v = t
      BY <2>1, <2>2 DEF Importing
    <2>3. CASE v # t
      BY <2>1, <2>3 DEF SerialInv, Alone
    <2> QED
      BY <2>2, <2>3
  <1>3. Unused'
    BY DEF SerialInv, Unused, stores, history
  <1>4. ASSUME NEW c \in Books PROVE BookOK(c)'
    <2>1. Importing(c)' <=> Importing(c)
      BY <1>1 DEF Importing
    <2>2. SameBook(c)
      BY <2>1 DEF SameBook, stores, history
    <2> QED
      BY <2>2, SameBookOK DEF SerialInv
  <1>5. ASSUME NEW u \in Tasks PROVE TaskOK(u)'
    <2>1. CASE u = t
      BY <2>1, WaitingTaskNext DEF history
    <2>2. CASE u # t
      <3>1. task'[u] = task[u]
        BY <2>2
      <3>2. TaskOK(u)
        BY DEF SerialInv
      <3>3. UNCHANGED <<ops, dir, staging, runtime, binding, reserved, remains, undone>>
        BY DEF stores, history
      <3>4. RequestOK(u)'
        BY <3>1, <3>2, <3>3 DEF TaskOK, RequestOK, Own
      <3>5. CopyOK(u)'
        BY <3>1, <3>2, <3>3 DEF TaskOK, CopyOK
      <3>6. FilesOK(u)'
        BY <3>1, <3>2, <3>3 DEF TaskOK, FilesOK, Held
      <3>7. PiecesOK(u)'
        BY <3>1, <3>2, <3>3 DEF TaskOK, PiecesOK
      <3>8. RemovalOK(u)'
        BY <3>1, <3>2, <3>3 DEF TaskOK, RemovalOK, Unmade
      <3> QED
        BY <3>4, <3>5, <3>6, <3>7, <3>8 DEF TaskOK
    <2> QED
      BY <2>1, <2>2
  <1> QED
    BY <1>2, <1>3, <1>4, <1>5 DEF SerialInv

\* The book of a request that waits is not one that is being imported.
LEMMA WaitedFor ==
    ASSUME SerialInv, NEW t \in Tasks, task[t].pc \in Waiting, NEW b, b = task[t].book, b \in Books
    PROVE  ~Importing(b)
  BY DEF SerialInv, Alone, TaskOK, RequestOK, Importing

\* A request that takes up row r of book b.
LEMMA TakesUp ==
    ASSUME SerialInv, TypeInv', NEW t \in Tasks, task[t].pc \in Waiting,
           NEW b \in Books, NEW r \in Operation,
           task' = [task EXCEPT ![t] = Working(b, r)],
           ops'[b] = r, reserved'[r.id] = b,
           r.ids # None => r.ids[1] = r.id,
           r.state \in {"runtime-bound", "ready"} => r.ids # None,
           ~OverlappingWork, Free(b), BookOK(b)',
           \A c \in Books \ {b} : ops'[c] = ops[c],
           \A o \in Operations : \/ reserved'[o] = reserved[o]
                                 \/ reserved[o] = None /\ reserved'[o] = b,
           UNCHANGED <<stores, remains, undone>>
    PROVE  SerialInv'
  <1>1. /\ \A u \in Tasks \ {t} : task'[u] = task[u]
        /\ task'[t] = Working(b, r)
    BY ResumeStep DEF SerialInv, TypeInv
  <1>2. \/ task'[t] = Idle
        \/ /\ task'[t].pc \in {"stage", "promote", "bind", "finish"}
           /\ task'[t].book = b /\ task'[t].op = r /\ ~task'[t].import
           /\ r.state # "ready"
           /\ task'[t].pc = "bind" => r.state = "filesystem-promoted"
           /\ task'[t].pc = "finish" => r.state = "runtime-bound"
    <2>1. PICK w : w = Working(b, r)
      OBVIOUS
    <2>2. \/ w = Idle
          \/ /\ w.pc \in {"stage", "promote", "bind", "finish"}
             /\ w.book = b /\ w.op = r /\ ~w.import /\ r.state # "ready"
             /\ w.pc = "bind" => r.state = "filesystem-promoted"
             /\ w.pc = "finish" => r.state = "runtime-bound"
      BY <2>1, WorkingTask
    <2> QED
      BY <1>1, <2>1, <2>2
  <1>3. ~task[t].import /\ ~task'[t].import /\ task'[t].book \in {b, None}
    BY <1>2, IdleTask DEF SerialInv, TaskOK, RequestOK
  <1>4. TaskOK(t)'
    <2>1. CASE task'[t] = Idle
      BY <2>1, IdleTaskNext
    <2>2. CASE task'[t] # Idle
      <3>1. RequestOK(t)'
        BY <1>2, <2>2 DEF RequestOK, Own, Waiting, Unpacking, Registering, Undoing
      <3>2. CopyOK(t)'
        BY <1>2, <2>2 DEF CopyOK, Resuming, Assigned, Deleting, Unpacking, Registering, Undoing
      <3>3. FilesOK(t)' /\ PiecesOK(t)' /\ RemovalOK(t)'
        BY <1>2, <2>2 DEF FilesOK, PiecesOK, RemovalOK, HasDirectory, Deleting, Unpacking
      <3> QED
        BY <3>1, <3>2, <3>3 DEF TaskOK
    <2> QED
      BY <2>1, <2>2
  <1>5. OnlyAt(t, b)
    BY <1>1, <1>3 DEF OnlyAt, stores
  <1>6. \A u \in Tasks \ {t} : task[u].book = b => task[u].pc \in Waiting
    BY DEF Free
  <1> QED
    BY <1>3, <1>4, <1>5, <1>6, StepAt

\* Taking up a row there is.
LEMMA ResumeRow ==
    ASSUME SerialInv, TypeInv', NEW t \in Tasks, task[t].pc \in Waiting, ~OverlappingWork,
           NEW b \in Books, ops[b] # None, resume(t, b), UNCHANGED <<ops, stores, history>>
    PROVE  SerialInv'
  <1>1. PICK r : r = ops[b]
    OBVIOUS
  <1>2. r \in Operation /\ task' = [task EXCEPT ![t] = Working(b, r)] /\ Free(b)
    BY <1>1 DEF resume, SerialInv, TypeInv, TypeOK
  <1>3. BookOK(b) /\ Own(b, r)
    BY <1>1 DEF SerialInv, BookOK, RowsOK
  <1>4. BookOK(b)'
    <2>1. ~task[t].import /\ ~task'[t].import /\ \A u \in Tasks \ {t} : task'[u] = task[u]
      BY <1>2, ResumeStep, WorkingTask, IdleTask DEF SerialInv, TaskOK, RequestOK, TypeInv
    <2>2. Importing(b)' <=> Importing(b)
      BY <2>1 DEF Importing
    <2>3. SameBook(b)
      BY <2>2 DEF SameBook, stores, history
    <2> QED
      BY <1>3, <2>3, SameBookOK DEF SerialInv
  <1> QED
    BY <1>1, <1>2, <1>3, <1>4, TakesUp DEF Own, history

\* Making a row: nothing is known of its id and nothing of the book.
LEMMA InsertNew ==
    ASSUME SerialInv, TypeInv', NEW t \in Tasks, task[t].pc \in Waiting, ~OverlappingWork,
           NEW b \in Books, NEW r \in Operation, Free(b), Insert(t, b, r),
           ops[b] = None, binding[b] = None, r.ids = None,
           \/ r.origin = "create" /\ r.state = "reserved" /\ b \notin remains
           \/ r.origin = "claim" /\ r.state = "filesystem-promoted" /\ dir[b] \notin {None, Broken},
           UNCHANGED <<stores, remains, undone>>
    PROVE  SerialInv'
  <1>1. /\ reserved[r.id] = None
        /\ reserved' = [reserved EXCEPT ![r.id] = b]
        /\ ops' = [ops EXCEPT ![b] = r]
        /\ task' = [task EXCEPT ![t] = Working(b, r)]
    BY DEF Insert
  <1>2. /\ ops'[b] = r /\ \A c \in Books \ {b} : ops'[c] = ops[c]
        /\ reserved'[r.id] = b /\ r.id \in Operations
        /\ \A o \in Operations \ {r.id} : reserved'[o] = reserved[o]
        /\ r # None
    BY <1>1, RowFields DEF SerialInv, TypeInv, TypeOK
  <1>3. BookOK(b)'
    <2>1. RowsOK(b)'
      BY <1>2 DEF RowsOK, Own, stores
    <2>2. DirectoryOK(b)'
      <3>1. b \in remains => dir[b] # Legacy
        BY DEF SerialInv, BookOK, DirectoryOK
      <3> QED
        BY <1>2, <3>1 DEF DirectoryOK, PastPromotion, Held, LeftByImport, stores
    <2>3. BoundOK(b)'
      BY <1>2 DEF BoundOK, Has
    <2>4. NothingUnnamed(b)'
      <3>1. ASSUME NEW p \in Projects, reserved'[p[1]] = b, b \notin remains
            PROVE  "project" \notin runtime[p]
        <4>1. p[1] \in Operations /\ b # None
          BY ProjectParts, BookProvisionAssumption
        <4>2. CASE p[1] = r.id
          BY <1>1, <4>2 DEF SerialInv, Unused
        <4>3. CASE p[1] # r.id
          BY <1>2, <3>1, <4>1, <4>3 DEF SerialInv, BookOK, NothingUnnamed
        <4> QED
          BY <4>2, <4>3
      <3> QED
        BY <1>2, <3>1 DEF NothingUnnamed, stores
    <2> QED
      BY <2>1, <2>2, <2>3, <2>4 DEF BookOK
  <1>4. \A o \in Operations : \/ reserved'[o] = reserved[o]
                              \/ reserved[o] = None /\ reserved'[o] = b
    BY <1>1, <1>2
  <1> QED
    BY <1>1, <1>2, <1>3, <1>4, TakesUp

\* A key that is known leads to its row, another begins to wait.
LEMMA Create ==
    ASSUME SerialInv, TypeInv', ~OverlappingWork,
           NEW t \in Tasks, NEW b \in Books, NEW k \in Keys, create(t, b, k)
    PROVE  SerialInv'
  <1>1. task[t].pc \in Waiting /\ UNCHANGED <<ops, stores, history>>
    BY DEF create, Waiting
  <1>2. CASE \E c \in Books : HasKey(c, k) /\ resume(t, c)
    BY <1>1, <1>2, ResumeRow DEF HasKey
  <1>3. CASE /\ Known(b)
             /\ task' = [task EXCEPT ![t] = [Idle EXCEPT !.pc = "check", !.book = b, !.key = k]]
    <2>1. PICK q : q = [Idle EXCEPT !.pc = "check", !.book = b, !.key = k]
      OBVIOUS
    <2>2. q.pc = "check" /\ q.book = b /\ ~q.import
      BY <2>1 DEF Idle
    <2>3. task'[t] = q /\ \A u \in Tasks \ {t} : task'[u] = task[u]
      <3>1. task' = [task EXCEPT ![t] = q]
        BY <1>3, <2>1
      <3> QED
        BY <3>1 DEF SerialInv, TypeInv, TypeOK
    <2> QED
      BY <1>1, <1>3, <2>2, <2>3, StillWaiting DEF Known, Waiting
  <1> QED
    BY <1>2, <1>3 DEF create

\* Looking for a directory changes nothing.
LEMMA CheckDirectory ==
    ASSUME SerialInv, TypeInv', NEW t \in Tasks, checkDirectory(t)
    PROVE  SerialInv'
  <1>1. task[t].pc = "check" /\ task[t].pc \in Waiting /\ UNCHANGED <<ops, stores, history>>
    BY DEF checkDirectory, Waiting
  <1>2. task[t].book \in Books => ~Importing(task[t].book)
    BY <1>1, WaitedFor
  <1>3. task[t].book \notin remains /\ ~task[t].import
    BY <1>1 DEF SerialInv, TaskOK, RequestOK
  <1>4. CASE Goto(t, "insert")
    <2>1. /\ task'[t].pc = "insert" /\ task'[t].book = task[t].book
          /\ task'[t].import = task[t].import
          /\ \A u \in Tasks \ {t} : task'[u] = task[u]
      BY <1>4, GotoStep DEF SerialInv, TypeInv, Pcs, Waiting
    <2> QED
      BY <1>1, <1>2, <1>3, <2>1, StillWaiting DEF Waiting
  <1>5. CASE Return(t)
    <2>1. task'[t] = Idle /\ \A u \in Tasks \ {t} : task'[u] = task[u]
      BY <1>5, ReturnStep DEF SerialInv, TypeInv
    <2> QED
      BY <1>1, <2>1, IdleTask, StillWaiting, BookProvisionAssumption DEF Waiting
  <1> QED
    BY <1>4, <1>5 DEF checkDirectory

\* The row of a new book, or the discovery that somebody was faster.
LEMMA InsertOperation ==
    ASSUME SerialInv, TypeInv', ~OverlappingWork, NEW t \in Tasks, insertOperation(t)
    PROVE  SerialInv'
  <1>1. task[t].pc = "insert" /\ task[t].pc \in Waiting
    BY DEF insertOperation, Waiting
  <1>2. PICK b : b = task[t].book
    OBVIOUS
  <1>3. b \in Books /\ task[t].key \in Keys
    BY <1>1, <1>2, TaskFields DEF SerialInv, TypeInv, TypeOK, Formed
  <1>4. ~Importing(b) /\ b \notin remains /\ ~task[t].import
    BY <1>1, <1>2, <1>3, WaitedFor DEF SerialInv, TaskOK, RequestOK
  <1>5. CASE Goto(t, "raced") /\ UNCHANGED <<ops, reserved>>
    <2>1. /\ task'[t].pc = "raced" /\ task'[t].book = task[t].book
          /\ task'[t].import = task[t].import
          /\ \A u \in Tasks \ {t} : task'[u] = task[u]
      BY <1>5, GotoStep DEF SerialInv, TypeInv, Pcs, Waiting
    <2>2. UNCHANGED <<ops, stores, history>>
      BY <1>5 DEF insertOperation, history
    <2> QED
      BY <1>1, <1>2, <1>4, <2>1, <2>2, StillWaiting DEF Waiting
  <1>6. CASE /\ ops[b] = None /\ Free(b)
             /\ \E o \in Operations : Insert(t, b, Row(o, task[t].key, "create", "reserved"))
    <2>1. PICK o \in Operations : Insert(t, b, Row(o, task[t].key, "create", "reserved"))
      BY <1>6
    <2>2. PICK r : r = Row(o, task[t].key, "create", "reserved")
      OBVIOUS
    <2>3. r \in Operation /\ r.origin = "create" /\ r.state = "reserved" /\ r.ids = None
      BY <1>3, <2>2, NewRow DEF ProvisionState
    <2>4. binding[b] = None
      BY <1>3, <1>4, <1>6 DEF SerialInv, BookOK, NothingUnnamed
    <2>5. UNCHANGED <<stores, remains, undone>>
      BY DEF insertOperation
    <2> QED
      BY <1>1, <1>3, <1>4, <1>6, <2>1, <2>2, <2>3, <2>4, <2>5, InsertNew
  <1> QED
    BY <1>2, <1>5, <1>6 DEF insertOperation

\* Whoever was slower goes on with the row there is.
LEMMA FindRaced ==
    ASSUME SerialInv, TypeInv', ~OverlappingWork, NEW t \in Tasks, findRaced(t)
    PROVE  SerialInv'
  <1>1. task[t].pc \in Waiting /\ UNCHANGED <<ops, stores, history>>
    BY DEF findRaced, Waiting
  <1>2. CASE \E c \in Books : HasKey(c, task[t].key) /\ resume(t, c)
    BY <1>1, <1>2, ResumeRow DEF HasKey
  <1>3. CASE Return(t)
    <2>1. task'[t] = Idle /\ \A u \in Tasks \ {t} : task'[u] = task[u]
      BY <1>3, ReturnStep DEF SerialInv, TypeInv
    <2> QED
      BY <1>1, <2>1, IdleTask, StillWaiting, BookProvisionAssumption DEF Waiting
  <1> QED
    BY <1>2, <1>3 DEF findRaced

\* Repeating an attempt.
LEMMA Retry ==
    ASSUME SerialInv, TypeInv', ~OverlappingWork, NEW t \in Tasks, NEW b \in Books, retry(t, b)
    PROVE  SerialInv'
  BY ResumeRow DEF retry, Waiting

\* An administrator takes up a directory as it is.
LEMMA Claim ==
    ASSUME SerialInv, TypeInv', ~OverlappingWork, NEW t \in Tasks, NEW b \in Books, claim(t, b)
    PROVE  SerialInv'
  <1>1. /\ task[t].pc \in Waiting /\ ops[b] = None /\ binding[b] = None /\ Free(b)
        /\ dir[b] \notin {None, Broken} /\ UNCHANGED <<stores, remains, undone>>
    BY DEF claim, Waiting
  <1>2. PICK o \in Operations : Insert(t, b, Row(o, None, "claim", "filesystem-promoted"))
    BY DEF claim
  <1>3. PICK r : r = Row(o, None, "claim", "filesystem-promoted")
    OBVIOUS
  <1>4. /\ r \in Operation /\ r.origin = "claim" /\ r.state = "filesystem-promoted"
        /\ r.ids = None
    BY <1>3, NewRow DEF ProvisionState
  <1> QED
    BY <1>1, <1>2, <1>3, <1>4, InsertNew

\* A deletion begins with the row, and with what the directory is.
LEMMA DeleteBook ==
    ASSUME SerialInv, TypeInv', ~OverlappingWork, NEW t \in Tasks, NEW b \in Books,
           deleteBook(t, b)
    PROVE  SerialInv'
  <1>1. PICK r : r = ops[b]
    OBVIOUS
  <1>2. /\ r # None /\ r \in Operation /\ r.state = "ready" /\ r.ids # None
        /\ Free(b) /\ task[t].pc = "idle" /\ UNCHANGED <<ops, stores, history, mishaps>>
    BY <1>1 DEF deleteBook, MayDelete, Has, SerialInv, TypeInv, TypeOK
  <1>3. PICK q : q = [Idle EXCEPT !.pc = "deleteProject", !.book = b, !.op = r,
                                  !.owned = dir[b] # None]
    OBVIOUS
  <1>4. /\ q.pc = "deleteProject" /\ q.book = b /\ q.op = r /\ ~q.import
        /\ q.owned = (dir[b] # None)
    BY <1>3 DEF Idle
  <1>5. task'[t] = q /\ \A u \in Tasks \ {t} : task'[u] = task[u]
    <2>1. task' = [task EXCEPT ![t] = q]
      BY <1>1, <1>3 DEF deleteBook
    <2> QED
      BY <2>1 DEF SerialInv, TypeInv, TypeOK
  <1>6. ~task[t].import /\ BookOK(b) /\ Own(b, r)
    BY <1>1, <1>2 DEF SerialInv, TaskOK, RequestOK, Waiting, BookOK, RowsOK
  <1>7. OnlyAt(t, b)
    BY <1>2, <1>4, <1>5, <1>6 DEF OnlyAt, stores, history
  <1>8. BookOK(b)'
    <2>1. Importing(b)' <=> Importing(b)
      BY <1>4, <1>5, <1>6 DEF Importing
    <2>2. SameBook(b)
      BY <1>2, <2>1 DEF SameBook, stores, history
    <2> QED
      BY <1>6, <2>2, SameBookOK DEF SerialInv
  <1>9. TaskOK(t)'
    <2>1. dir'[b] = dir[b] /\ ops'[b] = r /\ reserved'[r.id] = b
      BY <1>1, <1>2, <1>6 DEF Own, stores, history
    <2>2. RequestOK(t)' /\ CopyOK(t)'
      BY <1>2, <1>4, <1>5, <1>6, <2>1
         DEF RequestOK, CopyOK, Own, Waiting, Resuming, Deleting, Unpacking, Registering, Undoing,
             Assigned
    <2>3. FilesOK(t)'
      BY <1>4, <1>5, <2>1 DEF FilesOK, HasDirectory, Unpacking, Deleting
    <2>4. PiecesOK(t)' /\ RemovalOK(t)'
      BY <1>4, <1>5 DEF PiecesOK, RemovalOK, Deleting
    <2> QED
      BY <2>2, <2>3, <2>4 DEF TaskOK
  <1> QED
    BY <1>2, <1>4, <1>5, <1>7, <1>8, <1>9, StepAt DEF Free

\* An import begins with a name that nobody uses and an id that nobody has.
LEMMA ImportBookArchive ==
    ASSUME SerialInv, TypeInv', NEW t \in Tasks, NEW b \in Books, NEW k \in Keys,
           importBookArchive(t, b, k)
    PROVE  SerialInv'
  <1>1. PICK o \in Operations :
           /\ reserved[o] = None
           /\ reserved' = [reserved EXCEPT ![o] = b]
           /\ task' = [task EXCEPT ![t] =
                 [Idle EXCEPT !.pc = "unpack", !.book = b, !.key = k, !.import = TRUE,
                              !.op = Row(o, k, "archive", "filesystem-promoted")]]
    BY DEF importBookArchive
  <1>2. PICK r : r = Row(o, k, "archive", "filesystem-promoted")
    OBVIOUS
  <1>3. /\ r \in Operation /\ r.id = o /\ r.ids = None /\ r.origin = "archive"
        /\ r.state = "filesystem-promoted"
    BY <1>2, NewRow DEF ProvisionState
  <1>4. PICK q : q = [Idle EXCEPT !.pc = "unpack", !.book = b, !.key = k, !.import = TRUE, !.op = r]
    OBVIOUS
  <1>5. q.pc = "unpack" /\ q.book = b /\ q.op = r /\ q.import
    BY <1>4 DEF Idle
  <1>6. task'[t] = q /\ \A u \in Tasks \ {t} : task'[u] = task[u]
    <2>1. task' = [task EXCEPT ![t] = q]
      BY <1>1, <1>2, <1>4
    <2> QED
      BY <2>1 DEF SerialInv, TypeInv, TypeOK
  <1>7. /\ reserved'[o] = b /\ reserved[o] = None
        /\ \A x \in Operations \ {o} : reserved'[x] = reserved[x]
    BY <1>1 DEF SerialInv, TypeInv, TypeOK
  <1>8. /\ ops[b] = None /\ dir[b] = None /\ binding[b] = None /\ b \notin remains
        /\ \A u \in Tasks : task[u].book # b
        /\ task[t].pc = "idle" /\ UNCHANGED <<ops, stores, remains, undone, mishaps>>
    BY DEF importBookArchive, Fresh
  <1>9. ~task[t].import /\ b # None
    BY <1>8, BookProvisionAssumption DEF SerialInv, TaskOK, RequestOK, Waiting
  <1>10. OnlyAt(t, b)
    BY <1>5, <1>6, <1>7, <1>8, <1>9 DEF OnlyAt, stores
  <1>11. BookOK(b)'
    <2>1. RowsOK(b)' /\ BoundOK(b)'
      BY <1>8 DEF RowsOK, BoundOK, Has, stores
    <2>2. DirectoryOK(b)'
      BY <1>8 DEF DirectoryOK, stores
    <2>3. ASSUME NEW p \in Projects, reserved'[p[1]] = b
          PROVE  "project" \notin runtime[p]
      <3>1. p[1] \in Operations
        BY ProjectParts
      <3>2. CASE p[1] = o
        BY <1>7, <3>2 DEF SerialInv, Unused
      <3>3. CASE p[1] # o
        BY <1>7, <1>8, <2>3, <3>1, <3>3 DEF SerialInv, BookOK, NothingUnnamed
      <3> QED
        BY <3>2, <3>3
    <2>4. NothingUnnamed(b)'
      BY <1>8, <2>3 DEF NothingUnnamed, stores
    <2> QED
      BY <2>1, <2>2, <2>4 DEF BookOK
  <1>12. TaskOK(t)'
    <2>1. dir'[b] = None /\ ops'[b] = None /\ None # Legacy
      BY <1>8, BookProvisionAssumption DEF stores
    <2> QED
      BY <1>3, <1>5, <1>6, <1>7, <2>1
         DEF TaskOK, RequestOK, CopyOK, FilesOK, PiecesOK, RemovalOK, Waiting, Resuming, Deleting,
           Unpacking, Registering, Undoing, Assigned, HasDirectory, Own
  <1> QED
    BY <1>8, <1>10, <1>11, <1>12, StepAt

----------------------------------------------------------------------------
(* What goes wrong. *)

\* A request is cut off, or reports that it failed: its book stays as it is.
LEMMA GivesUp ==
    ASSUME SerialInv, TypeInv', NEW t \in Tasks, Busy(t), Return(t),
           NEW b \in Books, b = task[t].book,
           task[t].import => ops[b] = None /\ dir[b] = None,
           UNCHANGED <<dir, runtime, binding, history>>,
           ops' = ops,
           \A o \in Operations \ {task[t].op.id} : staging'[o] = staging[o]
    PROVE  SerialInv'
  <1>1. task'[t] = Idle /\ \A u \in Tasks \ {t} : task'[u] = task[u]
    BY ReturnStep DEF SerialInv, TypeInv
  <1>2. OnlyAt(t, b)
    BY <1>1, BusyFacts, IdleTask DEF OnlyAt, history
  <1>3. BookOK(b)'
    <2>1. RowsOK(b)'
      BY DEF SerialInv, BookOK, RowsOK, Own, history
    <2>2. DirectoryOK(b)'
      BY DEF SerialInv, BookOK, DirectoryOK, DeletionBegun, Has, LeftByImport, PastPromotion, Held,
             history
    <2>3. BoundOK(b)'
      BY DEF SerialInv, BookOK, BoundOK, Has, Complete, Unmade, history
    <2>4. NothingUnnamed(b)'
      <3>1. NothingUnnamed(b) /\ (Importing(b) <=> task[t].import)
        BY BusyFacts DEF BookOK
      <3> QED
        BY <3>1 DEF NothingUnnamed, history
    <2> QED
      BY <2>1, <2>2, <2>3, <2>4 DEF BookOK
  <1>4. TaskOK(t)'
    BY <1>1, IdleTaskNext
  <1> QED
    BY <1>1, <1>2, <1>3, <1>4, IdleTask, BusyStep

\* A failed attempt is recorded, a failed import undone, the rest reported.
LEMMA StepFails ==
    ASSUME SerialInv, TypeInv', NEW t \in Tasks, stepFails(t)
    PROVE  SerialInv'
  <1> USE DEF Resuming, Deleting, Unpacking, Registering, Undoing
  <1>1. Busy(t) /\ UNCHANGED <<ops, dir, runtime, binding, history>>
    BY DEF stepFails, Busy, Waiting
  <1>2. PICK q : q = task[t]
    OBVIOUS
  <1>3. /\ TaskOK(t) /\ q.book \in Books /\ q.op # None /\ q.op.id \in Operations
        /\ staging \in [Operations -> {"absent", "partial", "complete"}]
    BY <1>1, <1>2, BusyFacts DEF SerialInv, TypeInv, TypeOK
  <1>4. \A o \in Operations \ {q.op.id} : staging'[o] = staging[o]
    BY <1>2, <1>3 DEF stepFails
  <1>5. CASE Return(t) /\ q.pc \in Deleting \cup Unpacking
    <2>1. q.import => ops[q.book] = None /\ dir[q.book] = None
      BY <1>2, <1>3, <1>5 DEF TaskOK, CopyOK, FilesOK
    <2> QED
      BY <1>1, <1>2, <1>3, <1>4, <1>5, <2>1, GivesUp
  <1>6. CASE Return(t) /\ ~q.import
    BY <1>1, <1>2, <1>3, <1>4, <1>6, GivesUp
  <1>7. CASE Goto(t, "catch") /\ q.pc \in Resuming
    BY <1>1, <1>2, <1>4, <1>7, CatchStep DEF MovesOn
  <1>8. CASE Goto(t, "undoProject") /\ q.pc = "catch" /\ q.import
    <2>1. MovesOn(t, "undoProject")
      BY <1>1, <1>2, <1>4, <1>8 DEF MovesOn
    <2>2. /\ task'[t].pc = "undoProject" /\ task'[t].book = q.book /\ task'[t].op = q.op
          /\ task'[t].owned = q.owned /\ task'[t].import = q.import
          /\ TaskOK(t)' => SerialInv'
      BY <1>1, <1>2, <2>1, MoveStep DEF Pcs
    <2>3. TaskOK(t)'
      BY <1>1, <1>2, <1>3, <1>8, <2>2
         DEF TaskOK, RequestOK, CopyOK, FilesOK, PiecesOK, RemovalOK, Waiting, Assigned,
             HasDirectory, Own, history, Busy
    <2> QED
      BY <2>2, <2>3
  <1>9. CASE Goto(t, "undoData") /\ q.pc \in Registering
    <2>1. MovesOn(t, "undoData")
      BY <1>1, <1>2, <1>4, <1>9 DEF MovesOn
    <2>2. /\ task'[t].pc = "undoData" /\ task'[t].book = q.book /\ task'[t].op = q.op
          /\ task'[t].owned = q.owned /\ task'[t].import = q.import
          /\ TaskOK(t)' => SerialInv'
      BY <1>1, <1>2, <2>1, MoveStep DEF Pcs
    <2>3. TaskOK(t)'
      BY <1>1, <1>2, <1>3, <1>9, <2>2
         DEF TaskOK, RequestOK, CopyOK, FilesOK, PiecesOK, RemovalOK, Waiting, Assigned,
             HasDirectory, Own, history, Busy
    <2> QED
      BY <2>2, <2>3
  <1> QED
    BY <1>2, <1>5, <1>6, <1>7, <1>8, <1>9 DEF stepFails, AfterFailure, GiveUp

\* The undoing passes over a step: something remains.
LEMMA UndoFails ==
    ASSUME SerialInv, TypeInv', NEW t \in Tasks, undoFails(t)
    PROVE  SerialInv'
  <1>1. Busy(t) /\ task[t].pc \in Undoing /\ UNCHANGED <<ops, stores, reserved, undone>>
    BY DEF undoFails, Busy, Waiting, Undoing
  <1>2. PICK q : q = task[t]
    OBVIOUS
  <1>3. PICK b : b = q.book
    OBVIOUS
  <1>4. /\ TaskOK(t) /\ BookOK(b) /\ b \in Books /\ q.import /\ q.op.origin = "archive"
        /\ remains' = remains \cup {b}
        /\ ops[b] # None => /\ ops[b].id = q.op.id /\ ops[b].ids = q.op.ids
                            /\ ops[b].origin = "archive" /\ ops[b].state # "ready"
        /\ dir[b] # Legacy
    BY <1>1, <1>2, <1>3, BusyFacts DEF undoFails, TaskOK, RequestOK, CopyOK, FilesOK
  <1>5. /\ \A u \in Tasks \ {t} : task'[u] = task[u]
        /\ \/ task'[t] = Idle
           \/ /\ task'[t].pc \in Undoing /\ task'[t].book = b /\ task'[t].op = q.op
              /\ task'[t].owned = q.owned /\ task'[t].import = q.import
    <2>1. CASE Return(t)
      BY <2>1, ReturnStep DEF SerialInv, TypeInv
    <2>2. ASSUME NEW pc \in Undoing, Goto(t, pc)
          PROVE  /\ \A u \in Tasks \ {t} : task'[u] = task[u]
                 /\ task'[t].pc \in Undoing /\ task'[t].book = b /\ task'[t].op = q.op
                 /\ task'[t].owned = q.owned /\ task'[t].import = q.import
      BY <1>2, <1>3, <2>2, GotoStep DEF SerialInv, TypeInv, Pcs
    <2> QED
      BY <1>1, <2>1, <2>2 DEF undoFails, UndoThen, Undoing
  <1>6. OnlyAt(t, b)
    BY <1>1, <1>2, <1>3, <1>4, <1>5, IdleTask DEF OnlyAt, stores
  <1>7. BookOK(b)'
    <2>1. RowsOK(b)'
      BY <1>1, <1>4 DEF BookOK, RowsOK, Own, stores
    <2>2. DirectoryOK(b)'
      <3>1. ops[b] # None => dir[b] \in {None, ops[b].id}
        BY <1>4 DEF BookOK, DirectoryOK, LeftByImport, DeletionBegun, Has, PastPromotion, Held
      <3> QED
        BY <1>1, <1>4, <3>1 DEF DirectoryOK, LeftByImport, stores
    <2>3. BoundOK(b)'
      BY <1>1, <1>4 DEF BoundOK, Has, Unmade
    <2>4. NothingUnnamed(b)'
      BY <1>4 DEF NothingUnnamed
    <2> QED
      BY <2>1, <2>2, <2>3, <2>4 DEF BookOK
  <1>8. TaskOK(t)'
    <2>1. CASE task'[t] = Idle
      BY <2>1, IdleTaskNext
    <2>2. CASE task'[t] # Idle
      <3>1. /\ task'[t].pc \in Undoing /\ task'[t].book = b /\ task'[t].op = q.op
            /\ task'[t].import = q.import
        BY <1>5, <2>2
      <3>2. RequestOK(t)'
        BY <1>1, <1>2, <1>3, <1>4, <3>1
           DEF TaskOK, RequestOK, Own, Waiting, Undoing, Unpacking, Registering, Busy
      <3>3. CopyOK(t)'
        BY <1>1, <1>4, <3>1
           DEF CopyOK, Resuming, Assigned, Deleting, Unpacking, Registering, Undoing
      <3>4. FilesOK(t)'
        BY <1>1, <1>4, <3>1 DEF FilesOK, HasDirectory, Unpacking, Deleting, Undoing, stores
      <3>5. PiecesOK(t)' /\ RemovalOK(t)'
        BY <1>1, <1>4, <3>1 DEF PiecesOK, RemovalOK, Deleting, Undoing, Unmade
      <3> QED
        BY <3>2, <3>3, <3>4, <3>5 DEF TaskOK
    <2> QED
      BY <2>1, <2>2
  <1> QED
    BY <1>1, <1>2, <1>3, <1>4, <1>5, <1>6, <1>7, <1>8, IdleTask, BusyStep

\* All requests are gone; of an import without a row something remains.
LEMMA Crash ==
    ASSUME SerialInv, TypeInv', crash
    PROVE  SerialInv'
  <1>1. /\ \A t \in Tasks : task'[t] = Idle
        /\ remains' = remains \cup {b \in Books : Importing(b) /\ ops[b] = None}
        /\ UNCHANGED <<ops, stores, reserved, undone>>
    BY DEF crash
  <1>2. Alone' /\ Unused'
    BY <1>1, IdleTask DEF Alone, Unused, SerialInv, stores, Waiting
  <1>3. \A t \in Tasks : TaskOK(t)'
    BY <1>1, IdleTaskNext
  <1>4. ASSUME NEW b \in Books PROVE BookOK(b)'
    <2>1. BookOK(b) /\ ~Importing(b)'
      BY <1>1, IdleTask DEF SerialInv, Importing
    <2>2. Importing(b) => dir[b] # Legacy
      BY DEF SerialInv, TaskOK, FilesOK, Importing
    <2>3. b \in remains' <=> b \in remains \/ (Importing(b) /\ ops[b] = None)
      BY <1>1
    <2>4. RowsOK(b)'
      BY <1>1, <2>1 DEF BookOK, RowsOK, Own, stores
    <2>5. DirectoryOK(b)'
      BY <1>1, <2>1, <2>2, <2>3
         DEF BookOK, DirectoryOK, DeletionBegun, Has, LeftByImport, PastPromotion, Held, stores
    <2>6. BoundOK(b)'
      BY <1>1, <2>1, <2>3 DEF BookOK, BoundOK, Has, Complete, Unmade, stores
    <2>7. NothingUnnamed(b)'
      BY <1>1, <2>1, <2>3 DEF BookOK, NothingUnnamed, stores
    <2> QED
      BY <2>4, <2>5, <2>6, <2>7 DEF BookOK
  <1> QED
    BY <1>2, <1>3, <1>4 DEF SerialInv

\* An old book where no directory is: nobody who has got a directory is there.
LEMMA OldBookAppears ==
    ASSUME SerialInv, TypeInv', NEW b \in Books, oldBookAppears(b)
    PROVE  SerialInv'
  <1>1. /\ dir[b] = None /\ ~Importing(b) /\ b \notin remains
        /\ UNCHANGED <<ops, core, staging, runtime, binding, task, history>>
    BY DEF oldBookAppears, Known
  <1>2. dir'[b] = Legacy /\ \A c \in Books \ {b} : dir'[c] = dir[c]
    BY DEF oldBookAppears, SerialInv, TypeInv, TypeOK
  <1>3. None # Legacy /\ None \notin Operations
    BY BookProvisionAssumption
  <1>4. ops[b] # None => ops[b].id \in Operations
    BY RowFields DEF SerialInv, TypeInv, TypeOK
  <1>5. ops[b] # None => ~Held(b)
    BY <1>1, <1>3, <1>4 DEF Held
  <1>6. Alone' /\ Unused'
    BY <1>1 DEF SerialInv, Alone, Unused, history
  <1>7. ASSUME NEW c \in Books PROVE BookOK(c)'
    <2>1. CASE c # b
      <3>1. SameBook(c)
        BY <1>1, <1>2, <2>1 DEF SameBook, Importing, history
      <3> QED
        BY <3>1, SameBookOK DEF SerialInv
    <2>2. CASE c = b
      <3>1. BookOK(b)
        BY DEF SerialInv
      <3>2. RowsOK(b)'
        BY <1>1, <3>1 DEF BookOK, RowsOK, Own, history
      <3>3. DirectoryOK(b)'
        BY <1>1, <1>5, <3>1
           DEF BookOK, DirectoryOK, DeletionBegun, Has, LeftByImport, PastPromotion, history
      <3>4. BoundOK(b)'
        BY <1>1, <1>3, <1>4, <3>1 DEF BookOK, BoundOK, Has, Complete, Unmade, history
      <3>5. NothingUnnamed(b)'
        BY <1>1, <1>2, <3>1 DEF BookOK, NothingUnnamed, Importing, history
      <3> QED
        BY <2>2, <3>2, <3>3, <3>4, <3>5 DEF BookOK
    <2> QED
      BY <2>1, <2>2
  <1>8. ASSUME NEW u \in Tasks PROVE TaskOK(u)'
    <2>1. TaskOK(u)
      BY DEF SerialInv
    <2>2. UNCHANGED <<ops, staging, runtime, binding, task, reserved, remains, undone>>
      BY <1>1 DEF history
    <2>3. RequestOK(u)' /\ CopyOK(u)' /\ PiecesOK(u)' /\ RemovalOK(u)'
      BY <2>1, <2>2 DEF TaskOK, RequestOK, CopyOK, PiecesOK, RemovalOK, Own, Unmade
    <2>4. FilesOK(u)'
      <3>1. task[u].pc \notin Waiting => task[u].book \in Books
        BY TaskFields DEF SerialInv, TypeInv, TypeOK, Formed, Waiting
      <3>2. CASE task[u].pc \in Waiting
        BY <2>2, <3>2, <2>1
           DEF TaskOK, RequestOK, FilesOK, HasDirectory, Unpacking, Deleting, Waiting
      <3>3. CASE task[u].pc \notin Waiting /\ task[u].book # b
        BY <1>2, <2>1, <2>2, <3>1, <3>3 DEF TaskOK, FilesOK, Held
      <3>4. CASE task[u].pc \notin Waiting /\ task[u].book = b
        <4>1. ~task[u].import
          BY <1>1, <3>4 DEF Importing
        <4>2. task[u].pc \in HasDirectory => ops[b] # None
          <5>1. task[u].op # None
            BY <3>4 DEF SerialInv, TypeInv, Formed
          <5> QED
            BY <2>1, <3>4, <5>1 DEF TaskOK, CopyOK, HasDirectory, Resuming
        <4>3. task[u].pc \notin HasDirectory
          BY <1>5, <2>1, <3>4, <4>2 DEF TaskOK, FilesOK
        <4>4. task[u].pc \notin Unpacking \cup Registering
          BY <2>1, <4>1 DEF TaskOK, RequestOK
        <4> QED
          BY <1>2, <2>1, <2>2, <3>4, <4>1, <4>3, <4>4
             DEF TaskOK, FilesOK, HasDirectory, Unpacking, Registering, Deleting
      <3> QED
        BY <3>2, <3>3, <3>4
    <2> QED
      BY <2>3, <2>4 DEF TaskOK
  <1> QED
    BY <1>6, <1>7, <1>8 DEF SerialInv

----------------------------------------------------------------------------
(* The invariant, for any number of books, requests and mishaps. *)

LEMMA SerialInit ==
    Init => SerialInv
  <1> SUFFICES ASSUME Init PROVE SerialInv
    OBVIOUS
  <1>1. TypeInv
    BY TypeInit
  <1>2. \A t \in Tasks : task[t] = Idle
    BY DEF Init
  <1>3. Alone /\ Unused
    BY <1>2, IdleTask DEF Init, Alone, Unused, Waiting
  <1>4. \A b \in Books : BookOK(b)
    <2> TAKE b \in Books
    <2>1. /\ ops[b] = None /\ dir[b] = None /\ binding[b] = None /\ b \notin remains
          /\ \A p \in Projects : runtime[p] = {}
      BY DEF Init
    <2> QED
      BY <2>1 DEF BookOK, RowsOK, DirectoryOK, BoundOK, Has, NothingUnnamed
  <1>5. \A t \in Tasks : TaskOK(t)
    BY <1>2, IdleTask, WaitingTaskOK DEF Waiting
  <1> QED
    BY <1>1, <1>3, <1>4, <1>5 DEF SerialInv

\* Every step of a request.
LEMMA SerialTaskStep ==
    ASSUME SerialInv, TypeInv', ~OverlappingWork, NEW t \in Tasks, TaskStep(t)
    PROVE  SerialInv'
  <1>1. CASE checkDirectory(t) \/ insertOperation(t) \/ findRaced(t)
    BY <1>1, CheckDirectory, InsertOperation, FindRaced
  <1>2. CASE \/ stageCore(t) \/ promoteFilesystem(t) \/ clearStaging(t) \/ writeBookScaffold(t)
             \/ renameStaging(t) \/ bindRuntime(t) \/ persistIds(t) \/ insertRow(t)
             \/ upsertBinding(t) \/ recordState(t) \/ handleError(t)
    BY <1>2, StageCore, PromoteFilesystem, ClearStaging, WriteBookScaffold, RenameStaging,
       BindRuntime, PersistIds, InsertRow, UpsertBinding, RecordState, HandleError
  <1>3. CASE \/ deleteProject(t) \/ purgeBookScopedStorage(t) \/ removeDirectory(t)
             \/ deleteBinding(t) \/ deleteRow(t)
    BY <1>3, DeleteProject, PurgeBookScopedStorage, RemoveDirectory, DeleteBinding, DeleteRow
  <1>4. CASE \/ unpackFiles(t) \/ loadRows(t) \/ backfillNarrativeFactSlotKeys(t)
             \/ placeDirectory(t) \/ registerImport(t)
    BY <1>4, UnpackFiles, LoadRows, Backfill, PlaceDirectory, RegisterImport
  <1>5. CASE \/ undoProject(t) \/ undoBinding(t) \/ undoRow(t) \/ purgeBookArchiveData(t)
             \/ undoDirectory(t)
    BY <1>5, UndoProject, UndoBinding, UndoRow, PurgeBookArchiveData, UndoDirectory
  <1> QED
    BY <1>1, <1>2, <1>3, <1>4, <1>5 DEF TaskStep

\* Every step.
LEMMA SerialNext ==
    ASSUME ~OverlappingWork
    PROVE  SerialInv /\ [Next]_vars => SerialInv'
  <1> SUFFICES ASSUME SerialInv, [Next]_vars PROVE SerialInv'
    OBVIOUS
  <1>t. TypeInv'
    BY TypeNext DEF SerialInv
  <1>1. ASSUME NEW t \in Tasks, NEW b \in Books, NEW k \in Keys,
               create(t, b, k) \/ importBookArchive(t, b, k)
        PROVE  SerialInv'
    BY <1>t, <1>1, Create, ImportBookArchive
  <1>2. ASSUME NEW t \in Tasks, NEW b \in Books,
               retry(t, b) \/ claim(t, b) \/ deleteBook(t, b)
        PROVE  SerialInv'
    BY <1>t, <1>2, Retry, Claim, DeleteBook
  <1>3. ASSUME NEW t \in Tasks, TaskStep(t)
        PROVE  SerialInv'
    BY <1>t, <1>3, SerialTaskStep
  <1>4. ASSUME NEW t \in Tasks, stepFails(t) \/ undoFails(t)
        PROVE  SerialInv'
    BY <1>t, <1>4, StepFails, UndoFails
  <1>5. CASE crash
    BY <1>t, <1>5, Crash
  <1>6. ASSUME NEW b \in Books, oldBookAppears(b)
        PROVE  SerialInv'
    BY <1>t, <1>6, OldBookAppears
  <1>7. CASE UNCHANGED vars
    <2>1. UNCHANGED <<ops, dir, staging, runtime, binding, task, reserved, remains, undone>>
      BY <1>7 DEF vars, history
    <2>2. Alone' /\ Unused'
      BY <2>1 DEF SerialInv, Alone, Unused
    <2>3. ASSUME NEW b \in Books PROVE BookOK(b)'
      <3>1. SameBook(b)
        BY <2>1 DEF SameBook, Importing
      <3> QED
        BY <1>t, <3>1, SameBookOK DEF SerialInv
    <2>4. ASSUME NEW t \in Tasks PROVE TaskOK(t)'
      <3>1. TaskOK(t)
        BY DEF SerialInv
      <3> QED
        BY <2>1, <3>1
           DEF TaskOK, RequestOK, CopyOK, FilesOK, PiecesOK, RemovalOK, Own, Held, Unmade
    <2> QED
      BY <1>t, <2>2, <2>3, <2>4 DEF SerialInv
  <1> QED
    BY <1>1, <1>2, <1>3, <1>4, <1>5, <1>6, <1>7 DEF Next

\* The invariant of every behaviour in which no two requests overlap.
LEMMA SerialAlways ==
    ASSUME ~OverlappingWork
    PROVE  Spec => []SerialInv
  <1>1. Init => SerialInv
    BY SerialInit
  <1>2. SerialInv /\ [Next]_vars => SerialInv'
    BY SerialNext
  <1> QED
    BY <1>1, <1>2, PTL DEF Spec

----------------------------------------------------------------------------
(* What follows. *)

\* A book's only project is the one its row names: ids are recorded before the
\* runtime's rows are made, and attempts use the ids they find (bindRuntime).
THEOREM OneProjectEach ==
    ASSUME ~OverlappingWork
    PROVE  Spec => []OneProjectPerBook
  <1>1. SerialInv => OneProjectPerBook
    <2> SUFFICES ASSUME SerialInv, NEW b \in Books \ remains
                 PROVE  Cardinality(ProjectsOf(b)) <= 1
      BY DEF OneProjectPerBook
    <2>1. NothingUnnamed(b)
      BY DEF SerialInv, BookOK
    <2>2. ProjectsOf(b) \subseteq {ops[b].ids}
      BY <2>1 DEF NothingUnnamed, ProjectsOf
    <2>3. ProjectsOf(b) = {} \/ ProjectsOf(b) = {ops[b].ids}
      BY <2>2
    <2>4. Cardinality(ProjectsOf(b)) \in {0, 1}
      BY <2>3, FS_EmptySet, FS_Singleton
    <2> QED
      BY <2>4
  <1> QED
    BY <1>1, SerialAlways, PTL

\* Nobody is given an old book's directory but who claims it, however the
\* steps of making, importing and deleting books are mixed (promoteFilesystem).
THEOREM OldBooksAreClaimed ==
    ASSUME ~OverlappingWork
    PROVE  Spec => []OldBooksOnlyByClaim
  <1>1. SerialInv => OldBooksOnlyByClaim
    <2> SUFFICES ASSUME SerialInv, NEW b \in Books,
                        binding[b] # None, ops[b] # None, dir[b] = Legacy,
                        ~DeletionBegun(b)
                 PROVE  ops[b].origin = "claim"
      BY DEF OldBooksOnlyByClaim
    <2>1. DirectoryOK(b)
      BY DEF SerialInv, BookOK
    <2>2. Held(b)
      BY <2>1 DEF DirectoryOK, LeftByImport, PastPromotion
    <2>3. ops[b].id \in Operations
      BY RowFields DEF SerialInv, TypeInv, TypeOK
    <2> QED
      BY <2>2, <2>3, BookProvisionAssumption DEF Held
  <1> QED
    BY <1>1, SerialAlways, PTL

\* The steps that write a row.
LEMMA RowSteps ==
    ASSUME [Next]_vars, ops' # ops
    PROVE  \E t \in Tasks : \/ recordState(t) \/ handleError(t) \/ persistIds(t)
                            \/ registerImport(t) \/ undoRow(t) \/ deleteRow(t)
                            \/ insertOperation(t) \/ \E c \in Books : claim(t, c)
  BY DEF Next, vars, TaskStep, create, importBookArchive, retry, deleteBook, stepFails,
         undoFails, crash, oldBookAppears, checkDirectory, findRaced, stageCore,
         promoteFilesystem, clearStaging, writeBookScaffold, renameStaging, bindRuntime,
         insertRow, upsertBinding, deleteProject, purgeBookScopedStorage, removeDirectory,
         deleteBinding, unpackFiles, loadRows, backfillNarrativeFactSlotKeys, placeDirectory,
         undoProject, undoBinding, purgeBookArchiveData, undoDirectory

\* Only the last step of an attempt calls a book ready.
LEMMA BecomesReady ==
    ASSUME SerialInv, [Next]_vars, NEW b \in Books, ~Has(b, "ready"), Has(b, "ready")'
    PROVE  \E t \in Tasks : recordState(t) /\ task[t].pc = "finish" /\ task[t].book = b
  <1>1. ops'[b] # ops[b]
    BY DEF Has
  <1>2. ASSUME NEW t \in Tasks, NEW c \in Books, claim(t, c)
        PROVE  FALSE
    <2>1. PICK o \in Operations : Insert(t, c, Row(o, None, "claim", "filesystem-promoted"))
      BY <1>2 DEF claim
    <2>2. ops'[b] = ops[b] \/ ops'[b].state = "filesystem-promoted"
      BY <2>1, NewRow DEF Insert, ProvisionState, SerialInv, TypeInv, TypeOK
    <2> QED
      BY <1>1, <2>2 DEF Has
  <1>3. ASSUME NEW t \in Tasks, insertOperation(t)
        PROVE  FALSE
    <2>1. task[t].key \in Keys
      BY <1>3 DEF insertOperation, SerialInv, TypeInv, Formed
    <2>2. PICK o \in Operations : Insert(t, task[t].book, Row(o, task[t].key, "create", "reserved"))
      BY <1>1, <1>3 DEF insertOperation
    <2>3. ops'[b] = ops[b] \/ ops'[b].state = "reserved"
      BY <2>1, <2>2, NewRow DEF Insert, ProvisionState, SerialInv, TypeInv, TypeOK
    <2> QED
      BY <1>1, <2>3 DEF Has
  <1>4. ASSUME NEW t \in Tasks, undoRow(t) \/ deleteRow(t)
        PROVE  FALSE
    BY <1>1, <1>4 DEF undoRow, deleteRow, Has, SerialInv, TypeInv, TypeOK
  <1>5. ASSUME NEW t \in Tasks, registerImport(t)
        PROVE  FALSE
    <2>1. Busy(t) /\ task[t].pc \in Registering
      BY <1>5 DEF registerImport, Registering, Busy, Waiting
    <2>2. task[t].op.state = "filesystem-promoted"
      BY <2>1, BusyFacts DEF TaskOK, CopyOK
    <2>3. ops'[b] = ops[b] \/ ops'[b] = task[t].op
      BY <1>5 DEF registerImport, SerialInv, TypeInv, TypeOK
    <2> QED
      BY <1>1, <2>2, <2>3 DEF Has
  <1>6. ASSUME NEW t \in Tasks, persistIds(t)
        PROVE  FALSE
    <2>1. Busy(t) /\ task[t].pc \in Resuming
      BY <1>6 DEF persistIds, Resuming, Busy, Waiting
    <2>2. ops[task[t].book] \in Operation /\ ops[task[t].book].state # "ready"
      BY <2>1, BusyFacts DEF TaskOK, CopyOK
    <2>3. PICK r : r = [ops[task[t].book] EXCEPT !.ids = <<task[t].op.id, t>>]
      OBVIOUS
    <2>4. r.state # "ready"
      BY <2>2, <2>3 DEF Operation
    <2>5. ops'[b] = ops[b] \/ ops'[b] = r
      BY <1>6, <2>3 DEF persistIds, UpdateRow, SerialInv, TypeInv, TypeOK
    <2> QED
      BY <1>1, <2>4, <2>5 DEF Has
  <1>7. ASSUME NEW t \in Tasks, handleError(t)
        PROVE  FALSE
    <2>1. Busy(t)
      BY <1>7 DEF handleError, Busy, Waiting
    <2>2. PICK s : s = FailureState(task[t].op.state)
      OBVIOUS
    <2>3. s # "ready"
      BY <2>2 DEF FailureState
    <2>4. ops'[b] = ops[b] \/ ops'[b] = [ops[b] EXCEPT !.state = s]
      BY <1>7, <2>2 DEF handleError, SerialInv, TypeInv, TypeOK
    <2>5. ops[b] \in Operation \cup {None} /\ ops'[b] # None
      BY DEF Has, SerialInv, TypeInv, TypeOK
    <2>6. ops[b] # None
      BY <1>1, <1>7, <2>5 DEF handleError, OwnRow, SerialInv, TypeInv, TypeOK
    <2> QED
      BY <1>1, <2>3, <2>4, <2>5, <2>6 DEF Has, Operation
  <1>8. ASSUME NEW t \in Tasks, recordState(t)
        PROVE  task[t].pc = "finish" /\ task[t].book = b
    <2>1. Busy(t) /\ task[t].pc \in Resuming
      BY <1>8 DEF recordState, Recorded, Resuming, Busy, Waiting
    <2>2. ops[task[t].book] \in Operation /\ task[t].book \in Books
      BY <2>1, BusyFacts DEF TaskOK, CopyOK
    <2>3. task[t].book = b
      BY <1>1, <1>8, <2>2 DEF recordState, UpdateRow, SerialInv, TypeInv, TypeOK
    <2>4. CASE task[t].pc # "finish"
      <3>1. PICK s : s = Recorded[task[t].pc]
        OBVIOUS
      <3>2. s # "ready"
        BY <1>8, <2>4, <3>1 DEF recordState, Recorded
      <3>3. PICK r : r = [ops[b] EXCEPT !.state = s]
        OBVIOUS
      <3>4. r.state = s
        BY <2>2, <2>3, <3>3 DEF Operation
      <3>5. ops'[b] = r
        BY <1>1, <1>8, <2>3, <2>4, <3>1, <3>3 DEF recordState, UpdateRow, SerialInv, TypeInv, TypeOK
      <3> QED
        BY <3>2, <3>4, <3>5 DEF Has
    <2> QED
      BY <2>3, <2>4
  <1>9. PICK t \in Tasks : \/ recordState(t) \/ handleError(t) \/ persistIds(t) \/ registerImport(t)
                           \/ undoRow(t) \/ deleteRow(t) \/ insertOperation(t)
                           \/ \E c \in Books : claim(t, c)
    BY <1>1, RowSteps
  <1> QED
    BY <1>2, <1>3, <1>4, <1>5, <1>6, <1>7, <1>8, <1>9

\* Whichever attempts made them, all parts of the book are there when it is
\* called ready (resume), the import whose undoing went wrong excepted.
THEOREM ReadyMeansComplete ==
    ASSUME ~OverlappingWork
    PROVE  Spec => ReadyOnlyWhenComplete
  <1>1. ASSUME SerialInv, [Next]_vars, NEW b \in Books,
               ~Has(b, "ready"), Has(b, "ready")', ~Unmade(b)'
        PROVE  Complete(b)'
    <2>1. PICK t \in Tasks : recordState(t) /\ task[t].pc = "finish" /\ task[t].book = b
      BY <1>1, BecomesReady
    <2>2. Busy(t) /\ task[t].pc \in Resuming
      BY <2>1 DEF Busy, Waiting, Resuming
    <2>3. ops[b] \in Operation /\ Has(b, "runtime-bound")
      BY <1>1, <2>1, <2>2, BusyFacts DEF TaskOK, CopyOK, Has
    <2>4. PICK r : r = ops'[b]
      OBVIOUS
    <2>5. r.id = ops[b].id /\ r.ids = ops[b].ids /\ r.origin = ops[b].origin
      <3>1. r = ops[b] \/ r = [ops[b] EXCEPT !.state = "ready"]
        BY <1>1, <2>1, <2>4 DEF recordState, SerialInv, TypeInv, TypeOK
      <3> QED
        BY <2>3, <3>1 DEF Operation
    <2>6. UNCHANGED <<stores, history>>
      BY <2>1 DEF recordState
    <2>7. ~Unmade(b)
      BY <1>1, <2>4, <2>5, <2>6 DEF Unmade, history
    <2>8. Complete(b)
      BY <1>1, <2>3, <2>7 DEF SerialInv, BookOK, BoundOK
    <2> QED
      BY <2>4, <2>5, <2>6, <2>8 DEF Complete, stores
  <1>2. SerialInv /\ [Next]_vars =>
          [\A b \in Books :
              (~Has(b, "ready") /\ Has(b, "ready")' /\ ~Unmade(b)') => Complete(b)']_vars
    BY <1>1
  <1> QED
    BY <1>2, SerialAlways, PTL DEF Spec, ReadyOnlyWhenComplete

----------------------------------------------------------------------------
(* The shelf: each step of a request is a step of the shelf, or none. *)

StageOf(b) == IF ops[b] = None THEN "absent"
              ELSE IF ops[b].state = "ready" THEN "ready"
              ELSE IF ops[b].origin = "archive" THEN "importing"
              ELSE "building"
ProjectOf(b) == IF ops[b] = None THEN None ELSE ops[b].ids

\* Of the shelf at most book b changes.
At(b) == \A c \in Books \ {b} : ops'[c] = ops[c]

\* A step that nobody sees on the shelf.
LEMMA ShelfUnmoved ==
    ASSUME \A c \in Books : StageOf(c)' = StageOf(c) /\ ProjectOf(c)' = ProjectOf(c)
    PROVE  UNCHANGED Shelf!shelfVars
  BY DEF Shelf!shelfVars, StageOf, ProjectOf

\* A book is begun.
LEMMA ShelfReserve ==
    ASSUME NEW b \in Books, At(b), StageOf(b) = "absent",
           StageOf(b)' \in {"building", "importing"}, ProjectOf(b)' = ProjectOf(b)
    PROVE  Shelf!Next
  <1>1. Shelf!Reserve(b)
    BY DEF Shelf!Reserve, Shelf!InTheMaking, StageOf, ProjectOf, At
  <1> QED
    BY <1>1 DEF Shelf!Next

\* A book is given its project.
LEMMA ShelfAssign ==
    ASSUME NEW b \in Books, At(b), StageOf(b) \in {"building", "importing"},
           StageOf(b)' = StageOf(b), ProjectOf(b) = None, ProjectOf(b)' \in Projects,
           \A c \in Books : ProjectOf(c) # ProjectOf(b)'
    PROVE  Shelf!Next
  <1>1. PICK p : p = ProjectOf(b)'
    OBVIOUS
  <1>2. PICK stage, project : /\ stage = [c \in Books |-> StageOf(c)]
                              /\ project = [c \in Books |-> ProjectOf(c)]
    OBVIOUS
  <1>3. p \in Projects \ {project[c] : c \in Books}
    BY <1>1, <1>2
  <1>4. [c \in Books |-> StageOf(c)]' = stage
    BY <1>2 DEF StageOf, At
  <1>5. [c \in Books |-> ProjectOf(c)]' = [project EXCEPT ![b] = p]
    BY <1>1, <1>2 DEF ProjectOf, At
  <1>6. stage[b] \in {"building", "importing"} /\ project[b] = None
    BY <1>2
  <1>7. Shelf!Assign(b)
    BY <1>2, <1>3, <1>4, <1>5, <1>6 DEF Shelf!Assign, Shelf!InTheMaking, StageOf, ProjectOf
  <1> QED
    BY <1>7 DEF Shelf!Next

\* A book becomes ready.
LEMMA ShelfFinish ==
    ASSUME NEW b \in Books, At(b), StageOf(b) \in {"building", "importing"},
           StageOf(b)' = "ready", ProjectOf(b) # None, ProjectOf(b)' = ProjectOf(b)
    PROVE  Shelf!Next
  <1>1. Shelf!Finish(b)
    BY DEF Shelf!Finish, Shelf!InTheMaking, StageOf, ProjectOf, At
  <1> QED
    BY <1>1 DEF Shelf!Next

\* A book goes, or an import is given up.
LEMMA ShelfRemove ==
    ASSUME NEW b \in Books, At(b), StageOf(b) \in {"ready", "importing"},
           StageOf(b)' = "absent", ProjectOf(b)' = None
    PROVE  Shelf!Next
  <1>1. Shelf!Remove(b)
    BY DEF Shelf!Remove, StageOf, ProjectOf, At
  <1> QED
    BY <1>1 DEF Shelf!Next

\* Every step of the detailed specification is one of these.
LEMMA ShelfStep ==
    ASSUME SerialInv, [Next]_vars
    PROVE  Shelf!Next \/ UNCHANGED Shelf!shelfVars
  <1>1. CASE ops' = ops
    BY <1>1, ShelfUnmoved DEF StageOf, ProjectOf
  <1>2. ASSUME NEW t \in Tasks, NEW b \in Books, claim(t, b)
        PROVE  Shelf!Next
    <2>1. PICK o \in Operations : Insert(t, b, Row(o, None, "claim", "filesystem-promoted"))
      BY <1>2 DEF claim
    <2>2. PICK r : r = Row(o, None, "claim", "filesystem-promoted")
      OBVIOUS
    <2>3. r # None /\ r.origin = "claim" /\ r.state = "filesystem-promoted" /\ r.ids = None
      BY <2>2, NewRow, RowFields DEF ProvisionState
    <2>4. ops[b] = None /\ ops'[b] = r /\ At(b)
      BY <1>2, <2>1, <2>2 DEF claim, Insert, At, SerialInv, TypeInv, TypeOK
    <2> QED
      BY <2>3, <2>4, ShelfReserve DEF StageOf, ProjectOf
  <1>3. ASSUME NEW t \in Tasks, insertOperation(t), ops' # ops
        PROVE  Shelf!Next
    <2>1. PICK b : b = task[t].book
      OBVIOUS
    <2>2. task[t].key \in Keys /\ b \in Books
      BY <1>3, <2>1, TaskFields DEF insertOperation, SerialInv, TypeInv, TypeOK, Formed
    <2>3. PICK o \in Operations : Insert(t, b, Row(o, task[t].key, "create", "reserved"))
      BY <1>3, <2>1 DEF insertOperation
    <2>4. PICK r : r = Row(o, task[t].key, "create", "reserved")
      OBVIOUS
    <2>5. r # None /\ r.origin = "create" /\ r.state = "reserved" /\ r.ids = None
      BY <2>2, <2>4, NewRow, RowFields DEF ProvisionState
    <2>6. ops[b] = None /\ ops'[b] = r /\ At(b)
      BY <1>3, <2>1, <2>2, <2>3, <2>4 DEF insertOperation, Insert, At, SerialInv, TypeInv, TypeOK
    <2> QED
      BY <2>2, <2>5, <2>6, ShelfReserve DEF StageOf, ProjectOf
  <1>4. ASSUME NEW t \in Tasks, registerImport(t), ops' # ops
        PROVE  Shelf!Next
    <2>1. PICK b : b = task[t].book
      OBVIOUS
    <2>2. PICK r : r = task[t].op
      OBVIOUS
    <2>3. Busy(t) /\ task[t].pc \in Registering
      BY <1>4 DEF registerImport, Registering, Busy, Waiting
    <2>4. /\ b \in Books /\ ops[b] = None /\ r # None
          /\ r.state = "filesystem-promoted" /\ r.ids = None /\ r.origin = "archive"
      BY <2>1, <2>2, <2>3, BusyFacts DEF TaskOK, CopyOK, RequestOK
    <2>5. ops'[b] = r /\ At(b)
      BY <1>4, <2>1, <2>2, <2>4 DEF registerImport, At, SerialInv, TypeInv, TypeOK
    <2> QED
      BY <2>4, <2>5, ShelfReserve DEF StageOf, ProjectOf
  <1>5. ASSUME NEW t \in Tasks, undoRow(t) \/ deleteRow(t), ops' # ops
        PROVE  Shelf!Next
    <2>1. PICK b : b = task[t].book
      OBVIOUS
    <2>2. Busy(t) /\ (undoRow(t) => task[t].pc \in Undoing)
          /\ (deleteRow(t) => task[t].pc \in Deleting)
      BY <1>5 DEF undoRow, deleteRow, Undoing, Deleting, Busy, Waiting
    <2>3. b \in Books /\ ops[b] # None /\ ops'[b] = None /\ At(b)
      BY <1>5, <2>1, <2>2, BusyFacts DEF undoRow, deleteRow, OwnRow, At, SerialInv, TypeInv, TypeOK
    <2>4. ops[b].state = "ready" \/ (ops[b].state # "ready" /\ ops[b].origin = "archive")
      BY <1>5, <2>1, <2>2, <2>3, BusyFacts DEF TaskOK, CopyOK
    <2> QED
      BY <2>3, <2>4, ShelfRemove DEF StageOf, ProjectOf
  <1>6. ASSUME NEW t \in Tasks, persistIds(t), ops' # ops
        PROVE  Shelf!Next
    <2>1. PICK b : b = task[t].book
      OBVIOUS
    <2>2. Busy(t) /\ task[t].pc = "ids" /\ task[t].pc \in Resuming /\ OwnRow(t)
      BY <1>6 DEF persistIds, Resuming, Busy, Waiting
    <2>3. PICK p : p = <<task[t].op.id, t>>
      OBVIOUS
    <2>4. /\ b \in Books /\ ops[b] \in Operation /\ ops[b] # None /\ ops[b].state # "ready"
          /\ ops[b].ids = None /\ p \in Projects /\ p[1] = task[t].op.id
          /\ reserved[task[t].op.id] = b
      BY <2>1, <2>2, <2>3, BusyFacts DEF TaskOK, CopyOK, Projects
    <2>5. PICK r : r = [ops[b] EXCEPT !.ids = p]
      OBVIOUS
    <2>6. r.ids = p /\ r.state = ops[b].state /\ r.origin = ops[b].origin /\ r # None
      <3>1. /\ r \in Operation /\ r.ids = p /\ r.state = ops[b].state
            /\ r.origin = ops[b].origin
        BY <2>4, <2>5 DEF Operation
      <3> QED
        BY <3>1, RowFields
    <2>7. ops'[b] = r /\ At(b)
      BY <1>6, <2>1, <2>2, <2>3, <2>4, <2>5
         DEF persistIds, UpdateRow, At, SerialInv, TypeInv, TypeOK
    <2>8. ASSUME NEW c \in Books PROVE ProjectOf(c) # p
      <3>1. ops[c] \in Operation \cup {None} /\ RowsOK(c)
        BY DEF SerialInv, BookOK, TypeInv, TypeOK
      <3> QED
        BY <2>4, <3>1, ProjectParts DEF RowsOK, Own, ProjectOf
    <2> QED
      BY <2>4, <2>6, <2>7, <2>8, ShelfAssign DEF StageOf, ProjectOf
  <1>7. ASSUME NEW t \in Tasks, handleError(t), ops' # ops
        PROVE  UNCHANGED Shelf!shelfVars
    <2>1. PICK b : b = task[t].book
      OBVIOUS
    <2>2. Busy(t) /\ task[t].pc \in Resuming
      BY <1>7 DEF handleError, Resuming, Busy, Waiting
    <2>3. /\ b \in Books /\ ops[b] \in Operation /\ ops[b] # None /\ ops[b].state # "ready"
      BY <2>1, <2>2, BusyFacts DEF TaskOK, CopyOK
    <2>4. PICK s : s = FailureState(task[t].op.state)
      OBVIOUS
    <2>5. s # "ready" /\ s \in ProvisionState
      BY <2>4 DEF FailureState, ProvisionState
    <2>6. PICK r : r = [ops[b] EXCEPT !.state = s]
      OBVIOUS
    <2>7. r.state = s /\ r.ids = ops[b].ids /\ r.origin = ops[b].origin /\ r # None
      <3>1. r \in Operation /\ r.state = s /\ r.ids = ops[b].ids /\ r.origin = ops[b].origin
        BY <2>3, <2>5, <2>6 DEF Operation
      <3> QED
        BY <3>1, RowFields
    <2>8. ops'[b] = r /\ At(b)
      BY <1>7, <2>1, <2>3, <2>4, <2>6 DEF handleError, At, SerialInv, TypeInv, TypeOK
    <2> QED
      BY <2>3, <2>5, <2>7, <2>8, ShelfUnmoved DEF StageOf, ProjectOf, At
  <1>8. ASSUME NEW t \in Tasks, recordState(t), ops' # ops
        PROVE  Shelf!Next \/ UNCHANGED Shelf!shelfVars
    <2>1. PICK b : b = task[t].book
      OBVIOUS
    <2>2. Busy(t) /\ task[t].pc \in Resuming
      BY <1>8 DEF recordState, Recorded, Resuming, Busy, Waiting
    <2>3. /\ b \in Books /\ ops[b] \in Operation /\ ops[b] # None /\ ops[b].state # "ready"
          /\ task[t].pc = "finish" => ops[b].ids # None
      BY <2>1, <2>2, BusyFacts DEF TaskOK, CopyOK, Assigned
    <2>4. PICK s : s = IF task[t].pc = "finish" THEN "ready" ELSE Recorded[task[t].pc]
      OBVIOUS
    <2>5. s = "ready" <=> task[t].pc = "finish"
      BY <1>8, <2>4 DEF recordState, Recorded
    <2>6. s \in ProvisionState
      BY <1>8, <2>4 DEF recordState, Recorded, ProvisionState
    <2>7. PICK r : r = [ops[b] EXCEPT !.state = s]
      OBVIOUS
    <2>8. r.state = s /\ r.ids = ops[b].ids /\ r.origin = ops[b].origin /\ r # None
      <3>1. r \in Operation /\ r.state = s /\ r.ids = ops[b].ids /\ r.origin = ops[b].origin
        BY <2>3, <2>6, <2>7 DEF Operation
      <3> QED
        BY <3>1, RowFields
    <2>9. ops'[b] = r /\ At(b)
      BY <1>8, <2>1, <2>3, <2>4, <2>7 DEF recordState, UpdateRow, At, SerialInv, TypeInv, TypeOK
    <2>10. CASE task[t].pc = "finish"
      BY <2>3, <2>5, <2>8, <2>9, <2>10, ShelfFinish DEF StageOf, ProjectOf
    <2>11. CASE task[t].pc # "finish"
      BY <2>3, <2>5, <2>8, <2>9, <2>11, ShelfUnmoved DEF StageOf, ProjectOf, At
    <2> QED
      BY <2>10, <2>11
  <1>9. CASE ops' # ops
    <2>1. PICK t \in Tasks : \/ recordState(t) \/ handleError(t) \/ persistIds(t) \/ registerImport(t)
                             \/ undoRow(t) \/ deleteRow(t) \/ insertOperation(t)
                             \/ \E c \in Books : claim(t, c)
      BY <1>9, RowSteps
    <2> QED
      BY <1>2, <1>3, <1>4, <1>5, <1>6, <1>7, <1>8, <1>9, <2>1
  <1> QED
    BY <1>1, <1>9

\* A reader of the shelf sees a book come, get one project once, become ready
\* and go, whatever fails, is repeated or is cut off behind the scenes.
THEOREM KeepsTheShelf ==
    ASSUME ~OverlappingWork
    PROVE  Spec => ImplementsShelf
  <1>1. Init => Shelf!Init
    <2> SUFFICES ASSUME Init PROVE Shelf!Init
      OBVIOUS
    <2>1. \A b \in Books : ops[b] = None
      BY DEF Init
    <2> QED
      BY <2>1 DEF Shelf!Init
  <1>2. SerialInv /\ [Next]_vars => [Shelf!Next]_(Shelf!shelfVars)
    BY ShelfStep
  <1> QED
    BY <1>1, <1>2, SerialAlways, PTL DEF Spec, ImplementsShelf, Shelf!Spec

----------------------------------------------------------------------------
(* Nothing is left behind: what becomes of a book's core row.               *)

\* A book without a row, that nobody imports, is not in the core.
CoreOK(b) == b \notin remains /\ ops[b] = None /\ ~Importing(b) => b \notin core

\* At these places a request knows that the core row is gone, or not yet made.
Emptied == {"unpack", "load", "undoDir", "removeDir", "unbind", "deleteRow"}
CoreGone(t) ==
    task[t].pc \in Emptied /\ task[t].book \notin remains => task[t].book \notin core

LeftInv ==
    /\ SerialInv
    /\ \A b \in Books : CoreOK(b)
    /\ \A t \in Tasks : CoreGone(t)

\* A step that takes no row away, ends no import and leaves the core alone.
LEMMA LeftQuiet ==
    ASSUME LeftInv, SerialInv', NEW t \in Tasks,
           \A u \in Tasks \ {t} : task'[u] = task[u],
           task'[t].pc \notin Emptied,
           task[t].import => task'[t].import /\ task'[t].book = task[t].book,
           UNCHANGED <<core, remains>>,
           \A c \in Books : ops'[c] = None => ops[c] = None
    PROVE  LeftInv'
  <1>1. \A c \in Books : Importing(c) => Importing(c)'
    BY DEF Importing
  <1>2. \A c \in Books : CoreOK(c)'
    BY <1>1 DEF LeftInv, CoreOK
  <1>3. \A u \in Tasks : CoreGone(u)'
    BY DEF LeftInv, CoreGone
  <1> QED
    BY <1>2, <1>3 DEF LeftInv

\* A step of that kind that moves the request on.
LEMMA QuietGoto ==
    ASSUME LeftInv, SerialInv', NEW t \in Tasks, NEW pc \in Pcs \ Emptied, Goto(t, pc),
           UNCHANGED <<core, remains>>,
           \A c \in Books : ops'[c] = None => ops[c] = None
    PROVE  LeftInv'
  <1>1. /\ \A u \in Tasks \ {t} : task'[u] = task[u]
        /\ task'[t].pc = pc /\ task'[t].book = task[t].book /\ task'[t].import = task[t].import
    BY GotoStep DEF LeftInv, SerialInv, TypeInv
  <1> QED
    BY <1>1, LeftQuiet

\* One that also renews its copy of the row.
LEMMA QuietCopy ==
    ASSUME LeftInv, SerialInv', NEW t \in Tasks, NEW pc \in Pcs \ Emptied, NEW r \in Operation,
           GoOnWith(t, r, pc), UNCHANGED <<core, remains>>,
           \A c \in Books : ops'[c] = None => ops[c] = None
    PROVE  LeftInv'
  <1>1. /\ \A u \in Tasks \ {t} : task'[u] = task[u]
        /\ task'[t].pc = pc /\ task'[t].book = task[t].book /\ task'[t].import = task[t].import
    BY CopyStep DEF LeftInv, SerialInv, TypeInv
  <1> QED
    BY <1>1, LeftQuiet

\* A busy request's step: its own book's core row may come or go.
LEMMA LeftAt ==
    ASSUME LeftInv, SerialInv', NEW t \in Tasks, Busy(t), NEW b, b = task[t].book,
           \A u \in Tasks \ {t} : task'[u] = task[u],
           task'[t] = Idle \/ (task'[t].book = b /\ task'[t].pc \notin Waiting),
           \A c \in Books \ {b} : ops'[c] = ops[c] /\ (c \in remains => c \in remains'),
           core' \subseteq core \cup {b},
           task'[t] = Idle => b \in remains' \/ ops'[b] # None \/ b \notin core',
           task'[t].pc \in Emptied => b \in remains' \/ b \notin core',
           b \in remains => b \in remains'
    PROVE  LeftInv'
  <1>1. b \in Books /\ \A u \in Tasks \ {t} : task[u].book = b => task[u].pc \in Waiting
    BY BusyFacts DEF LeftInv
  <1>2. ASSUME NEW c \in Books PROVE CoreOK(c)'
    <2>1. CASE c # b
      <3>1. Importing(c) => Importing(c)'
        BY <2>1 DEF Importing
      <3> QED
        BY <2>1, <3>1 DEF LeftInv, CoreOK
    <2>2. CASE c = b /\ task'[t] = Idle
      BY <2>2 DEF CoreOK
    <2>3. CASE c = b /\ task'[t] # Idle
      <3>1. /\ TaskOK(t)' /\ Formed(t)' /\ task'[t].book = b
            /\ task'[t] \in Task /\ task'[t].pc \notin Waiting
        BY <2>3 DEF SerialInv, TypeInv, TypeOK
      <3>2. CASE task'[t].pc \in Resuming \cup Deleting
        <4>1. ops'[b] = task'[t].op /\ task'[t].op # None
          BY <3>1, <3>2 DEF TaskOK, CopyOK, Formed, Resuming, Deleting, Waiting
        <4> QED
          BY <2>3, <4>1 DEF CoreOK
      <3>3. CASE task'[t].pc \in Unpacking \cup Registering \cup Undoing
        <4>1. Importing(b)'
          BY <3>1, <3>3 DEF TaskOK, RequestOK, Importing
        <4> QED
          BY <2>3, <4>1 DEF CoreOK
      <3> QED
        BY <3>1, <3>2, <3>3, TaskFields DEF Pcs
    <2> QED
      BY <2>1, <2>2, <2>3
  <1>3. ASSUME NEW u \in Tasks PROVE CoreGone(u)'
    <2>1. CASE u = t
      BY <2>1, IdleTask DEF CoreGone, Emptied
    <2>2. CASE u # t /\ task[u].pc \in Emptied
      <3>1. task[u].book \in Books /\ task[u].book # b
        BY <1>1, <2>2, TaskFields
           DEF LeftInv, SerialInv, TypeInv, TypeOK, Formed, Emptied, Waiting
      <3> QED
        BY <2>2, <3>1 DEF LeftInv, CoreGone
    <2>3. CASE u # t /\ task[u].pc \notin Emptied
      BY <2>3 DEF CoreGone
    <2> QED
      BY <2>1, <2>2, <2>3
  <1> QED
    BY <1>2, <1>3 DEF LeftInv

\* Taking up a row there is.
LEMMA LeftResume ==
    ASSUME LeftInv, SerialInv', NEW t \in Tasks, ~task[t].import, NEW b \in Books, ops[b] # None,
           resume(t, b), UNCHANGED <<ops, core, remains>>
    PROVE  LeftInv'
  <1>1. PICK r : r = ops[b]
    OBVIOUS
  <1>2. r \in Operation /\ task' = [task EXCEPT ![t] = Working(b, r)]
    BY <1>1 DEF resume, LeftInv, SerialInv, TypeInv, TypeOK
  <1>3. task'[t].pc \notin Emptied /\ \A u \in Tasks \ {t} : task'[u] = task[u]
    BY <1>2, ResumeStep, WorkingTask, IdleTask DEF Emptied, LeftInv, SerialInv, TypeInv
  <1> QED
    BY <1>3, LeftQuiet

\* Making a row.
LEMMA LeftInsert ==
    ASSUME LeftInv, SerialInv', NEW t \in Tasks, ~task[t].import, NEW b \in Books,
           NEW r \in Operation, Insert(t, b, r), UNCHANGED <<core, remains>>
    PROVE  LeftInv'
  <1>1. task' = [task EXCEPT ![t] = Working(b, r)] /\ ops' = [ops EXCEPT ![b] = r]
    BY DEF Insert
  <1>2. task'[t].pc \notin Emptied /\ \A u \in Tasks \ {t} : task'[u] = task[u]
    BY <1>1, ResumeStep, WorkingTask, IdleTask DEF Emptied, LeftInv, SerialInv, TypeInv
  <1>3. \A c \in Books : ops'[c] = None => ops[c] = None
    BY <1>1, RowFields DEF LeftInv, SerialInv, TypeInv, TypeOK
  <1> QED
    BY <1>2, <1>3, LeftQuiet

\* Every step of a request.
LEMMA LeftTaskStep ==
    ASSUME LeftInv, SerialInv', NEW t \in Tasks, TaskStep(t)
    PROVE  LeftInv'
  <1> DEFINE q == task[t]
  <1>0. /\ Busy(t) => /\ q.book \in Books /\ q.op \in Operation /\ TaskOK(t) /\ CoreGone(t)
                      /\ ops[q.book] \in Operation \cup {None}
        /\ ops \in [Books -> Operation \cup {None}]
        /\ task'[t].import \in BOOLEAN
    BY BusyFacts, TaskFields DEF LeftInv, SerialInv, TypeInv, TypeOK
  <1>p. /\ \A pc \in Waiting \cup Resuming \cup Registering \cup
                     {"deleteProject", "purge", "backfill"} \cup (Undoing \ {"undoDir"}) :
              pc \in Pcs \ Emptied
        /\ \A pc \in Emptied : pc \in Pcs /\ pc \notin Waiting
    BY DEF Pcs, Emptied, Waiting, Resuming, Registering, Deleting, Unpacking, Undoing
  <1>1. CASE promoteFilesystem(t)
    BY <1>1, <1>p, QuietGoto DEF promoteFilesystem, stores, history, Resuming
  <1>2. CASE clearStaging(t)
    BY <1>2, <1>p, QuietGoto DEF clearStaging, history, Resuming
  <1>3. CASE writeBookScaffold(t)
    BY <1>3, <1>p, QuietGoto DEF writeBookScaffold, history, Resuming
  <1>4. CASE renameStaging(t)
    BY <1>4, <1>p, QuietGoto DEF renameStaging, history, Resuming
  <1>5. CASE bindRuntime(t)
    BY <1>5, <1>p, QuietGoto DEF bindRuntime, stores, history, Resuming
  <1>6. CASE insertRow(t)
    BY <1>6, <1>p, QuietGoto DEF insertRow, history, Resuming, Pieces, NextPiece
  <1>7. CASE upsertBinding(t)
    BY <1>7, <1>p, QuietGoto DEF upsertBinding, history, Resuming
  <1>8. CASE deleteProject(t)
    BY <1>8, <1>p, QuietGoto DEF deleteProject, history
  <1>9. CASE backfillNarrativeFactSlotKeys(t)
    BY <1>9, <1>p, QuietGoto DEF backfillNarrativeFactSlotKeys, stores, history, Registering
  <1>10. CASE placeDirectory(t)
    BY <1>10, <1>p, QuietGoto DEF placeDirectory, history, Registering
  <1>11. CASE undoBinding(t)
    BY <1>11, <1>p, QuietGoto DEF undoBinding, history, Undoing
  <1>12. CASE checkDirectory(t)
    <2>1. task[t].pc \in Waiting /\ ~task[t].import
      BY <1>12 DEF checkDirectory, Waiting, LeftInv, SerialInv, TaskOK, RequestOK
    <2>2. CASE Goto(t, "insert")
      BY <1>12, <2>2, <1>p, QuietGoto DEF checkDirectory, stores, history, Waiting
    <2>3. CASE Return(t)
      <3>1. task'[t] = Idle /\ \A u \in Tasks \ {t} : task'[u] = task[u]
        BY <2>3, ReturnStep DEF LeftInv, SerialInv, TypeInv
      <3> QED
        BY <1>12, <2>1, <3>1, IdleTask, LeftQuiet DEF checkDirectory, stores, history, Emptied
    <2> QED
      BY <1>12, <2>2, <2>3 DEF checkDirectory
  <1>13. CASE findRaced(t)
    <2>1. ~task[t].import /\ UNCHANGED <<ops, core, remains>>
      BY <1>13 DEF findRaced, Waiting, stores, history, LeftInv, SerialInv, TaskOK, RequestOK
    <2>2. CASE Return(t)
      <3>1. task'[t] = Idle /\ \A u \in Tasks \ {t} : task'[u] = task[u]
        BY <2>2, ReturnStep DEF LeftInv, SerialInv, TypeInv
      <3> QED
        BY <2>1, <3>1, IdleTask, LeftQuiet DEF Emptied
    <2>3. CASE \E c \in Books : HasKey(c, task[t].key) /\ resume(t, c)
      <3>1. PICK c \in Books : ops[c] # None /\ resume(t, c)
        BY <2>3 DEF HasKey
      <3> QED
        BY <2>1, <3>1, LeftResume
    <2> QED
      BY <1>13, <2>2, <2>3 DEF findRaced
  <1>14. CASE insertOperation(t)
    <2>1. ~task[t].import /\ UNCHANGED <<core, remains>>
      BY <1>14 DEF insertOperation, Waiting, stores, LeftInv, SerialInv, TaskOK, RequestOK
    <2>2. CASE Goto(t, "raced") /\ UNCHANGED <<ops, reserved>>
      BY <2>1, <2>2, <1>p, QuietGoto DEF Waiting
    <2>3. CASE \E o \in Operations : Insert(t, task[t].book, Row(o, task[t].key, "create", "reserved"))
      <3>1. PICK b : b = task[t].book
        OBVIOUS
      <3>2. b \in Books /\ task[t].key \in Keys
        BY <1>14, <3>1, TaskFields DEF insertOperation, LeftInv, SerialInv, TypeInv, TypeOK, Formed
      <3>3. PICK o \in Operations : Insert(t, b, Row(o, task[t].key, "create", "reserved"))
        BY <2>3, <3>1
      <3>4. PICK r : r = Row(o, task[t].key, "create", "reserved")
        OBVIOUS
      <3>5. r \in Operation
        BY <3>2, <3>4, NewRow DEF ProvisionState
      <3> QED
        BY <2>1, <3>2, <3>3, <3>4, <3>5, LeftInsert
    <2> QED
      BY <1>14, <2>2, <2>3 DEF insertOperation
  <1>15. CASE persistIds(t)
    <2>1. Busy(t) /\ task[t].pc \in Resuming /\ UNCHANGED <<core, remains>>
      BY <1>15 DEF persistIds, Recorded, Resuming, Busy, Waiting, stores, history
    <2>2. PICK b : b = task[t].book
      OBVIOUS
    <2>3. b \in Books /\ ops[b] \in Operation
      BY <1>0, <2>1, <2>2, BusyFacts DEF TaskOK, CopyOK, LeftInv
    <2>4. CASE ~OwnRow(t)
      BY <1>15, <2>1, <2>4, <1>p, QuietGoto DEF persistIds, Recorded, Resuming
    <2>5. CASE OwnRow(t)
      <3>1. PICK r : r = [ops[b] EXCEPT !.ids = <<task[t].op.id, t>>]
        OBVIOUS
      <3>2. <<task[t].op.id, t>> \in Projects
        BY <1>0, <2>1, RowFields DEF Projects
      <3>3. r \in Operation /\ r # None
        <4>1. r \in Operation
          BY <2>3, <3>1, <3>2 DEF Operation
        <4> QED
          BY <4>1, RowFields
      <3>4. UpdateRow(t, r, "project")
        BY <1>15, <2>2, <2>5, <3>1 DEF persistIds
      <3> QED
        BY <1>0, <1>p, <2>1, <2>2, <2>3, <3>3, <3>4, QuietCopy DEF UpdateRow, Resuming
    <2> QED
      BY <2>4, <2>5
  <1>16. CASE recordState(t)
    <2>1. Busy(t) /\ task[t].pc \in Resuming /\ UNCHANGED <<core, remains>>
      BY <1>16 DEF recordState, Recorded, Resuming, Busy, Waiting, stores, history
    <2>2. PICK b : b = task[t].book
      OBVIOUS
    <2>3. b \in Books /\ ops[b] \in Operation
      BY <1>0, <2>1, <2>2, BusyFacts DEF TaskOK, CopyOK, LeftInv
    <2>4. CASE ~OwnRow(t)
      BY <1>16, <2>1, <2>4, <1>p, QuietGoto DEF recordState, Recorded, Resuming
    <2>5. CASE OwnRow(t) /\ task[t].pc = "finish"
      <3>1. task'[t] = Idle /\ \A u \in Tasks \ {t} : task'[u] = task[u]
        BY <1>16, <2>5, ReturnStep DEF recordState, LeftInv, SerialInv, TypeInv
      <3>2. ops'[b] # None /\ \A c \in Books \ {b} : ops'[c] = ops[c]
        <4>1. ops'[b] = [ops[b] EXCEPT !.state = "ready"]
          BY <1>0, <1>16, <2>2, <2>3, <2>5 DEF recordState
        <4>2. ops'[b] \in Operation
          BY <2>3, <4>1 DEF Operation, ProvisionState
        <4> QED
          BY <1>0, <1>16, <2>2, <2>5, <4>2, RowFields DEF recordState
      <3> QED
        BY <2>1, <2>2, <3>1, <3>2, IdleTask, LeftAt DEF Emptied
    <2>6. CASE OwnRow(t) /\ task[t].pc # "finish"
      <3>1. PICK r : r = [ops[b] EXCEPT !.state = Recorded[task[t].pc]]
        OBVIOUS
      <3>2. r \in Operation /\ r # None
        <4>1. r \in Operation
          BY <1>16, <2>3, <3>1 DEF Operation, ProvisionState, recordState, Recorded
        <4> QED
          BY <4>1, RowFields
      <3>3. PICK pc : pc = Then[task[t].pc]
        OBVIOUS
      <3>4. pc \in Pcs \ Emptied
        BY <1>16, <1>p, <2>6, <3>3 DEF recordState, Recorded, Then, Resuming
      <3>5. UpdateRow(t, r, pc)
        BY <1>16, <2>2, <2>6, <3>1, <3>3 DEF recordState
      <3> QED
        BY <1>0, <2>1, <2>2, <2>3, <3>2, <3>4, <3>5, QuietCopy DEF UpdateRow
    <2> QED
      BY <2>4, <2>5, <2>6
  <1>17. CASE handleError(t)
    <2>1. Busy(t) /\ task[t].pc \in Resuming /\ UNCHANGED <<core, remains>>
      BY <1>17 DEF handleError, Resuming, Busy, Waiting, stores, history
    <2>2. PICK b : b = task[t].book
      OBVIOUS
    <2>3. b \in Books /\ ops[b] \in Operation
      BY <1>0, <2>1, <2>2, BusyFacts DEF TaskOK, CopyOK, LeftInv
    <2>4. ops'[b] # None /\ \A c \in Books \ {b} : ops'[c] = ops[c]
      <3>1. FailureState(task[t].op.state) \in ProvisionState
        BY DEF FailureState, ProvisionState
      <3>2. ops'[b] \in Operation
        BY <1>0, <1>17, <2>2, <2>3, <3>1 DEF handleError, Operation
      <3> QED
        BY <1>0, <1>17, <2>2, <3>2, RowFields DEF handleError
    <2>5. CASE Goto(t, "undoProject")
      BY <1>p, <2>1, <2>3, <2>4, <2>5, QuietGoto DEF Undoing
    <2>6. CASE Return(t)
      <3>1. task'[t] = Idle /\ \A u \in Tasks \ {t} : task'[u] = task[u]
        BY <2>6, ReturnStep DEF LeftInv, SerialInv, TypeInv
      <3> QED
        BY <2>1, <2>2, <2>4, <3>1, IdleTask, LeftAt DEF Emptied
    <2> QED
      BY <1>17, <2>5, <2>6 DEF handleError, GiveUp
  <1>18. CASE registerImport(t)
    <2>1. Busy(t) /\ task[t].op # None
      BY <1>18, BusyFacts DEF registerImport, Busy, Waiting, LeftInv
    <2> QED
      BY <1>0, <1>18, <1>p, <2>1, QuietGoto DEF registerImport, stores, history, Resuming, Undoing
  <1>19. CASE undoProject(t)
    <2>1. Busy(t) /\ UNCHANGED <<ops, core, remains>>
      BY <1>19 DEF undoProject, Busy, Waiting
    <2>2. CASE OwnRow(t) /\ ops[task[t].book].ids # None
      <3>1. PICK r : r = ops[task[t].book]
        OBVIOUS
      <3>2. r \in Operation /\ GoOnWith(t, r, "undoBinding")
        BY <1>0, <1>19, <2>1, <2>2, <3>1 DEF undoProject, OwnRow
      <3> QED
        BY <1>p, <2>1, <3>2, QuietCopy DEF Undoing
    <2>3. CASE ~(OwnRow(t) /\ ops[task[t].book].ids # None)
      BY <1>19, <1>p, <2>1, <2>3, QuietGoto DEF undoProject, Undoing
    <2> QED
      BY <2>2, <2>3
  <1>20. CASE unpackFiles(t)
    <2>1. Busy(t) /\ task[t].pc = "unpack" /\ Goto(t, "load") /\ UNCHANGED <<ops, remains>>
      BY <1>20 DEF unpackFiles, Busy, Waiting, history
    <2>2. PICK b : b = task[t].book
      OBVIOUS
    <2>3. /\ task'[t].pc = "load" /\ task'[t].book = b /\ "load" \notin Waiting
          /\ \A u \in Tasks \ {t} : task'[u] = task[u]
      BY <2>1, <2>2, GotoStep DEF Pcs, LeftInv, SerialInv, TypeInv, Waiting, Resuming, Deleting,
                                  Unpacking, Undoing
    <2>4. core' \subseteq core \cup {b} /\ ("load" \in Emptied => b \in remains \/ b \notin core')
      BY <1>0, <1>20, <2>1, <2>2 DEF unpackFiles, CoreGone, Emptied
    <2> QED
      BY <2>1, <2>2, <2>3, <2>4, IdleTask, LeftAt DEF Waiting
  <1>21. CASE removeDirectory(t)
    <2>1. Busy(t) /\ task[t].pc = "removeDir" /\ Goto(t, "unbind") /\ UNCHANGED <<ops, remains>>
      BY <1>21 DEF removeDirectory, Busy, Waiting, history
    <2>2. PICK b : b = task[t].book
      OBVIOUS
    <2>3. /\ task'[t].pc = "unbind" /\ task'[t].book = b /\ "unbind" \notin Waiting
          /\ \A u \in Tasks \ {t} : task'[u] = task[u]
      BY <2>1, <2>2, GotoStep DEF Pcs, LeftInv, SerialInv, TypeInv, Waiting, Resuming, Deleting,
                                  Unpacking, Undoing
    <2>4. core' \subseteq core \cup {b} /\ ("unbind" \in Emptied => b \in remains \/ b \notin core')
      BY <1>0, <1>21, <2>1, <2>2 DEF removeDirectory, CoreGone, Emptied
    <2> QED
      BY <2>1, <2>2, <2>3, <2>4, IdleTask, LeftAt DEF Waiting
  <1>22. CASE deleteBinding(t)
    <2>1. Busy(t) /\ task[t].pc = "unbind" /\ Goto(t, "deleteRow") /\ UNCHANGED <<ops, remains>>
      BY <1>22 DEF deleteBinding, Busy, Waiting, history
    <2>2. PICK b : b = task[t].book
      OBVIOUS
    <2>3. /\ task'[t].pc = "deleteRow" /\ task'[t].book = b /\ "deleteRow" \notin Waiting
          /\ \A u \in Tasks \ {t} : task'[u] = task[u]
      BY <2>1, <2>2, GotoStep DEF Pcs, LeftInv, SerialInv, TypeInv, Waiting, Resuming, Deleting,
                                  Unpacking, Undoing
    <2>4. core' \subseteq core \cup {b} /\ ("deleteRow" \in Emptied => b \in remains \/ b \notin core')
      BY <1>0, <1>22, <2>1, <2>2 DEF deleteBinding, CoreGone, Emptied
    <2> QED
      BY <2>1, <2>2, <2>3, <2>4, IdleTask, LeftAt DEF Waiting
  <1>23. CASE stageCore(t)
    <2>1. Busy(t) /\ task[t].pc = "stage" /\ Goto(t, "staged") /\ UNCHANGED <<ops, remains>>
      BY <1>23 DEF stageCore, Busy, Waiting, history
    <2>2. PICK b : b = task[t].book
      OBVIOUS
    <2>3. /\ task'[t].pc = "staged" /\ task'[t].book = b /\ "staged" \notin Waiting
          /\ \A u \in Tasks \ {t} : task'[u] = task[u]
      BY <2>1, <2>2, GotoStep DEF Pcs, LeftInv, SerialInv, TypeInv, Waiting, Resuming, Deleting,
                                  Unpacking, Undoing
    <2>4. core' \subseteq core \cup {b} /\ ("staged" \in Emptied => b \in remains \/ b \notin core')
      BY <1>0, <1>23, <2>1, <2>2 DEF stageCore, CoreGone, Emptied
    <2> QED
      BY <2>1, <2>2, <2>3, <2>4, IdleTask, LeftAt DEF Waiting
  <1>24. CASE loadRows(t)
    <2>1. Busy(t) /\ task[t].pc = "load" /\ Goto(t, "backfill") /\ UNCHANGED <<ops, remains>>
      BY <1>24 DEF loadRows, Busy, Waiting, history
    <2>2. PICK b : b = task[t].book
      OBVIOUS
    <2>3. /\ task'[t].pc = "backfill" /\ task'[t].book = b /\ "backfill" \notin Waiting
          /\ \A u \in Tasks \ {t} : task'[u] = task[u]
      BY <2>1, <2>2, GotoStep DEF Pcs, LeftInv, SerialInv, TypeInv, Waiting, Resuming, Deleting,
                                  Unpacking, Undoing
    <2>4. core' \subseteq core \cup {b} /\ ("backfill" \in Emptied => b \in remains \/ b \notin core')
      BY <1>0, <1>24, <2>1, <2>2 DEF loadRows, CoreGone, Emptied
    <2> QED
      BY <2>1, <2>2, <2>3, <2>4, IdleTask, LeftAt DEF Waiting
  <1>25. CASE purgeBookArchiveData(t)
    <2>1. Busy(t) /\ task[t].pc = "undoData" /\ Goto(t, "undoDir") /\ UNCHANGED <<ops, remains>>
      BY <1>25 DEF purgeBookArchiveData, Busy, Waiting, history
    <2>2. PICK b : b = task[t].book
      OBVIOUS
    <2>3. /\ task'[t].pc = "undoDir" /\ task'[t].book = b /\ "undoDir" \notin Waiting
          /\ \A u \in Tasks \ {t} : task'[u] = task[u]
      BY <2>1, <2>2, GotoStep DEF Pcs, LeftInv, SerialInv, TypeInv, Waiting, Resuming, Deleting,
                                  Unpacking, Undoing
    <2>4. core' \subseteq core \cup {b} /\ ("undoDir" \in Emptied => b \in remains \/ b \notin core')
      BY <1>0, <1>25, <2>1, <2>2 DEF purgeBookArchiveData, CoreGone, Emptied
    <2> QED
      BY <2>1, <2>2, <2>3, <2>4, IdleTask, LeftAt DEF Waiting
  <1>26. CASE purgeBookScopedStorage(t)
    <2>1. Busy(t) /\ UNCHANGED <<ops, remains>> /\ core' = core \ {task[t].book}
      BY <1>26 DEF purgeBookScopedStorage, Busy, Waiting, history
    <2>2. PICK b : b = task[t].book
      OBVIOUS
    <2>3. PICK pc \in {"removeDir", "unbind"} : Goto(t, pc)
      BY <1>26 DEF purgeBookScopedStorage
    <2>4. /\ task'[t].pc = pc /\ task'[t].book = b /\ pc \notin Waiting
          /\ \A u \in Tasks \ {t} : task'[u] = task[u]
      BY <2>2, <2>3, GotoStep DEF Pcs, LeftInv, SerialInv, TypeInv, Waiting, Deleting
    <2> QED
      BY <2>1, <2>2, <2>4, IdleTask, LeftAt DEF Waiting
  <1>27. CASE undoRow(t)
    <2>1. Busy(t) /\ Goto(t, "undoData") /\ UNCHANGED <<core, remains>>
      BY <1>27 DEF undoRow, Busy, Waiting, stores, history
    <2>2. PICK b : b = task[t].book
      OBVIOUS
    <2>3. /\ task'[t].pc = "undoData" /\ task'[t].book = b
          /\ \A u \in Tasks \ {t} : task'[u] = task[u]
      BY <2>1, <2>2, GotoStep DEF Pcs, LeftInv, SerialInv, TypeInv, Undoing
    <2>4. \A c \in Books \ {b} : ops'[c] = ops[c]
      BY <1>0, <1>27, <2>2 DEF undoRow
    <2> QED
      BY <2>1, <2>2, <2>3, <2>4, IdleTask, LeftAt DEF Waiting, Emptied
  <1>28. CASE undoDirectory(t)
    <2>1. /\ Busy(t) /\ task[t].pc = "undoDir" /\ Return(t) /\ UNCHANGED <<core, remains>>
      BY <1>28 DEF undoDirectory, Busy, Waiting, stores, history
    <2>2. PICK b : b = task[t].book
      OBVIOUS
    <2>3. task'[t] = Idle /\ \A u \in Tasks \ {t} : task'[u] = task[u]
      BY <2>1, ReturnStep DEF LeftInv, SerialInv, TypeInv
    <2>4. \A c \in Books \ {b} : ops'[c] = ops[c]
      BY <1>0, <1>28, <2>2 DEF undoDirectory
    <2>5. b \in remains \/ b \notin core
      BY <1>0, <2>1, <2>2 DEF CoreGone, Emptied
    <2> QED
      BY <2>1, <2>2, <2>3, <2>4, <2>5, IdleTask, LeftAt DEF Waiting, Emptied
  <1>29. CASE deleteRow(t)
    <2>1. /\ Busy(t) /\ task[t].pc = "deleteRow" /\ Return(t) /\ UNCHANGED <<core, remains>>
      BY <1>29 DEF deleteRow, Busy, Waiting, stores, history
    <2>2. PICK b : b = task[t].book
      OBVIOUS
    <2>3. task'[t] = Idle /\ \A u \in Tasks \ {t} : task'[u] = task[u]
      BY <2>1, ReturnStep DEF LeftInv, SerialInv, TypeInv
    <2>4. \A c \in Books \ {b} : ops'[c] = ops[c]
      BY <1>0, <1>29, <2>2 DEF deleteRow
    <2>5. b \in remains \/ b \notin core
      BY <1>0, <2>1, <2>2 DEF CoreGone, Emptied
    <2> QED
      BY <2>1, <2>2, <2>3, <2>4, <2>5, IdleTask, LeftAt DEF Waiting, Emptied
  <1> QED
    BY <1>1, <1>2, <1>3, <1>4, <1>5, <1>6, <1>7, <1>8, <1>9, <1>10, <1>11, <1>12, <1>13, <1>14, <1>15, <1>16, <1>17, <1>18, <1>19, <1>20, <1>21, <1>22, <1>23, <1>24, <1>25, <1>26, <1>27, <1>28, <1>29 DEF TaskStep

\* A failure: before the rows are made nothing is there, after them the undoing
\* comes (but for a failure between the two, which BackfillFails allows).
LEMMA LeftStepFails ==
    ASSUME LeftInv, SerialInv', ~BackfillFails, NEW t \in Tasks, stepFails(t)
    PROVE  LeftInv'
  <1> USE DEF Resuming, Deleting, Unpacking, Registering, Undoing
  <1>1. Busy(t) /\ UNCHANGED <<ops, core, remains>>
    BY DEF stepFails, Busy, Waiting, history
  <1>2. PICK b : b = task[t].book
    OBVIOUS
  <1>3. TaskOK(t) /\ CoreGone(t) /\ task[t].op # None
    BY <1>1, BusyFacts DEF LeftInv
  <1>4. CASE Return(t) /\ task[t].pc \in Resuming \cup Deleting \cup {"unpack", "load"}
    <2>1. task'[t] = Idle /\ \A u \in Tasks \ {t} : task'[u] = task[u]
      BY <1>4, ReturnStep DEF LeftInv, SerialInv, TypeInv
    <2>2. task[t].pc \in Resuming \cup Deleting => ops[b] # None
      BY <1>2, <1>3 DEF TaskOK, CopyOK
    <2>3. task[t].pc \in {"unpack", "load"} => b \in remains \/ b \notin core
      BY <1>2, <1>3 DEF CoreGone, Emptied
    <2> QED
      BY <1>1, <1>2, <1>4, <2>1, <2>2, <2>3, IdleTask, LeftAt DEF Emptied
  <1>5. ASSUME NEW pc \in {"catch", "undoProject", "undoData"}, Goto(t, pc)
        PROVE  LeftInv'
    <2>1. pc \in Pcs \ Emptied
      BY DEF Pcs, Emptied
    <2> QED
      BY <1>1, <1>5, <2>1, QuietGoto
  <1> QED
    BY <1>4, <1>5 DEF stepFails, AfterFailure, GiveUp

\* An undoing that fails leaves a mark.
LEMMA LeftUndoFails ==
    ASSUME LeftInv, SerialInv', NEW t \in Tasks, undoFails(t)
    PROVE  LeftInv'
  <1>1. Busy(t) /\ task[t].pc \in Undoing /\ UNCHANGED <<ops, core>>
        /\ remains' = remains \cup {task[t].book}
    BY DEF undoFails, Busy, Waiting, Undoing, stores
  <1>2. PICK b : b = task[t].book
    OBVIOUS
  <1>3. /\ \A u \in Tasks \ {t} : task'[u] = task[u]
        /\ task'[t] = Idle \/ (task'[t].book = b /\ task'[t].pc \in Undoing)
    <2>1. CASE Return(t)
      BY <2>1, ReturnStep DEF LeftInv, SerialInv, TypeInv
    <2>2. ASSUME NEW pc \in Undoing, Goto(t, pc)
          PROVE  /\ \A u \in Tasks \ {t} : task'[u] = task[u]
                 /\ task'[t].book = b /\ task'[t].pc \in Undoing
      BY <1>2, <2>2, GotoStep DEF LeftInv, SerialInv, TypeInv, Pcs
    <2> QED
      BY <1>1, <2>1, <2>2 DEF undoFails, UndoThen, Undoing
  <1>4. \A pc \in Undoing : pc \notin Waiting
    BY DEF Undoing, Waiting
  <1> QED
    BY <1>1, <1>2, <1>3, <1>4, LeftAt

\* So does an import that is cut off before it has a row.
LEMMA LeftCrash ==
    ASSUME LeftInv, SerialInv', crash
    PROVE  LeftInv'
  <1>1. /\ \A t \in Tasks : task'[t] = Idle
        /\ remains' = remains \cup {b \in Books : Importing(b) /\ ops[b] = None}
        /\ UNCHANGED <<ops, core>>
    BY DEF crash, stores
  <1>2. \A b \in Books : CoreOK(b)'
    BY <1>1 DEF LeftInv, CoreOK
  <1>3. \A t \in Tasks : CoreGone(t)'
    BY <1>1, IdleTask DEF CoreGone, Emptied
  <1> QED
    BY <1>2, <1>3 DEF LeftInv

\* Every step.
LEMMA LeftNext ==
    ASSUME ~OverlappingWork, ~BackfillFails
    PROVE  LeftInv /\ [Next]_vars => LeftInv'
  <1> SUFFICES ASSUME LeftInv, [Next]_vars PROVE LeftInv'
    OBVIOUS
  <1>0. SerialInv /\ SerialInv'
    BY SerialNext DEF LeftInv
  <1>i. \A t \in Tasks : task[t].pc \in Waiting => ~task[t].import
    BY <1>0 DEF SerialInv, TaskOK, RequestOK
  <1>1. ASSUME NEW t \in Tasks, NEW b \in Books, NEW k \in Keys, create(t, b, k)
        PROVE  LeftInv'
    <2>1. ~task[t].import /\ UNCHANGED <<ops, core, remains>>
      BY <1>1, <1>i DEF create, Waiting, stores, history
    <2>2. CASE \E c \in Books : HasKey(c, k) /\ resume(t, c)
      BY <1>0, <2>1, <2>2, LeftResume DEF HasKey
    <2>3. CASE task' = [task EXCEPT ![t] = [Idle EXCEPT !.pc = "check", !.book = b, !.key = k]]
      <3>1. PICK q : q = [Idle EXCEPT !.pc = "check", !.book = b, !.key = k]
        OBVIOUS
      <3>2. q.pc = "check" /\ task' = [task EXCEPT ![t] = q]
        BY <2>3, <3>1 DEF Idle
      <3>3. task'[t].pc = "check" /\ \A u \in Tasks \ {t} : task'[u] = task[u]
        BY <1>0, <3>2 DEF SerialInv, TypeInv, TypeOK
      <3> QED
        BY <1>0, <2>1, <3>3, LeftQuiet DEF Emptied
    <2> QED
      BY <1>1, <2>2, <2>3 DEF create
  <1>2. ASSUME NEW t \in Tasks, NEW b \in Books, NEW k \in Keys, importBookArchive(t, b, k)
        PROVE  LeftInv'
    <2>1. PICK q : /\ q.pc = "unpack" /\ q.book = b /\ q.import
                   /\ task' = [task EXCEPT ![t] = q]
      <3>1. PICK o \in Operations : task' = [task EXCEPT ![t] =
                   [Idle EXCEPT !.pc = "unpack", !.book = b, !.key = k, !.import = TRUE,
                                !.op = Row(o, k, "archive", "filesystem-promoted")]]
        BY <1>2 DEF importBookArchive
      <3>2. PICK q : q = [Idle EXCEPT !.pc = "unpack", !.book = b, !.key = k, !.import = TRUE,
                                      !.op = Row(o, k, "archive", "filesystem-promoted")]
        OBVIOUS
      <3>3. q.pc = "unpack" /\ q.book = b /\ q.import
        BY <3>2 DEF Idle
      <3> QED
        BY <3>1, <3>2, <3>3
    <2>2. task'[t] = q /\ \A u \in Tasks \ {t} : task'[u] = task[u]
      BY <1>0, <2>1 DEF SerialInv, TypeInv, TypeOK
    <2>3. /\ b \notin core /\ UNCHANGED <<ops, core, remains>>
          /\ ~task[t].import
      BY <1>2, <1>i DEF importBookArchive, Fresh, stores, Waiting
    <2>4. \A c \in Books : Importing(c) => Importing(c)'
      BY <2>2, <2>3 DEF Importing
    <2>5. \A c \in Books : CoreOK(c)'
      BY <2>3, <2>4 DEF LeftInv, CoreOK
    <2>6. \A u \in Tasks : CoreGone(u)'
      BY <2>1, <2>2, <2>3 DEF LeftInv, CoreGone
    <2> QED
      BY <1>0, <2>5, <2>6 DEF LeftInv
  <1>3. ASSUME NEW t \in Tasks, NEW b \in Books, retry(t, b)
        PROVE  LeftInv'
    BY <1>0, <1>3, <1>i, LeftResume DEF retry, Waiting, stores, history
  <1>4. ASSUME NEW t \in Tasks, NEW b \in Books, claim(t, b)
        PROVE  LeftInv'
    <2>1. PICK o \in Operations : Insert(t, b, Row(o, None, "claim", "filesystem-promoted"))
      BY <1>4 DEF claim
    <2>2. PICK r : r = Row(o, None, "claim", "filesystem-promoted")
      OBVIOUS
    <2>3. r \in Operation
      BY <2>2, NewRow DEF ProvisionState
    <2>4. ~task[t].import /\ UNCHANGED <<core, remains>>
      BY <1>4, <1>i DEF claim, Waiting, stores
    <2> QED
      BY <1>0, <2>1, <2>2, <2>3, <2>4, LeftInsert
  <1>5. ASSUME NEW t \in Tasks, NEW b \in Books, deleteBook(t, b)
        PROVE  LeftInv'
    <2>1. PICK q : q = [Idle EXCEPT !.pc = "deleteProject", !.book = b,
                                    !.op = ops[b], !.owned = dir[b] # None]
      OBVIOUS
    <2>2. q.pc = "deleteProject" /\ task' = [task EXCEPT ![t] = q]
      BY <1>5, <2>1 DEF deleteBook, Idle
    <2>3. task'[t].pc = "deleteProject" /\ \A u \in Tasks \ {t} : task'[u] = task[u]
      BY <1>0, <2>2 DEF SerialInv, TypeInv, TypeOK
    <2>4. ~task[t].import /\ UNCHANGED <<ops, core, remains>>
      BY <1>5, <1>i DEF deleteBook, Waiting, stores, history
    <2> QED
      BY <1>0, <2>3, <2>4, LeftQuiet DEF Emptied
  <1>6. ASSUME NEW t \in Tasks, TaskStep(t)
        PROVE  LeftInv'
    BY <1>0, <1>6, LeftTaskStep
  <1>7. ASSUME NEW t \in Tasks, stepFails(t) \/ undoFails(t)
        PROVE  LeftInv'
    BY <1>0, <1>7, LeftStepFails, LeftUndoFails
  <1>8. CASE crash
    BY <1>0, <1>8, LeftCrash
  <1>9. CASE UNCHANGED <<ops, core, task, remains>>
    BY <1>0, <1>9 DEF LeftInv, CoreOK, CoreGone, Importing
  <1>10. ASSUME NEW b \in Books, oldBookAppears(b)
         PROVE  LeftInv'
    BY <1>9, <1>10 DEF oldBookAppears, history
  <1>11. CASE UNCHANGED vars
    BY <1>9, <1>11 DEF vars, history
  <1> QED
    BY <1>1, <1>2, <1>3, <1>4, <1>5, <1>6, <1>7, <1>8, <1>10, <1>11 DEF Next

\* When a book's row is gone nothing of the book is left in any store, whatever
\* failed on the way, except what an undoing that itself failed had to leave
\* (deleteBook and compensateArchiveImport; the row goes after the rest).
THEOREM NothingIsLeft ==
    ASSUME ~OverlappingWork, ~BackfillFails
    PROVE  Spec => []NothingLeftBehind
  <1>1. Init => LeftInv
    <2> SUFFICES ASSUME Init PROVE LeftInv
      OBVIOUS
    <2>1. SerialInv
      BY SerialInit
    <2>2. \A b \in Books : CoreOK(b)
      BY DEF Init, CoreOK
    <2>3. \A t \in Tasks : CoreGone(t)
      BY DEF Init, CoreGone
    <2> QED
      BY <2>1, <2>2, <2>3 DEF LeftInv
  <1>2. LeftInv /\ [Next]_vars => LeftInv'
    BY LeftNext
  <1>3. LeftInv => NothingLeftBehind
    <2> SUFFICES ASSUME LeftInv, NEW b \in Books \ remains, ops[b] = None, ~Importing(b)
                 PROVE  /\ ProjectsOf(b) = {} /\ binding[b] = None /\ b \notin core
                        /\ dir[b] \in {None, Legacy}
      BY DEF NothingLeftBehind
    <2>1. NothingUnnamed(b) /\ CoreOK(b)
      BY DEF LeftInv, SerialInv, BookOK
    <2> QED
      BY <2>1 DEF NothingUnnamed, CoreOK, ProjectsOf
  <1> QED
    BY <1>1, <1>2, <1>3, PTL DEF Spec
=============================================================================

--------------------------- MODULE BookLock_proofs ---------------------------
(***************************************************************************)
(* Safety of a book's write lock, for any number of tasks, processes and   *)
(* attempts.  As long as reclaims do not overlap, the file at the path is  *)
(* the holder's own from the moment it is made until it is deleted, and    *)
(* whoever reclaims takes away what it has judged (LockInv); so it never   *)
(* comes to putting a file back.  Processes may die between any two file   *)
(* operations, and writing and deleting may fail.                          *)
(***************************************************************************)
EXTENDS BookLock, TLAPS

\* Who looks at the file it has moved away has moved one, and who is at work runs.
TypeInv ==
    /\ TypeOK
    /\ \A t \in Tasks :
          /\ pc[t] = "check" => claim[t] \in Files
          /\ pc[t] \in {"held"} \cup AtWork => Process[t] \in alive

\* A task has made the lock file, or is about to write it, use it or delete it.
Owning == {"write", "undo", "held", "release", "unlink"}

\* The file a task would make in a round it has not come to, or has not made one in.
Unmade(f) ==
    \/ attempt[f[1]] < f[2]
    \/ attempt[f[1]] = f[2] /\ pc[f[1]] \in {"idle", "create", "judge"} \cup Reclaiming

FilesOK ==
    /\ lock # None => ~ Unmade(lock)
    /\ \A f \in Files : Unmade(f) => content[f] = Blank

\* Who owns the lock: its file is at the path, and looks like it.
OwnerOK(t) ==
    pc[t] \in Owning =>
        /\ lock = NewFile(t)
        /\ t \in held /\ Process[t] \in alive
        /\ pc[t] \in {"write", "undo"} => content[lock] = Blank /\ ~ aged
        /\ pc[t] \notin {"write", "undo"} => content[lock] = t

\* Who reclaims a lock: it is still the one that was judged, nobody's, and
\* nobody has to put back a file moved away by mistake.
ReclaimerOK(t) ==
    /\ pc[t] \notin {"restore", "fill"}
    /\ pc[t] \in {"reread", "rename"} =>
          /\ lock # None /\ content[lock] = raw[t]
          /\ \A u \in Tasks : pc[u] \notin Owning
    /\ pc[t] = "check" =>
          /\ claim[t] \in Files \ {lock} /\ ~ Unmade(claim[t])
          /\ content[claim[t]] = raw[t]

OneReclaimer ==
    \A t, u \in Tasks : pc[t] \in Reclaiming /\ pc[u] \in Reclaiming => t = u

LockInv ==
    /\ TypeInv /\ FilesOK /\ OneReclaimer
    /\ \A t \in Tasks : OwnerOK(t) /\ ReclaimerOK(t)

----------------------------------------------------------------------------

\* At the start every task is idle and in its first round.
LEMMA TypeInit == Init => TypeInv
  <1> SUFFICES ASSUME Init PROVE TypeInv
    OBVIOUS
  <1>1. 1 \in 1..MaxAttempts
    BY BookLockAssumption
  <1>2. attempt \in [Tasks -> 1..MaxAttempts] /\ claim \in [Tasks -> Files \cup {None}]
    BY <1>1 DEF Init
  <1> QED
    BY <1>2 DEF Init, TypeOK, TypeInv, AtWork, Reclaiming

\* Every step of every task keeps the types.
LEMMA TypeStep ==
    ASSUME TypeInv, NEW t \in Tasks,
           \/ Begin(t) \/ Create(t) \/ WriteToken(t) \/ WriteFails(t) \/ Undo(t)
           \/ Judge(t) \/ Reread(t) \/ Rename(t) \/ Check(t)
           \/ Restore(t) \/ Fill(t) \/ Drop(t)
           \/ Release(t) \/ ReadOwn(t) \/ Unlink(t)
    PROVE  TypeOK'
  <1>1. attempt[t] \in 1..MaxAttempts /\ NewFile(t) \in Files /\ MaxAttempts \in Nat
    BY BookLockAssumption DEF TypeInv, TypeOK, NewFile, Files
  <1>2. ASSUME NEW l \in {"held"} \cup AtWork \cup Ended, Goto(t, l)
        PROVE  pc' \in [Tasks -> {"idle", "held"} \cup AtWork \cup Ended]
    BY <1>2 DEF TypeInv, TypeOK, Goto
  <1>3. ASSUME Again(t)
        PROVE  /\ pc' \in [Tasks -> {"idle", "held"} \cup AtWork \cup Ended]
               /\ attempt' \in [Tasks -> 1..MaxAttempts]
    <2>1. CASE attempt[t] < MaxAttempts
      <3>1. attempt[t] + 1 \in 1..MaxAttempts
        BY <1>1, <2>1
      <3>2. Goto(t, "create") /\ attempt' = [attempt EXCEPT ![t] = attempt[t] + 1]
        BY <1>3, <2>1 DEF Again
      <3> QED
        BY <3>1, <3>2, <1>2 DEF TypeInv, TypeOK, AtWork
    <2>2. CASE ~ (attempt[t] < MaxAttempts)
      BY <1>2, <1>3, <2>2 DEF TypeInv, TypeOK, Again, Ended
    <2> QED
      BY <2>1, <2>2
  <1>4. CASE Begin(t)
    BY <1>1, <1>2, <1>4 DEF Begin, TypeInv, TypeOK, AtWork, Reclaiming, Ended, local
  <1>5. CASE Create(t)
    BY <1>1, <1>2, <1>5 DEF Create, TypeInv, TypeOK, AtWork, Reclaiming, Ended, local
  <1>6. CASE WriteToken(t)
    BY <1>1, <1>2, <1>6 DEF WriteToken, TypeInv, TypeOK, AtWork, Reclaiming, Ended, local
  <1>7. CASE WriteFails(t)
    BY <1>1, <1>2, <1>7 DEF WriteFails, TypeInv, TypeOK, AtWork, Reclaiming, Ended, local
  <1>8. CASE Undo(t)
    BY <1>1, <1>2, <1>8 DEF Undo, TypeInv, TypeOK, AtWork, Reclaiming, Ended, local
  <1>9. CASE Judge(t)
    BY <1>1, <1>2, <1>3, <1>9 DEF Judge, TypeInv, TypeOK, AtWork, Reclaiming, Ended, local
  <1>10. CASE Reread(t)
    BY <1>1, <1>2, <1>3, <1>10 DEF Reread, TypeInv, TypeOK, AtWork, Reclaiming, Ended, local
  <1>11. CASE Rename(t)
    BY <1>1, <1>2, <1>3, <1>11 DEF Rename, TypeInv, TypeOK, AtWork, Reclaiming, Ended, local
  <1>12. CASE Check(t)
    BY <1>1, <1>2, <1>12 DEF Check, TypeInv, TypeOK, AtWork, Reclaiming, Ended, local
  <1>13. CASE Restore(t)
    BY <1>1, <1>2, <1>13 DEF Restore, TypeInv, TypeOK, AtWork, Reclaiming, Ended, local
  <1>14. CASE Fill(t)
    BY <1>1, <1>2, <1>14 DEF Fill, TypeInv, TypeOK, AtWork, Reclaiming, Ended, local
  <1>15. CASE Drop(t)
    BY <1>1, <1>2, <1>3, <1>15 DEF Drop, TypeInv, TypeOK, AtWork, Reclaiming, Ended, local
  <1>16. CASE Release(t)
    BY <1>1, <1>2, <1>16 DEF Release, TypeInv, TypeOK, AtWork, Reclaiming, Ended, local
  <1>17. CASE ReadOwn(t)
    BY <1>1, <1>2, <1>17 DEF ReadOwn, TypeInv, TypeOK, AtWork, Reclaiming, Ended, local
  <1>18. CASE Unlink(t)
    BY <1>1, <1>2, <1>18 DEF Unlink, TypeInv, TypeOK, AtWork, Reclaiming, Ended, local
  <1> QED
    BY <1>4, <1>5, <1>6, <1>7, <1>8, <1>9, <1>10, <1>11, <1>12, <1>13, <1>14, <1>15, <1>16,
       <1>17, <1>18

\* The same of a whole step of the system.
LEMMA TypeNext == TypeInv /\ [Next]_vars => TypeInv'
  <1> SUFFICES ASSUME TypeInv, [Next]_vars PROVE TypeInv'
    OBVIOUS
  <1>1. ASSUME NEW t \in Tasks, Begin(t) PROVE TypeInv'
    <2>1. TypeOK'
      BY <1>1, TypeStep
    <2> QED
      BY <1>1, <2>1 DEF Begin, TypeInv, TypeOK, Goto, AtWork, Reclaiming
  <1>2. ASSUME NEW t \in Tasks, Create(t) PROVE TypeInv'
    <2>1. TypeOK'
      BY <1>2, TypeStep
    <2> QED
      BY <1>2, <2>1 DEF Create, TypeInv, TypeOK, Goto, AtWork, Reclaiming
  <1>3. ASSUME NEW t \in Tasks, WriteToken(t) PROVE TypeInv'
    <2>1. TypeOK'
      BY <1>3, TypeStep
    <2> QED
      BY <1>3, <2>1 DEF WriteToken, TypeInv, TypeOK, Goto, AtWork, Reclaiming
  <1>4. ASSUME NEW t \in Tasks, WriteFails(t) PROVE TypeInv'
    <2>1. TypeOK'
      BY <1>4, TypeStep
    <2> QED
      BY <1>4, <2>1 DEF WriteFails, TypeInv, TypeOK, Goto, AtWork, Reclaiming
  <1>5. ASSUME NEW t \in Tasks, Undo(t) PROVE TypeInv'
    <2>1. TypeOK'
      BY <1>5, TypeStep
    <2> QED
      BY <1>5, <2>1 DEF Undo, TypeInv, TypeOK, Goto, AtWork, Reclaiming
  <1>6. ASSUME NEW t \in Tasks, Judge(t) PROVE TypeInv'
    <2>1. TypeOK'
      BY <1>6, TypeStep
    <2> QED
      BY <1>6, <2>1 DEF Judge, TypeInv, TypeOK, Goto, AtWork, Reclaiming, Again
  <1>7. ASSUME NEW t \in Tasks, Reread(t) PROVE TypeInv'
    <2>1. TypeOK'
      BY <1>7, TypeStep
    <2> QED
      BY <1>7, <2>1 DEF Reread, TypeInv, TypeOK, Goto, AtWork, Reclaiming, Again
  <1>8. ASSUME NEW t \in Tasks, Rename(t) PROVE TypeInv'
    <2>1. TypeOK'
      BY <1>8, TypeStep
    <2> QED
      BY <1>8, <2>1 DEF Rename, TypeInv, TypeOK, Goto, AtWork, Reclaiming, Again
  <1>9. ASSUME NEW t \in Tasks, Check(t) PROVE TypeInv'
    <2>1. TypeOK'
      BY <1>9, TypeStep
    <2> QED
      BY <1>9, <2>1 DEF Check, TypeInv, TypeOK, Goto, AtWork, Reclaiming
  <1>10. ASSUME NEW t \in Tasks, Restore(t) PROVE TypeInv'
    <2>1. TypeOK'
      BY <1>10, TypeStep
    <2> QED
      BY <1>10, <2>1 DEF Restore, TypeInv, TypeOK, Goto, AtWork, Reclaiming
  <1>11. ASSUME NEW t \in Tasks, Fill(t) PROVE TypeInv'
    <2>1. TypeOK'
      BY <1>11, TypeStep
    <2> QED
      BY <1>11, <2>1 DEF Fill, TypeInv, TypeOK, Goto, AtWork, Reclaiming
  <1>12. ASSUME NEW t \in Tasks, Drop(t) PROVE TypeInv'
    <2>1. TypeOK'
      BY <1>12, TypeStep
    <2> QED
      BY <1>12, <2>1 DEF Drop, TypeInv, TypeOK, Goto, AtWork, Reclaiming, Again
  <1>13. ASSUME NEW t \in Tasks, Release(t) PROVE TypeInv'
    <2>1. TypeOK'
      BY <1>13, TypeStep
    <2> QED
      BY <1>13, <2>1 DEF Release, TypeInv, TypeOK, Goto, AtWork, Reclaiming
  <1>14. ASSUME NEW t \in Tasks, ReadOwn(t) PROVE TypeInv'
    <2>1. TypeOK'
      BY <1>14, TypeStep
    <2> QED
      BY <1>14, <2>1 DEF ReadOwn, TypeInv, TypeOK, Goto, AtWork, Reclaiming
  <1>15. ASSUME NEW t \in Tasks, Unlink(t) PROVE TypeInv'
    <2>1. TypeOK'
      BY <1>15, TypeStep
    <2> QED
      BY <1>15, <2>1 DEF Unlink, TypeInv, TypeOK, Goto, AtWork, Reclaiming
  <1>16. ASSUME NEW p \in Processes, Crash(p) PROVE TypeInv'
    BY <1>16 DEF Crash, TypeInv, TypeOK, Ended, AtWork, Reclaiming
  <1>17. CASE Minute
    BY <1>17 DEF Minute, TypeInv, TypeOK, local
  <1>18. CASE UNCHANGED vars
    BY <1>18 DEF TypeInv, TypeOK, vars, local
  <1> QED
    BY <1>1, <1>2, <1>3, <1>4, <1>5, <1>6, <1>7, <1>8, <1>9, <1>10, <1>11, <1>12, <1>13,
       <1>14, <1>15, <1>16, <1>17, <1>18 DEF Next

\* The lock file, what every task has in hand and what the processes have on
\* record keep their types in every order of the file operations.
THEOREM LockTypeCorrect == Spec => []TypeOK
  <1>1. TypeInv => TypeOK
    BY DEF TypeInv
  <1> QED
    BY <1>1, TypeInit, TypeNext, PTL DEF Spec

----------------------------------------------------------------------------

\* A token is on record only while its task has a file to answer for.
RecordInv == TypeInv /\ \A t \in held : pc[t] \in Owning

\* Every way out of owning a lock takes the token off the record.
LEMMA RecordNext == RecordInv /\ [Next]_vars => RecordInv'
  <1> SUFFICES ASSUME RecordInv, [Next]_vars PROVE \A t \in held' : pc'[t] \in Owning
    BY TypeNext DEF RecordInv
  <1> USE DEF RecordInv, TypeInv, TypeOK, Owning, Goto
  <1>1. ASSUME NEW t \in Tasks, Begin(t) PROVE \A u \in held' : pc'[u] \in Owning
    BY <1>1 DEF Begin
  <1>2. ASSUME NEW t \in Tasks, Create(t) PROVE \A u \in held' : pc'[u] \in Owning
    BY <1>2 DEF Create
  <1>3. ASSUME NEW t \in Tasks, WriteToken(t) PROVE \A u \in held' : pc'[u] \in Owning
    BY <1>3 DEF WriteToken
  <1>4. ASSUME NEW t \in Tasks, WriteFails(t) PROVE \A u \in held' : pc'[u] \in Owning
    BY <1>4 DEF WriteFails
  <1>5. ASSUME NEW t \in Tasks, Undo(t) PROVE \A u \in held' : pc'[u] \in Owning
    BY <1>5 DEF Undo
  <1>6. ASSUME NEW t \in Tasks, Judge(t) PROVE \A u \in held' : pc'[u] \in Owning
    BY <1>6 DEF Judge, Again
  <1>7. ASSUME NEW t \in Tasks, Reread(t) PROVE \A u \in held' : pc'[u] \in Owning
    BY <1>7 DEF Reread, Again
  <1>8. ASSUME NEW t \in Tasks, Rename(t) PROVE \A u \in held' : pc'[u] \in Owning
    BY <1>8 DEF Rename, Again
  <1>9. ASSUME NEW t \in Tasks, Check(t) PROVE \A u \in held' : pc'[u] \in Owning
    BY <1>9 DEF Check
  <1>10. ASSUME NEW t \in Tasks, Restore(t) PROVE \A u \in held' : pc'[u] \in Owning
    BY <1>10 DEF Restore
  <1>11. ASSUME NEW t \in Tasks, Fill(t) PROVE \A u \in held' : pc'[u] \in Owning
    BY <1>11 DEF Fill
  <1>12. ASSUME NEW t \in Tasks, Drop(t) PROVE \A u \in held' : pc'[u] \in Owning
    BY <1>12 DEF Drop, Again
  <1>13. ASSUME NEW t \in Tasks, Release(t) PROVE \A u \in held' : pc'[u] \in Owning
    BY <1>13 DEF Release
  <1>14. ASSUME NEW t \in Tasks, ReadOwn(t) PROVE \A u \in held' : pc'[u] \in Owning
    BY <1>14 DEF ReadOwn
  <1>15. ASSUME NEW t \in Tasks, Unlink(t) PROVE \A u \in held' : pc'[u] \in Owning
    BY <1>15 DEF Unlink
  <1>16. ASSUME NEW p \in Processes, Crash(p) PROVE \A u \in held' : pc'[u] \in Owning
    BY <1>16 DEF Crash
  <1>17. CASE Minute
    BY <1>17 DEF Minute, local
  <1>18. CASE UNCHANGED vars
    BY <1>18 DEF vars, local
  <1> QED
    BY <1>1, <1>2, <1>3, <1>4, <1>5, <1>6, <1>7, <1>8, <1>9, <1>10, <1>11, <1>12, <1>13,
       <1>14, <1>15, <1>16, <1>17, <1>18 DEF Next

\* No self-lock: within one process a lock that was given up, deleted or not,
\* turns nobody away, in whatever order tasks acquire, reclaim and release.
THEOREM NoSelfLock ==
    ASSUME \A t, u \in Tasks : Process[t] = Process[u]
    PROVE  Spec => RefusedForACause
  <1>1. Init => RecordInv
    BY TypeInit DEF Init, RecordInv
  <1>2. ASSUME RecordInv, NEW t \in Tasks, Judge(t), pc'[t] = "refused"
        PROVE  \/ \E u \in Tasks \ {t} : pc[u] \in {"held"} \cup AtWork
               \/ content[lock] = Blank /\ ~ aged
    <2>1. pc[t] = "judge" /\ lock # None /\ ~ Stale(t, content[lock])
      BY <1>2 DEF Judge, Again, Goto, RecordInv, TypeInv, TypeOK
    <2>2. lock \in Files /\ content[lock] \in Tasks \cup {Blank}
      BY <1>2, <2>1 DEF RecordInv, TypeInv, TypeOK
    <2>3. CASE content[lock] = Blank
      BY <2>1, <2>3 DEF Stale
    <2>4. CASE content[lock] # Blank
      <3>1. content[lock] \in Tasks /\ content[lock] \in held
        BY <2>1, <2>2, <2>4 DEF Stale
      <3>2. pc[content[lock]] \in Owning
        BY <1>2, <3>1 DEF RecordInv
      <3> QED
        BY <2>1, <3>1, <3>2 DEF Owning, AtWork
    <2> QED
      BY <2>3, <2>4
  <1>3. RecordInv /\ [Next]_vars =>
          [\A t \in Tasks : Judge(t) /\ pc'[t] = "refused" =>
              \/ \E u \in Tasks \ {t} : pc[u] \in {"held"} \cup AtWork
              \/ content[lock] = Blank /\ ~ aged]_vars
    BY <1>2
  <1> QED
    BY <1>1, <1>3, RecordNext, PTL DEF Spec, RefusedForACause

----------------------------------------------------------------------------

\* At the start there is no lock file and nobody at work.
LEMMA LockInit == Init => LockInv
  <1> SUFFICES ASSUME Init PROVE LockInv
    OBVIOUS
  <1>1. TypeInv
    BY TypeInit
  <1> QED
    BY <1>1 DEF Init, LockInv, TypeInv, TypeOK, FilesOK, OneReclaimer, OwnerOK, ReclaimerOK,
       Owning, Reclaiming,
             Files

\* A file is told from every other by the task and the round that made it.
LEMMA OwnFile ==
    ASSUME TypeInv, NEW t \in Tasks
    PROVE  /\ NewFile(t) \in Files /\ NewFile(t) # None
           /\ NewFile(t)[1] = t /\ NewFile(t)[2] = attempt[t]
           /\ \A u \in Tasks : NewFile(t) = NewFile(u) => t = u
           /\ \A f \in Files : f[1] \in Tasks /\ f[2] \in Nat /\ (f[1] = t /\ f[2] = attempt[t] => f = NewFile(t))
  BY BookLockAssumption DEF TypeInv, TypeOK, NewFile, Files

\* Only one task at a time answers for the lock.
LEMMA OneOwner ==
    ASSUME LockInv, NEW t \in Tasks, NEW u \in Tasks, pc[t] \in Owning, pc[u] \in Owning
    PROVE  t = u
  BY OwnFile DEF LockInv, OwnerOK

\* Another round disturbs nobody.
LEMMA AgainStep ==
    ASSUME LockInv, NEW t \in Tasks, pc[t] \in {"judge"} \cup Reclaiming, Again(t),
           UNCHANGED <<lock, aged, content, held, raw, alive>>,
           claim' = claim \/ claim' = [claim EXCEPT ![t] = None]
    PROVE  /\ FilesOK' /\ OneReclaimer'
           /\ \A u \in Tasks : OwnerOK(u)' /\ ReclaimerOK(u)'
  <1>1. \/ pc'[t] = "create" /\ attempt'[t] = attempt[t] + 1
        \/ pc'[t] = "gave up" /\ attempt'[t] = attempt[t]
    BY DEF Again, Goto, LockInv, TypeInv, TypeOK
  <1>2. \A u \in Tasks \ {t} : pc'[u] = pc[u] /\ attempt'[u] = attempt[u] /\ claim'[u] = claim[u]
    BY DEF Again, Goto, LockInv, TypeInv, TypeOK
  <1>3. ASSUME NEW f \in Files, Unmade(f)' PROVE Unmade(f)
    <2>1. f[1] \in Tasks /\ f[2] \in Nat /\ attempt[f[1]] \in Nat
      BY BookLockAssumption DEF Files, LockInv, TypeInv, TypeOK
    <2>2. CASE f[1] = t
      <3>1. CASE pc'[t] = "create" /\ attempt'[t] = attempt[t] + 1
        BY <1>3, <2>1, <2>2, <3>1 DEF Unmade
      <3>2. CASE pc'[t] = "gave up" /\ attempt'[t] = attempt[t]
        <4>1. attempt'[f[1]] < f[2]
          BY <1>3, <2>2, <3>2 DEF Unmade, Reclaiming
        <4> QED
          BY <2>2, <3>2, <4>1 DEF Unmade
      <3> QED
        BY <1>1, <3>1, <3>2
    <2>3. CASE f[1] # t
      BY <1>2, <1>3, <2>1, <2>3 DEF Unmade
    <2> QED
      BY <2>2, <2>3
  <1>4. FilesOK'
    BY <1>3 DEF FilesOK, LockInv, TypeInv, TypeOK
  <1>5. OneReclaimer'
    BY <1>1, <1>2 DEF OneReclaimer, LockInv, Reclaiming
  <1>6. ASSUME NEW u \in Tasks PROVE OwnerOK(u)'
    BY <1>1, <1>2 DEF OwnerOK, LockInv, Owning, NewFile
  <1>7. ASSUME NEW u \in Tasks PROVE ReclaimerOK(u)'
    <2>1. CASE u = t
      BY <1>1, <2>1 DEF ReclaimerOK
    <2>2. CASE u # t
      BY <1>1, <1>2, <1>3, <2>2 DEF ReclaimerOK, LockInv, Owning
    <2> QED
      BY <2>1, <2>2
  <1> QED
    BY <1>4, <1>5, <1>6, <1>7

\* One step at a time: what makes and deletes the file is the owner, what moves
\* it away is the one reclaimer, and neither begins while the other is there.
LEMMA LockNext ==
    ASSUME ~ OverlappingReclaims
    PROVE  LockInv /\ [Next]_vars => LockInv'
  <1> SUFFICES ASSUME LockInv, [Next]_vars PROVE LockInv'
    OBVIOUS
  <1>0. TypeInv /\ TypeOK /\ TypeInv'
    BY TypeNext DEF LockInv, TypeInv
  <1> USE DEF Owning, Reclaiming
  <1>1. ASSUME NEW t \in Tasks, Begin(t) PROVE LockInv'
    <2>1. FilesOK'
      BY <1>0, <1>1, OwnFile DEF Begin, Goto, LockInv, TypeInv, TypeOK, FilesOK, Unmade, OwnerOK
    <2>2. OneReclaimer'
      BY <1>0, <1>1 DEF Begin, Goto, LockInv, TypeInv, TypeOK, OneReclaimer
    <2>3. ASSUME NEW u \in Tasks PROVE OwnerOK(u)'
      BY <1>0, <1>1, OwnFile, OneOwner DEF Begin, Goto, LockInv, TypeInv, TypeOK, OwnerOK,
         NewFile
    <2>4. ASSUME NEW u \in Tasks PROVE ReclaimerOK(u)'
      BY <1>0, <1>1, OwnFile DEF Begin, Goto, LockInv, TypeInv, TypeOK, ReclaimerOK,
         OwnerOK, FilesOK, Unmade
    <2> QED
      BY <1>0, <2>1, <2>2, <2>3, <2>4 DEF LockInv
  <1>2. ASSUME NEW t \in Tasks, Create(t) PROVE LockInv'
    <2>1. CASE lock # None
      <3>1. pc[t] = "create" /\ pc' = [pc EXCEPT ![t] = "judge"] /\ UNCHANGED <<lock, aged, content, held, attempt, raw, claim, alive>>
        BY <1>2, <2>1 DEF Create, Goto
      <3>2. FilesOK' /\ OneReclaimer'
        BY <3>1 DEF FilesOK, Unmade, OneReclaimer, LockInv, TypeInv, TypeOK
      <3>3. ASSUME NEW u \in Tasks PROVE OwnerOK(u)' /\ ReclaimerOK(u)'
        BY <3>1 DEF OwnerOK, NewFile, ReclaimerOK, Unmade, LockInv, TypeInv, TypeOK
      <3> QED
        BY <1>0, <3>2, <3>3 DEF LockInv
    <2>2. CASE lock = None
      <3>1. /\ pc[t] = "create" /\ pc' = [pc EXCEPT ![t] = "write"]
            /\ lock' = NewFile(t) /\ ~ aged' /\ held' = held \cup {t}
            /\ UNCHANGED <<content, attempt, raw, claim, alive>>
        BY <1>2, <2>2 DEF Create, Goto
      <3>2. \A u \in Tasks : pc[u] \notin Owning
        BY <2>2, OwnFile DEF LockInv, OwnerOK
      <3>3. Unmade(NewFile(t)) /\ content[NewFile(t)] = Blank
        BY <3>1, OwnFile DEF Unmade, FilesOK, LockInv
      <3>4. ~ Unmade(NewFile(t))'
        <4>1. NewFile(t)[1] = t /\ NewFile(t)[2] = attempt[t] /\ attempt[t] \in Nat
          BY OwnFile, BookLockAssumption DEF LockInv, TypeInv, TypeOK
        <4>2. NewFile(t)' = NewFile(t) /\ attempt' = attempt /\ pc'[t] = "write"
          BY <3>1 DEF NewFile, LockInv, TypeInv, TypeOK
        <4> QED
          BY <4>1, <4>2 DEF Unmade, Reclaiming
      <3>5. FilesOK' /\ OneReclaimer'
        BY <3>1, <3>3, <3>4, OwnFile DEF FilesOK, Unmade, OneReclaimer, LockInv, TypeInv, TypeOK
      <3>6. Process[t] \in alive
        BY <1>0, <3>1 DEF TypeInv, AtWork
      <3>7. ASSUME NEW u \in Tasks PROVE OwnerOK(u)'
        BY <3>1, <3>2, <3>3, <3>6 DEF OwnerOK, NewFile, LockInv, TypeInv, TypeOK
      <3>8. ASSUME NEW u \in Tasks PROVE ReclaimerOK(u)'
        BY <2>2, <3>1, <3>3, OwnFile DEF ReclaimerOK, Unmade, LockInv, TypeInv, TypeOK
      <3> QED
        BY <1>0, <3>5, <3>7, <3>8 DEF LockInv
    <2> QED
      BY <2>1, <2>2
  <1>3. ASSUME NEW t \in Tasks, WriteToken(t) PROVE LockInv'
    <2>1. FilesOK'
      BY <1>0, <1>3, OwnFile DEF WriteToken, Goto, LockInv, TypeInv, TypeOK, FilesOK,
         Unmade, OwnerOK
    <2>2. OneReclaimer'
      BY <1>0, <1>3 DEF WriteToken, Goto, LockInv, TypeInv, TypeOK, OneReclaimer
    <2>3. ASSUME NEW u \in Tasks PROVE OwnerOK(u)'
      BY <1>0, <1>3, OwnFile, OneOwner DEF WriteToken, Goto, LockInv, TypeInv, TypeOK,
         OwnerOK, NewFile
    <2>4. ASSUME NEW u \in Tasks PROVE ReclaimerOK(u)'
      BY <1>0, <1>3, OwnFile DEF WriteToken, Goto, LockInv, TypeInv, TypeOK, ReclaimerOK,
         OwnerOK, FilesOK, Unmade
    <2> QED
      BY <1>0, <2>1, <2>2, <2>3, <2>4 DEF LockInv
  <1>4. ASSUME NEW t \in Tasks, WriteFails(t) PROVE LockInv'
    <2>1. FilesOK'
      BY <1>0, <1>4, OwnFile DEF WriteFails, Goto, LockInv, TypeInv, TypeOK, FilesOK,
         Unmade, OwnerOK
    <2>2. OneReclaimer'
      BY <1>0, <1>4 DEF WriteFails, Goto, LockInv, TypeInv, TypeOK, OneReclaimer
    <2>3. ASSUME NEW u \in Tasks PROVE OwnerOK(u)'
      BY <1>0, <1>4, OwnFile, OneOwner DEF WriteFails, Goto, LockInv, TypeInv, TypeOK,
         OwnerOK, NewFile
    <2>4. ASSUME NEW u \in Tasks PROVE ReclaimerOK(u)'
      BY <1>0, <1>4, OwnFile DEF WriteFails, Goto, LockInv, TypeInv, TypeOK, ReclaimerOK,
         OwnerOK, FilesOK, Unmade
    <2> QED
      BY <1>0, <2>1, <2>2, <2>3, <2>4 DEF LockInv
  <1>5. ASSUME NEW t \in Tasks, Undo(t) PROVE LockInv'
    <2>1. FilesOK'
      BY <1>0, <1>5, OwnFile DEF Undo, Goto, LockInv, TypeInv, TypeOK, FilesOK, Unmade, OwnerOK
    <2>2. OneReclaimer'
      BY <1>0, <1>5 DEF Undo, Goto, LockInv, TypeInv, TypeOK, OneReclaimer
    <2>3. ASSUME NEW u \in Tasks PROVE OwnerOK(u)'
      BY <1>0, <1>5, OwnFile, OneOwner DEF Undo, Goto, LockInv, TypeInv, TypeOK, OwnerOK,
         NewFile
    <2>4. ASSUME NEW u \in Tasks PROVE ReclaimerOK(u)'
      BY <1>0, <1>5, OwnFile, BookLockAssumption DEF Undo, Goto, LockInv, TypeInv, TypeOK,
         ReclaimerOK, OwnerOK, FilesOK, Unmade
    <2> QED
      BY <1>0, <2>1, <2>2, <2>3, <2>4 DEF LockInv
  <1>6. ASSUME NEW t \in Tasks, Judge(t) PROVE LockInv'
    <2>1. CASE Again(t) /\ UNCHANGED <<lock, aged, content, held, raw, claim, alive>>
      BY <1>0, <1>6, <2>1, AgainStep DEF Judge, LockInv
    <2>2. CASE Goto(t, "refused") /\ UNCHANGED <<attempt, lock, aged, content, held, raw, claim, alive>>
      <3>1. pc[t] = "judge" /\ pc' = [pc EXCEPT ![t] = "refused"]
        BY <1>6, <2>2 DEF Judge, Goto
      <3>2. FilesOK'
        BY <2>2, <3>1 DEF FilesOK, Unmade, LockInv, TypeInv, TypeOK
      <3>3. OneReclaimer' /\ (\A u \in Tasks : OwnerOK(u)')
        BY <2>2, <3>1 DEF OneReclaimer, OwnerOK, NewFile, LockInv, TypeInv, TypeOK
      <3>4. ASSUME NEW u \in Tasks PROVE ReclaimerOK(u)'
        BY <2>2, <3>1 DEF ReclaimerOK, Unmade, LockInv, TypeInv, TypeOK
      <3> QED
        BY <1>0, <3>2, <3>3, <3>4 DEF LockInv
    <2>3. CASE /\ lock # None /\ Stale(t, content[lock])
               /\ raw' = [raw EXCEPT ![t] = content[lock]] /\ pc' = [pc EXCEPT ![t] = "reread"]
      <3>1. /\ lock \in Files /\ pc[t] = "judge"
            /\ \A u \in Tasks : pc[u] \notin Reclaiming
            /\ UNCHANGED <<lock, aged, content, held, attempt, claim, alive>>
        BY <1>6, <2>3 DEF Judge, LockInv, TypeInv, TypeOK, Again, Goto
      <3>2. ASSUME NEW u \in Tasks, pc[u] \in Owning PROVE FALSE
        <4>1. lock = NewFile(u) /\ u \in held /\ Process[u] \in alive
          BY <3>2 DEF LockInv, OwnerOK
        <4>2. (content[lock] = Blank /\ ~ aged) \/ content[lock] = u
          BY <3>2 DEF LockInv, OwnerOK
        <4> QED
          BY <4>1, <4>2, <2>3, BookLockAssumption DEF Stale
      <3>3. FilesOK'
        BY <3>1, <2>3 DEF FilesOK, Unmade, LockInv, TypeInv, TypeOK
      <3>4. OneReclaimer' /\ (\A u \in Tasks : OwnerOK(u)')
        BY <3>1, <3>2, <2>3 DEF OneReclaimer, OwnerOK, LockInv, TypeInv, TypeOK
      <3>5. ASSUME NEW u \in Tasks PROVE ReclaimerOK(u)'
        BY <3>1, <3>2, <2>3, BookLockAssumption DEF ReclaimerOK, LockInv, TypeInv, TypeOK
      <3> QED
        BY <1>0, <3>3, <3>4, <3>5 DEF LockInv
    <2> QED
      BY <1>6, <2>1, <2>2, <2>3 DEF Judge, Goto
  <1>7. ASSUME NEW t \in Tasks, Reread(t) PROVE LockInv'
    <2>1. CASE Again(t) /\ UNCHANGED <<lock, aged, content, held, raw, claim, alive>>
      BY <1>0, <1>7, <2>1, AgainStep DEF Reread, LockInv
    <2>2. CASE /\ pc[t] = "reread" /\ pc' = [pc EXCEPT ![t] = "rename"]
               /\ UNCHANGED <<attempt, lock, aged, content, held, raw, claim, alive>>
      <3>1. FilesOK'
        BY <2>2 DEF FilesOK, Unmade, LockInv, TypeInv, TypeOK
      <3>2. OneReclaimer' /\ (\A u \in Tasks : OwnerOK(u)')
        BY <2>2 DEF OneReclaimer, OwnerOK, NewFile, LockInv, TypeInv, TypeOK
      <3>3. ASSUME NEW u \in Tasks PROVE ReclaimerOK(u)'
        BY <2>2 DEF ReclaimerOK, Unmade, LockInv, TypeInv, TypeOK
      <3> QED
        BY <1>0, <3>1, <3>2, <3>3 DEF LockInv
    <2> QED
      BY <1>7, <2>1, <2>2 DEF Reread, Goto
  <1>8. ASSUME NEW t \in Tasks, Rename(t) PROVE LockInv'
    <2>1. CASE Again(t) /\ UNCHANGED <<lock, aged, content, held, raw, claim, alive>>
      BY <1>0, <1>8, <2>1, AgainStep DEF Rename, LockInv
    <2>2. CASE /\ lock # None /\ lock' = None /\ claim' = [claim EXCEPT ![t] = lock]
               /\ pc' = [pc EXCEPT ![t] = "check"]
               /\ UNCHANGED <<aged, content, held, attempt, raw, alive>>
      <3>1. /\ pc[t] = "rename" /\ lock \in Files /\ ~ Unmade(lock) /\ content[lock] = raw[t]
            /\ \A u \in Tasks : pc[u] \notin Owning
        BY <1>8, <2>2 DEF Rename, LockInv, TypeInv, TypeOK, FilesOK, ReclaimerOK
      <3>2. \A f \in Files : Unmade(f)' => Unmade(f)
        BY <2>2, <3>1 DEF Unmade, LockInv, TypeInv, TypeOK
      <3>3. FilesOK' /\ OneReclaimer' /\ (\A u \in Tasks : OwnerOK(u)')
        BY <2>2, <3>1, <3>2 DEF FilesOK, OneReclaimer, OwnerOK, LockInv, TypeInv, TypeOK
      <3>4. ReclaimerOK(t)'
        BY <2>2, <3>1, <3>2, BookLockAssumption DEF ReclaimerOK, LockInv, TypeInv, TypeOK
      <3>5. ASSUME NEW u \in Tasks \ {t} PROVE ReclaimerOK(u)'
        BY <2>2, <3>1 DEF ReclaimerOK, OneReclaimer, LockInv, TypeInv, TypeOK
      <3> QED
        BY <1>0, <3>3, <3>4, <3>5 DEF LockInv
    <2> QED
      BY <1>8, <2>1, <2>2 DEF Rename, Goto
  <1>9. ASSUME NEW t \in Tasks, Check(t) PROVE LockInv'
    <2>1. FilesOK'
      BY <1>0, <1>9, OwnFile DEF Check, Goto, LockInv, TypeInv, TypeOK, FilesOK, Unmade, OwnerOK
    <2>2. OneReclaimer'
      BY <1>0, <1>9 DEF Check, Goto, LockInv, TypeInv, TypeOK, OneReclaimer
    <2>3. ASSUME NEW u \in Tasks PROVE OwnerOK(u)'
      BY <1>0, <1>9, OwnFile, OneOwner DEF Check, Goto, LockInv, TypeInv, TypeOK, OwnerOK,
         NewFile
    <2>4. ASSUME NEW u \in Tasks PROVE ReclaimerOK(u)'
      BY <1>0, <1>9, OwnFile DEF Check, Goto, LockInv, TypeInv, TypeOK, ReclaimerOK,
         OwnerOK, FilesOK, Unmade
    <2> QED
      BY <1>0, <2>1, <2>2, <2>3, <2>4 DEF LockInv
  <1>10. ASSUME NEW t \in Tasks, Restore(t) PROVE LockInv'
    BY <1>10 DEF Restore, LockInv, ReclaimerOK
  <1>11. ASSUME NEW t \in Tasks, Fill(t) PROVE LockInv'
    BY <1>11 DEF Fill, LockInv, ReclaimerOK
  <1>12. ASSUME NEW t \in Tasks, Drop(t) PROVE LockInv'
    BY <1>0, <1>12, AgainStep DEF Drop, LockInv
  <1>13. ASSUME NEW t \in Tasks, Release(t) PROVE LockInv'
    <2>1. FilesOK'
      BY <1>0, <1>13, OwnFile DEF Release, Goto, LockInv, TypeInv, TypeOK, FilesOK,
         Unmade, OwnerOK
    <2>2. OneReclaimer'
      BY <1>0, <1>13 DEF Release, Goto, LockInv, TypeInv, TypeOK, OneReclaimer
    <2>3. ASSUME NEW u \in Tasks PROVE OwnerOK(u)'
      BY <1>0, <1>13, OwnFile, OneOwner DEF Release, Goto, LockInv, TypeInv, TypeOK,
         OwnerOK, NewFile
    <2>4. ASSUME NEW u \in Tasks PROVE ReclaimerOK(u)'
      BY <1>0, <1>13, OwnFile DEF Release, Goto, LockInv, TypeInv, TypeOK, ReclaimerOK,
         OwnerOK, FilesOK, Unmade
    <2> QED
      BY <1>0, <2>1, <2>2, <2>3, <2>4 DEF LockInv
  <1>14. ASSUME NEW t \in Tasks, ReadOwn(t) PROVE LockInv'
    <2>1. FilesOK'
      BY <1>0, <1>14, OwnFile DEF ReadOwn, Goto, LockInv, TypeInv, TypeOK, FilesOK,
         Unmade, OwnerOK
    <2>2. OneReclaimer'
      BY <1>0, <1>14 DEF ReadOwn, Goto, LockInv, TypeInv, TypeOK, OneReclaimer
    <2>3. ASSUME NEW u \in Tasks PROVE OwnerOK(u)'
      BY <1>0, <1>14, OwnFile, OneOwner DEF ReadOwn, Goto, LockInv, TypeInv, TypeOK,
         OwnerOK, NewFile
    <2>4. ASSUME NEW u \in Tasks PROVE ReclaimerOK(u)'
      BY <1>0, <1>14, OwnFile DEF ReadOwn, Goto, LockInv, TypeInv, TypeOK, ReclaimerOK,
         OwnerOK, FilesOK, Unmade
    <2> QED
      BY <1>0, <2>1, <2>2, <2>3, <2>4 DEF LockInv
  <1>15. ASSUME NEW t \in Tasks, Unlink(t) PROVE LockInv'
    <2>1. FilesOK'
      BY <1>0, <1>15, OwnFile DEF Unlink, Goto, LockInv, TypeInv, TypeOK, FilesOK, Unmade,
         OwnerOK
    <2>2. OneReclaimer'
      BY <1>0, <1>15 DEF Unlink, Goto, LockInv, TypeInv, TypeOK, OneReclaimer
    <2>3. ASSUME NEW u \in Tasks PROVE OwnerOK(u)'
      BY <1>0, <1>15, OwnFile, OneOwner DEF Unlink, Goto, LockInv, TypeInv, TypeOK,
         OwnerOK, NewFile
    <2>4. ASSUME NEW u \in Tasks PROVE ReclaimerOK(u)'
      BY <1>0, <1>15, OwnFile, BookLockAssumption DEF Unlink, Goto, LockInv, TypeInv,
         TypeOK, ReclaimerOK, OwnerOK, FilesOK, Unmade
    <2> QED
      BY <1>0, <2>1, <2>2, <2>3, <2>4 DEF LockInv
  <1>16. ASSUME NEW p \in Processes, Crash(p) PROVE LockInv'
    <2>1. FilesOK'
      BY <1>0, <1>16, OwnFile DEF Crash, Ended, LockInv, TypeInv, TypeOK, FilesOK, Unmade,
         OwnerOK
    <2>2. OneReclaimer'
      BY <1>0, <1>16 DEF Crash, Ended, LockInv, TypeInv, TypeOK, OneReclaimer
    <2>3. ASSUME NEW u \in Tasks PROVE OwnerOK(u)'
      BY <1>0, <1>16, OwnFile DEF Crash, Ended, LockInv, TypeInv, TypeOK, OwnerOK,
         NewFile, AtWork
    <2>4. ASSUME NEW u \in Tasks PROVE ReclaimerOK(u)'
      BY <1>0, <1>16, OwnFile DEF Crash, Ended, LockInv, TypeInv, TypeOK, ReclaimerOK, Unmade
    <2> QED
      BY <1>0, <2>1, <2>2, <2>3, <2>4 DEF LockInv
  <1>17. CASE Minute
    <2>1. FilesOK'
      BY <1>0, <1>17, OwnFile DEF Minute, local, LockInv, TypeInv, TypeOK, FilesOK,
         Unmade, OwnerOK
    <2>2. OneReclaimer'
      BY <1>0, <1>17 DEF Minute, local, LockInv, TypeInv, TypeOK, OneReclaimer
    <2>3. ASSUME NEW u \in Tasks PROVE OwnerOK(u)'
      BY <1>0, <1>17, OwnFile DEF Minute, local, LockInv, TypeInv, TypeOK, OwnerOK,
         NewFile, AtWork
    <2>4. ASSUME NEW u \in Tasks PROVE ReclaimerOK(u)'
      BY <1>0, <1>17, OwnFile DEF Minute, local, LockInv, TypeInv, TypeOK, ReclaimerOK, Unmade
    <2> QED
      BY <1>0, <2>1, <2>2, <2>3, <2>4 DEF LockInv
  <1>18. CASE UNCHANGED vars
    <2>1. FilesOK'
      BY <1>0, <1>18, OwnFile DEF vars, local, LockInv, TypeInv, TypeOK, FilesOK, Unmade,
         OwnerOK
    <2>2. OneReclaimer'
      BY <1>0, <1>18 DEF vars, local, LockInv, TypeInv, TypeOK, OneReclaimer
    <2>3. ASSUME NEW u \in Tasks PROVE OwnerOK(u)'
      BY <1>0, <1>18, OwnFile DEF vars, local, LockInv, TypeInv, TypeOK, OwnerOK, NewFile,
         AtWork
    <2>4. ASSUME NEW u \in Tasks PROVE ReclaimerOK(u)'
      BY <1>0, <1>18, OwnFile DEF vars, local, LockInv, TypeInv, TypeOK, ReclaimerOK, Unmade
    <2> QED
      BY <1>0, <2>1, <2>2, <2>3, <2>4 DEF LockInv
  <1> QED
    BY <1>1, <1>2, <1>3, <1>4, <1>5, <1>6, <1>7, <1>8, <1>9, <1>10, <1>11, <1>12, <1>13,
       <1>14, <1>15, <1>16, <1>17, <1>18 DEF Next

\* As long as reclaims do not overlap, two tasks never write one book at the same
\* time, whatever processes die and whatever writes and deletions fail.
THEOREM OneWriter ==
    ASSUME ~ OverlappingReclaims
    PROVE  Spec => []MutualExclusion
  <1>1. LockInv => MutualExclusion
    BY OneOwner DEF MutualExclusion, Owning
  <1> QED
    BY <1>1, LockInit, LockNext, PTL DEF Spec
=============================================================================

------------------------------ MODULE BookLock ------------------------------
(***************************************************************************)
(* The write lock of a book (StateManager.acquireBookLock in               *)
(* core/src/state/manager.ts): a file that exists while a task writes the  *)
(* book, made with open(wx), with the holder's process and token in it.  A *)
(* task that meets the file judges it: held, or stale, because its process *)
(* is gone, because it is of this very process and nobody here holds it,   *)
(* or because it has stayed empty for a minute.  A stale file is moved     *)
(* away, looked at again, and deleted, or put back when it turns out to be *)
(* another one.  Every file operation is a step of its own, and a process  *)
(* may die between any two.                                                *)
(*                                                                         *)
(* A task takes the lock once, so its name is its token.  A minute never   *)
(* passes between two file operations of one task, nobody holds the lock   *)
(* for the six hours after which a live process' lock counts as stale, all *)
(* processes run on one machine and keep their ids, and a file that exists *)
(* can be read.                                                            *)
(***************************************************************************)
EXTENDS Naturals, FiniteSets

CONSTANTS
    Tasks,
    Processes,
    Process,               \* task |-> the process it runs in
    None,                  \* no file
    Blank,                 \* the content of a file not written yet
    MaxAttempts,           \* rounds of create, judge, reclaim
    CrashWhileWriting,     \* a process may die between creating and writing the file
    OverlappingReclaims    \* two tasks may reclaim at the same time

\* A task makes at most one file in an attempt, so this names it.
Files == Tasks \X (1..MaxAttempts)

ASSUME BookLockAssumption ==
    /\ Process \in [Tasks -> Processes]
    /\ Blank \notin Tasks /\ None \notin Files
    /\ MaxAttempts \in Nat \ {0}
    /\ {CrashWhileWriting, OverlappingReclaims} \subseteq BOOLEAN

VARIABLES
    lock,      \* the file at the lock's path
    aged,      \* it has been there for a minute
    content,   \* file |-> token or Blank, wherever the file is
    held,      \* tokens the processes have on record
    pc,        \* task |-> what it does next
    attempt,   \* task |-> its attempt
    raw,       \* task |-> the content it has read
    claim,     \* task |-> the file it has moved away
    alive      \* processes that are running

local == <<pc, attempt, raw, claim>>
vars  == <<lock, aged, content, held, local, alive>>

Reclaiming == {"reread", "rename", "check", "restore", "fill", "drop"}
AtWork     == {"create", "judge", "write", "undo", "release", "unlink"} \cup Reclaiming
Ended      == {"released", "refused", "gave up", "failed", "dead"}

TypeOK ==
    /\ lock \in Files \cup {None}
    /\ aged \in BOOLEAN
    /\ content \in [Files -> Tasks \cup {Blank}]
    /\ held \subseteq Tasks
    /\ pc \in [Tasks -> {"idle", "held"} \cup AtWork \cup Ended]
    /\ attempt \in [Tasks -> 1..MaxAttempts]
    /\ raw \in [Tasks -> Tasks \cup {Blank}]
    /\ claim \in [Tasks -> Files \cup {None}]
    /\ alive \subseteq Processes

NewFile(t) == <<t, attempt[t]>>
Goto(t, l) == pc' = [pc EXCEPT ![t] = l]

\* The next round, unless this was the last.
Again(t) ==
    IF attempt[t] < MaxAttempts
    THEN Goto(t, "create") /\ attempt' = [attempt EXCEPT ![t] = @ + 1]
    ELSE Goto(t, "gave up") /\ UNCHANGED attempt

----------------------------------------------------------------------------

Init ==
    /\ lock = None
    /\ aged = FALSE
    /\ content = [f \in Files |-> Blank]
    /\ held = {}
    /\ pc = [t \in Tasks |-> "idle"]
    /\ attempt = [t \in Tasks |-> 1]
    /\ raw = [t \in Tasks |-> Blank]
    /\ claim = [t \in Tasks |-> None]
    /\ alive = Processes

Begin(t) ==
    /\ pc[t] = "idle" /\ Process[t] \in alive
    /\ Goto(t, "create")
    /\ UNCHANGED <<lock, aged, content, held, attempt, raw, claim, alive>>

\* The token is on record before the file exists, and off again when the
\* file existed already.
Create(t) ==
    /\ pc[t] = "create"
    /\ IF lock = None
       THEN /\ lock' = NewFile(t) /\ aged' = FALSE
            /\ held' = held \cup {t}
            /\ Goto(t, "write")
       ELSE /\ Goto(t, "judge")
            /\ UNCHANGED <<lock, aged, held>>
    /\ UNCHANGED <<content, attempt, raw, claim, alive>>

\* Written through the handle, so into the task's own file wherever it is now.
WriteToken(t) ==
    /\ pc[t] = "write"
    /\ content' = [content EXCEPT ![NewFile(t)] = t]
    /\ Goto(t, "held")
    /\ UNCHANGED <<lock, aged, held, attempt, raw, claim, alive>>

WriteFails(t) ==
    /\ pc[t] = "write"
    /\ Goto(t, "undo")
    /\ UNCHANGED <<lock, aged, content, held, attempt, raw, claim, alive>>

Undo(t) ==
    /\ pc[t] = "undo"
    /\ lock' = None
    /\ held' = held \ {t}
    /\ Goto(t, "failed")
    /\ UNCHANGED <<aged, content, attempt, raw, claim, alive>>

\* Slip: the process' own record is not asked.
Stale_IgnoresRecord(t, c) ==
    IF c = Blank THEN aged
    ELSE Process[c] \notin alive \/ Process[c] = Process[t]

\* What task t makes of content c at the lock's path.
Stale(t, c) ==
    IF c = Blank THEN aged
    ELSE Process[c] \notin alive \/ (Process[c] = Process[t] /\ c \notin held)

Judge(t) ==
    /\ pc[t] = "judge"
    /\ IF lock = None
       THEN Again(t) /\ UNCHANGED raw
       ELSE IF Stale(t, content[lock])
       THEN /\ OverlappingReclaims \/ \A u \in Tasks : pc[u] \notin Reclaiming
            /\ raw' = [raw EXCEPT ![t] = content[lock]]
            /\ Goto(t, "reread")
            /\ UNCHANGED attempt
       ELSE Goto(t, "refused") /\ UNCHANGED <<attempt, raw>>
    /\ UNCHANGED <<lock, aged, content, held, claim, alive>>

Reread(t) ==
    /\ pc[t] = "reread"
    /\ IF lock # None /\ content[lock] = raw[t]
       THEN Goto(t, "rename") /\ UNCHANGED attempt
       ELSE Again(t)
    /\ UNCHANGED <<lock, aged, content, held, raw, claim, alive>>

Rename(t) ==
    /\ pc[t] = "rename"
    /\ IF lock = None
       THEN Again(t) /\ UNCHANGED <<lock, claim>>
       ELSE /\ claim' = [claim EXCEPT ![t] = lock]
            /\ lock' = None
            /\ Goto(t, "check")
            /\ UNCHANGED attempt
    /\ UNCHANGED <<aged, content, held, raw, alive>>

\* Slip: whatever was moved away is taken for the stale lock.
Check_Trusting(t) ==
    /\ pc[t] = "check"
    /\ Goto(t, "drop")
    /\ UNCHANGED <<lock, aged, content, held, attempt, raw, claim, alive>>

\* Is the file moved away the one that was judged?
Check(t) ==
    /\ pc[t] = "check"
    /\ raw' = [raw EXCEPT ![t] = content[claim[t]]]
    /\ Goto(t, IF content[claim[t]] = raw[t] THEN "drop" ELSE "restore")
    /\ UNCHANGED <<lock, aged, content, held, attempt, claim, alive>>

\* It is another one: its content goes into a new file, if the path is free.
Restore(t) ==
    /\ pc[t] = "restore"
    /\ IF lock = None
       THEN lock' = NewFile(t) /\ aged' = FALSE /\ Goto(t, "fill")
       ELSE Goto(t, "drop") /\ UNCHANGED <<lock, aged>>
    /\ UNCHANGED <<content, held, attempt, raw, claim, alive>>

Fill(t) ==
    /\ pc[t] = "fill"
    /\ content' = [content EXCEPT ![NewFile(t)] = raw[t]]
    /\ Goto(t, "drop")
    /\ UNCHANGED <<lock, aged, held, attempt, raw, claim, alive>>

Drop(t) ==
    /\ pc[t] = "drop"
    /\ claim' = [claim EXCEPT ![t] = None]
    /\ Again(t)
    /\ UNCHANGED <<lock, aged, content, held, raw, alive>>

\* The holder is done with the book and reads the file.
Release(t) ==
    /\ pc[t] = "held"
    /\ Goto(t, "release")
    /\ UNCHANGED <<lock, aged, content, held, attempt, raw, claim, alive>>

\* It deletes the file only if its own token is in it.
ReadOwn(t) ==
    /\ pc[t] = "release"
    /\ IF lock # None /\ content[lock] = t
       THEN Goto(t, "unlink") /\ UNCHANGED held
       ELSE Goto(t, "released") /\ held' = held \ {t}
    /\ UNCHANGED <<lock, aged, content, attempt, raw, claim, alive>>

\* Slip: when the file cannot be deleted the record stays as well.
Unlink_KeepsRecord(t) ==
    /\ pc[t] = "unlink"
    /\ \/ lock' = None /\ held' = held \ {t}
       \/ UNCHANGED <<lock, held>>
    /\ Goto(t, "released")
    /\ UNCHANGED <<aged, content, attempt, raw, claim, alive>>

\* Deleting may fail for good; the token is off the record either way.
Unlink(t) ==
    /\ pc[t] = "unlink"
    /\ lock' = None \/ UNCHANGED lock
    /\ held' = held \ {t}
    /\ Goto(t, "released")
    /\ UNCHANGED <<aged, content, attempt, raw, claim, alive>>

Crash(p) ==
    /\ p \in alive
    /\ CrashWhileWriting \/ \A t \in Tasks : Process[t] = p => pc[t] \notin {"write", "undo", "fill"}
    /\ alive' = alive \ {p}
    /\ held' = {u \in held : Process[u] # p}
    /\ pc' = [t \in Tasks |-> IF Process[t] = p /\ pc[t] \notin Ended THEN "dead" ELSE pc[t]]
    /\ UNCHANGED <<lock, aged, content, attempt, raw, claim>>

Minute ==
    /\ lock # None /\ ~ aged
    /\ \A t \in Tasks : pc[t] \notin AtWork
    /\ aged' = TRUE
    /\ UNCHANGED <<lock, content, held, local, alive>>

Next ==
    \/ \E t \in Tasks :
          \/ Begin(t) \/ Create(t) \/ WriteToken(t) \/ WriteFails(t) \/ Undo(t)
          \/ Judge(t) \/ Reread(t) \/ Rename(t) \/ Check(t)
          \/ Restore(t) \/ Fill(t) \/ Drop(t)
          \/ Release(t) \/ ReadOwn(t) \/ Unlink(t)
    \/ \E p \in Processes : Crash(p)
    \/ Minute

Spec == Init /\ [][Next]_vars

----------------------------------------------------------------------------
(* Properties. *)

\* Two tasks never write one book at the same time.
MutualExclusion ==
    \A t, u \in Tasks : pc[t] = "held" /\ pc[u] = "held" => t = u

\* No self-lock: a lock that was given up, deleted or not, turns nobody
\* away.  A task is refused only while another is at work with the lock or
\* holds it, or in the minute after a file was left empty.
RefusedForACause ==
    [][\A t \in Tasks : Judge(t) /\ pc'[t] = "refused" =>
          \/ \E u \in Tasks \ {t} : pc[u] \in {"held"} \cup AtWork
          \/ content[lock] = Blank /\ ~ aged]_vars
=============================================================================

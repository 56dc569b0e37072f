----------------------------- MODULE MCBookLock -----------------------------
(* Instances of BookLock for TLC. *)
EXTENDS BookLock, TLC

CONSTANTS t0, t1, t2, t3, p0, p1, p2

\* One task that may leave a lock behind, and two that find it.
ThreeTasks     == {t0, t1, t2}
ThreeProcesses == t0 :> p0 @@ t1 :> p1 @@ t2 :> p2
OneProcess     == [t \in ThreeTasks |-> p0]

\* A third one that finds it, in the process of the second.
FourTasks == {t0, t1, t2, t3}
TwoAndTwo == t0 :> p0 @@ t1 :> p1 @@ t2 :> p2 @@ t3 :> p2
=============================================================================

---------------------------- MODULE WorkflowRun ----------------------------
(***************************************************************************)
(* One narrator's workflow run as run-service.ts and run-store.ts keep it: *)
(* the run, the outputs handed in for its steps (candidates) and the       *)
(* chapter's scene list, which an approved scene-spec replaces.  Every     *)
(* action is one database transaction (applyWorkflowAction): the new run,  *)
(* the candidate row and the committed scenes appear together or not at    *)
(* all.  Which revision a caller acts on is the subject of WorkflowStore.  *)
(***************************************************************************)
EXTENDS RunStateMachine, Sequences

CONSTANT MaxSetbacks   \* bound: outputs blocked or sent back in one run

ASSUME MaxSetbacksAssumption == MaxSetbacks \in Nat

VARIABLES
    run,         \* the narrator's latest run
    candidates,  \* its outputs in order of submission
    scenes,      \* candidate the chapter's scenes come from; 0: as before the run
    setbacks     \* blocks and rejections so far

vars == <<run, candidates, scenes, setbacks>>

Decision == {"pending", "approved", "rejected"}

\* decidedAt is the revision the decision led to (0: undecided); revisions
\* order the decisions of a run as the decided_at column does.
Candidate == [step : UNION {stepNodes(Recipe[id]) : id \in RecipeIds},
              decision : Decision, decidedAt : Nat]

TypeOK ==
    /\ IsRun(run)
    /\ candidates \in Seq(Candidate)
    /\ scenes \in Nat
    /\ setbacks \in Nat

RunRecipe == Recipe[run.recipe]
Steps     == stepNodes(RunRecipe)
Status(s) == run.steps[s].status
KindOf(i) == expectedOutputFor(RunRecipe.step[candidates[i].step].kind)

CandidatesOf(s) == {i \in DOMAIN candidates : candidates[i].step = s}

\* Newest submission for a step; 0 when there is none.
getLatestCandidate(s) ==
    IF CandidatesOf(s) = {} THEN 0
    ELSE CHOOSE i \in CandidatesOf(s) : \A j \in CandidatesOf(s) : j <= i

ApprovedOfKind(kind) ==
    {i \in DOMAIN candidates : candidates[i].decision = "approved" /\ KindOf(i) = kind}

\* Last approved output of a kind, by time of decision; 0 when none is.
getLatestApprovedCandidate(kind) ==
    IF ApprovedOfKind(kind) = {} THEN 0
    ELSE CHOOSE i \in ApprovedOfKind(kind) :
            \A j \in ApprovedOfKind(kind) : candidates[j].decidedAt <= candidates[i].decidedAt

\* Slip: scenes the chapter already has are kept.
commitCandidate_Once(i, kind) ==
    scenes' = IF kind = "scene-spec" /\ scenes = 0 THEN i ELSE scenes

\* commitCandidate: only a scene-spec is written anywhere but the candidate table.
commitCandidate(i, kind) ==
    scenes' = IF kind = "scene-spec" THEN i ELSE scenes

decideWorkflowCandidate(i, decision) ==
    candidates' = [candidates EXCEPT ![i].decision  = decision,
                                     ![i].decidedAt = run'.revision]

----------------------------------------------------------------------------

Init ==
    /\ \E id \in Runnable : run = createRunState(id)
    /\ candidates = <<>>
    /\ scenes = 0
    /\ setbacks = 0

\* The author starts the next run once the narrator has no active one.
StartRun(id) ==
    /\ Terminal(run)
    /\ id \in Runnable
    /\ run' = createRunState(id)
    /\ candidates' = <<>>
    /\ scenes' = 0
    /\ setbacks' = 0

\* The narrator hands in a valid output of the expected kind.  A step that
\* wants no approval approves and commits it at once.
SubmitStepOutput(s, outcome) ==
    LET kind == expectedOutputFor(RunRecipe.step[s].kind)
        i    == Len(candidates) + 1
    IN  /\ kind # "none"
        /\ CanSubmit(run, s, outcome)
        /\ run' = Submit(run, s, outcome)
        /\ IF run'.steps[s].status = "done"
           THEN /\ candidates' = Append(candidates, [step |-> s, decision |-> "approved",
                                                     decidedAt |-> run'.revision])
                /\ commitCandidate(i, kind)
           ELSE /\ candidates' = Append(candidates, [step |-> s, decision |-> "pending",
                                                     decidedAt |-> 0])
                /\ UNCHANGED scenes
        /\ UNCHANGED setbacks

ReportBlocker(s) ==
    /\ CanBlock(run, s)
    /\ setbacks < MaxSetbacks
    /\ run' = Block(run, s)
    /\ setbacks' = setbacks + 1
    /\ UNCHANGED <<candidates, scenes>>

\* Slip: the step is done, its output is committed but stays undecided.
ApproveStep_Undecided(s) ==
    LET i == getLatestCandidate(s)
    IN  /\ CanApprove(run, s)
        /\ run' = Approve(run, s)
        /\ IF i = 0 \/ IsGate(RunRecipe, s) THEN UNCHANGED scenes
           ELSE commitCandidate(i, KindOf(i))
        /\ UNCHANGED <<candidates, setbacks>>

\* The newest output is the one approved, unless it has been decided already.
ApproveStep(s) ==
    LET i == getLatestCandidate(s)
    IN  /\ CanApprove(run, s)
        /\ run' = Approve(run, s)
        /\ IF i = 0 \/ IsGate(RunRecipe, s) \/ candidates[i].decision # "pending"
           THEN UNCHANGED <<candidates, scenes>>
           ELSE decideWorkflowCandidate(i, "approved") /\ commitCandidate(i, KindOf(i))
        /\ UNCHANGED setbacks

RejectStep(s) ==
    LET i == getLatestCandidate(s)
    IN  /\ CanReject(run, s)
        /\ setbacks < MaxSetbacks
        /\ run' = Reject(run, s)
        /\ setbacks' = setbacks + 1
        /\ IF i = 0 \/ candidates[i].decision # "pending"
           THEN UNCHANGED candidates
           ELSE decideWorkflowCandidate(i, "rejected")
        /\ UNCHANGED scenes

RetryStep(s) ==
    /\ CanRetry(run, s)
    /\ run' = Retry(run, s)
    /\ UNCHANGED <<candidates, scenes, setbacks>>

SkipStep(s) ==
    /\ CanSkip(run, s)
    /\ run' = Skip(run, s)
    /\ UNCHANGED <<candidates, scenes, setbacks>>

CancelRun ==
    /\ CanCancel(run)
    /\ run' = Cancel(run)
    /\ UNCHANGED <<candidates, scenes, setbacks>>

\* The outcomes a narrator may put in a call: any that some recipe declares.
Outcomes == {NoOutcome} \cup
    UNION {UNION {Recipe[id].step[s].outcomes : s \in stepNodes(Recipe[id])} : id \in RecipeIds}

SubmitAny(s) == \E outcome \in Outcomes : SubmitStepOutput(s, outcome)

Next ==
    \/ \E id \in RecipeIds : StartRun(id)
    \/ \E s \in Steps :
          \/ SubmitAny(s)
          \/ ReportBlocker(s)
          \/ ApproveStep(s)
          \/ RejectStep(s)
          \/ RetryStep(s)
          \/ SkipStep(s)
    \/ CancelRun

Spec == Init /\ [][Next]_vars

\* The narrator works on the steps its brief lists and the author settles
\* what waits for him; both may also block or reject, finitely often.
Fairness ==
    /\ WF_vars(\E s \in Steps : SubmitAny(s))
    /\ WF_vars(\E s \in Steps : ApproveStep(s))
    /\ WF_vars(\E s \in Steps : RetryStep(s))

FairSpec == Spec /\ Fairness

----------------------------------------------------------------------------
(* Properties. *)

\* No step is taken up, or written off, before everything upstream of it is
\* settled: behind a step still to be done, every step is pending.  This is
\* what the single topological pass of settle and the reset of a send-back
\* have to keep together.
OrderRespected == Ordered(RunRecipe, run.steps)

\* The run never stalls: a run that says "running" has a step the model can
\* work on, so the brief's "no step in progress" branch (run-brief.ts) is
\* never taken.
NeverStalls == run.status = "running" => HasStatus(run.steps, "running")

\* The author faces one failure at a time, and the run is blocked exactly
\* while there is one, although parallel branches may block independently.
OneFailureAtATime ==
    /\ run.status \in {"blocked", "cancelled"} \/ ~ HasStatus(run.steps, "failed")
    /\ run.status = "blocked" => HasStatus(run.steps, "failed")
    /\ \A s, t \in Steps : Status(s) = "failed" /\ Status(t) = "failed" => s = t

\* What the author confirms is what the step is finished with: a step waits
\* on an undecided output that is its newest, and an author-decided step is
\* done only with its newest output approved.
AuthorDecides ==
    \A s \in Steps : requiresApproval(RunRecipe, s) /\ ~ IsGate(RunRecipe, s) =>
        LET i == getLatestCandidate(s)
        IN  /\ Status(s) = "awaiting_approval" => i # 0 /\ candidates[i].decision = "pending"
            /\ Status(s) = "done" => i # 0 /\ candidates[i].decision = "approved"

\* The chapter's scenes are those of the scene-spec approved last: nothing
\* reaches them before approval, and no approval is lost or overtaken.
ScenesAreLatestApproved == scenes = getLatestApprovedCandidate("scene-spec")

\* Whatever was skipped, passed over or chosen on the way, a finished run
\* has walked from the start to some end.  Not checked by a run: an approved gate names
\* no outcome, so that a gate with conditioned edges only ends a run early.
DoneReachesEnd == run.status = "done" => ReachesEnd(RunRecipe, run.steps)

\* An author who sends work back is heard: some step then runs with the
\* rejection in its note, and so in its brief.
RejectionIsHeard ==
    [][(\E s \in Steps : RejectStep(s)) =>
          \E s \in Steps : run'.steps[s].note = "rejected" /\ run'.steps[s].status = "running"]_vars

\* If the model keeps working and the author keeps deciding, every run ends.
EveryRunEnds == []<>Terminal(run)
============================================================================

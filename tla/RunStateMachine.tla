-------------------------- MODULE RunStateMachine --------------------------
(***************************************************************************)
(* transition() of run-state-machine.ts: what each action of the model     *)
(* (submit, block) and of the author (approve, reject, retry, skip,        *)
(* cancel) does to a run, and when it is refused.  A run is a record       *)
(*   recipe    id of the recipe frozen with the run                        *)
(*   status    derived by settle, except "cancelled"                       *)
(*   revision  one more after every action that is not refused             *)
(*   steps     step |-> [status, attempt, outcome, note]                   *)
(* The operators come in pairs: CanX(x, ...) is true when the code accepts *)
(* the action, X(x, ...) is the run it leaves.  They are pure, so that a   *)
(* single run and a store of several runs share them.                      *)
(***************************************************************************)
EXTENDS WorkflowGraph

RunStatus == {"running", "awaiting_approval", "blocked", "done", "cancelled"}
\* Slip: a blocked run no longer counts as active.
ActiveRunStatus_NotBlocked == {"running", "awaiting_approval"}

ActiveRunStatus == {"running", "awaiting_approval", "blocked"}
Terminal(x) == x.status \in {"done", "cancelled"}

\* The note a step shows the narrator in its next brief: why it was blocked,
\* or what the author wants changed.
Note == {"none", "blocked", "rejected"}

CandidateKind == {"scene-spec", "prose", "audit", "other"}

\* What a step must hand in; a manual gate hands in nothing.
expectedOutputFor(kind) ==
    CASE kind = "guided-plan"                    -> "scene-spec"
      [] kind = "writer-generate"                -> "prose"
      [] kind \in {"audit", "adversarial-audit"} -> "audit"
      [] kind = "approval-gate"                  -> "none"
      [] OTHER                                   -> "other"

IsGate(r, s)           == r.step[s].kind = "approval-gate"
requiresApproval(r, s) == requiresAuthorDecision(r.step[s])
maxAttempts(r)         == 1 + r.maxRetries

StepState(r, s) ==
    [status : StepStatus, attempt : Nat,
     outcome : r.step[s].outcomes \cup {NoOutcome}, note : Note]

\* st gives every step of the recipe a state.
AreSteps(r, st) ==
    /\ st = [s \in stepNodes(r) |-> st[s]]
    /\ \A s \in stepNodes(r) : st[s] \in StepState(r, s)

IsRun(x) ==
    /\ x = [recipe |-> x.recipe, status |-> x.status,
            revision |-> x.revision, steps |-> x.steps]
    /\ x.recipe \in RecipeIds
    /\ x.status \in RunStatus
    /\ x.revision \in Nat
    /\ AreSteps(Recipe[x.recipe], x.steps)

\* A step the flow has not got past.
Undecided == {"pending", "running", "awaiting_approval", "failed"}

\* Behind a step the flow has not got past, every step is pending.
Ordered(r, st) ==
    \A s \in stepNodes(r) : st[s].status \in Undecided =>
        \A t \in stepNodes(r) \cap forwardDescendants(r, s) : st[t].status = "pending"

buildStepTemplates(r) ==
    [s \in stepNodes(r) |->
        [status |-> "pending", attempt |-> 0, outcome |-> NoOutcome, note |-> "none"]]

\* A recipe with structural issues, or without an enabled step, never runs.
Runnable ==
    {id \in RecipeIds :
        /\ checkWorkflowGraph(Recipe[id])
        /\ \E s \in stepNodes(Recipe[id]) : Recipe[id].step[s].enabled}

createRunState(id) ==
    LET st == settle(Recipe[id], buildStepTemplates(Recipe[id]))
    IN  [recipe |-> id, status |-> deriveRunStatus(Recipe[id], st),
         revision |-> 0, steps |-> st]

\* Slip: the revision of the run that was read is written back.
Settled_SameRevision(x, steps) ==
    LET r  == Recipe[x.recipe]
        st == settle(r, steps)
    IN  [recipe |-> x.recipe, status |-> deriveRunStatus(r, st),
         revision |-> x.revision, steps |-> st]

\* Every accepted action but cancel ends in one settle pass over the steps
\* it left, and in the next revision.
Settled(x, steps) ==
    LET r  == Recipe[x.recipe]
        st == settle(r, steps)
    IN  [recipe |-> x.recipe, status |-> deriveRunStatus(r, st),
         revision |-> x.revision + 1, steps |-> st]

WithStep(x, s, y) == Settled(x, [x.steps EXCEPT ![s] = y])

----------------------------------------------------------------------------
(* The model's actions. *)

\* Slip: a blocked run goes on taking calls for its other branches.
Accepts_WhileBlocked(x, s) == ~ Terminal(x) /\ x.steps[s].status = "running"

Accepts(x, s) == ~ Terminal(x) /\ x.status # "blocked" /\ x.steps[s].status = "running"

\* Slip: any outcome will do.
CanSubmit_AnyOutcome(x, s, outcome) ==
    Accepts(x, s) /\ (Recipe[x.recipe].step[s].outcomes = {} \/ outcome # NoOutcome)

\* A branch step must be given one of its outcomes; any other step ignores
\* what it is given.
CanSubmit(x, s, outcome) ==
    LET outcomes == Recipe[x.recipe].step[s].outcomes
    IN  Accepts(x, s) /\ (outcomes = {} \/ outcome \in outcomes)

Submit(x, s, outcome) ==
    LET r == Recipe[x.recipe]
    IN  WithStep(x, s,
            [x.steps[s] EXCEPT
                !.status  = IF requiresApproval(r, s) THEN "awaiting_approval" ELSE "done",
                !.outcome = IF r.step[s].outcomes = {} THEN @ ELSE outcome])

CanBlock(x, s) == Accepts(x, s)

\* A blocked step is retried by the model itself while it has attempts
\* left, or passed over, or waits failed for the author.
Block(x, s) ==
    LET r == Recipe[x.recipe]
        y == [x.steps[s] EXCEPT !.note = "blocked"]
    IN  WithStep(x, s,
            IF r.step[s].onFailure = "retry" /\ y.attempt < maxAttempts(r)
            THEN [y EXCEPT !.attempt = @ + 1]
            ELSE IF r.step[s].onFailure = "skip" /\ r.step[s].outcomes = {}
            THEN [y EXCEPT !.status = "skipped"]
            ELSE [y EXCEPT !.status = "failed"])

----------------------------------------------------------------------------
(* The author's actions. *)

CanApprove(x, s) == ~ Terminal(x) /\ x.steps[s].status = "awaiting_approval"

Approve(x, s) == WithStep(x, s, [x.steps[s] EXCEPT !.status = "done"])

RejectTargets(x, s) == {e.target : e \in {f \in Recipe[x.recipe].reject : f.source = s}}

\* A gate without a send-back edge has nothing to hand back.
CanReject(x, s) ==
    /\ ~ Terminal(x)
    /\ x.steps[s].status = "awaiting_approval"
    /\ RejectTargets(x, s) # {} \/ ~ IsGate(Recipe[x.recipe], s)

\* Slip: only the target starts over, what came after it stands.
Reject_TargetOnly(x, s) ==
    LET r       == Recipe[x.recipe]
        targets == RejectTargets(x, s)
        again(t) == [status |-> "pending", attempt |-> x.steps[t].attempt,
                     outcome |-> NoOutcome, note |-> "rejected"]
    IN  IF targets # {}
        THEN Settled(x, [t \in stepNodes(r) |-> IF t \in targets THEN again(t) ELSE x.steps[t]])
        ELSE WithStep(x, s, [again(s) EXCEPT !.status = "running", !.attempt = @ + 1])

\* Slip: the note stays with the step that was sent back.
Reject_NoteAtSource(x, s) ==
    LET r       == Recipe[x.recipe]
        targets == RejectTargets(x, s)
        reset   == targets \cup UNION {forwardDescendants(r, t) : t \in targets}
    IN  IF targets # {}
        THEN Settled(x, [t \in stepNodes(r) |->
                 IF t \in reset
                 THEN [status  |-> "pending", attempt |-> x.steps[t].attempt,
                       outcome |-> NoOutcome, note |-> IF t = s THEN "rejected" ELSE "none"]
                 ELSE x.steps[t]])
        ELSE WithStep(x, s, [status  |-> "running", attempt |-> x.steps[s].attempt + 1,
                             outcome |-> NoOutcome, note |-> "rejected"])

\* With a send-back edge the target step and everything after it start
\* over; without one the step itself runs again.  Attempts are kept.
Reject(x, s) ==
    LET r       == Recipe[x.recipe]
        targets == RejectTargets(x, s)
        reset   == targets \cup UNION {forwardDescendants(r, t) : t \in targets}
    IN  IF targets # {}
        THEN Settled(x, [t \in stepNodes(r) |->
                 IF t \in reset
                 THEN [status  |-> "pending", attempt |-> x.steps[t].attempt,
                       outcome |-> NoOutcome,
                       note    |-> IF t \in targets THEN "rejected" ELSE "none"]
                 ELSE x.steps[t]])
        ELSE WithStep(x, s, [status  |-> "running", attempt |-> x.steps[s].attempt + 1,
                             outcome |-> NoOutcome, note |-> "rejected"])

\* Slip: the author's retry is held to the model's own limit.
CanRetry_WithinLimit(x, s) ==
    /\ ~ Terminal(x) /\ x.steps[s].status = "failed"
    /\ x.steps[s].attempt < maxAttempts(Recipe[x.recipe])

CanRetry(x, s) == ~ Terminal(x) /\ x.steps[s].status = "failed"

\* The author's retry is not bound by maxAttempts.
Retry(x, s) ==
    WithStep(x, s, [x.steps[s] EXCEPT !.status = "running", !.attempt = @ + 1])

CanSkip(x, s) ==
    /\ ~ Terminal(x)
    /\ x.steps[s].status = "failed"
    /\ Recipe[x.recipe].step[s].outcomes = {}

Skip(x, s) == WithStep(x, s, [x.steps[s] EXCEPT !.status = "skipped"])

CanCancel(x) == ~ Terminal(x)

Cancel(x) == [recipe |-> x.recipe, status |-> "cancelled",
              revision |-> x.revision + 1, steps |-> x.steps]
============================================================================

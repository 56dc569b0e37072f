--------------------------- MODULE Workflow_proofs ---------------------------
(***************************************************************************)
(* Safety of workflow runs, for every set of recipes and every graph.      *)
(*                                                                         *)
(* One run (WorkflowRun), with any number of setbacks.  The inductive      *)
(* invariant is Good(run): a run never stalls only because the steps       *)
(* behind an open one are pending and the pass has just been over them.    *)
(*                                                                         *)
(* The store of runs (WorkflowStore), with any number of narrators, pages  *)
(* and runs.  What makes the revision check enough is that a revision      *)
(* stands for one state of a run: every view anybody holds or has on its   *)
(* way is of a stored run, is not ahead of it, and is the run itself when  *)
(* the revisions agree (SeenInTime).                                       *)
(***************************************************************************)
EXTENDS WorkflowRun, WorkflowStore, RunStateMachine_proofs, SequenceTheorems,
        WellFoundedInduction

-----------------------------------------------------------------------------
(* One run. *)

\* A set of naturals has a least element.
LEMMA LeastNat ==
    ASSUME NEW T, T \subseteq Nat, T # {}
    PROVE  \E x \in T : \A y \in T : x <= y
  <1> DEFINE R == {ss \in Nat \X Nat : ss[1] < ss[2]}
  <1>1. R = OpToRel(<, Nat)
    BY DEF OpToRel
  <1>2. IsWellFoundedOn(R, Nat)
    BY <1>1, NatLessThanWellFounded
  <1>3. PICK x \in T : \A y \in T : ~ (<<y, x>> \in R)
    <2> HIDE DEF R
    <2> QED
      BY <1>2, WFMin
  <1>4. ASSUME NEW y \in T
        PROVE  x <= y
    <2>1. x \in Nat /\ y \in Nat
      OBVIOUS
    <2>2. ~ (y < x)
      BY <1>3, <2>1
    <2> QED
      BY <2>1, <2>2
  <1> QED
    BY <1>4

\* A set of positions has a last one.
LEMMA LastIndex ==
    ASSUME NEW n \in Nat, NEW C, C \subseteq 1..n, C # {}
    PROVE  \E i \in C : \A j \in C : j <= i
  <1> DEFINE D == {n - i : i \in C}
  <1>1. \A i \in C : i \in Int /\ i <= n
    OBVIOUS
  <1>2. D \subseteq Nat
    BY <1>1
  <1>3. D # {}
    OBVIOUS
  <1>4. PICK d \in D : \A e \in D : d <= e
    <2> HIDE DEF D
    <2> QED
      BY <1>2, <1>3, LeastNat
  <1>5. PICK i \in C : d = n - i
    OBVIOUS
  <1>6. ASSUME NEW j \in C
        PROVE  j <= i
    <2>1. n - i <= n - j
      BY <1>4, <1>5
    <2> QED
      BY <2>1, <1>1
  <1> QED
    BY <1>6

\* The newest output of a step is an output of that step.
LEMMA LatestCandidate ==
    ASSUME candidates \in Seq(Candidate), NEW s
    PROVE  LET i == getLatestCandidate(s)
           IN  /\ i \in {0} \cup CandidatesOf(s)
               /\ i # 0 => \A j \in CandidatesOf(s) : j <= i
               /\ i = 0 => CandidatesOf(s) = {}
  <1>1. Len(candidates) \in Nat /\ DOMAIN candidates = 1..Len(candidates)
    BY LenProperties
  <1>2. CandidatesOf(s) \subseteq 1..Len(candidates)
    BY <1>1 DEF CandidatesOf
  <1>3. CASE CandidatesOf(s) = {}
    BY <1>3 DEF getLatestCandidate
  <1>4. CASE CandidatesOf(s) # {}
    <2>1. \E i \in CandidatesOf(s) : \A j \in CandidatesOf(s) : j <= i
      BY <1>1, <1>2, <1>4, LastIndex
    <2>2. 0 \notin CandidatesOf(s)
      BY <1>2
    <2> QED
      BY <1>4, <2>1, <2>2 DEF getLatestCandidate
  <1> QED
    BY <1>3, <1>4

----------------------------------------------------------------------------

IInv == TypeOK /\ Good(run)

\* createWorkflowRun stores a run that satisfies the invariant.
LEMMA InitInv == Init => IInv
  <1> SUFFICES ASSUME Init PROVE IInv
    OBVIOUS
  <1>1. Good(run)
    BY CreateGood DEF Init
  <1>2. candidates \in Seq(Candidate)
    BY EmptySeq DEF Init
  <1> QED
    BY <1>1, <1>2 DEF Init, IInv, TypeOK, Good

\* The outputs and the chapter's scenes stay well-formed when output i of
\* them is decided.
LEMMA DecideType ==
    ASSUME candidates \in Seq(Candidate), NEW i \in DOMAIN candidates,
           NEW decision \in Decision, run'.revision \in Nat,
           decideWorkflowCandidate(i, decision)
    PROVE  candidates' \in Seq(Candidate)
  <1> DEFINE c == [candidates[i] EXCEPT !.decision = decision, !.decidedAt = run'.revision]
  <1>1. i \in 1..Len(candidates) /\ candidates[i] \in Candidate
    BY LenProperties
  <1>2. c \in Candidate
    BY <1>1 DEF Candidate
  <1>3. candidates' = [candidates EXCEPT ![i] = c]
    BY <1>1 DEF decideWorkflowCandidate
  <1> HIDE DEF c
  <1> QED
    BY <1>1, <1>2, <1>3, ExceptSeq

\* Every action of the narrator and the author keeps the invariant.
LEMMA NextInv == IInv /\ [Next]_vars => IInv'
  <1> SUFFICES ASSUME IInv, [Next]_vars PROVE IInv'
    OBVIOUS
  <1>1. /\ Good(run) /\ run.recipe \in Runnable
        /\ candidates \in Seq(Candidate) /\ scenes \in Nat /\ setbacks \in Nat
        /\ DOMAIN candidates = 1..Len(candidates)
    BY LenProperties DEF IInv, TypeOK, Good
  <1>2. ASSUME NEW id \in RecipeIds, StartRun(id)
        PROVE  IInv'
    <2>1. Good(run')
      BY <1>2, CreateGood DEF StartRun
    <2>2. candidates' \in Seq(Candidate)
      BY <1>2, EmptySeq DEF StartRun
    <2> QED
      BY <1>2, <2>1, <2>2 DEF StartRun, IInv, TypeOK, Good
  <1>3. ASSUME NEW s \in Steps, NEW outcome, SubmitStepOutput(s, outcome)
        PROVE  IInv'
    <2> DEFINE kind == expectedOutputFor(RunRecipe.step[s].kind)
    <2>1. CanSubmit(run, s, outcome) /\ run' = Submit(run, s, outcome)
      BY <1>3 DEF SubmitStepOutput
    <2>2. Good(run')
      BY <1>1, <2>1, SubmitGood DEF Steps, RunRecipe
    <2>3. run'.revision \in Nat
      BY <2>2 DEF Good, IsRun
    <2>4. s \in UNION {stepNodes(Recipe[id]) : id \in RecipeIds}
      BY <1>1, RunnableSound DEF Steps, RunRecipe
    <2>5. \E c \in Candidate : candidates' = Append(candidates, c)
      <3>1. CASE run'.steps[s].status = "done"
        <4>1. [step |-> s, decision |-> "approved", decidedAt |-> run'.revision] \in Candidate
          BY <2>3, <2>4 DEF Candidate, Decision
        <4> QED
          BY <1>3, <3>1, <4>1 DEF SubmitStepOutput
      <3>2. CASE run'.steps[s].status # "done"
        <4>1. [step |-> s, decision |-> "pending", decidedAt |-> 0] \in Candidate
          BY <2>4 DEF Candidate, Decision
        <4> QED
          BY <1>3, <3>2, <4>1 DEF SubmitStepOutput
      <3> QED
        BY <3>1, <3>2
    <2>6. candidates' \in Seq(Candidate)
      BY <1>1, <2>5, AppendProperties
    <2>7. scenes' \in Nat /\ setbacks' \in Nat
      BY <1>1, <1>3 DEF SubmitStepOutput, commitCandidate
    <2> QED
      BY <2>2, <2>6, <2>7 DEF IInv, TypeOK, Good
  <1>4. ASSUME NEW s \in Steps, ReportBlocker(s)
        PROVE  IInv'
    <2>1. Good(run')
      BY <1>1, <1>4, BlockGood DEF ReportBlocker, Steps, RunRecipe
    <2> QED
      BY <1>1, <1>4, <2>1 DEF ReportBlocker, IInv, TypeOK, Good
  <1>5. ASSUME NEW s \in Steps, ApproveStep(s)
        PROVE  IInv'
    <2> DEFINE i == getLatestCandidate(s)
    <2>1. Good(run')
      BY <1>1, <1>5, ApproveGood DEF ApproveStep, Steps, RunRecipe
    <2>2. run'.revision \in Nat
      BY <2>1 DEF Good, IsRun
    <2>3. i \in {0} \cup DOMAIN candidates
      BY <1>1, LatestCandidate DEF CandidatesOf
    <2>4. \/ UNCHANGED <<candidates, scenes>>
          \/ i # 0 /\ decideWorkflowCandidate(i, "approved") /\ scenes' \in {i, scenes}
      BY <1>5 DEF ApproveStep, commitCandidate
    <2> HIDE DEF i
    <2>5. candidates' \in Seq(Candidate) /\ scenes' \in Nat
      BY <1>1, <2>2, <2>3, <2>4, DecideType DEF Decision
    <2> QED
      BY <1>1, <1>5, <2>1, <2>5 DEF ApproveStep, IInv, TypeOK, Good
  <1>6. ASSUME NEW s \in Steps, RejectStep(s)
        PROVE  IInv'
    <2> DEFINE i == getLatestCandidate(s)
    <2>1. Good(run')
      BY <1>1, <1>6, RejectGood DEF RejectStep, Steps, RunRecipe
    <2>2. run'.revision \in Nat
      BY <2>1 DEF Good, IsRun
    <2>3. i \in {0} \cup DOMAIN candidates
      BY <1>1, LatestCandidate DEF CandidatesOf
    <2>4. \/ UNCHANGED candidates
          \/ i # 0 /\ decideWorkflowCandidate(i, "rejected")
      BY <1>6 DEF RejectStep
    <2> HIDE DEF i
    <2>5. candidates' \in Seq(Candidate)
      BY <1>1, <2>2, <2>3, <2>4, DecideType DEF Decision
    <2> QED
      BY <1>1, <1>6, <2>1, <2>5 DEF RejectStep, IInv, TypeOK, Good
  <1>7. ASSUME NEW s \in Steps, RetryStep(s)
        PROVE  IInv'
    <2>1. Good(run')
      BY <1>1, <1>7, RetryGood DEF RetryStep, Steps, RunRecipe
    <2> QED
      BY <1>1, <1>7, <2>1 DEF RetryStep, IInv, TypeOK, Good
  <1>8. ASSUME NEW s \in Steps, SkipStep(s)
        PROVE  IInv'
    <2>1. Good(run')
      BY <1>1, <1>8, SkipGood DEF SkipStep, Steps, RunRecipe
    <2> QED
      BY <1>1, <1>8, <2>1 DEF SkipStep, IInv, TypeOK, Good
  <1>9. ASSUME CancelRun
        PROVE  IInv'
    <2>1. Good(run')
      BY <1>1, <1>9, CancelGood DEF CancelRun
    <2> QED
      BY <1>1, <1>9, <2>1 DEF CancelRun, IInv, TypeOK, Good
  <1>10. CASE UNCHANGED vars
    BY <1>1, <1>10 DEF vars, IInv, TypeOK, Good
  <1> QED
    BY <1>2, <1>3, <1>4, <1>5, <1>6, <1>7, <1>8, <1>9, <1>10 DEF Next, SubmitAny

\* The invariant holds in every reachable state of a run, on every recipe.
THEOREM Invariance == Spec => []IInv
  BY InitInv, NextInv, PTL DEF Spec

----------------------------------------------------------------------------
(* What follows from it. *)

\* Every value the run, its outputs and the chapter's scenes take is one
\* the tables can hold (run-store.ts).
THEOREM TypeCorrect == Spec => []TypeOK
  <1>1. IInv => TypeOK
    BY DEF IInv
  <1> QED
    BY <1>1, Invariance, PTL

\* No recipe, however wide or deep, lets a step be taken up or written off
\* while something upstream of it is still open (settle, reject).
THEOREM OrderIsRespected == Spec => []OrderRespected
  <1>1. IInv => OrderRespected
    BY DEF IInv, Good, OrderRespected, RunRecipe
  <1> QED
    BY <1>1, Invariance, PTL

\* On no recipe does a run say "running" with nothing for the model to do
\* (deriveRunStatus).
THEOREM RunsNeverStall == Spec => []NeverStalls
  <1>1. IInv => NeverStalls
    BY DEF IInv, Good, NeverStalls
  <1> QED
    BY <1>1, Invariance, PTL

\* However many branches run in parallel, at most one step is failed, and
\* the run is blocked exactly then (transition, case "block").
THEOREM FailuresComeOneByOne == Spec => []OneFailureAtATime
  <1>1. IInv => OneFailureAtATime
    BY DEF IInv, Good, OneFailureAtATime, Steps, Status, RunRecipe
  <1> QED
    BY <1>1, Invariance, PTL

----------------------------------------------------------------------------
(* Outputs and decisions.                                                  *)

\* The pass finishes no step and lets only gates wait for the author: a step
\* that waits or is done after an action was left so by the action itself.
LEMMA PassDecidesNothing ==
    ASSUME NEW r, NEW st, AreSteps(r, st), NEW s \in stepNodes(r), ~ IsGate(r, s),
           settle(r, st)[s].status \in {"awaiting_approval", "done"}
    PROVE  settle(r, st)[s].status = st[s].status
  <1>1. st[s] \in StepState(r, s)
    BY DEF AreSteps
  <1>2. settle(r, st)[s] = Advance(r, s, st[s], Arrival(r, st)[s])
    BY DEF settle
  <1>3. /\ [st[s] EXCEPT !.status = "bypassed"].status = "bypassed"
        /\ [st[s] EXCEPT !.status = "skipped"].status = "skipped"
        /\ [st[s] EXCEPT !.status = "running", !.attempt = @ + 1].status = "running"
    BY <1>1 DEF StepState
  <1> QED
    BY <1>2, <1>3 DEF Advance, IsGate

\* The same for the actions that move one step and let the pass follow.
LEMMA OneStepMoves ==
    ASSUME NEW x, IsRun(x), NEW s \in stepNodes(Recipe[x.recipe]),
           NEW y \in StepState(Recipe[x.recipe], s),
           NEW t \in stepNodes(Recipe[x.recipe]), ~ IsGate(Recipe[x.recipe], t),
           WithStep(x, s, y).steps[t].status \in {"awaiting_approval", "done"}
    PROVE  WithStep(x, s, y).steps[t].status = IF t = s THEN y.status ELSE x.steps[t].status
  <1> DEFINE r  == Recipe[x.recipe]
             st == [x.steps EXCEPT ![s] = y]
  <1>1. AreSteps(r, x.steps) /\ DOMAIN x.steps = stepNodes(r)
    BY DEF IsRun, AreSteps
  <1>2. st[s] = y /\ \A u \in stepNodes(r) : u # s => st[u] = x.steps[u]
    BY <1>1
  <1>3. AreSteps(r, st)
    BY <1>1, <1>2 DEF AreSteps
  <1>4. WithStep(x, s, y).steps = settle(r, st)
    BY DEF WithStep, Settled
  <1>5. st[t].status = IF t = s THEN y.status ELSE x.steps[t].status
    BY <1>2
  <1> HIDE DEF st
  <1>6. settle(r, st)[t].status = st[t].status
    BY <1>3, <1>4, PassDecidesNothing
  <1> QED
    BY <1>4, <1>5, <1>6

\* A new output is its step's newest; the other steps keep theirs.
LEMMA LatestAfterSubmit ==
    ASSUME candidates \in Seq(Candidate), NEW c \in Candidate,
           candidates' = Append(candidates, c)
    PROVE  /\ DOMAIN candidates' = DOMAIN candidates \cup {Len(candidates) + 1}
           /\ Len(candidates) + 1 \notin DOMAIN candidates
           /\ candidates'[Len(candidates) + 1] = c
           /\ \A i \in DOMAIN candidates : candidates'[i] = candidates[i]
           /\ getLatestCandidate(c.step)' = Len(candidates) + 1
           /\ \A s : s # c.step => getLatestCandidate(s)' = getLatestCandidate(s)
  <1> DEFINE n == Len(candidates) + 1
  <1>1. /\ Len(candidates) \in Nat /\ DOMAIN candidates = 1..Len(candidates)
        /\ candidates' \in Seq(Candidate) /\ Len(candidates') = n
        /\ candidates'[n] = c
        /\ \A i \in DOMAIN candidates : candidates'[i] = candidates[i]
    BY LenProperties, AppendProperties
  <1>2. DOMAIN candidates' = DOMAIN candidates \cup {n} /\ n \notin DOMAIN candidates
    <2>1. DOMAIN candidates' = 1..n
      BY <1>1, LenProperties
    <2> QED
      BY <1>1, <2>1
  <1>3. \A i \in DOMAIN candidates : i < n
    BY <1>1
  <1>4. getLatestCandidate(c.step)' = n
    <2>1. n \in CandidatesOf(c.step)' /\ \A j \in CandidatesOf(c.step)' : j <= n
      BY <1>1, <1>2, <1>3 DEF CandidatesOf
    <2>2. \A i \in CandidatesOf(c.step)' : (\A j \in CandidatesOf(c.step)' : j <= i) => i = n
      BY <1>1, <1>2, <1>3, <2>1 DEF CandidatesOf
    <2> QED
      BY <2>1, <2>2 DEF getLatestCandidate
  <1>5. ASSUME NEW s, s # c.step
        PROVE  getLatestCandidate(s)' = getLatestCandidate(s)
    <2>1. CandidatesOf(s)' = CandidatesOf(s)
      BY <1>1, <1>2, <1>5 DEF CandidatesOf
    <2> QED
      BY <2>1 DEF getLatestCandidate
  <1> QED
    BY <1>1, <1>2, <1>4, <1>5

\* Deciding an output changes neither whose it is nor which is the newest.
LEMMA LatestAfterDecision ==
    ASSUME candidates \in Seq(Candidate), NEW i \in DOMAIN candidates, NEW decision,
           decideWorkflowCandidate(i, decision)
    PROVE  /\ DOMAIN candidates' = DOMAIN candidates
           /\ \A j \in DOMAIN candidates : j # i => candidates'[j] = candidates[j]
           /\ candidates'[i].step = candidates[i].step
           /\ candidates'[i].decision = decision
           /\ candidates'[i].decidedAt = run'.revision
           /\ \A s : getLatestCandidate(s)' = getLatestCandidate(s)
  <1>1. candidates[i] \in Candidate
    BY LenProperties
  <1>2. candidates' = [candidates EXCEPT ![i] =
            [candidates[i] EXCEPT !.decision = decision, !.decidedAt = run'.revision]]
    BY DEF decideWorkflowCandidate
  <1>3. /\ DOMAIN candidates' = DOMAIN candidates
        /\ \A j \in DOMAIN candidates : j # i => candidates'[j] = candidates[j]
        /\ candidates'[i].step = candidates[i].step
        /\ candidates'[i].decision = decision
        /\ candidates'[i].decidedAt = run'.revision
    BY <1>1, <1>2 DEF Candidate
  <1>4. ASSUME NEW s
        PROVE  getLatestCandidate(s)' = getLatestCandidate(s)
    <2>1. CandidatesOf(s)' = CandidatesOf(s)
      BY <1>3 DEF CandidatesOf
    <2> QED
      BY <2>1 DEF getLatestCandidate
  <1> QED
    BY <1>3, <1>4

\* What a step waits on, or is done with: its newest output, undecided or
\* approved.
Backed(s) ==
    LET i == getLatestCandidate(s)
    IN  /\ Status(s) = "awaiting_approval" => i # 0 /\ candidates[i].decision = "pending"
        /\ Status(s) = "done" => i # 0 /\ candidates[i].decision = "approved"

\* The steps the author decides by looking at an output.
AuthorSteps == {s \in Steps : requiresApproval(RunRecipe, s) /\ ~ IsGate(RunRecipe, s)}

StepsBacked == \A s \in AuthorSteps : Backed(s)

\* An approval carries the revision it led to, so that the next one is later
\* than all before.
ApprovedInThePast ==
    \A i \in DOMAIN candidates :
        candidates[i].decision = "approved" => candidates[i].decidedAt <= run.revision

ScenesCurrent ==
    LET A == ApprovedOfKind("scene-spec")
    IN  IF A = {} THEN scenes = 0
        ELSE /\ scenes \in A
             /\ \A j \in A : j # scenes => candidates[j].decidedAt < candidates[scenes].decidedAt

DecisionInv == StepsBacked /\ ApprovedInThePast /\ ScenesCurrent

\* An action that moves one step leaves the other steps what they rest on,
\* unless it decides an output of theirs.
LEMMA OthersBacked ==
    ASSUME IsRun(run), StepsBacked, NEW s \in Steps,
           NEW y \in StepState(RunRecipe, s), run' = WithStep(run, s, y),
           NEW t \in AuthorSteps, t # s,
           getLatestCandidate(t)' = getLatestCandidate(t),
           LET i == getLatestCandidate(t)
           IN  i # 0 => candidates'[i].decision = candidates[i].decision
    PROVE  Backed(t)'
  <1>1. t \in stepNodes(Recipe[run.recipe]) /\ ~ IsGate(Recipe[run.recipe], t)
    BY DEF AuthorSteps, Steps, RunRecipe
  <1>2. run'.steps[t].status \in {"awaiting_approval", "done"}
            => run'.steps[t].status = run.steps[t].status
    BY <1>1, OneStepMoves DEF Steps, RunRecipe
  <1>3. Backed(t)
    BY DEF StepsBacked
  <1> QED
    BY <1>2, <1>3 DEF Backed, Status

\* The step that moved, once the pass has followed.
LEMMA MovedBacked ==
    ASSUME IsRun(run), NEW s \in AuthorSteps,
           NEW y \in StepState(RunRecipe, s), run' = WithStep(run, s, y),
           LET i == getLatestCandidate(s)'
           IN  /\ y.status = "awaiting_approval" => i # 0 /\ candidates'[i].decision = "pending"
               /\ y.status = "done" => i # 0 /\ candidates'[i].decision = "approved"
    PROVE  Backed(s)'
  <1>1. s \in stepNodes(Recipe[run.recipe]) /\ ~ IsGate(Recipe[run.recipe], s)
    BY DEF AuthorSteps, Steps, RunRecipe
  <1>2. run'.steps[s].status \in {"awaiting_approval", "done"}
            => run'.steps[s].status = y.status
    BY <1>1, OneStepMoves DEF Steps, RunRecipe
  <1> QED
    BY <1>2 DEF Backed, Status

\* Every accepted action but cancel keeps the recipe and moves the revision
\* on by one.
LEMMA SettledCounts ==
    ASSUME NEW x, NEW st
    PROVE  Settled(x, st).recipe = x.recipe /\ Settled(x, st).revision = x.revision + 1
  BY DEF Settled

\* While the recipe stays, so do the kinds of the outputs.
LEMMA ScenesKept ==
    ASSUME run'.recipe = run.recipe, candidates \in Seq(Candidate),
           DOMAIN candidates \subseteq DOMAIN candidates',
           \A i \in DOMAIN candidates :
              /\ candidates'[i].step = candidates[i].step
              /\ candidates[i].decision = "approved" => candidates'[i] = candidates[i]
              /\ candidates'[i].decision = "approved" => candidates[i].decision = "approved",
           \A i \in DOMAIN candidates' \ DOMAIN candidates :
              candidates'[i].decision # "approved",
           run.revision \in Nat, run'.revision \in Nat, run.revision <= run'.revision,
           ApprovedInThePast, ScenesCurrent, UNCHANGED scenes
    PROVE  ApprovedInThePast' /\ ScenesCurrent'
  <1>1. \A i \in DOMAIN candidates : candidates[i] \in Candidate
    BY LenProperties
  <1>2. ApprovedInThePast'
    BY <1>1 DEF ApprovedInThePast, Candidate
  <1>3. ApprovedOfKind("scene-spec")' = ApprovedOfKind("scene-spec")
    BY DEF ApprovedOfKind, KindOf, RunRecipe
  <1>4. \A i \in ApprovedOfKind("scene-spec") : candidates'[i] = candidates[i]
    BY DEF ApprovedOfKind
  <1>5. ScenesCurrent'
    BY <1>3, <1>4 DEF ScenesCurrent
  <1> QED
    BY <1>2, <1>5

\* An output approved now is the latest approved of its kind.
LEMMA ScenesCommitted ==
    ASSUME run'.recipe = run.recipe, candidates \in Seq(Candidate),
           NEW i \in DOMAIN candidates',
           DOMAIN candidates' = DOMAIN candidates \cup {i},
           \A j \in DOMAIN candidates : j # i => candidates'[j] = candidates[j],
           i \in DOMAIN candidates => candidates[i].decision # "approved",
           candidates'[i].decision = "approved", candidates'[i].decidedAt = run'.revision,
           run.revision \in Nat, run'.revision = run.revision + 1,
           ApprovedInThePast, ScenesCurrent,
           commitCandidate(i, KindOf(i)')
    PROVE  ApprovedInThePast' /\ ScenesCurrent'
  <1>1. \A j \in DOMAIN candidates : candidates[j] \in Candidate
    BY LenProperties
  <1>2. ApprovedInThePast'
    BY <1>1 DEF ApprovedInThePast, Candidate
  <1>3. \A j \in DOMAIN candidates' : j # i => KindOf(j)' = KindOf(j)
    BY DEF KindOf, RunRecipe
  <1>4. CASE KindOf(i)' = "scene-spec"
    <2>1. ApprovedOfKind("scene-spec")' = ApprovedOfKind("scene-spec") \cup {i}
      BY <1>3, <1>4 DEF ApprovedOfKind
    <2>2. \A j \in ApprovedOfKind("scene-spec") :
              j # i /\ candidates'[j].decidedAt < candidates'[i].decidedAt
      BY <1>1 DEF ApprovedOfKind, ApprovedInThePast, Candidate
    <2>3. scenes' = i
      BY <1>4 DEF commitCandidate
    <2> QED
      BY <1>2, <2>1, <2>2, <2>3 DEF ScenesCurrent
  <1>5. CASE KindOf(i)' # "scene-spec"
    <2>1. ApprovedOfKind("scene-spec")' = ApprovedOfKind("scene-spec")
      BY <1>3, <1>5 DEF ApprovedOfKind
    <2>2. \A j \in ApprovedOfKind("scene-spec") : candidates'[j] = candidates[j]
      BY DEF ApprovedOfKind
    <2>3. scenes' = scenes
      BY <1>5 DEF commitCandidate
    <2> QED
      BY <1>2, <2>1, <2>2, <2>3 DEF ScenesCurrent
  <1> QED
    BY <1>4, <1>5

\* A run just created, as Init and StartRun leave it.
FreshRun ==
    /\ \E id \in Runnable : run = createRunState(id)
    /\ candidates = <<>>
    /\ scenes = 0

\* A fresh run waits only at gates, and the chapter's scenes are untouched.
LEMMA FreshDecisions == FreshRun => DecisionInv
  <1> SUFFICES ASSUME NEW id \in Runnable, run = createRunState(id),
                      candidates = <<>>, scenes = 0
               PROVE  DecisionInv
    BY DEF FreshRun
  <1> DEFINE st == buildStepTemplates(Recipe[id])
  <1>1. run.recipe = id /\ run.steps = settle(Recipe[id], st)
    BY DEF createRunState
  <1>2. AreSteps(Recipe[id], st) /\ \A s \in stepNodes(Recipe[id]) : st[s].status = "pending"
    <2>1. id \in RecipeIds
      BY DEF Runnable
    <2> QED
      BY <2>1 DEF buildStepTemplates, AreSteps, StepState, StepStatus, Note
  <1>3. ASSUME NEW s \in AuthorSteps
        PROVE  Backed(s)
    <2> HIDE DEF st
    <2>1. s \in stepNodes(Recipe[id]) /\ ~ IsGate(Recipe[id], s)
      BY <1>1 DEF AuthorSteps, Steps, RunRecipe
    <2>2. settle(Recipe[id], st)[s].status \notin {"awaiting_approval", "done"}
      BY <1>2, <2>1, PassDecidesNothing
    <2> QED
      BY <1>1, <2>2 DEF Backed, Status
  <1>4. DOMAIN candidates = {}
    BY EmptySeq
  <1> QED
    BY <1>3, <1>4 DEF DecisionInv, StepsBacked, ApprovedInThePast, ScenesCurrent,
                      ApprovedOfKind

\* When the newest output of a step is not touched, an action that moves the
\* step to neither "awaiting_approval" nor "done" keeps every decision right.
LEMMA MoveKeepsDecisions ==
    ASSUME IInv, DecisionInv, NEW s \in Steps, NEW y \in StepState(RunRecipe, s),
           run' = WithStep(run, s, y), y.status \notin {"awaiting_approval", "done"},
           UNCHANGED <<candidates, scenes>>
    PROVE  DecisionInv'
  <1>1. /\ IsRun(run) /\ run.revision \in Nat /\ candidates \in Seq(Candidate)
        /\ run'.recipe = run.recipe /\ run'.revision = run.revision + 1
    BY SettledCounts DEF IInv, TypeOK, Good, IsRun, WithStep
  <1>2. AuthorSteps' = AuthorSteps
    BY <1>1 DEF AuthorSteps, Steps, RunRecipe
  <1>3. \A t : getLatestCandidate(t)' = getLatestCandidate(t)
    BY DEF getLatestCandidate, CandidatesOf
  <1>4. StepsBacked'
    BY <1>1, <1>2, <1>3, OthersBacked, MovedBacked DEF DecisionInv, StepsBacked
  <1>5. ApprovedInThePast' /\ ScenesCurrent'
    BY <1>1, ScenesKept DEF DecisionInv
  <1> QED
    BY <1>4, <1>5 DEF DecisionInv

\* submit: the step waits on the output handed in now, or is done with it
\* because nobody wants to approve it.
LEMMA SubmitDecisions ==
    ASSUME IInv, DecisionInv, NEW s \in Steps, NEW outcome, SubmitStepOutput(s, outcome)
    PROVE  DecisionInv'
  <1> PICK n : n = Len(candidates) + 1
    OBVIOUS
  <1> DEFINE kind == expectedOutputFor(RunRecipe.step[s].kind)
             status == IF requiresApproval(RunRecipe, s) THEN "awaiting_approval" ELSE "done"
             o == IF RunRecipe.step[s].outcomes = {} THEN run.steps[s].outcome ELSE outcome
             y == [run.steps[s] EXCEPT !.status = status, !.outcome = o]
             c == IF run'.steps[s].status = "done"
                  THEN [step |-> s, decision |-> "approved", decidedAt |-> run'.revision]
                  ELSE [step |-> s, decision |-> "pending", decidedAt |-> 0]
  <1>1. /\ IsRun(run) /\ run.recipe \in RecipeIds /\ run.revision \in Nat
        /\ candidates \in Seq(Candidate)
        /\ s \in stepNodes(Recipe[run.recipe]) /\ run.steps[s] \in StepState(RunRecipe, s)
        /\ CanSubmit(run, s, outcome) /\ run' = Submit(run, s, outcome)
    BY DEF IInv, TypeOK, Good, IsRun, AreSteps, Steps, RunRecipe, SubmitStepOutput
  <1>2. run' = WithStep(run, s, y)
    BY <1>1 DEF Submit, RunRecipe
  <1>3. y \in StepState(RunRecipe, s) /\ y.status = status
    <2>1. status \in StepStatus
      BY DEF StepStatus
    <2>2. o \in RunRecipe.step[s].outcomes \cup {NoOutcome}
      BY <1>1 DEF CanSubmit, StepState, RunRecipe
    <2> HIDE DEF status, o
    <2> QED
      BY <1>1, <2>1, <2>2 DEF StepState
  <1> HIDE DEF y
  <1>4. run'.recipe = run.recipe /\ run'.revision = run.revision + 1
    BY <1>2, SettledCounts DEF WithStep
  <1>5. AuthorSteps' = AuthorSteps
    BY <1>4 DEF AuthorSteps, Steps, RunRecipe
  <1>6. c \in Candidate /\ c.step = s /\ candidates' = Append(candidates, c)
    BY <1>1, <1>4 DEF Candidate, Decision, SubmitStepOutput
  <1>7. /\ c.decision = "approved" => c.decidedAt = run'.revision /\ commitCandidate(n, kind)
        /\ c.decision # "approved" => c.decision = "pending" /\ UNCHANGED scenes
        /\ run'.steps[s].status = "done" <=> c.decision = "approved"
    BY DEF SubmitStepOutput
  <1> HIDE DEF c
  <1>8. /\ DOMAIN candidates' = DOMAIN candidates \cup {n} /\ n \notin DOMAIN candidates
        /\ candidates'[n] = c /\ \A i \in DOMAIN candidates : candidates'[i] = candidates[i]
        /\ getLatestCandidate(s)' = n /\ n # 0
        /\ \A t : t # s => getLatestCandidate(t)' = getLatestCandidate(t)
    BY <1>1, <1>6, LatestAfterSubmit, LenProperties
  <1>9. ASSUME NEW t \in AuthorSteps
        PROVE  Backed(t)'
    <2>1. CASE t = s
      <3>1. y.status = "awaiting_approval"
        BY <1>3, <2>1 DEF AuthorSteps
      <3>2. run'.steps[s].status # "done"
        BY <1>1, <1>2, <1>3, <2>1, <3>1, OneStepMoves DEF AuthorSteps, Steps, RunRecipe
      <3>3. c.decision = "pending"
        BY <1>7, <3>2
      <3> QED
        BY <1>1, <1>2, <1>3, <1>8, <2>1, <3>1, <3>3, MovedBacked
    <2>2. CASE t # s
      <3>1. getLatestCandidate(t)' = getLatestCandidate(t)
        BY <1>8, <2>2
      <3>2. getLatestCandidate(t) # 0 => getLatestCandidate(t) \in DOMAIN candidates
        BY <1>1, LatestCandidate DEF CandidatesOf
      <3> QED
        BY <1>1, <1>2, <1>3, <1>8, <2>2, <3>1, <3>2, OthersBacked DEF DecisionInv
    <2> QED
      BY <2>1, <2>2
  <1>10. ApprovedInThePast' /\ ScenesCurrent'
    <2>1. CASE c.decision = "approved"
      <3>1. KindOf(n)' = kind
        BY <1>4, <1>6, <1>8 DEF KindOf, RunRecipe, expectedOutputFor
      <3>2. commitCandidate(n, KindOf(n)')
        BY <1>7, <2>1, <3>1 DEF commitCandidate
      <3> QED
        BY <1>1, <1>4, <1>7, <1>8, <2>1, <3>2, ScenesCommitted DEF DecisionInv
    <2>2. CASE c.decision # "approved"
      <3>1. run'.revision \in Nat /\ run.revision <= run'.revision
        BY <1>1, <1>4
      <3>2. UNCHANGED scenes
        BY <1>7, <2>2
      <3> QED
        BY <1>1, <1>4, <1>8, <2>2, <3>1, <3>2, ScenesKept DEF DecisionInv
    <2> QED
      BY <2>1, <2>2
  <1> QED
    BY <1>5, <1>9, <1>10 DEF DecisionInv, StepsBacked

\* block: a step that is passed over, fails or goes on waits on no output.
LEMMA BlockDecisions ==
    ASSUME IInv, DecisionInv, NEW s \in Steps, ReportBlocker(s)
    PROVE  DecisionInv'
  <1> DEFINE y == [run.steps[s] EXCEPT !.note = "blocked"]
             again == [y EXCEPT !.attempt = @ + 1]
  <1>1. /\ run.steps[s] \in StepState(RunRecipe, s) /\ run.steps[s].status = "running"
        /\ run' = Block(run, s) /\ UNCHANGED <<candidates, scenes>>
    BY DEF IInv, TypeOK, Good, IsRun, AreSteps, Steps, RunRecipe, ReportBlocker, CanBlock,
           Accepts
  <1>2. y \in StepState(RunRecipe, s) /\ y.status = "running"
    BY <1>1 DEF StepState, Note
  <1> HIDE DEF y
  <1>3. again \in StepState(RunRecipe, s) /\ again.status = "running"
    BY <1>2 DEF StepState
  <1>4. \A status \in {"skipped", "failed"} :
           /\ [y EXCEPT !.status = status] \in StepState(RunRecipe, s)
           /\ [y EXCEPT !.status = status].status = status
    BY <1>2 DEF StepState, StepStatus
  <1>5. \/ run' = WithStep(run, s, again)
        \/ \E status \in {"skipped", "failed"} :
              run' = WithStep(run, s, [y EXCEPT !.status = status])
    BY <1>1 DEF Block, y
  <1> HIDE DEF again
  <1>6. CASE run' = WithStep(run, s, again)
    BY <1>1, <1>3, <1>6, MoveKeepsDecisions
  <1>7. ASSUME NEW status \in {"skipped", "failed"},
               run' = WithStep(run, s, [y EXCEPT !.status = status])
        PROVE  DecisionInv'
    BY <1>1, <1>4, <1>7, MoveKeepsDecisions
  <1> QED
    BY <1>5, <1>6, <1>7

\* retry: the step runs again.
LEMMA RetryDecisions ==
    ASSUME IInv, DecisionInv, NEW s \in Steps, RetryStep(s)
    PROVE  DecisionInv'
  <1> DEFINE k == run.steps[s].attempt + 1
             y == [run.steps[s] EXCEPT !.status = "running", !.attempt = k]
  <1>1. /\ run.steps[s] \in StepState(RunRecipe, s)
        /\ run' = WithStep(run, s, y) /\ UNCHANGED <<candidates, scenes>>
    BY DEF IInv, TypeOK, Good, IsRun, AreSteps, Steps, RunRecipe, RetryStep, Retry
  <1>2. k \in Nat
    BY <1>1 DEF StepState
  <1> HIDE DEF k
  <1>3. y \in StepState(RunRecipe, s) /\ y.status = "running"
    BY <1>1, <1>2 DEF StepState, StepStatus
  <1> HIDE DEF y
  <1> QED
    BY <1>1, <1>3, MoveKeepsDecisions

\* skip: the failed step is passed over.
LEMMA SkipDecisions ==
    ASSUME IInv, DecisionInv, NEW s \in Steps, SkipStep(s)
    PROVE  DecisionInv'
  <1> DEFINE y == [run.steps[s] EXCEPT !.status = "skipped"]
  <1>1. /\ run.steps[s] \in StepState(RunRecipe, s)
        /\ run' = WithStep(run, s, y) /\ UNCHANGED <<candidates, scenes>>
    BY DEF IInv, TypeOK, Good, IsRun, AreSteps, Steps, RunRecipe, SkipStep, Skip
  <1>2. y \in StepState(RunRecipe, s) /\ y.status = "skipped"
    BY <1>1 DEF StepState, StepStatus
  <1> HIDE DEF y
  <1> QED
    BY <1>1, <1>2, MoveKeepsDecisions

\* cancel: steps, outputs and scenes stay.
LEMMA CancelDecisions ==
    ASSUME IInv, DecisionInv, CancelRun
    PROVE  DecisionInv'
  <1>1. /\ candidates \in Seq(Candidate) /\ run.revision \in Nat
        /\ run'.recipe = run.recipe /\ run'.revision = run.revision + 1
        /\ run'.steps = run.steps /\ UNCHANGED <<candidates, scenes>>
    BY DEF IInv, TypeOK, Good, IsRun, CancelRun, Cancel
  <1>2. StepsBacked'
    <2>1. \A t : getLatestCandidate(t)' = getLatestCandidate(t)
      BY <1>1 DEF getLatestCandidate, CandidatesOf
    <2>2. AuthorSteps' = AuthorSteps
      BY <1>1 DEF AuthorSteps, Steps, RunRecipe
    <2> QED
      BY <1>1, <2>1, <2>2 DEF DecisionInv, StepsBacked, Backed, Status
  <1>3. ApprovedInThePast' /\ ScenesCurrent'
    BY <1>1, ScenesKept DEF DecisionInv
  <1> QED
    BY <1>2, <1>3 DEF DecisionInv

\* approve: the output the step waited on is the one approved.
LEMMA ApproveDecisions ==
    ASSUME IInv, DecisionInv, NEW s \in Steps, ApproveStep(s)
    PROVE  DecisionInv'
  <1> PICK i : i = getLatestCandidate(s)
    OBVIOUS
  <1> DEFINE y == [run.steps[s] EXCEPT !.status = "done"]
  <1>1. /\ IsRun(run) /\ run.revision \in Nat /\ candidates \in Seq(Candidate)
        /\ run.steps[s] \in StepState(RunRecipe, s)
        /\ run.steps[s].status = "awaiting_approval"
        /\ run' = WithStep(run, s, y)
    BY DEF IInv, TypeOK, Good, IsRun, AreSteps, Steps, RunRecipe, ApproveStep, Approve,
           CanApprove
  <1>2. y \in StepState(RunRecipe, s) /\ y.status = "done"
    BY <1>1 DEF StepState, StepStatus
  <1> HIDE DEF y
  <1>3. run'.recipe = run.recipe /\ run'.revision = run.revision + 1
    BY <1>1, SettledCounts DEF WithStep
  <1>4. AuthorSteps' = AuthorSteps
    BY <1>3 DEF AuthorSteps, Steps, RunRecipe
  <1>5. /\ i # 0 => i \in DOMAIN candidates /\ candidates[i].step = s
        /\ \A t : getLatestCandidate(t) # 0 =>
              /\ getLatestCandidate(t) \in DOMAIN candidates
              /\ candidates[getLatestCandidate(t)].step = t
    BY <1>1, LatestCandidate DEF CandidatesOf
  <1>6. s \in AuthorSteps => i # 0 /\ candidates[i].decision = "pending"
    BY <1>1 DEF DecisionInv, StepsBacked, Backed, Status
  <1>7. CASE i = 0 \/ IsGate(RunRecipe, s) \/ candidates[i].decision # "pending"
    <2>1. UNCHANGED <<candidates, scenes>> /\ s \notin AuthorSteps
      BY <1>6, <1>7 DEF ApproveStep, AuthorSteps
    <2>2. \A t : getLatestCandidate(t)' = getLatestCandidate(t)
      BY <2>1 DEF getLatestCandidate, CandidatesOf
    <2>3. StepsBacked'
      BY <1>1, <1>2, <1>4, <2>1, <2>2, OthersBacked DEF DecisionInv, StepsBacked
    <2>4. ApprovedInThePast' /\ ScenesCurrent'
      BY <1>1, <1>3, <2>1, ScenesKept DEF DecisionInv
    <2> QED
      BY <2>3, <2>4 DEF DecisionInv
  <1>8. CASE ~ (i = 0 \/ IsGate(RunRecipe, s) \/ candidates[i].decision # "pending")
    <2>1. /\ i \in DOMAIN candidates /\ candidates[i].step = s
          /\ candidates[i].decision # "approved"
          /\ decideWorkflowCandidate(i, "approved") /\ commitCandidate(i, KindOf(i))
      BY <1>5, <1>8 DEF ApproveStep
    <2>2. /\ DOMAIN candidates' = DOMAIN candidates
          /\ \A j \in DOMAIN candidates : j # i => candidates'[j] = candidates[j]
          /\ candidates'[i].step = candidates[i].step
          /\ candidates'[i].decision = "approved"
          /\ candidates'[i].decidedAt = run'.revision
          /\ \A t : getLatestCandidate(t)' = getLatestCandidate(t)
      BY <1>1, <2>1, LatestAfterDecision
    <2>3. ASSUME NEW t \in AuthorSteps
          PROVE  Backed(t)'
      <3>1. CASE t = s
        BY <1>1, <1>2, <1>6, <2>2, <3>1, MovedBacked
      <3>2. CASE t # s
        <4>1. getLatestCandidate(t) # 0 => getLatestCandidate(t) # i
                                        /\ getLatestCandidate(t) \in DOMAIN candidates
          BY <1>5, <2>1, <3>2
        <4> QED
          BY <1>1, <1>2, <2>2, <3>2, <4>1, OthersBacked DEF DecisionInv
      <3> QED
        BY <3>1, <3>2
    <2>4. KindOf(i)' = KindOf(i)
      BY <1>3, <2>2 DEF KindOf, RunRecipe, expectedOutputFor
    <2>5. commitCandidate(i, KindOf(i)')
      BY <2>1, <2>4 DEF commitCandidate
    <2>6. ApprovedInThePast' /\ ScenesCurrent'
      BY <1>1, <1>3, <2>1, <2>2, <2>5, ScenesCommitted DEF DecisionInv
    <2> QED
      BY <1>4, <2>3, <2>6 DEF DecisionInv, StepsBacked
  <1> QED
    BY <1>7, <1>8

\* reject: the step runs again, or starts over with all that the send-back
\* resets; a send-back edge leads to a step the rejected one comes after.
LEMMA RejectDecisions ==
    ASSUME IInv, DecisionInv, NEW s \in Steps, RejectStep(s)
    PROVE  DecisionInv'
  <1> PICK i : i = getLatestCandidate(s)
    OBVIOUS
  <1> DEFINE r       == RunRecipe
             targets == RejectTargets(run, s)
             reset   == targets \cup UNION {forwardDescendants(r, t) : t \in targets}
             Fresh(t) == [status  |-> "pending", attempt |-> run.steps[t].attempt,
                          outcome |-> NoOutcome,
                          note    |-> IF t \in targets THEN "rejected" ELSE "none"]
             st == [t \in stepNodes(r) |-> IF t \in reset THEN Fresh(t) ELSE run.steps[t]]
             k  == run.steps[s].attempt + 1
             y  == [status |-> "running", attempt |-> k, outcome |-> NoOutcome,
                    note |-> "rejected"]
  <1>1. /\ IsRun(run) /\ run.revision \in Nat /\ candidates \in Seq(Candidate)
        /\ run.recipe \in Runnable /\ s \in stepNodes(r)
        /\ \A t \in stepNodes(r) : run.steps[t] \in StepState(r, t) /\ run.steps[t].attempt \in Nat
        /\ run' = Reject(run, s) /\ UNCHANGED scenes
    BY DEF IInv, TypeOK, Good, IsRun, AreSteps, StepState, Steps, RunRecipe, RejectStep
  <1>2. run'.recipe = run.recipe /\ run'.revision = run.revision + 1
    BY <1>1, SettledCounts DEF Reject, WithStep
  <1>3. AuthorSteps' = AuthorSteps
    BY <1>2 DEF AuthorSteps, Steps, RunRecipe
  <1>4. \A t : getLatestCandidate(t) # 0 =>
              /\ getLatestCandidate(t) \in DOMAIN candidates
              /\ candidates[getLatestCandidate(t)].step = t
    BY <1>1, LatestCandidate DEF CandidatesOf
  <1>5. \/ UNCHANGED candidates
        \/ /\ i \in DOMAIN candidates /\ candidates[i].step = s
           /\ candidates[i].decision = "pending" /\ decideWorkflowCandidate(i, "rejected")
    BY <1>4 DEF RejectStep
  <1>6. /\ DOMAIN candidates' = DOMAIN candidates
        /\ \A t : getLatestCandidate(t)' = getLatestCandidate(t)
        /\ \A j \in DOMAIN candidates :
              /\ candidates'[j].step = candidates[j].step
              /\ candidates[j].step # s \/ candidates[j].decision = "approved"
                    => candidates'[j] = candidates[j]
              /\ candidates'[j].decision = "approved" => candidates[j].decision = "approved"
    <2>1. CASE UNCHANGED candidates
      BY <2>1 DEF getLatestCandidate, CandidatesOf
    <2>2. CASE /\ i \in DOMAIN candidates /\ candidates[i].step = s
               /\ candidates[i].decision = "pending" /\ decideWorkflowCandidate(i, "rejected")
      <3>1. /\ DOMAIN candidates' = DOMAIN candidates
            /\ \A j \in DOMAIN candidates : j # i => candidates'[j] = candidates[j]
            /\ candidates'[i].step = candidates[i].step
            /\ candidates'[i].decision = "rejected"
            /\ \A t : getLatestCandidate(t)' = getLatestCandidate(t)
        BY <1>1, <2>2, LatestAfterDecision
      <3> QED
        BY <2>2, <3>1
    <2> QED
      BY <1>5, <2>1, <2>2
  <1>7. ApprovedInThePast' /\ ScenesCurrent'
    BY <1>1, <1>2, <1>6, ScenesKept DEF DecisionInv
  <1>8. ASSUME NEW t \in AuthorSteps, t # s,
               run'.steps[t].status \in {"awaiting_approval", "done"}
                   => run'.steps[t].status = run.steps[t].status
        PROVE  Backed(t)'
    <2>1. Backed(t)
      BY DEF DecisionInv, StepsBacked
    <2> QED
      BY <1>4, <1>6, <1>8, <2>1 DEF Backed, Status
  <1>9. CASE targets # {}
    <2>1. run' = Settled(run, st)
      BY <1>1, <1>9 DEF Reject, RunRecipe
    <2>2. AreSteps(r, st)
      <3>1. \A t \in stepNodes(r) : Fresh(t) \in StepState(r, t)
        BY <1>1 DEF StepState, StepStatus, Note
      <3>2. \A t \in stepNodes(r) : st[t] \in StepState(r, t)
        BY <1>1, <3>1
      <3> QED
        BY <3>2 DEF AreSteps
    <2>3. s \in reset
      <3>1. RejectEdges(r)
        BY <1>1 DEF Runnable, checkWorkflowGraph, RunRecipe
      <3>2. PICK e \in r.reject : e.source = s /\ e.target \in targets
        BY <1>9 DEF RejectTargets, RunRecipe
      <3> QED
        BY <3>1, <3>2 DEF RejectEdges
    <2>4. \A t \in stepNodes(r) :
             st[t].status = IF t \in reset THEN "pending" ELSE run.steps[t].status
      OBVIOUS
    <2>5. st[s].status = "pending"
      BY <1>1, <2>3, <2>4
    <2> HIDE DEF st, reset
    <2>6. run'.steps = settle(r, st)
      BY <2>1 DEF Settled, RunRecipe
    <2>7. ASSUME NEW t \in AuthorSteps
          PROVE  Backed(t)'
      <3>1. t \in stepNodes(r) /\ ~ IsGate(r, t)
        BY DEF AuthorSteps, Steps
      <3>2. run'.steps[t].status \in {"awaiting_approval", "done"}
                => run'.steps[t].status = st[t].status
        BY <2>2, <2>6, <3>1, PassDecidesNothing
      <3>3. CASE t = s
        BY <2>5, <3>2, <3>3 DEF Backed, Status
      <3>4. CASE t # s
        BY <1>8, <2>4, <3>1, <3>2, <3>4
      <3> QED
        BY <3>3, <3>4
    <2> QED
      BY <1>3, <1>7, <2>7 DEF DecisionInv, StepsBacked
  <1>10. CASE targets = {}
    <2>1. k \in Nat
      BY <1>1
    <2> HIDE DEF k
    <2>2. y \in StepState(r, s) /\ y.status = "running"
      BY <2>1 DEF StepState, StepStatus, Note
    <2>3. run' = WithStep(run, s, y)
      BY <1>1, <1>10 DEF Reject, RunRecipe, k
    <2> HIDE DEF y
    <2>4. ASSUME NEW t \in AuthorSteps
          PROVE  Backed(t)'
      <3>1. t \in stepNodes(Recipe[run.recipe]) /\ ~ IsGate(Recipe[run.recipe], t)
        BY DEF AuthorSteps, Steps, RunRecipe
      <3>2. run'.steps[t].status \in {"awaiting_approval", "done"}
                => run'.steps[t].status = IF t = s THEN y.status ELSE run.steps[t].status
        BY <1>1, <2>2, <2>3, <3>1, OneStepMoves DEF RunRecipe
      <3> QED
        BY <1>8, <2>2, <3>2 DEF Backed, Status
    <2> QED
      BY <1>3, <1>7, <2>4 DEF DecisionInv, StepsBacked
  <1> QED
    BY <1>9, <1>10

\* Every step keeps outputs, decisions and scenes together.
LEMMA DecisionNext == IInv /\ DecisionInv /\ [Next]_vars => DecisionInv'
  <1> SUFFICES ASSUME IInv, DecisionInv, [Next]_vars PROVE DecisionInv'
    OBVIOUS
  <1>1. ASSUME NEW id \in RecipeIds, StartRun(id)
        PROVE  DecisionInv'
    <2>1. FreshRun'
      BY <1>1 DEF StartRun, FreshRun
    <2>2. (FreshRun => DecisionInv)'
      BY FreshDecisions, PTL
    <2> QED
      BY <2>1, <2>2
  <1>2. CASE UNCHANGED vars
    <2>1. UNCHANGED <<run, candidates, scenes>>
      BY <1>2 DEF vars
    <2>2. \A t : getLatestCandidate(t)' = getLatestCandidate(t)
      BY <2>1 DEF getLatestCandidate, CandidatesOf
    <2>3. AuthorSteps' = AuthorSteps /\ ApprovedOfKind("scene-spec")' = ApprovedOfKind("scene-spec")
      BY <2>1 DEF AuthorSteps, Steps, RunRecipe, ApprovedOfKind, KindOf
    <2> QED
      BY <2>1, <2>2, <2>3 DEF DecisionInv, StepsBacked, Backed, Status, ApprovedInThePast,
                              ScenesCurrent
  <1> QED
    BY <1>1, <1>2, SubmitDecisions, BlockDecisions, ApproveDecisions, RejectDecisions,
       RetryDecisions, SkipDecisions, CancelDecisions DEF Next, SubmitAny

\* The invariant about decisions holds of every behaviour.
LEMMA Decisions == Spec => []DecisionInv
  <1>1. Init => DecisionInv
    BY FreshDecisions DEF Init, FreshRun
  <1> QED
    BY <1>1, Invariance, DecisionNext, PTL DEF Spec

\* On every recipe a step the author decides waits on its newest output,
\* still undecided, and is done only with that output approved, whatever was
\* handed in, sent back, blocked or skipped before (transition, approve and
\* reject; decideWorkflowCandidate).
THEOREM AuthorHasTheLastWord == Spec => []AuthorDecides
  <1>1. DecisionInv => AuthorDecides
    BY DEF DecisionInv, StepsBacked, AuthorSteps, Backed, AuthorDecides
  <1> QED
    BY <1>1, Decisions, PTL

\* The chapter's scenes are at all times those of the scene-spec approved
\* last: no approval is lost and none that is older comes back
\* (commitCandidate, getLatestApprovedCandidate).
THEOREM ScenesFollowApproval == Spec => []ScenesAreLatestApproved
  <1>1. IInv /\ DecisionInv => ScenesAreLatestApproved
    <2> SUFFICES ASSUME IInv, DecisionInv PROVE ScenesAreLatestApproved
      OBVIOUS
    <2> DEFINE A == ApprovedOfKind("scene-spec")
    <2>1. \A i \in A : candidates[i].decidedAt \in Nat
      <3>1. \A i \in DOMAIN candidates : candidates[i] \in Candidate
        BY LenProperties DEF IInv, TypeOK
      <3> QED
        BY <3>1 DEF ApprovedOfKind, Candidate
    <2>2. CASE A = {}
      BY <2>2 DEF DecisionInv, ScenesCurrent, ScenesAreLatestApproved,
                  getLatestApprovedCandidate
    <2>3. CASE A # {}
      <3>1. /\ scenes \in A
            /\ \A j \in A : j # scenes => candidates[j].decidedAt < candidates[scenes].decidedAt
        BY <2>3 DEF DecisionInv, ScenesCurrent
      <3> HIDE DEF A
      <3>2. \A j \in A : candidates[j].decidedAt <= candidates[scenes].decidedAt
        BY <2>1, <3>1
      <3>3. ASSUME NEW i \in A, \A j \in A : candidates[j].decidedAt <= candidates[i].decidedAt
            PROVE  i = scenes
        BY <2>1, <3>1, <3>3
      <3>4. scenes = CHOOSE i \in A : \A j \in A : candidates[j].decidedAt <= candidates[i].decidedAt
        BY <3>1, <3>2, <3>3
      <3> QED
        BY <2>3, <3>4 DEF A, ScenesAreLatestApproved, getLatestApprovedCandidate
    <2> QED
      BY <2>2, <2>3
  <1> QED
    BY <1>1, Invariance, Decisions, PTL

-----------------------------------------------------------------------------
(* The store of runs. *)

Rows ==
    /\ runs = [i \in DOMAIN runs |-> runs[i]]
    /\ DOMAIN runs \subseteq RunIds
    /\ \A i \in DOMAIN runs :
          /\ runs[i] = [narrator |-> runs[i].narrator, state |-> runs[i].state]
          /\ runs[i].narrator \in Narrators
          /\ Good(runs[i].state)

\* v is nothing, or what run v.id was at some time.
SeenInTime(v) ==
    v = NoView \/
    /\ v = [id |-> v.id, state |-> v.state]
    /\ v.id \in DOMAIN runs
    /\ IsRun(v.state)
    /\ v.state.revision <= runs[v.id].state.revision
    /\ v.state.revision = runs[v.id].state.revision => v.state = runs[v.id].state

Views ==
    /\ pageView = [p \in Pages |-> pageView[p]]
    /\ poll = [p \in Pages |-> poll[p]]
    /\ brief = [n \in Narrators |-> brief[n]]
    /\ \A p \in Pages : SeenInTime(pageView[p]) /\ SeenInTime(poll[p])
    /\ \A n \in Narrators : SeenInTime(brief[n])

StoreInv == Rows /\ Views /\ OneActiveRunPerNarrator

----------------------------------------------------------------------------

\* What an accepted action makes of a run: a good run, one revision on.
LEMMA NextRevision ==
    ASSUME NEW x, Good(x), NEW s \in stepNodes(Recipe[x.recipe]), NEW outcome
    PROVE  /\ CanSubmit(x, s, outcome) => Good(Submit(x, s, outcome))
                                       /\ Submit(x, s, outcome).revision = x.revision + 1
           /\ CanBlock(x, s)   => Good(Block(x, s))   /\ Block(x, s).revision = x.revision + 1
           /\ CanApprove(x, s) => Good(Approve(x, s)) /\ Approve(x, s).revision = x.revision + 1
           /\ CanReject(x, s)  => Good(Reject(x, s))  /\ Reject(x, s).revision = x.revision + 1
           /\ CanRetry(x, s)   => Good(Retry(x, s))   /\ Retry(x, s).revision = x.revision + 1
           /\ CanSkip(x, s)    => Good(Skip(x, s))    /\ Skip(x, s).revision = x.revision + 1
  <1>1. \A st : Settled(x, st).revision = x.revision + 1
    BY DEF Settled
  <1>2. \A y : WithStep(x, s, y).revision = x.revision + 1
    BY <1>1 DEF WithStep
  <1>3. /\ Submit(x, s, outcome).revision = x.revision + 1
        /\ Approve(x, s).revision = x.revision + 1
        /\ Retry(x, s).revision = x.revision + 1
        /\ Skip(x, s).revision = x.revision + 1
    BY <1>2 DEF Submit, Approve, Retry, Skip
  <1>4. Block(x, s).revision = x.revision + 1
    BY <1>2 DEF Block
  <1>5. Reject(x, s).revision = x.revision + 1
    BY <1>1, <1>2 DEF Reject
  <1> QED
    BY <1>3, <1>4, <1>5, SubmitGood, BlockGood, ApproveGood, RejectGood, RetryGood, SkipGood

\* Writing run i, which is not finished, makes no view of any run wrong and
\* gives no narrator a second active run.
LEMMA RunWritten ==
    ASSUME Rows, OneActiveRunPerNarrator, NEW i \in DOMAIN runs,
           ~ Terminal(runs[i].state),
           NEW next, Good(next), next.revision = runs[i].state.revision + 1,
           runs' = [runs EXCEPT ![i].state = next]
    PROVE  /\ Rows' /\ OneActiveRunPerNarrator'
           /\ DOMAIN runs' = DOMAIN runs /\ runs'[i].state = next
           /\ \A v : SeenInTime(v) => SeenInTime(v)'
           /\ SeenInTime([id |-> i, state |-> next])'
  <1>1. /\ DOMAIN runs' = DOMAIN runs
        /\ runs'[i] = [narrator |-> runs[i].narrator, state |-> next]
        /\ \A j \in DOMAIN runs : j # i => runs'[j] = runs[j]
        /\ runs' = [j \in DOMAIN runs' |-> runs'[j]]
    <2>1. runs' = [runs EXCEPT ![i] = [runs[i] EXCEPT !.state = next]]
      OBVIOUS
    <2>2. [runs[i] EXCEPT !.state = next] = [narrator |-> runs[i].narrator, state |-> next]
      BY DEF Rows
    <2> QED
      BY <2>1, <2>2 DEF Rows
  <1>2. Rows'
    BY <1>1 DEF Rows
  <1>3. OneActiveRunPerNarrator'
    <2>1. \A j \in DOMAIN runs' :
             /\ j \in DOMAIN runs /\ runs'[j].narrator = runs[j].narrator
             /\ ~ Terminal(runs'[j].state) => ~ Terminal(runs[j].state)
      <3>1. runs'[i].narrator = runs[i].narrator
        BY <1>1
      <3> QED
        BY <1>1, <3>1
    <2>2. ASSUME NEW j \in DOMAIN runs', NEW k \in DOMAIN runs',
                 runs'[j].narrator = runs'[k].narrator,
                 ~ Terminal(runs'[j].state), ~ Terminal(runs'[k].state)
          PROVE  j = k
      BY <2>1, <2>2 DEF OneActiveRunPerNarrator
    <2> QED
      BY <2>2 DEF OneActiveRunPerNarrator, Terminal
  <1>4. IsRun(next) /\ next.revision \in Nat /\ runs[i].state.revision \in Nat
    BY DEF Rows, Good, IsRun
  <1>5. ASSUME NEW v, SeenInTime(v)
        PROVE  SeenInTime(v)'
    <2>1. CASE v = NoView
      BY <2>1 DEF SeenInTime
    <2>2. CASE v # NoView /\ v.id = i
      <3>1. v.state.revision \in Nat
        BY <1>5, <2>2 DEF SeenInTime, IsRun
      <3>2. v.state.revision < runs'[v.id].state.revision
        BY <1>1, <1>4, <1>5, <2>2, <3>1 DEF SeenInTime
      <3> QED
        BY <1>1, <1>4, <1>5, <2>2, <3>1, <3>2 DEF SeenInTime
    <2>3. CASE v # NoView /\ v.id # i
      BY <1>1, <1>5, <2>3 DEF SeenInTime
    <2> QED
      BY <2>1, <2>2, <2>3
  <1>6. SeenInTime([id |-> i, state |-> next])'
    BY <1>1, <1>4 DEF SeenInTime
  <1> QED
    BY <1>1, <1>2, <1>3, <1>5, <1>6

\* A page acts only on a run it shows as stored, and not on a finished one.
LEMMA AuthorWrites ==
    ASSUME StoreInv, NEW p \in Pages, AuthorActs(p)
    PROVE  LET i == pageView[p].id
           IN  /\ i \in DOMAIN runs /\ pageView[p] = ViewOf(i) /\ ~ Terminal(runs[i].state)
               /\ \E next : /\ Good(next) /\ next.revision = runs[i].state.revision + 1
                            /\ runs' = [runs EXCEPT ![i].state = next]
  <1> DEFINE i == pageView[p].id
             x == runs[i].state
  <1>1. SeenInTime(pageView[p]) /\ pageView[p] # NoView
    BY DEF StoreInv, Views, AuthorActs, NoView
  <1>2. i \in DOMAIN runs /\ Good(x) /\ DOMAIN x.steps = stepNodes(Recipe[x.recipe])
    BY <1>1 DEF SeenInTime, StoreInv, Rows, Good, IsRun, AreSteps
  <1>3. pageView[p].state.revision = x.revision
    BY DEF AuthorActs, applyWorkflowAction
  <1>4. pageView[p] = ViewOf(i)
    BY <1>1, <1>3 DEF SeenInTime, ViewOf
  <1>5. Good(Cancel(x)) /\ Cancel(x).revision = x.revision + 1
    BY <1>2, CancelGood DEF Cancel
  <1>6. ~ Terminal(x)
    BY DEF AuthorActs, applyWorkflowAction, CanCancel, CanApprove, CanReject, CanRetry, CanSkip
  <1>7. \E next : /\ Good(next) /\ next.revision = x.revision + 1
                  /\ runs' = [runs EXCEPT ![i].state = next]
    <2>1. CASE applyWorkflowAction(i, pageView[p].state.revision, CanCancel(x), Cancel(x))
      BY <1>5, <2>1 DEF applyWorkflowAction
    <2>2. ASSUME NEW s \in DOMAIN x.steps,
                 \/ applyWorkflowAction(i, pageView[p].state.revision, CanApprove(x, s), Approve(x, s))
                 \/ applyWorkflowAction(i, pageView[p].state.revision, CanReject(x, s), Reject(x, s))
                 \/ applyWorkflowAction(i, pageView[p].state.revision, CanRetry(x, s), Retry(x, s))
                 \/ applyWorkflowAction(i, pageView[p].state.revision, CanSkip(x, s), Skip(x, s))
          PROVE  \E next : /\ Good(next) /\ next.revision = x.revision + 1
                           /\ runs' = [runs EXCEPT ![i].state = next]
      BY <1>2, <2>2, NextRevision DEF applyWorkflowAction
    <2> QED
      BY <2>1, <2>2 DEF AuthorActs
  <1> QED
    BY <1>2, <1>4, <1>6, <1>7

\* A narrator acts only on its one active run, whose revision is the brief's.
LEMMA NarratorWrites ==
    ASSUME StoreInv, NEW n \in Narrators, NarratorActs(n)
    PROVE  \E i \in DOMAIN runs :
              /\ getActiveWorkflowRunForNarrator(n) = {i} /\ ~ Terminal(runs[i].state)
              /\ brief[n] # NoView /\ brief[n].state.revision = runs[i].state.revision
              /\ \E next : /\ Good(next) /\ next.revision = runs[i].state.revision + 1
                           /\ runs' = [runs EXCEPT ![i].state = next]
              /\ brief' = [brief EXCEPT ![n] = [id |-> i, state |-> runs'[i].state]]
              /\ UNCHANGED <<pageView, poll>>
  <1>1. PICK i \in getActiveWorkflowRunForNarrator(n) :
           LET x        == runs[i].state
               revision == brief[n].state.revision
           IN  /\ brief[n] # NoView
               /\ \E named \in {{}} \cup {{s} : s \in DOMAIN brief[n].state.steps} :
                  \E s \in targetStepOf(x, named) :
                     \/ \E outcome \in Recipe[x.recipe].step[s].outcomes \cup {NoOutcome} :
                           applyWorkflowAction(i, revision,
                               ~ IsGate(Recipe[x.recipe], s) /\ CanSubmit(x, s, outcome),
                               Submit(x, s, outcome))
                     \/ applyWorkflowAction(i, revision, CanBlock(x, s), Block(x, s))
               /\ brief' = [brief EXCEPT ![n] = [id |-> i, state |-> runs'[i].state]]
               /\ UNCHANGED <<pageView, poll>>
    BY DEF NarratorActs
  <1> DEFINE x == runs[i].state
  <1>2. i \in DOMAIN runs /\ runs[i].narrator = n /\ x.status \in ActiveRunStatus
    BY DEF getActiveWorkflowRunForNarrator
  <1>3. Good(x) /\ DOMAIN x.steps = stepNodes(Recipe[x.recipe])
    BY <1>2 DEF StoreInv, Rows, Good, IsRun, AreSteps
  <1>4. \A y : y.status \in ActiveRunStatus => ~ Terminal(y)
    BY DEF ActiveRunStatus, Terminal
  <1>5. getActiveWorkflowRunForNarrator(n) = {i}
    BY <1>2, <1>4 DEF getActiveWorkflowRunForNarrator, StoreInv, OneActiveRunPerNarrator
  <1>6. \A named : targetStepOf(x, named) \subseteq DOMAIN x.steps
    BY DEF targetStepOf
  <1>7. /\ brief[n].state.revision = x.revision
        /\ \E next : /\ Good(next) /\ next.revision = x.revision + 1
                     /\ runs' = [runs EXCEPT ![i].state = next]
    <2>1. PICK s \in DOMAIN x.steps :
             \/ \E outcome \in Recipe[x.recipe].step[s].outcomes \cup {NoOutcome} :
                   applyWorkflowAction(i, brief[n].state.revision,
                       ~ IsGate(Recipe[x.recipe], s) /\ CanSubmit(x, s, outcome),
                       Submit(x, s, outcome))
             \/ applyWorkflowAction(i, brief[n].state.revision, CanBlock(x, s), Block(x, s))
      BY <1>1, <1>6
    <2> QED
      BY <1>3, <2>1, NextRevision DEF applyWorkflowAction
  <1> QED
    BY <1>1, <1>2, <1>4, <1>5, <1>7

----------------------------------------------------------------------------

\* An empty store, and pages and narrators that have read nothing.
LEMMA InitStore == StoreInit => StoreInv
  BY DEF StoreInit, StoreInv, Rows, Views, SeenInTime, OneActiveRunPerNarrator

\* A view of a stored run is seen in time.
LEMMA ViewIsSeen ==
    ASSUME Rows, NEW i \in DOMAIN runs
    PROVE  SeenInTime(ViewOf(i))
  <1>1. ViewOf(i).id = i /\ ViewOf(i).state = runs[i].state
    BY DEF ViewOf
  <1>2. IsRun(runs[i].state) /\ runs[i].state.revision \in Nat
    BY DEF Rows, Good, IsRun
  <1>3. runs[i].state.revision <= runs[i].state.revision
    BY <1>2
  <1>4. ViewOf(i) = [id |-> ViewOf(i).id, state |-> ViewOf(i).state]
    BY <1>1 DEF ViewOf
  <1> QED
    BY <1>1, <1>2, <1>3, <1>4 DEF SeenInTime

\* When the rows stay, views are replaced only by views seen in time.
LEMMA ViewsMoved ==
    ASSUME StoreInv, UNCHANGED runs,
           \/ UNCHANGED <<pageView, poll, brief>>
           \/ \E p \in Pages : \E v : /\ SeenInTime(v) /\ poll' = [poll EXCEPT ![p] = v]
                                     /\ UNCHANGED <<pageView, brief>>
           \/ \E p \in Pages : /\ pageView' = [pageView EXCEPT ![p] = poll[p]]
                              /\ poll' = [poll EXCEPT ![p] = NoView] /\ UNCHANGED brief
           \/ \E n \in Narrators : \E v : /\ SeenInTime(v) /\ brief' = [brief EXCEPT ![n] = v]
                                         /\ UNCHANGED <<pageView, poll>>
    PROVE  StoreInv'
  <1>1. \A v : SeenInTime(v) => SeenInTime(v)'
    BY DEF SeenInTime
  <1>2. SeenInTime(NoView)
    BY DEF SeenInTime
  <1>3. Rows' /\ OneActiveRunPerNarrator'
    BY DEF StoreInv, Rows, OneActiveRunPerNarrator, Terminal
  <1>4. /\ pageView' = [p \in Pages |-> pageView'[p]] /\ poll' = [p \in Pages |-> poll'[p]]
        /\ brief' = [n \in Narrators |-> brief'[n]]
        /\ \A p \in Pages : SeenInTime(pageView'[p]) /\ SeenInTime(poll'[p])
        /\ \A n \in Narrators : SeenInTime(brief'[n])
    BY <1>2 DEF StoreInv, Views
  <1>5. Views'
    BY <1>1, <1>4 DEF Views
  <1> QED
    BY <1>3, <1>5 DEF StoreInv

\* Every action of pages and narrators keeps the invariant.
LEMMA NextStore == StoreInv /\ [StoreNext]_storeVars => StoreInv'
  <1> SUFFICES ASSUME StoreInv, [StoreNext]_storeVars PROVE StoreInv'
    OBVIOUS
  <1>1. ASSUME NEW n \in Narrators, NEW id \in RecipeIds, NEW i \in RunIds,
               createWorkflowRun(n, id, i)
        PROVE  StoreInv'
    <2> DEFINE row == [narrator |-> n, state |-> createRunState(id)]
    <2>1. /\ DOMAIN runs' = DOMAIN runs \cup {i} /\ i \notin DOMAIN runs /\ runs'[i] = row
          /\ \A j \in DOMAIN runs : runs'[j] = runs[j]
          /\ runs' = [j \in DOMAIN runs' |-> runs'[j]]
          /\ UNCHANGED <<pageView, poll, brief>>
      BY <1>1 DEF createWorkflowRun
    <2>2. Good(row.state) /\ row = [narrator |-> row.narrator, state |-> row.state]
      BY <1>1, CreateGood DEF createWorkflowRun
    <2>3. Rows'
      <3>1. \A j \in DOMAIN runs' :
               /\ runs'[j] = [narrator |-> runs'[j].narrator, state |-> runs'[j].state]
               /\ runs'[j].narrator \in Narrators
               /\ Good(runs'[j].state)
        BY <2>1, <2>2 DEF StoreInv, Rows
      <3> QED
        BY <2>1, <3>1 DEF StoreInv, Rows
    <2>4. \A j \in DOMAIN runs : runs[j].narrator = n => Terminal(runs[j].state)
      <3>1. \A j \in DOMAIN runs : runs[j].state.status \in RunStatus
        BY DEF StoreInv, Rows, Good, IsRun
      <3> QED
        BY <1>1, <3>1 DEF createWorkflowRun, getActiveWorkflowRunForNarrator, ActiveRunStatus,
                          RunStatus, Terminal
    <2>5. OneActiveRunPerNarrator'
      <3>1. ASSUME NEW j \in DOMAIN runs', NEW k \in DOMAIN runs',
                   runs'[j].narrator = runs'[k].narrator,
                   ~ Terminal(runs'[j].state), ~ Terminal(runs'[k].state)
            PROVE  j = k
        BY <2>1, <2>4, <3>1 DEF StoreInv, OneActiveRunPerNarrator
      <3> QED
        BY <3>1 DEF OneActiveRunPerNarrator, Terminal
    <2>6. \A v : SeenInTime(v) => SeenInTime(v)'
      BY <2>1 DEF SeenInTime
    <2>7. Views'
      BY <2>1, <2>6 DEF StoreInv, Views
    <2> QED
      BY <2>3, <2>5, <2>7 DEF StoreInv
  <1>2. ASSUME NEW p \in Pages, NEW i \in DOMAIN runs, ReadRun(p, i)
        PROVE  StoreInv'
    <2>1. SeenInTime(ViewOf(i))
      BY ViewIsSeen DEF StoreInv
    <2> QED
      BY <1>2, <2>1, ViewsMoved DEF ReadRun
  <1>3. ASSUME NEW p \in Pages, ShowRun(p)
        PROVE  StoreInv'
    BY <1>3, ViewsMoved DEF ShowRun
  <1>4. ASSUME NEW p \in Pages, AuthorActs(p)
        PROVE  StoreInv'
    <2> PICK i : i = pageView[p].id
      OBVIOUS
    <2>1. PICK next : /\ i \in DOMAIN runs /\ ~ Terminal(runs[i].state) /\ Good(next)
                      /\ next.revision = runs[i].state.revision + 1
                      /\ runs' = [runs EXCEPT ![i].state = next]
      BY <1>4, AuthorWrites
    <2>2. /\ Rows' /\ OneActiveRunPerNarrator' /\ runs'[i].state = next
          /\ \A v : SeenInTime(v) => SeenInTime(v)'
          /\ SeenInTime([id |-> i, state |-> next])'
      BY <2>1, RunWritten DEF StoreInv
    <2>3. /\ pageView' = [pageView EXCEPT ![p] = [id |-> i, state |-> next]]
          /\ UNCHANGED <<poll, brief>>
      BY <1>4, <2>2 DEF AuthorActs
    <2>4. /\ pageView' = [q \in Pages |-> pageView'[q]] /\ pageView'[p] = [id |-> i, state |-> next]
          /\ \A q \in Pages : q # p => pageView'[q] = pageView[q]
      BY <2>3 DEF StoreInv, Views
    <2>5. \A q \in Pages : SeenInTime(pageView[q])'
      BY <2>2, <2>4 DEF StoreInv, Views, SeenInTime
    <2>6. /\ \A q \in Pages : SeenInTime(poll[q])'
          /\ \A n \in Narrators : SeenInTime(brief[n])'
      BY <2>2, <2>3 DEF StoreInv, Views, SeenInTime
    <2>7. Views'
      BY <2>3, <2>4, <2>5, <2>6 DEF StoreInv, Views
    <2> QED
      BY <2>2, <2>7 DEF StoreInv
  <1>5. ASSUME NEW n \in Narrators, getCurrentStep(n)
        PROVE  StoreInv'
    <2> DEFINE active == getActiveWorkflowRunForNarrator(n)
               v == IF active = {} THEN NoView ELSE ViewOf(CHOOSE i \in active : TRUE)
    <2>1. active # {} => (CHOOSE i \in active : TRUE) \in DOMAIN runs
      BY DEF getActiveWorkflowRunForNarrator
    <2>2. SeenInTime(v)
      BY <2>1, ViewIsSeen DEF StoreInv, SeenInTime
    <2>3. brief' = [brief EXCEPT ![n] = v] /\ UNCHANGED <<runs, pageView, poll>>
      BY <1>5 DEF getCurrentStep
    <2> HIDE DEF v
    <2> QED
      BY <2>2, <2>3, ViewsMoved
  <1>6. ASSUME NEW n \in Narrators, NarratorActs(n)
        PROVE  StoreInv'
    <2>1. PICK i, next :
             /\ i \in DOMAIN runs /\ ~ Terminal(runs[i].state) /\ Good(next)
             /\ next.revision = runs[i].state.revision + 1
             /\ runs' = [runs EXCEPT ![i].state = next]
             /\ brief' = [brief EXCEPT ![n] = [id |-> i, state |-> runs'[i].state]]
             /\ UNCHANGED <<pageView, poll>>
      BY <1>6, NarratorWrites
    <2>2. /\ Rows' /\ OneActiveRunPerNarrator' /\ runs'[i].state = next
          /\ \A v : SeenInTime(v) => SeenInTime(v)'
          /\ SeenInTime([id |-> i, state |-> next])'
      BY <2>1, RunWritten DEF StoreInv
    <2>3. /\ brief' = [m \in Narrators |-> brief'[m]] /\ brief'[n] = [id |-> i, state |-> next]
          /\ \A m \in Narrators : m # n => brief'[m] = brief[m]
      BY <2>1, <2>2 DEF StoreInv, Views
    <2>4. \A m \in Narrators : SeenInTime(brief[m])'
      BY <2>2, <2>3 DEF StoreInv, Views, SeenInTime
    <2>5. \A p \in Pages : SeenInTime(pageView[p])' /\ SeenInTime(poll[p])'
      BY <2>1, <2>2 DEF StoreInv, Views, SeenInTime
    <2>6. Views'
      BY <2>1, <2>3, <2>4, <2>5 DEF StoreInv, Views
    <2> QED
      BY <2>2, <2>6 DEF StoreInv
  <1>7. CASE UNCHANGED storeVars
    BY <1>7, ViewsMoved DEF storeVars
  <1> QED
    BY <1>1, <1>2, <1>3, <1>4, <1>5, <1>6, <1>7 DEF StoreNext

\* The invariant holds of every behaviour.
LEMMA StoreInvariance == StoreSpec => []StoreInv
  BY InitStore, NextStore, PTL DEF StoreSpec

\* The tables of runs and every copy a page or a narrator holds are
\* well-formed, whoever reads and writes in whichever order (run-store.ts).
THEOREM StoreTypeCorrect == StoreSpec => []StoreTypeOK
  <1>1. StoreInv => StoreTypeOK
    BY DEF StoreInv, Rows, Views, SeenInTime, StoreTypeOK, StoredRun, IsView, Good
  <1> QED
    BY <1>1, StoreInvariance, PTL

\* No narrator is ever driven by two unfinished runs, however many pages and
\* tools start, cancel and finish runs (createWorkflowRun and the partial
\* unique index on narrator_id).
THEOREM OneRunAtATime == StoreSpec => []OneActiveRunPerNarrator
  <1>1. StoreInv => OneActiveRunPerNarrator
    BY DEF StoreInv
  <1> QED
    BY <1>1, StoreInvariance, PTL

\* No page and no narrator changes a run it has not seen as it is: the
\* compare of one number in applyWorkflowAction is enough for that.
THEOREM NobodyIsOverwritten == StoreSpec => ActsOnWhatWasSeen
  <1> DEFINE Seen ==
         /\ \A p \in Pages : AuthorActs(p) => ViewOf(pageView[p].id) = pageView[p]
         /\ \A n \in Narrators : NarratorActs(n) =>
               \A i \in getActiveWorkflowRunForNarrator(n) :
                   i = brief[n].id => ViewOf(i) = brief[n]
  <1>1. ASSUME StoreInv
        PROVE  Seen
    <2>1. ASSUME NEW p \in Pages, AuthorActs(p)
          PROVE  ViewOf(pageView[p].id) = pageView[p]
      BY <1>1, <2>1, AuthorWrites
    <2>2. ASSUME NEW n \in Narrators, NarratorActs(n),
                 NEW i \in getActiveWorkflowRunForNarrator(n), i = brief[n].id
          PROVE  ViewOf(i) = brief[n]
      <3>1. /\ brief[n] # NoView /\ brief[n].state.revision = runs[i].state.revision
        BY <1>1, <2>2, NarratorWrites
      <3>2. SeenInTime(brief[n])
        BY <1>1 DEF StoreInv, Views
      <3> QED
        BY <2>2, <3>1, <3>2 DEF SeenInTime, ViewOf
    <2> QED
      BY <2>1, <2>2
  <1>2. StoreInv => [Seen]_storeVars
    BY <1>1
  <1> HIDE DEF Seen
  <1>3. StoreSpec => [][Seen]_storeVars
    BY <1>2, StoreInvariance, PTL
  <1> QED
    BY <1>3 DEF ActsOnWhatWasSeen, Seen
=============================================================================

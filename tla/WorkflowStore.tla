--------------------------- MODULE WorkflowStore ---------------------------
(***************************************************************************)
(* The store of workflow runs (run-store.ts) with its two kinds of caller: *)
(* the author's pages, which name a run and the revision they show, and    *)
(* the narrators, whose tools name a revision only and act on whatever run *)
(* is active for them when the call arrives.  Both act on a view read      *)
(* earlier; applyWorkflowAction is the one transaction that lets them in.  *)
(* What an action does to a run is RunStateMachine's; candidates are       *)
(* WorkflowRun's.                                                          *)
(***************************************************************************)
EXTENDS RunStateMachine

CONSTANTS
    RunIds,       \* ids a new run may get
    Narrators,
    Pages,        \* workflow pages the author has open
    NoRun,        \* a view of nothing
    MaxRevision   \* bound: actions on one run that is not finished

ASSUME StoreAssumption == NoRun \notin RunIds /\ MaxRevision \in Nat

VARIABLES
    runs,      \* run id |-> [narrator, state], the rows of workflow_runs
    pageView,  \* page |-> [id, state], what it shows
    poll,      \* page |-> [id, state], a read on its way back to it
    brief      \* narrator |-> [id, state], the brief it works from

storeVars == <<runs, pageView, poll, brief>>

StoredRun(x) == x.narrator \in Narrators /\ IsRun(x.state)
NoView       == [id |-> NoRun, state |-> NoRun]
ViewOf(i)    == [id |-> i, state |-> runs[i].state]
IsView(v)    == v = NoView \/ (v.id \in DOMAIN runs /\ IsRun(v.state))

StoreTypeOK ==
    /\ DOMAIN runs \subseteq RunIds
    /\ \A i \in DOMAIN runs : StoredRun(runs[i])
    /\ \A p \in Pages : IsView(pageView[p]) /\ IsView(poll[p])
    /\ \A n \in Narrators : IsView(brief[n])

\* Runs that keep a narrator busy; the partial unique index on narrator_id
\* names the same statuses.
getActiveWorkflowRunForNarrator(n) ==
    {i \in DOMAIN runs : runs[i].narrator = n /\ runs[i].state.status \in ActiveRunStatus}

\* Slip: the last writer wins.
applyWorkflowAction_NoCheck(i, expectedRevision, accepted, next) ==
    accepted /\ runs' = [runs EXCEPT ![i].state = next]

\* One transaction: refused unless the caller's revision is the stored one
\* and the state machine takes the action.
applyWorkflowAction(i, expectedRevision, accepted, next) ==
    /\ expectedRevision = runs[i].state.revision
    /\ accepted
    /\ runs' = [runs EXCEPT ![i].state = next]

\* The step a narrator's call is for: the one it names, or the only one in
\* progress when it names none.
targetStepOf(x, named) ==
    LET running == {s \in DOMAIN x.steps : x.steps[s].status = "running"}
    IN  IF named # {} THEN named \cap DOMAIN x.steps
        ELSE IF Cardinality(running) = 1 THEN running ELSE {}

----------------------------------------------------------------------------

StoreInit ==
    /\ runs = [i \in {} |-> NoRun]
    /\ pageView = [p \in Pages |-> NoView]
    /\ poll = [p \in Pages |-> NoView]
    /\ brief = [n \in Narrators |-> NoView]

\* The author's page or the narrator's own tool starts a run.
createWorkflowRun(n, id, i) ==
    /\ i \notin DOMAIN runs
    /\ id \in Runnable
    /\ getActiveWorkflowRunForNarrator(n) = {}
    /\ runs' = [j \in DOMAIN runs \cup {i} |->
                   IF j = i THEN [narrator |-> n, state |-> createRunState(id)] ELSE runs[j]]
    /\ UNCHANGED <<pageView, poll, brief>>

\* The page loads a run, and asks for it again every few seconds.  What was
\* read may arrive after the author has acted and seen the reply.
ReadRun(p, i) ==
    /\ poll[p] = NoView
    /\ poll' = [poll EXCEPT ![p] = ViewOf(i)]
    /\ UNCHANGED <<runs, pageView, brief>>

ShowRun(p) ==
    /\ poll[p] # NoView
    /\ pageView' = [pageView EXCEPT ![p] = poll[p]]
    /\ poll' = [poll EXCEPT ![p] = NoView]
    /\ UNCHANGED <<runs, brief>>

\* get_current_step, or the view attached to a refused call.
getCurrentStep(n) ==
    /\ brief' = [brief EXCEPT ![n] =
                    IF getActiveWorkflowRunForNarrator(n) = {} THEN NoView
                    ELSE ViewOf(CHOOSE i \in getActiveWorkflowRunForNarrator(n) : TRUE)]
    /\ UNCHANGED <<runs, pageView, poll>>

\* approve, reject, retry, skip and cancel from page p; the reply is the new state.
AuthorActs(p) ==
    LET i        == pageView[p].id
        x        == runs[i].state
        revision == pageView[p].state.revision
    IN  /\ i # NoRun
        /\ x.revision < MaxRevision \/ Terminal(x)
        /\ \/ applyWorkflowAction(i, revision, CanCancel(x), Cancel(x))
           \/ \E s \in DOMAIN x.steps :
                 \/ applyWorkflowAction(i, revision, CanApprove(x, s), Approve(x, s))
                 \/ applyWorkflowAction(i, revision, CanReject(x, s), Reject(x, s))
                 \/ applyWorkflowAction(i, revision, CanRetry(x, s), Retry(x, s))
                 \/ applyWorkflowAction(i, revision, CanSkip(x, s), Skip(x, s))
        /\ pageView' = [pageView EXCEPT ![p] = [id |-> i, state |-> runs'[i].state]]
        /\ UNCHANGED <<poll, brief>>

\* submit_step_output and report_blocker: the revision comes from the brief,
\* the run from the store, the step from the call or from the run.
NarratorActs(n) ==
    \E i \in getActiveWorkflowRunForNarrator(n) :
        LET x        == runs[i].state
            revision == brief[n].state.revision
        IN  /\ brief[n] # NoView
            /\ x.revision < MaxRevision
            /\ \E named \in {{}} \cup {{s} : s \in DOMAIN brief[n].state.steps} :
               \E s \in targetStepOf(x, named) :
                  \/ \E outcome \in Recipe[x.recipe].step[s].outcomes \cup {NoOutcome} :
                        applyWorkflowAction(i, revision,
                            ~ IsGate(Recipe[x.recipe], s) /\ CanSubmit(x, s, outcome),
                            Submit(x, s, outcome))
                  \/ applyWorkflowAction(i, revision, CanBlock(x, s), Block(x, s))
            /\ brief' = [brief EXCEPT ![n] = [id |-> i, state |-> runs'[i].state]]
            /\ UNCHANGED <<pageView, poll>>

StoreNext ==
    \/ \E n \in Narrators, id \in RecipeIds, i \in RunIds : createWorkflowRun(n, id, i)
    \/ \E p \in Pages : (\E i \in DOMAIN runs : ReadRun(p, i)) \/ ShowRun(p) \/ AuthorActs(p)
    \/ \E n \in Narrators : getCurrentStep(n)
    \/ \E n \in Narrators : NarratorActs(n)

StoreSpec == StoreInit /\ [][StoreNext]_storeVars

----------------------------------------------------------------------------
(* Properties. *)

\* Two runs of one narrator would give it two briefs and two tool policies.
OneActiveRunPerNarrator ==
    \A i, j \in DOMAIN runs :
        /\ runs[i].narrator = runs[j].narrator
        /\ ~ Terminal(runs[i].state) /\ ~ Terminal(runs[j].state)
        => i = j

\* Nobody's decision is overwritten: a page or a narrator changes a run only when the
\* run is, step by step, the one it has read, however many pages and narrators have acted
\* since.  A revision must never stand for two states of a run.  For a narrator this holds
\* as long as its brief is of the run it acts on.
ActsOnWhatWasSeen ==
    [][/\ \A p \in Pages : AuthorActs(p) => ViewOf(pageView[p].id) = pageView[p]
       /\ \A n \in Narrators : NarratorActs(n) =>
             \A i \in getActiveWorkflowRunForNarrator(n) :
                 i = brief[n].id => ViewOf(i) = brief[n]]_storeVars

\* What the tools' own description of runRevision says: an output written
\* for another version of the flow than the server's is refused.
NarratorActsOnItsBrief ==
    [][\A n \in Narrators : NarratorActs(n) =>
          \A i \in getActiveWorkflowRunForNarrator(n) : ViewOf(i) = brief[n]]_storeVars
============================================================================

--------------------------- MODULE WorkflowGraph ---------------------------
(***************************************************************************)
(* The graph a writing workflow is drawn as (workflow-graph.ts) and the    *)
(* forward pass that decides which of its steps may start                  *)
(* (run-state-machine.ts, settle).  Everything here is a pure operator.    *)
(*                                                                         *)
(* A recipe is a record                                                    *)
(*   type        node |-> "start" / "end" / "join" / "step"                *)
(*   next        set of [id, source, target, outcome], the forward edges   *)
(*   reject      set of [id, source, target], the author's send-back edges *)
(*   step        step |-> [kind, mode, requiresApproval, enabled,          *)
(*                          onFailure, outcomes]                           *)
(*   maxRetries  how often the model may retry a blocked step by itself    *)
(***************************************************************************)
EXTENDS Naturals, FiniteSets

CONSTANTS
    RecipeIds,   \* the recipes stored with the book
    Recipe,      \* recipe id |-> recipe, frozen when a run is created
    NoOutcome    \* an edge without a condition, a step without an outcome

NodeType    == {"start", "end", "join", "step"}
StepKind    == {"context-load", "guided-plan", "approval-gate", "writer-generate",
                "adversarial-audit", "audit", "post-settlement", "canvas-open",
                "custom-tool"}
OnFailure   == {"stop", "skip", "retry"}
Delivery    == {"live", "dead", "undecided"}
StepStatus  == {"pending", "running", "awaiting_approval", "done",
                "skipped", "bypassed", "failed"}

Nodes(r)     == DOMAIN r.type
stepNodes(r) == {n \in Nodes(r) : r.type[n] = "step"}
Ends(r)      == {n \in Nodes(r) : r.type[n] = "end"}

Incoming(r, n) == {e \in r.next : e.target = n}
Outgoing(r, n) == {e \in r.next : e.source = n}

IsRecipe(r) ==
    /\ r.type \in [Nodes(r) -> NodeType]
    /\ DOMAIN r.step = stepNodes(r)
    /\ \A s \in stepNodes(r) :
          /\ r.step[s].kind \in StepKind
          /\ r.step[s].onFailure \in OnFailure
          /\ r.step[s].requiresApproval \in BOOLEAN
          /\ r.step[s].enabled \in BOOLEAN
          /\ NoOutcome \notin r.step[s].outcomes
    /\ r.maxRetries \in Nat

(* Every field is in range: what the storage layer checks before it keeps  *)
(* or hands out a recipe (validateWorkflowRecipes).  A draft may still     *)
(* have structural issues.                                                 *)
ASSUME RecipeAssumption == \A id \in RecipeIds : IsRecipe(Recipe[id])

----------------------------------------------------------------------------
(* checkWorkflowGraph: the structural issues that keep a recipe from being *)
(* published or run.  Each conjunct below is one family of issue codes.    *)

\* No node set is closed under "has a predecessor in the set": Kahn's
\* algorithm consumes every node exactly when this holds.
Acyclic(r) ==
    \A T \in SUBSET Nodes(r) : T # {} =>
        \E n \in T : \A e \in Incoming(r, n) : e.source \notin T

\* Nodes reachable from n by forward edges: the least set that holds the
\* targets of n and is closed under the edges.
forwardDescendants(r, n) ==
    {m \in Nodes(r) : \A S \in SUBSET Nodes(r) :
        (\A e \in r.next : e.source \in S \cup {n} => e.target \in S) => m \in S}

\* A step that stops for the author: it wants approval, or is a manual gate.
requiresAuthorDecision(step) ==
    step.kind = "approval-gate" \/ step.requiresApproval

NodeDegrees(r) ==
    \A n \in Nodes(r) :
        CASE r.type[n] = "start" -> Incoming(r, n) = {} /\ Outgoing(r, n) # {}
          [] r.type[n] = "end"   -> Incoming(r, n) # {} /\ Outgoing(r, n) = {}
          [] r.type[n] = "join"  -> Cardinality(Incoming(r, n)) >= 2 /\ Outgoing(r, n) # {}
          [] r.type[n] = "step"  -> Cardinality(Incoming(r, n)) = 1 /\ Outgoing(r, n) # {}

checkStepOutcomes(r, s) ==
    LET outcomes    == r.step[s].outcomes
        conditioned == {e.outcome : e \in Outgoing(r, s)} \ {NoOutcome}
        hasDefault  == \E e \in Outgoing(r, s) : e.outcome = NoOutcome
    IN  IF outcomes = {}
        THEN conditioned = {}
        ELSE /\ conditioned \subseteq outcomes
             /\ hasDefault \/ outcomes \subseteq conditioned
             /\ r.step[s].enabled
             /\ r.step[s].onFailure # "skip"

RejectEdges(r) ==
    /\ \A e \in r.reject :
          /\ e.source \in stepNodes(r) /\ requiresAuthorDecision(r.step[e.source])
          /\ e.target \in stepNodes(r)
          /\ e.source \in forwardDescendants(r, e.target)
    /\ \A e, f \in r.reject : e.source = f.source => e = f

\* No edge is left over from a deleted node.
EdgesJoinNodes(r) ==
    \A e \in r.next \cup r.reject : e.source \in Nodes(r) /\ e.target \in Nodes(r)

\* That every node lies between the start and an end follows from degrees
\* and acyclicity, so the checks for it (unreachable, no-path-to-end) add nothing.
checkWorkflowGraph(r) ==
    /\ EdgesJoinNodes(r)
    /\ \E n \in Nodes(r) : {m \in Nodes(r) : r.type[m] = "start"} = {n}
    /\ Ends(r) # {}
    /\ stepNodes(r) # {}
    /\ NodeDegrees(r)
    /\ \A s \in stepNodes(r) : checkStepOutcomes(r, s)
    /\ Acyclic(r)
    /\ RejectEdges(r)

----------------------------------------------------------------------------
(* Deliveries.  An edge is undecided while its source has not finished,    *)
(* live when the flow takes it, dead when the flow went another way.       *)

\* A branch step delivers along the edges that match its outcome, or along
\* the unconditioned ones when none does.
TakesEdge(r, x, e) ==
    LET matched == \E c \in Outgoing(r, e.source) :
                       c.outcome # NoOutcome /\ c.outcome = x.outcome
    IN  e.outcome = IF matched THEN x.outcome ELSE NoOutcome

StepDelivery(r, x, e) ==
    IF x.status \in {"done", "skipped"}
    THEN IF r.step[e.source].outcomes = {} \/ TakesEdge(r, x, e) THEN "live" ELSE "dead"
    ELSE IF x.status = "bypassed" THEN "dead" ELSE "undecided"

\* A join or an end waits for every inbound edge; one live edge is enough.
Combine(D) ==
    IF "undecided" \in D THEN "undecided"
    ELSE IF "live" \in D THEN "live" ELSE "dead"

\* What the pass does with step s, in state x, once the node's inbound
\* delivery is a: only a pending step with a decided inbound changes.
Advance(r, s, x, a) ==
    IF x.status # "pending" \/ a = "undecided" THEN x
    ELSE IF a = "dead" THEN [x EXCEPT !.status = "bypassed"]
    ELSE IF ~ r.step[s].enabled THEN [x EXCEPT !.status = "skipped"]
    ELSE [x EXCEPT !.status = IF r.step[s].kind = "approval-gate"
                              THEN "awaiting_approval" ELSE "running",
                   !.attempt = @ + 1]

\* Delivery of edge e when the nodes' inbound deliveries are arr: the pass
\* visits sources before targets, so the source has already been advanced.
edgeDelivery(r, st, arr, e) ==
    IF r.type[e.source] = "step"
    THEN StepDelivery(r, Advance(r, e.source, st[e.source], arr[e.source]), e)
    ELSE arr[e.source]

NodeDelivery(r, st, arr, n) ==
    IF r.type[n] = "start" THEN "live"
    ELSE Combine({edgeDelivery(r, st, arr, e) : e \in Incoming(r, n)})

\* Inbound delivery of every node during the pass over step states st.
Arrival(r, st) ==
    LET arr[n \in Nodes(r)] == NodeDelivery(r, st, arr, n)
    IN  arr

\* settle: start every step whose turn has come, mark the ones the flow
\* will not reach, and pass on.
settle(r, st) ==
    LET arr == Arrival(r, st)
    IN  [s \in stepNodes(r) |-> Advance(r, s, st[s], arr[s])]

HasStatus(st, status) == \E s \in DOMAIN st : st[s].status = status

\* Slip: the run waits for every end, also for those it will not reach.
deriveRunStatus_AllEnds(r, st) ==
    IF HasStatus(st, "failed") THEN "blocked"
    ELSE IF HasStatus(st, "running") THEN "running"
    ELSE IF HasStatus(st, "awaiting_approval") THEN "awaiting_approval"
    ELSE LET arr == Arrival(r, st)
         IN  IF \A n \in Ends(r) : arr[n] = "live" THEN "done" ELSE "running"

\* The run's status is derived from its steps and from nothing else.
deriveRunStatus(r, st) ==
    IF HasStatus(st, "failed") THEN "blocked"
    ELSE IF HasStatus(st, "running") THEN "running"
    ELSE IF HasStatus(st, "awaiting_approval") THEN "awaiting_approval"
    ELSE LET arr == Arrival(r, st)
         IN  IF \A n \in Ends(r) : arr[n] # "undecided" THEN "done" ELSE "running"

\* The run has walked to an end: some end node was reached by a live edge.
ReachesEnd(r, st) ==
    LET arr == Arrival(r, st) IN \E n \in Ends(r) : arr[n] = "live"
============================================================================

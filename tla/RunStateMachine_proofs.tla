----------------------- MODULE RunStateMachine_proofs -----------------------
(***************************************************************************)
(* What the forward pass (settle) promises on every acyclic recipe.  The   *)
(* deliveries are a recursive function over a graph of any size, so the    *)
(* first lemma has to show that the function exists at all; everything     *)
(* else argues about a node none of whose predecessors has a property,     *)
(* which is what Acyclic provides.                                         *)
(***************************************************************************)
EXTENDS RunStateMachine, TLAPS

\* Nodes of D have their predecessors in D.
PredClosed(r, D) == \A n \in D : \A e \in Incoming(r, n) : e.source \in D

\* g gives the deliveries of the part D of the graph.
Partial(r, st, D, g) ==
    /\ D \subseteq Nodes(r)
    /\ PredClosed(r, D)
    /\ g = [n \in D |-> g[n]]
    /\ \A n \in D : g[n] = NodeDelivery(r, st, g, n)

\* A node's delivery depends on its predecessors' deliveries only.
LEMMA DeliveryLocal ==
    ASSUME NEW r, NEW st, NEW g, NEW h, NEW n,
           \A e \in Incoming(r, n) : g[e.source] = h[e.source]
    PROVE  NodeDelivery(r, st, g, n) = NodeDelivery(r, st, h, n)
  <1>1. \A e \in Incoming(r, n) : edgeDelivery(r, st, g, e) = edgeDelivery(r, st, h, e)
    BY DEF edgeDelivery
  <1>2. {edgeDelivery(r, st, g, e) : e \in Incoming(r, n)}
            = {edgeDelivery(r, st, h, e) : e \in Incoming(r, n)}
    BY <1>1
  <1> QED
    BY <1>2 DEF NodeDelivery

\* Two partial solutions agree wherever both are defined.
LEMMA PartialsAgree ==
    ASSUME NEW r, NEW st, Acyclic(r), NEW D, NEW g, NEW E, NEW h,
           Partial(r, st, D, g), Partial(r, st, E, h)
    PROVE  \A n \in D \cap E : g[n] = h[n]
  <1> DEFINE T == {n \in D \cap E : g[n] # h[n]}
  <1>1. SUFFICES ASSUME T # {} PROVE FALSE
    OBVIOUS
  <1>2. T \in SUBSET Nodes(r)
    BY DEF Partial
  <1>3. PICK n \in T : \A e \in Incoming(r, n) : e.source \notin T
    BY <1>1, <1>2 DEF Acyclic
  <1>4. \A e \in Incoming(r, n) : g[e.source] = h[e.source]
    BY <1>3 DEF Partial, PredClosed
  <1>5. NodeDelivery(r, st, g, n) = NodeDelivery(r, st, h, n)
    BY <1>4, DeliveryLocal
  <1> QED
    BY <1>3, <1>5 DEF Partial

\* The deliveries exist: the recursive definition of Arrival has a solution
\* on every acyclic graph, of whatever size.
LEMMA SolutionExists ==
    ASSUME NEW r, NEW st, Acyclic(r),
           \A e \in r.next : e.source \in Nodes(r)
    PROVE  \E g : g = [n \in Nodes(r) |-> NodeDelivery(r, st, g, n)]
  <1> DEFINE Covers(n, D, g) == Partial(r, st, D, g) /\ n \in D
             U == {n \in Nodes(r) : \E D, g : Covers(n, D, g)}
             V(n) == CHOOSE v : \E D, g : Covers(n, D, g) /\ v = g[n]
             G == [n \in U |-> V(n)]
  <1>1. ASSUME NEW D, NEW g, Partial(r, st, D, g), NEW n \in D
        PROVE  n \in U /\ G[n] = g[n]
    <2>1. n \in U
      BY <1>1 DEF Partial
    <2>2. \E v : \E E, h : Covers(n, E, h) /\ v = h[n]
      BY <1>1
    <2>3. \E E, h : Covers(n, E, h) /\ V(n) = h[n]
      BY <2>2
    <2>4. PICK E, h : Covers(n, E, h) /\ V(n) = h[n]
      BY <2>3
    <2>5. h[n] = g[n]
      BY <2>4, <1>1, PartialsAgree
    <2> QED
      BY <2>1, <2>4, <2>5
  <1> HIDE DEF G, U
  <1>2. ASSUME NEW n \in U
        PROVE  /\ \A e \in Incoming(r, n) : e.source \in U
               /\ G[n] = NodeDelivery(r, st, G, n)
    <2>1. PICK D, g : Covers(n, D, g)
      BY <1>2 DEF U
    <2>2. \A e \in Incoming(r, n) : e.source \in D
      BY <2>1 DEF Partial, PredClosed
    <2>3. \A e \in Incoming(r, n) : e.source \in U /\ G[e.source] = g[e.source]
      BY <2>1, <2>2, <1>1
    <2>4. NodeDelivery(r, st, G, n) = NodeDelivery(r, st, g, n)
      BY <2>3, DeliveryLocal
    <2>5. G[n] = g[n]
      BY <2>1, <1>1
    <2> QED
      BY <2>1, <2>3, <2>4, <2>5 DEF Partial
  <1>3. Nodes(r) \subseteq U
    <2> DEFINE T == Nodes(r) \ U
    <2>1. SUFFICES ASSUME T # {} PROVE FALSE
      OBVIOUS
    <2>2. PICK n \in T : \A e \in Incoming(r, n) : e.source \notin T
      BY <2>1 DEF Acyclic
    <2>3. \A e \in Incoming(r, n) : e.source \in U
      BY <2>2 DEF Incoming
    <2> DEFINE D == U \cup {n}
               g == [m \in D |-> IF m = n THEN NodeDelivery(r, st, G, n) ELSE G[m]]
    <2>4. \A m \in U : m \in D /\ m # n /\ g[m] = G[m]
      BY <2>2
    <2>5. \A m \in D : \A e \in Incoming(r, m) : e.source \in U /\ g[e.source] = G[e.source]
      BY <2>3, <2>4, <1>2
    <2>6. \A m \in D : NodeDelivery(r, st, g, m) = NodeDelivery(r, st, G, m)
      BY <2>5, DeliveryLocal
    <2>7. \A m \in D : g[m] = NodeDelivery(r, st, g, m)
      BY <2>4, <2>6, <1>2
    <2>8. PredClosed(r, D)
      BY <2>5 DEF PredClosed
    <2>9. D \subseteq Nodes(r)
      BY DEF U
    <2>10. Partial(r, st, D, g)
      BY <2>7, <2>8, <2>9 DEF Partial
    <2> QED
      BY <2>10, <1>1, <2>2
  <1>4. U = Nodes(r)
    BY <1>3 DEF U
  <1>5. G = [n \in Nodes(r) |-> NodeDelivery(r, st, G, n)]
    <2>1. G = [n \in Nodes(r) |-> G[n]]
      BY <1>4 DEF G
    <2> QED
      BY <2>1, <1>2, <1>4
  <1> QED
    BY <1>5

----------------------------------------------------------------------------
(* The pass itself. *)

\* What the structural check and the recipe's format give the proofs.
Sound(r) ==
    /\ IsRecipe(r)
    /\ EdgesJoinNodes(r)
    /\ Acyclic(r)
    /\ NodeDegrees(r)

\* The deliveries the pass computes satisfy their own definition.
LEMMA ArrivalEquation ==
    ASSUME NEW r, NEW st, Sound(r), NEW n \in Nodes(r)
    PROVE  Arrival(r, st)[n] = NodeDelivery(r, st, Arrival(r, st), n)
  <1> DEFINE A == CHOOSE g : g = [m \in Nodes(r) |-> NodeDelivery(r, st, g, m)]
  <1>1. \E g : g = [m \in Nodes(r) |-> NodeDelivery(r, st, g, m)]
    BY SolutionExists DEF Sound, IsRecipe, EdgesJoinNodes
  <1>2. A = [m \in Nodes(r) |-> NodeDelivery(r, st, A, m)]
    BY <1>1
  <1>3. Arrival(r, st) = A
    BY DEF Arrival
  <1> HIDE DEF A
  <1> QED
    BY <1>2, <1>3

\* A node's inbound is undecided, dead or live (nodeDelivery).
LEMMA ArrivalType ==
    ASSUME NEW r, NEW st, Sound(r), NEW n \in Nodes(r)
    PROVE  Arrival(r, st)[n] \in Delivery
  BY ArrivalEquation DEF NodeDelivery, Combine, Delivery

\* A second visit to an advanced step changes nothing.
LEMMA AdvanceTwice ==
    ASSUME NEW r, NEW s, NEW x, NEW a
    PROVE  Advance(r, s, Advance(r, s, x, a), a) = Advance(r, s, x, a)
  BY DEF Advance

\* The pass is idempotent in what it delivers: recomputing the deliveries
\* from the steps it left gives the deliveries it used.  deriveRunStatus
\* and the brief do recompute them.
LEMMA ArrivalSettled ==
    ASSUME NEW r, NEW st, Sound(r), NEW n \in Nodes(r)
    PROVE  Arrival(r, settle(r, st))[n] = Arrival(r, st)[n]
  <1> DEFINE a == Arrival(r, st)
             b == Arrival(r, settle(r, st))
             T == {m \in Nodes(r) : b[m] # a[m]}
  <1> HIDE DEF a, b
  <1>1. SUFFICES ASSUME T # {} PROVE FALSE
    BY DEF a, b
  <1>2. PICK m \in T : \A e \in Incoming(r, m) : e.source \notin T
    BY <1>1 DEF Acyclic, Sound
  <1>3. ASSUME NEW e \in Incoming(r, m)
        PROVE  edgeDelivery(r, settle(r, st), b, e) = edgeDelivery(r, st, a, e)
    <2>1. e.source \in Nodes(r)
      BY <1>3 DEF Incoming, Sound, EdgesJoinNodes
    <2>2. b[e.source] = a[e.source]
      BY <2>1, <1>2
    <2>3. CASE r.type[e.source] # "step"
      BY <2>2, <2>3 DEF edgeDelivery
    <2>4. CASE r.type[e.source] = "step"
      <3>1. settle(r, st)[e.source] = Advance(r, e.source, st[e.source], a[e.source])
        BY <2>1, <2>4 DEF settle, stepNodes, a
      <3> QED
        BY <3>1, <2>2, <2>4, AdvanceTwice DEF edgeDelivery
    <2> QED
      BY <2>3, <2>4
  <1>4. {edgeDelivery(r, settle(r, st), b, e) : e \in Incoming(r, m)}
            = {edgeDelivery(r, st, a, e) : e \in Incoming(r, m)}
    BY <1>3
  <1>5. NodeDelivery(r, settle(r, st), b, m) = NodeDelivery(r, st, a, m)
    BY <1>4 DEF NodeDelivery
  <1>6. b[m] = NodeDelivery(r, settle(r, st), b, m) /\ a[m] = NodeDelivery(r, st, a, m)
    BY ArrivalEquation DEF a, b
  <1> QED
    BY <1>2, <1>5, <1>6

\* The pass leaves step states.
LEMMA AdvanceType ==
    ASSUME NEW r, NEW s, NEW x \in StepState(r, s), NEW a
    PROVE  Advance(r, s, x, a) \in StepState(r, s)
  <1>1. \A status \in StepStatus : [x EXCEPT !.status = status] \in StepState(r, s)
    BY DEF StepState
  <1>2. \A status \in StepStatus :
           [x EXCEPT !.status = status, !.attempt = @ + 1] \in StepState(r, s)
    <2>1. x.attempt + 1 \in Nat
      BY DEF StepState
    <2>2. \A k \in Nat, status \in StepStatus :
             [x EXCEPT !.status = status, !.attempt = k] \in StepState(r, s)
      BY DEF StepState
    <2> QED
      BY <2>1, <2>2
  <1>3. {"bypassed", "skipped", "awaiting_approval", "running"} \subseteq StepStatus
    BY DEF StepStatus
  <1>4. \/ Advance(r, s, x, a) = x
        \/ \E status \in {"bypassed", "skipped"} :
              Advance(r, s, x, a) = [x EXCEPT !.status = status]
        \/ \E status \in {"awaiting_approval", "running"} :
              Advance(r, s, x, a) = [x EXCEPT !.status = status, !.attempt = @ + 1]
    BY Zenon DEF Advance
  <1> QED
    BY <1>1, <1>2, <1>3, <1>4

\* settle gives every step of the recipe a state again.
LEMMA SettleType ==
    ASSUME NEW r, NEW st, AreSteps(r, st)
    PROVE  AreSteps(r, settle(r, st))
  BY AdvanceType DEF settle, AreSteps

\* deriveRunStatus never cancels a run: only the author does.
LEMMA RunStatusType ==
    ASSUME NEW r, NEW st
    PROVE  deriveRunStatus(r, st) \in RunStatus \ {"cancelled"}
  BY DEF deriveRunStatus, RunStatus

\* The pass only moves pending steps, and never to "failed".
LEMMA SettleMoves ==
    ASSUME NEW r, NEW st, AreSteps(r, st), NEW s \in stepNodes(r)
    PROVE  /\ st[s].status # "pending" => settle(r, st)[s] = st[s]
           /\ settle(r, st)[s].status = "failed" => st[s].status = "failed"
  <1>1. st[s] \in StepState(r, s)
    BY DEF AreSteps
  <1>2. settle(r, st)[s] = Advance(r, s, st[s], Arrival(r, st)[s])
    BY DEF settle
  <1>3. ASSUME NEW a
        PROVE  /\ st[s].status # "pending" => Advance(r, s, st[s], a) = st[s]
               /\ Advance(r, s, st[s], a).status = "failed" => st[s].status = "failed"
    BY <1>1 DEF Advance, StepState
  <1> QED
    BY <1>2, <1>3

\* After a pass no pending step has a decided inbound.
LEMMA PendingWaits ==
    ASSUME NEW r, NEW st, Sound(r), AreSteps(r, st), NEW s \in stepNodes(r),
           settle(r, st)[s].status = "pending"
    PROVE  Arrival(r, settle(r, st))[s] = "undecided"
  <1>1. s \in Nodes(r) /\ st[s] \in StepState(r, s)
    BY DEF stepNodes, AreSteps
  <1>2. settle(r, st)[s] = Advance(r, s, st[s], Arrival(r, st)[s])
    BY DEF settle
  <1>3. \A a : a # "undecided" => Advance(r, s, st[s], a).status # "pending"
    BY <1>1 DEF Advance, StepState
  <1> QED
    BY <1>1, <1>2, <1>3, ArrivalSettled

\* When a pass leaves no step running, waiting or failed, the flow has been
\* decided all the way to the ends.
LEMMA NothingLeftUndecided ==
    ASSUME NEW r, NEW st, Sound(r), AreSteps(r, st),
           \A s \in stepNodes(r) :
              settle(r, st)[s].status \notin {"running", "awaiting_approval", "failed"},
           NEW n \in Nodes(r)
    PROVE  Arrival(r, settle(r, st))[n] # "undecided"
  <1> DEFINE z == settle(r, st)
             a == Arrival(r, z)
             T == {m \in Nodes(r) : a[m] = "undecided"}
  <1>1. AreSteps(r, z)
    BY SettleType
  <1>2. \A s \in stepNodes(r) : z[s].status = "pending" => a[s] = "undecided"
    BY PendingWaits
  <1> HIDE DEF z, a
  <1>3. SUFFICES ASSUME T # {} PROVE FALSE
    BY DEF z, a
  <1>4. PICK m \in T : \A e \in Incoming(r, m) : e.source \notin T
    BY <1>3 DEF Acyclic, Sound
  <1>5. NodeDelivery(r, z, a, m) = "undecided"
    BY <1>4, ArrivalEquation DEF a
  <1>6. PICK e \in Incoming(r, m) : edgeDelivery(r, z, a, e) = "undecided"
    BY <1>5 DEF NodeDelivery, Combine
  <1>7. e.source \in Nodes(r) /\ a[e.source] # "undecided"
    BY <1>4, <1>6 DEF Incoming, Sound, EdgesJoinNodes
  <1>8. r.type[e.source] = "step"
    BY <1>6, <1>7 DEF edgeDelivery
  <1>9. e.source \in stepNodes(r)
    BY <1>7, <1>8 DEF stepNodes
  <1>10. z[e.source].status \in {"done", "skipped", "bypassed"}
    <2>1. z[e.source].status \in StepStatus
      BY <1>1, <1>9 DEF AreSteps, StepState
    <2>2. z[e.source].status \notin {"pending", "running", "awaiting_approval", "failed"}
      BY <1>2, <1>7, <1>9 DEF z
    <2> QED
      BY <2>1, <2>2 DEF StepStatus
  <1>11. Advance(r, e.source, z[e.source], a[e.source]) = z[e.source]
    BY <1>10 DEF Advance
  <1> QED
    BY <1>6, <1>8, <1>10, <1>11 DEF edgeDelivery, StepDelivery

----------------------------------------------------------------------------
(* Order. *)

\* forwardDescendants follows every edge out of the node and out of what it
\* has already reached.
LEMMA DescendantsClosed ==
    ASSUME NEW r, NEW n, NEW e \in r.next, e.target \in Nodes(r),
           e.source \in forwardDescendants(r, n) \cup {n}
    PROVE  e.target \in forwardDescendants(r, n)
  BY DEF forwardDescendants

\* What lies behind a descendant lies behind the node itself: a send-back that
\* resets a step's descendants leaves none of theirs out.
LEMMA DescendantsTransitive ==
    ASSUME NEW r, EdgesJoinNodes(r), NEW n, NEW m \in forwardDescendants(r, n)
    PROVE  forwardDescendants(r, m) \subseteq forwardDescendants(r, n)
  <1> DEFINE S == forwardDescendants(r, n)
  <1>1. \A e \in r.next : e.source \in S \cup {m} => e.target \in S
    BY DescendantsClosed DEF EdgesJoinNodes
  <1>2. S \in SUBSET Nodes(r)
    BY DEF forwardDescendants
  <1> HIDE DEF S
  <1>3. forwardDescendants(r, m) \subseteq S
    BY <1>1, <1>2 DEF forwardDescendants
  <1> QED
    BY <1>3 DEF S

\* A descendant is reached by an edge from the node or another descendant.
LEMMA DescendantEdge ==
    ASSUME NEW r, EdgesJoinNodes(r), NEW n, NEW m \in forwardDescendants(r, n)
    PROVE  \E e \in Incoming(r, m) : e.source \in forwardDescendants(r, n) \cup {n}
  <1>1. SUFFICES ASSUME \A e \in Incoming(r, m) :
                           e.source \notin forwardDescendants(r, n) \cup {n}
                 PROVE  FALSE
    OBVIOUS
  <1> DEFINE S == forwardDescendants(r, n) \ {m}
  <1>2. S \in SUBSET Nodes(r)
    BY DEF forwardDescendants
  <1>3. ASSUME NEW e \in r.next, e.source \in S \cup {n}
        PROVE  e.target \in S
    <2>1. e.target \in forwardDescendants(r, n)
      BY <1>3, DescendantsClosed DEF EdgesJoinNodes
    <2>2. e.target # m
      BY <1>1, <1>3 DEF Incoming
    <2> QED
      BY <2>1, <2>2
  <1>4. m \in S
    <2> HIDE DEF S
    <2> QED
      BY <1>2, <1>3 DEF forwardDescendants
  <1> QED
    BY <1>4

\* The pass keeps the order: whatever it starts or writes off has nothing
\* undecided upstream.  Among the nodes with a decided delivery and an
\* undecided step upstream, look at one whose predecessors are not such.
LEMMA SettleOrdered ==
    ASSUME NEW r, NEW st, Sound(r), AreSteps(r, st), Ordered(r, st)
    PROVE  Ordered(r, settle(r, st))
  <1> DEFINE z == settle(r, st)
             a == Arrival(r, st)
             Behind(s) == forwardDescendants(r, s)
             Late(s) == s \in stepNodes(r) /\ z[s].status \in Undecided
             T == {m \in Nodes(r) : a[m] # "undecided" /\ \E s : Late(s) /\ m \in Behind(s)}
  <1>1. \A s \in stepNodes(r) : z[s] = Advance(r, s, st[s], a[s])
    BY DEF settle
  <1>2. \A s \in stepNodes(r) : st[s].status # "pending" => z[s] = st[s]
    BY SettleMoves
  <1>3. \A s \in stepNodes(r) : z[s].status \in Undecided => st[s].status \in Undecided
    BY <1>2 DEF Undecided
  <1>4. \A n \in Nodes(r) : a[n] = NodeDelivery(r, st, a, n)
    BY ArrivalEquation
  <1> HIDE DEF z, a
  <1>5. T = {}
    <2>1. SUFFICES ASSUME T # {} PROVE FALSE
      OBVIOUS
    <2>2. PICK m \in T : \A e \in Incoming(r, m) : e.source \notin T
      BY <2>1 DEF Acyclic, Sound
    <2>3. PICK s : Late(s) /\ m \in Behind(s)
      BY <2>2
    <2>4. PICK e \in Incoming(r, m) : e.source \in Behind(s) \cup {s}
      BY <2>3, DescendantEdge DEF Sound
    <2>5. e.source \in Nodes(r)
      BY DEF Incoming, Sound, EdgesJoinNodes
    <2>6. r.type[m] # "start"
      BY <2>2, <2>4 DEF Sound, NodeDegrees
    <2>7. edgeDelivery(r, st, a, e) # "undecided"
      BY <1>4, <2>2, <2>4, <2>6 DEF NodeDelivery, Combine
    <2>8. CASE r.type[e.source] # "step"
      <3>1. a[e.source] # "undecided"
        BY <2>7, <2>8 DEF edgeDelivery
      <3>2. e.source # s
        BY <2>3, <2>8 DEF stepNodes
      <3> QED
        BY <2>2, <2>3, <2>4, <2>5, <3>1, <3>2
    <2>9. CASE r.type[e.source] = "step"
      <3>1. e.source \in stepNodes(r)
        BY <2>5, <2>9 DEF stepNodes
      <3>2. z[e.source].status \notin Undecided
        BY <1>1, <2>7, <2>9, <3>1 DEF edgeDelivery, StepDelivery, Undecided
      <3>3. e.source \in Behind(s)
        BY <2>3, <2>4, <3>2
      <3>4. a[e.source] = "undecided"
        BY <2>2, <2>3, <2>5, <3>3
      <3>5. z[e.source] = st[e.source]
        BY <1>1, <3>1, <3>4 DEF Advance
      <3>6. st[e.source].status = "pending"
        BY <1>3, <2>3, <3>1, <3>3 DEF Ordered
      <3> QED
        BY <3>2, <3>5, <3>6 DEF Undecided
    <2> QED
      BY <2>8, <2>9
  <1>6. ASSUME NEW s \in stepNodes(r), z[s].status \in Undecided,
               NEW t \in stepNodes(r), t \in forwardDescendants(r, s)
        PROVE  z[t].status = "pending"
    <2>1. st[t].status = "pending"
      BY <1>3, <1>6 DEF Ordered
    <2>2. t \in Nodes(r) /\ t \notin T
      BY <1>5 DEF stepNodes
    <2>3. a[t] = "undecided"
      BY <2>2, <1>6
    <2> QED
      BY <1>1, <2>1, <2>3 DEF Advance
  <1>7. Ordered(r, z)
    BY <1>6 DEF Ordered
  <1> QED
    BY <1>7 DEF z

\* Changing a step that is no longer pending keeps the order, unless it
\* takes back a decision.
LEMMA ChangeOrdered ==
    ASSUME NEW r, NEW st, AreSteps(r, st), Ordered(r, st),
           NEW s \in stepNodes(r), st[s].status # "pending",
           NEW y, y.status \in Undecided => st[s].status \in Undecided
    PROVE  Ordered(r, [st EXCEPT ![s] = y])
  <1> DEFINE z == [st EXCEPT ![s] = y]
  <1>1. z[s] = y /\ \A u \in stepNodes(r) : u # s => z[u] = st[u]
    BY DEF AreSteps
  <1> HIDE DEF z
  <1>2. ASSUME NEW u \in stepNodes(r), z[u].status \in Undecided,
               NEW t \in stepNodes(r), t \in forwardDescendants(r, u)
        PROVE  z[t].status = "pending"
    <2>1. st[u].status \in Undecided
      BY <1>1, <1>2
    <2>2. st[t].status = "pending"
      BY <2>1, <1>2 DEF Ordered
    <2>3. t # s
      BY <2>2
    <2> QED
      BY <1>1, <2>2, <2>3
  <1>3. Ordered(r, z)
    BY <1>2 DEF Ordered
  <1> QED
    BY <1>3 DEF z

\* So does starting over a set of steps with everything behind them.
LEMMA ResetOrdered ==
    ASSUME NEW r, NEW st, Ordered(r, st), NEW R,
           \A u \in R : forwardDescendants(r, u) \subseteq R,
           NEW z,
           \A t \in stepNodes(r) : t \in R => z[t].status = "pending",
           \A t \in stepNodes(r) : t \notin R => z[t] = st[t]
    PROVE  Ordered(r, z)
  BY DEF Ordered

----------------------------------------------------------------------------
(* Runs.  Good is what every action keeps: the conjuncts lean on each      *)
(* other, since only the order and the status together tell that a run     *)
(* that may accept an output has no failed step.                           *)

Good(x) ==
    /\ IsRun(x)
    /\ x.recipe \in Runnable
    /\ Ordered(Recipe[x.recipe], x.steps)
    /\ x.status = "running" => HasStatus(x.steps, "running")
    /\ x.status = "blocked" => HasStatus(x.steps, "failed")
    /\ x.status \notin {"blocked", "cancelled"} => ~ HasStatus(x.steps, "failed")
    /\ \A s, t \in stepNodes(Recipe[x.recipe]) :
          x.steps[s].status = "failed" /\ x.steps[t].status = "failed" => s = t

\* What startWorkflowRun checked before creating a run stays true of the
\* recipe frozen with it.
LEMMA RunnableSound ==
    ASSUME NEW id \in Runnable
    PROVE  id \in RecipeIds /\ Sound(Recipe[id])
  BY RecipeAssumption DEF Runnable, Sound, checkWorkflowGraph

\* Whatever step states an action leaves, the pass turns them into a good
\* run if they are ordered and at most one step has failed.
LEMMA SettledGood ==
    ASSUME NEW x, IsRun(x), x.recipe \in Runnable,
           NEW st, AreSteps(Recipe[x.recipe], st), Ordered(Recipe[x.recipe], st),
           \A s, t \in stepNodes(Recipe[x.recipe]) :
              st[s].status = "failed" /\ st[t].status = "failed" => s = t
    PROVE  Good(Settled(x, st))
  <1> DEFINE r == Recipe[x.recipe]
             z == settle(r, st)
             w == Settled(x, st)
  <1>1. Sound(r)
    BY RunnableSound
  <1>2. AreSteps(r, z) /\ Ordered(r, z)
    BY <1>1, SettleType, SettleOrdered
  <1>3. DOMAIN z = stepNodes(r)
    BY DEF settle
  <1>4. /\ w.recipe = x.recipe
        /\ w.status = deriveRunStatus(r, z)
        /\ w.revision = x.revision + 1
        /\ w.steps = z
        /\ w = [recipe |-> w.recipe, status |-> w.status, revision |-> w.revision, steps |-> w.steps]
    BY DEF Settled
  <1>5. \A s \in stepNodes(r) : z[s].status = "failed" => st[s].status = "failed"
    BY SettleMoves
  <1>6. Ends(r) \subseteq Nodes(r)
    BY DEF Ends
  <1>7. (\A s \in stepNodes(r) : z[s].status \notin {"running", "awaiting_approval", "failed"})
           => \A n \in Nodes(r) : Arrival(r, z)[n] # "undecided"
    BY <1>1, NothingLeftUndecided
  <1>8. deriveRunStatus(r, z) \in RunStatus \ {"cancelled"}
    BY RunStatusType
  <1> HIDE DEF z, w, r
  <1>9. /\ deriveRunStatus(r, z) = "running" => HasStatus(z, "running")
        /\ deriveRunStatus(r, z) = "blocked" <=> HasStatus(z, "failed")
    BY <1>3, <1>6, <1>7 DEF deriveRunStatus, HasStatus
  <1>10. IsRun(w)
    BY <1>2, <1>4, <1>8 DEF IsRun, r
  <1>11. Good(w)
    BY <1>2, <1>4, <1>5, <1>8, <1>9, <1>10 DEF Good, r
  <1> QED
    BY <1>11 DEF w

\* The common shape of submit, block, approve, retry and skip: one step moves,
\* then the pass.
LEMMA WithStepGood ==
    ASSUME NEW x, Good(x), NEW s \in stepNodes(Recipe[x.recipe]),
           x.steps[s].status # "pending",
           NEW y \in StepState(Recipe[x.recipe], s),
           y.status \in Undecided => x.steps[s].status \in Undecided,
           y.status = "failed" => x.status \notin {"blocked", "cancelled"}
    PROVE  Good(WithStep(x, s, y))
  <1> DEFINE r  == Recipe[x.recipe]
             st == [x.steps EXCEPT ![s] = y]
  <1>1. IsRun(x) /\ AreSteps(r, x.steps) /\ Ordered(r, x.steps)
    BY DEF Good, IsRun
  <1>2. DOMAIN x.steps = stepNodes(r)
    BY <1>1 DEF AreSteps
  <1>3. st[s] = y /\ \A u \in stepNodes(r) : u # s => st[u] = x.steps[u]
    BY <1>2
  <1>4. AreSteps(r, st)
    BY <1>1, <1>2, <1>3 DEF AreSteps
  <1>5. Ordered(r, st)
    BY <1>1, ChangeOrdered
  <1>6. \A t, u \in stepNodes(r) : st[t].status = "failed" /\ st[u].status = "failed" => t = u
    <2>1. CASE y.status # "failed"
      BY <1>3, <2>1 DEF Good
    <2>2. CASE y.status = "failed"
      <3>1. \A u \in stepNodes(r) : x.steps[u].status # "failed"
        BY <1>2, <2>2 DEF Good, HasStatus
      <3> QED
        BY <1>3, <3>1
    <2> QED
      BY <2>1, <2>2
  <1>7. x.recipe \in Runnable
    BY DEF Good
  <1>8. Good(Settled(x, st))
    BY <1>1, <1>4, <1>5, <1>6, <1>7, SettledGood
  <1> QED
    BY <1>8 DEF WithStep

----------------------------------------------------------------------------
(* One lemma per action. *)

\* createRunState makes a good run.
LEMMA CreateGood ==
    ASSUME NEW id \in Runnable
    PROVE  Good(createRunState(id)) /\ createRunState(id).recipe = id
  <1> DEFINE r  == Recipe[id]
             st == buildStepTemplates(r)
             x0 == [recipe |-> id, status |-> "running", revision |-> 0, steps |-> st]
             w  == createRunState(id)
             z  == settle(r, st)
  <1>1. id \in RecipeIds /\ Sound(r)
    BY RunnableSound
  <1>2. \A s \in stepNodes(r) : st[s].status = "pending" /\ st[s] \in StepState(r, s)
    BY DEF buildStepTemplates, StepState, StepStatus, Note
  <1>3. AreSteps(r, st)
    BY <1>2 DEF AreSteps, buildStepTemplates
  <1>4. Ordered(r, st)
    BY <1>2 DEF Ordered
  <1>5. IsRun(x0)
    BY <1>1, <1>3 DEF IsRun, RunStatus
  <1>6. Good(Settled(x0, st))
    BY <1>2, <1>3, <1>4, <1>5, SettledGood
  <1>7. Settled(x0, st) = [recipe |-> id, status |-> deriveRunStatus(r, z),
                           revision |-> 1, steps |-> z]
    BY DEF Settled
  <1>8. w = [recipe |-> id, status |-> deriveRunStatus(r, z), revision |-> 0, steps |-> z]
    BY DEF createRunState
  <1> HIDE DEF r, st, x0, w, z
  <1>9. Good(w)
    BY <1>6, <1>7, <1>8 DEF Good, IsRun
  <1> QED
    BY <1>8, <1>9 DEF w

\* submit keeps it good: a done step may let the pass start the next ones.
LEMMA SubmitGood ==
    ASSUME NEW x, Good(x), NEW s \in stepNodes(Recipe[x.recipe]), NEW outcome,
           CanSubmit(x, s, outcome)
    PROVE  Good(Submit(x, s, outcome))
  <1> DEFINE r == Recipe[x.recipe]
             status == IF requiresApproval(r, s) THEN "awaiting_approval" ELSE "done"
             o == IF r.step[s].outcomes = {} THEN x.steps[s].outcome ELSE outcome
             y == [x.steps[s] EXCEPT !.status = status, !.outcome = o]
  <1>1. x.steps[s].status = "running" /\ x.steps[s] \in StepState(r, s)
    BY DEF CanSubmit, Accepts, Good, IsRun, AreSteps
  <1>2. status \in {"awaiting_approval", "done"} /\ status \in StepStatus
    BY DEF StepStatus
  <1>3. o \in r.step[s].outcomes \cup {NoOutcome}
    BY <1>1 DEF CanSubmit, StepState
  <1> HIDE DEF status, o
  <1>4. y \in StepState(r, s) /\ y.status = status
    BY <1>1, <1>2, <1>3 DEF StepState
  <1> HIDE DEF y
  <1>5. Good(WithStep(x, s, y))
    BY <1>1, <1>2, <1>4, WithStepGood DEF Undecided
  <1> QED
    BY <1>5 DEF Submit, y, status, o

\* block keeps it good: it is refused while another step is failed.
LEMMA BlockGood ==
    ASSUME NEW x, Good(x), NEW s \in stepNodes(Recipe[x.recipe]), CanBlock(x, s)
    PROVE  Good(Block(x, s))
  <1> DEFINE r == Recipe[x.recipe]
             y == [x.steps[s] EXCEPT !.note = "blocked"]
             again == [y EXCEPT !.attempt = @ + 1]
  <1>1. /\ x.steps[s].status = "running" /\ x.steps[s] \in StepState(r, s)
        /\ x.status \notin {"blocked", "cancelled"}
    BY DEF CanBlock, Accepts, Terminal, Good, IsRun, AreSteps
  <1>2. y \in StepState(r, s) /\ y.status = "running"
    BY <1>1 DEF StepState, Note
  <1> HIDE DEF y
  <1>3. again \in StepState(r, s) /\ again.status = "running"
    BY <1>2 DEF StepState
  <1>4. \A status \in {"skipped", "failed"} :
           /\ [y EXCEPT !.status = status] \in StepState(r, s)
           /\ [y EXCEPT !.status = status].status = status
    BY <1>2 DEF StepState, StepStatus
  <1>5. Good(WithStep(x, s, again))
    BY <1>1, <1>3, WithStepGood DEF Undecided
  <1>6. \A status \in {"skipped", "failed"} : Good(WithStep(x, s, [y EXCEPT !.status = status]))
    BY <1>1, <1>4, WithStepGood DEF Undecided
  <1> QED
    BY <1>5, <1>6 DEF Block, y

\* approve keeps it good.
LEMMA ApproveGood ==
    ASSUME NEW x, Good(x), NEW s \in stepNodes(Recipe[x.recipe]), CanApprove(x, s)
    PROVE  Good(Approve(x, s))
  <1>1. x.steps[s].status = "awaiting_approval" /\ x.steps[s] \in StepState(Recipe[x.recipe], s)
    BY DEF CanApprove, Good, IsRun, AreSteps
  <1> DEFINE y == [x.steps[s] EXCEPT !.status = "done"]
  <1>2. y \in StepState(Recipe[x.recipe], s) /\ y.status = "done"
    BY <1>1 DEF StepState, StepStatus
  <1> HIDE DEF y
  <1>3. Good(WithStep(x, s, y))
    BY <1>1, <1>2, WithStepGood DEF Undecided
  <1> QED
    BY <1>3 DEF Approve, y

\* retry takes back no step that the flow has gone past.
LEMMA RetryGood ==
    ASSUME NEW x, Good(x), NEW s \in stepNodes(Recipe[x.recipe]), CanRetry(x, s)
    PROVE  Good(Retry(x, s))
  <1>1. x.steps[s].status = "failed" /\ x.steps[s] \in StepState(Recipe[x.recipe], s)
    BY DEF CanRetry, Good, IsRun, AreSteps
  <1> DEFINE k == x.steps[s].attempt + 1
             y == [x.steps[s] EXCEPT !.status = "running", !.attempt = k]
  <1>2. k \in Nat
    BY <1>1 DEF StepState
  <1> HIDE DEF k
  <1>3. y \in StepState(Recipe[x.recipe], s) /\ y.status = "running"
    BY <1>1, <1>2 DEF StepState, StepStatus
  <1> HIDE DEF y
  <1>4. Good(WithStep(x, s, y))
    BY <1>1, <1>3, WithStepGood DEF Undecided
  <1> QED
    BY <1>4 DEF Retry, y, k

\* skip keeps it good: skipping the only failure unblocks the run.
LEMMA SkipGood ==
    ASSUME NEW x, Good(x), NEW s \in stepNodes(Recipe[x.recipe]), CanSkip(x, s)
    PROVE  Good(Skip(x, s))
  <1>1. x.steps[s].status = "failed" /\ x.steps[s] \in StepState(Recipe[x.recipe], s)
    BY DEF CanSkip, Good, IsRun, AreSteps
  <1> DEFINE y == [x.steps[s] EXCEPT !.status = "skipped"]
  <1>2. y \in StepState(Recipe[x.recipe], s) /\ y.status = "skipped"
    BY <1>1 DEF StepState, StepStatus
  <1> HIDE DEF y
  <1>3. Good(WithStep(x, s, y))
    BY <1>1, <1>2, WithStepGood DEF Undecided
  <1> QED
    BY <1>3 DEF Skip, y

\* cancel leaves the steps as they were.
LEMMA CancelGood ==
    ASSUME NEW x, Good(x)
    PROVE  Good(Cancel(x))
  BY DEF Cancel, Good, IsRun, RunStatus

\* reject keeps it good: what is behind a step sent back starts over with it.
LEMMA RejectGood ==
    ASSUME NEW x, Good(x), NEW s \in stepNodes(Recipe[x.recipe]), CanReject(x, s)
    PROVE  Good(Reject(x, s))
  <1> DEFINE r       == Recipe[x.recipe]
             targets == RejectTargets(x, s)
             reset   == targets \cup UNION {forwardDescendants(r, t) : t \in targets}
             Fresh(t) == [status  |-> "pending", attempt |-> x.steps[t].attempt,
                          outcome |-> NoOutcome,
                          note    |-> IF t \in targets THEN "rejected" ELSE "none"]
             st == [t \in stepNodes(r) |-> IF t \in reset THEN Fresh(t) ELSE x.steps[t]]
             y  == [status |-> "running", attempt |-> x.steps[s].attempt + 1,
                    outcome |-> NoOutcome, note |-> "rejected"]
  <1>1. /\ IsRun(x) /\ x.recipe \in Runnable /\ EdgesJoinNodes(r)
        /\ AreSteps(r, x.steps) /\ Ordered(r, x.steps)
    BY RunnableSound DEF Good, IsRun, Sound
  <1>2. \A t \in stepNodes(r) : x.steps[t] \in StepState(r, t) /\ x.steps[t].attempt \in Nat
    BY <1>1 DEF AreSteps, StepState
  <1>3. CASE targets # {}
    <2>1. \A t \in stepNodes(r) : st[t] \in StepState(r, t)
      <3>1. \A t \in stepNodes(r) : Fresh(t) \in StepState(r, t)
        BY <1>2 DEF StepState, StepStatus, Note
      <3> QED
        BY <1>2, <3>1
    <2>2. AreSteps(r, st)
      BY <2>1 DEF AreSteps
    <2>3. \A u \in reset : forwardDescendants(r, u) \subseteq reset
      BY <1>1, DescendantsTransitive
    <2>4. /\ \A t \in stepNodes(r) : t \in reset => st[t].status = "pending"
          /\ \A t \in stepNodes(r) : t \notin reset => st[t] = x.steps[t]
      OBVIOUS
    <2> HIDE DEF st, reset
    <2>5. Ordered(r, st)
      BY <1>1, <2>3, <2>4, ResetOrdered
    <2>6. \A t, u \in stepNodes(r) : st[t].status = "failed" /\ st[u].status = "failed" => t = u
      BY <2>4 DEF Good
    <2>7. Good(Settled(x, st))
      BY <1>1, <2>2, <2>5, <2>6, SettledGood
    <2> QED
      BY <1>3, <2>7 DEF Reject, st, reset
  <1>4. CASE targets = {}
    <2>1. x.steps[s].status = "awaiting_approval"
      BY DEF CanReject
    <2>2. x.steps[s].attempt + 1 \in Nat
      BY <1>2
    <2>3. y \in StepState(r, s) /\ y.status = "running"
      BY <2>2 DEF StepState, StepStatus, Note
    <2> HIDE DEF y
    <2>4. Good(WithStep(x, s, y))
      BY <2>1, <2>3, WithStepGood DEF Undecided
    <2> QED
      BY <1>4, <2>4 DEF Reject, y
  <1> QED
    BY <1>3, <1>4
=============================================================================

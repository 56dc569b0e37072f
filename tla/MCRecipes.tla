----------------------------- MODULE MCRecipes -----------------------------
(***************************************************************************)
(* Small recipes of the shapes the canvas offers, given to TLC as the      *)
(* value of Recipe: a chain with a send-back edge, a fork closed by a      *)
(* join, a choice with several ends, and three shapes the structural check *)
(* accepts although the runs below show what goes wrong with them.         *)
(***************************************************************************)
EXTENDS Naturals, TLC

Work(kind, approval, onFailure) ==
    [kind |-> kind, mode |-> "narrator", requiresApproval |-> approval,
     enabled |-> TRUE, onFailure |-> onFailure, outcomes |-> {}]
Off(step)          == [step EXCEPT !.enabled = FALSE]
Branch(step, outs) == [step EXCEPT !.outcomes = outs]

\* "any" is the condition of an edge without one.
On(a, o, b) == [id |-> <<a, o, b>>, source |-> a, target |-> b, outcome |-> o]
Edge(a, b)  == On(a, "any", b)
Back(a, b)  == [id |-> <<a, b>>, source |-> a, target |-> b]

Graph(step, joins, ends, next, reject, maxRetries) ==
    [type |-> [s \in DOMAIN step |-> "step"] @@ [j \in joins |-> "join"]
              @@ [e \in ends |-> "end"] @@ ("start" :> "start"),
     next |-> next, reject |-> reject, step |-> step, maxRetries |-> maxRetries]

\* plan -> draft -> gate (sends back to draft) -> settle
Chain == Graph(
    "plan"   :> Work("guided-plan", TRUE, "stop") @@
    "draft"  :> Work("writer-generate", TRUE, "retry") @@
    "gate"   :> Work("approval-gate", FALSE, "stop") @@
    "settle" :> Work("post-settlement", FALSE, "skip"),
    {}, {"end"},
    {Edge("start", "plan"), Edge("plan", "draft"), Edge("draft", "gate"),
     Edge("gate", "settle"), Edge("settle", "end")},
    {Back("gate", "draft")}, 1)

\* plan -> (check || off -> polish) -> join -> close; check and close send back to plan
Fork == Graph(
    "plan"   :> Work("guided-plan", FALSE, "stop") @@
    "check"  :> Work("audit", TRUE, "stop") @@
    "off"    :> Off(Work("canvas-open", FALSE, "stop")) @@
    "polish" :> Work("custom-tool", FALSE, "stop") @@
    "close"  :> Work("guided-plan", TRUE, "skip"),
    {"join"}, {"end"},
    {Edge("start", "plan"), Edge("plan", "check"), Edge("plan", "off"),
     Edge("off", "polish"), Edge("check", "join"), Edge("polish", "join"),
     Edge("join", "close"), Edge("close", "end")},
    {Back("check", "plan"), Back("close", "plan")}, 1)

\* draft -> judge: good -> join, drop -> dropped, otherwise mend -> join; join -> keep
Choice == Graph(
    "draft" :> Work("writer-generate", FALSE, "stop") @@
    "judge" :> Branch(Work("audit", TRUE, "retry"), {"good", "weak", "drop"}) @@
    "mend"  :> Work("writer-generate", TRUE, "skip") @@
    "keep"  :> Work("approval-gate", FALSE, "stop"),
    {"join"}, {"end", "dropped"},
    {Edge("start", "draft"), Edge("draft", "judge"), On("judge", "good", "join"),
     On("judge", "drop", "dropped"), Edge("judge", "mend"), Edge("mend", "join"),
     Edge("join", "keep"), Edge("keep", "end")},
    {Back("keep", "draft")}, 1)

\* A cycle, and an edge of a deleted node: the check refuses it, no run begins.
Broken == Graph(
    "loop"  :> Branch(Work("audit", FALSE, "stop"), {"odd"}) @@ "other" :> Work("audit", FALSE, "stop"),
    {}, {"end"},
    {Edge("loop", "other"), Edge("other", "loop"), Edge("start", "end"),
     Edge("deleted", "end")}, {}, 0)

\* A manual gate that declares outcomes: approving it gives none of them.
GateChoice == Graph(
    "plan" :> Work("guided-plan", FALSE, "stop") @@
    "gate" :> Branch(Work("approval-gate", FALSE, "stop"), {"go", "stop"}) @@
    "tail" :> Work("writer-generate", FALSE, "stop"),
    {}, {"end"},
    {Edge("start", "plan"), Edge("plan", "gate"), On("gate", "go", "tail"),
     On("gate", "stop", "end"), Edge("tail", "end")}, {}, 0)

\* keep sends back to mend, which lies on the branch that may not be taken.
SendBackAside == [Choice EXCEPT !.reject = {Back("keep", "mend")}]
============================================================================

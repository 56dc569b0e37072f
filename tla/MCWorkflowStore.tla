-------------------------- MODULE MCWorkflowStore --------------------------
(* Instances of WorkflowStore for TLC. *)
EXTENDS WorkflowStore, MCRecipes

\* Two steps in parallel, one of them confirmed by the author and sent back.
Pair == Graph(
    "plan"  :> Work("guided-plan", TRUE, "stop") @@
    "check" :> Work("audit", FALSE, "stop"),
    {"join"}, {"end"},
    {Edge("start", "plan"), Edge("start", "check"), Edge("plan", "join"),
     Edge("check", "join"), Edge("join", "end")},
    {}, 0)

MCPair == "pair" :> Pair
Symmetry == Permutations(RunIds) \cup Permutations(Pages)
============================================================================

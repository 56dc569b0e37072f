--------------------------- MODULE MCWorkflowRun ---------------------------
(* Instances of WorkflowRun for TLC. *)
EXTENDS WorkflowRun, MCRecipes

MCChainForkChoice == "chain" :> Chain @@ "fork" :> Fork @@ "choice" :> Choice @@ "broken" :> Broken
MCGateChoice      == "gate" :> GateChoice
MCSendBackAside   == "aside" :> SendBackAside
============================================================================

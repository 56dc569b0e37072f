SPECIFICATION StoreSpec
CONSTANTS
    RunIds = {r1, r2}
    Narrators = {n1}
    Pages = {p1, p2}
    NoRun = NoRun
    RecipeIds = {"pair"}
    Recipe <- MCPair
    NoOutcome = "any"
    MaxRevision = 3
SYMMETRY Symmetry
INVARIANTS
    OneActiveRunPerNarrator
PROPERTIES
    ActsOnWhatWasSeen

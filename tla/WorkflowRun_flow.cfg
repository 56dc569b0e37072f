SPECIFICATION FairSpec
CONSTANTS
    RecipeIds = {"chain", "fork", "choice", "broken"}
    Recipe <- MCChainForkChoice
    NoOutcome = "any"
    MaxSetbacks = 2
INVARIANTS
    TypeOK
    OrderRespected
    NeverStalls
    OneFailureAtATime
    AuthorDecides
    ScenesAreLatestApproved
PROPERTIES
    RejectionIsHeard
    EveryRunEnds

CONSTANTS
    Canon <- MCCanon
    Switch <- MCSwitch
    NoForm <- MCNoForm
    Negatable <- MCNegatable
    Placement <- MCPlacement
    EnvKeys <- MCEnvKeys
    PlacementEnv <- MCPlacementEnv
    Malformed <- MCMalformed
    MaxRangeValues = 5
    MaxSpaceCandidates = 6
    Names = {"night"}
    Drafts <- MCDrafts
    RecipeDocs <- MCRecipeDocs
    TpParam = "tp"
    Starter <- MCStarter
    MaxDraftCandidates = 6
    CardTypes <- MCCardTypes
    Productions <- MCProductions
    Fleets <- MCFleets
    Proposals <- MCProposals
    EditItems <- MCEditItems
    Machine <- MCMachine
    Forbidden <- MCForbidden
    Vocabulary <- MCVocabulary
    EnvUnchecked = FALSE
    ParamType <- MCParamType
    Sorted <- MCSorted
    Site <- MCSite
    MaxSteps = 2
SPECIFICATION Spec
INVARIANTS
    SameCoordinates
    
    
    RecipeKept
CHECK_DEADLOCK FALSE

SPECIFICATION FairSpec
CONSTANTS
    Sessions = {1, 2}
    Pages = {"a", "b"}
    MaxAsks = 1
    Scenes <- DeskScenes
CHECK_DEADLOCK FALSE
INVARIANTS
    AnswersItsRequest
    PagesAreToldTrue
    
PROPERTIES
    EveryAskReturns

SPECIFICATION DocsSpec
CONSTANTS
    NoJob = NoJob
    NoCtx = NoCtx
    VIEWS <- TheViews
    Groups <- TheGroups
    Kind <- TheKinds
    NameOrder <- TheNames
    Spell <- TheSpelling
    Links <- TheLinks
    MaxEvents = 3
INVARIANTS JobsKept NoneStuck TimersMatch ShowsItsState UrlKept BenchExact PlaysAsScored
PROPERTIES StepsKeep AllEnds
CHECK_DEADLOCK FALSE

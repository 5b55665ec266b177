SPECIFICATION ScenarioSpec
CONSTANTS
    Scenes <- MCScenes
    MaxEvents = 4
    Movies <- MCMovies
    Names <- MCNames
    Imported <- MCImported
    Reserved <- MCReserved
    MaxFillers = 2
CHECK_DEADLOCK FALSE
INVARIANTS
    TypeOK
    AcceptedEventsApply
    ProjectionAgrees
    SidecarsAgree
    HistoryLeadsHome
    ReportsAgree
    FaithfulObserverPasses
    
    GeneratedIsAccepted
PROPERTIES
    HierarchyMovesNeverCollide

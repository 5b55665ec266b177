SPECIFICATION ScenarioSpec
CONSTANTS
    Scenes <- MCOneSubtitle
    MaxEvents = 4
    Movies <- MCMovies
    Names <- MCNames
    Imported <- MCImported
    Reserved <- MCReserved
    MaxFillers = 2
CHECK_DEADLOCK FALSE
INVARIANT
    SidecarLookupSucceeds

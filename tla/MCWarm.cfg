SPECIFICATION FairSpec
CONSTANTS
    None = None
    Searches = {s1, s2}
    MaxPersonas = 2
    Handlers = {h1, h2}
    Scenarios <- MCScenarios
    Window = 1
    Day = 2
    MaxTime = 2
    MaxFaults = 1
INVARIANTS CapsHold ResultsComplete
PROPERTIES EndsOnce WatchedEnds
CHECK_DEADLOCK FALSE

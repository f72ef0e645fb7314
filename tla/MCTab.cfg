SPECIFICATION FairSpec
CONSTANTS
    None = None
    p1 = p1  p2 = p2
    open = open  yes = yes  no = no
    applied = applied  phone = phone  ping = ping
    Items = {p1, p2}
    Choices = {open, yes}
    Undecided = open
    Changes <- MCChanges
    Postings <- MCPostings
    Applications <- MCApplications
    Foreign <- MCForeign
    MaxElsewhere = 1
    MaxFailures = 1
    MaxGestures = 2
    MaxWrites = 2
    MaxRetries = 1
    Apps = {p1}
    Texts <- MCTexts
INVARIANTS NothingGuessed VersionStandsForRow UndoRestores GestureOnce NoSelfConflict
PROPERTIES EveryGestureSettles ConflictIsShown
CHECK_DEADLOCK FALSE

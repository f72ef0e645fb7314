SPECIFICATION FairSpec
CONSTANTS
    Facts <- MCFacts
    Dispatchers = {d1, d2}
    Limit = 2
    MaxDispatches = 3
    r1 = r1
    r2 = r2
    b1 = b1
    Roles = {r1, r2}
    Boards <- MCBoards
    BoardOf <- MCBoardOf
    MaxAttempts = 2
    MaxSweeps = 3
    MaxMoves = 2
    MaxPushFaults = 1
    Files <- MCFiles
    Existing <- MCExisting
    Entries <- MCEntries
    Upload = 2
    Tabs = {t1, t2}
    Chunk = 2
    MaxStarts = 2
    MaxEdits = 1
    MaxCallFaults = 1
    None = None
    keyed = keyed
    p = p
    q = q
    Applications = {keyed, manual}
    Words = {"ready_for_review"}
    Packages = {p, q}
    Requests = {first, second}
    Records <- MCRecords
    MaxStages = 2
    MaxGestures = 2
    MaxEnded = 1
    Companies = 4
    FetchChunk = 2
    MaxListings = 1
    MaxKills = 1
    Jobs = {j1, j2, j3}
    Titled = {j1, j2}
    Budgets = {2, 4}
    FirstWindow = 2
    MaxDay = 3
    MaxBadRows = 1
    MaxSweepFaults = 1
    CompanyRows = {1, 2}
    EmployerOf <- MCEmployerOf
    Answers = {7}
    Lanes = {"harvest", "backfill"}
    Unsure = {"backfill"}
    MaxPastes = 2
    MaxBuys = 2
    MaxNewBoards = 1
    MaxMails = 3
    ChunkSize = 2
    QueueMax = 2
    PenMax = 1
    MaxPassCuts = 1
CHECK_DEADLOCK FALSE
INVARIANTS LedgerTrue StampIsBacked LandedOnce NeverBlindlyRetried TailIsReached Accounted
PROPERTIES QueueDrains PersonsStatusKept UndoExact ApprovedAsRead EvidenceKept CursorPassesOnlyStored HumanAnswerStands

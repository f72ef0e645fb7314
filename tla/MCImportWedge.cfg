SPECIFICATION ImportFairSpec
CONSTANTS
    Files <- MCStaleFiles
    Existing <- MCExisting
    Entries <- MCEntries
    Upload = 2
    Tabs = {t1}
    Chunk = 2
    MaxStarts = 1
    MaxEdits = 1
    MaxCallFaults = 0
CHECK_DEADLOCK FALSE
PROPERTIES StaleRowDoesNotWedge

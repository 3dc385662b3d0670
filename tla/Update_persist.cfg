\* A root file system that may or may not outlive a restart.
SPECIFICATION UpdateSpec
CONSTANTS
    Newest = 3
    Image = 2
    Host = {"either"}
    Updater = {a1}
    Requests = {"install"}
    Hasty = FALSE
    CrashIn = {}
INVARIANT UpdateStays
CHECK_DEADLOCK FALSE

\* Every fault switched on, with the fairness of the runtime.
SPECIFICATION FairSpec
CONSTANTS
    Entry = {s1}
    Source = {s1}
    Compactor = {c1, c2}
    NoOne = NoOne
    Nothing = Nothing
    QueueCap = 2
    BatchMax = 2
    EventKeep = 1
    Faults = {"tear", "partial", "unread", "temp", "rename", "reopen"}
    MaxLog = 1
    MaxEvents = 2
INVARIANT EventsIncrease
PROPERTY EventsDrain
PROPERTY CompactionEnds

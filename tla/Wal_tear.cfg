SPECIFICATION Spec
CONSTANTS
    Entry = {b1, s1}
    Source = {s1}
    Compactor = {c1}
    NoOne = NoOne
    Nothing = Nothing
    QueueCap = 2
    BatchMax = 2
    EventKeep = 1
    Faults = {"tear"}
    MaxLog = 3
    MaxEvents = 0
INVARIANT AckedIsDurable

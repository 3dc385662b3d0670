SPECIFICATION Spec
CONSTANTS
    Entry = {b1, s1}
    Source = {s1}
    Compactor = {c1, c2}
    NoOne = NoOne
    Nothing = Nothing
    QueueCap = 2
    BatchMax = 2
    EventKeep = 1
    Faults = {"temp", "rename"}
    MaxLog = 3
    MaxEvents = 3
INVARIANT TypeOK
INVARIANT AckedIsDurable
INVARIANT EventsInOrder

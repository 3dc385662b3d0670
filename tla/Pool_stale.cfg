\* A sync between the read and the write of a promotion.
CONSTANTS
    a = a
    b = b
    sync = sync
    Url = {a, b}
    Builtin = {a, b}
    Default = {a}
    High = {b}
    Medium = {}
    PoolSize = 2
    ErrorLimit = 1
    Feeds = {{b}}
    Syncer = {sync}
    Speeds = {"dead", "fast"}
    Gen = {0, 1, 2, 3}
    MaxErrors = 1
    MaxHealing = 0
    MaxResets = 0
SPECIFICATION Spec
PROPERTY DemotesOnlyDegraded

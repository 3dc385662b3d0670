\* A pool of one: a dead resolver against a candidate, with resets and slow heals.
CONSTANTS
    a = a
    b = b
    sync = sync
    Url = {a, b}
    Builtin = {a, b}
    Default = {a}
    High = {b}
    Medium = {}
    PoolSize = 1
    ErrorLimit = 2
    Feeds = {{b}}
    Syncer = {sync}
    Speeds = {"dead", "fast"}
    Gen = {0, 1, 2, 3}
    MaxErrors = 2
    MaxHealing = 1
    MaxResets = 1
SPECIFICATION FairSpec
PROPERTY PoolHeals

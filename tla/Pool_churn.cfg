\* Two slow resolvers of high aura and a fast one of low aura.
CONSTANTS
    a = a
    b = b
    c = c
    sync = sync
    Url = {a, b, c}
    Builtin = {a, b, c}
    Default = {a}
    High = {a, b}
    Medium = {}
    PoolSize = 1
    ErrorLimit = 3
    Feeds = {{b}}
    Syncer = {}
    Speeds = {"slow", "fast"}
    Gen = {0, 1, 2, 3}
    MaxErrors = 4
    MaxHealing = 0
    MaxResets = 0
SPECIFICATION FairSpec
PROPERTY PoolQualifies

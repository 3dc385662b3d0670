\* Every kind of call on the blocklist and the whitelist; a parent is in the feed.
CONSTANTS
    Domain = {"evil"}
    Pattern = {"*.corp"}
    Covers <- Nested
    Feed = {"*.corp"}
    Proc = {"t1"}
    Ops <- Administration
    Blockable = {"*.corp"}
    Protos = {"plain"}
    Windows = {"evil"}
    SoftCap = 1
    HardCap = 2
    LearnCap = 1
SPECIFICATION Spec
INVARIANT TypeOK FeedStopsUnlisted

\* The blocklist is cleared.
CONSTANTS
    Domain = {"ads"}
    Pattern = {}
    Covers <- Flat
    Feed = {}
    Proc = {"t1"}
    Ops <- WithClearBlock
    Blockable = {"ads"}
    Protos = {}
    Windows = {}
    SoftCap = 2
    HardCap = 3
    LearnCap = 2
SPECIFICATION Spec
INVARIANT WhitelistIsDurable

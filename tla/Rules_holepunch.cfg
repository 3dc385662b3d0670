\* A wildcard whitelist, a query, an explicit block.
CONSTANTS
    Domain = {"ads"}
    Pattern = {"*.corp"}
    Covers <- Nested
    Feed = {}
    Proc = {"t1"}
    Ops <- BlockAndWhitelist
    Blockable = {"ads", "*.corp"}
    Protos = {"doh"}
    Windows = {}
    SoftCap = 2
    HardCap = 3
    LearnCap = 2
SPECIFICATION Spec
INVARIANT HolePunch

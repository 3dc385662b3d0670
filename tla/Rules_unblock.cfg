\* A query in flight while its rule is removed.
CONSTANTS
    Domain = {"ads"}
    Pattern = {}
    Covers <- Flat
    Feed = {}
    Proc = {"t1", "t2"}
    Ops <- BlockApi
    Blockable = {"ads"}
    Protos = {"doh"}
    Windows = {}
    SoftCap = 2
    HardCap = 3
    LearnCap = 2
SPECIFICATION Spec
INVARIANT RemovalIsFinal

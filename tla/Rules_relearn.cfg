\* A learned name is blocked explicitly.
CONSTANTS
    Domain = {"evil"}
    Pattern = {}
    Covers <- Flat
    Feed = {"evil"}
    Proc = {"t1"}
    Ops <- AddBlock
    Blockable = {"evil"}
    Protos = {"doh"}
    Windows = {}
    SoftCap = 2
    HardCap = 3
    LearnCap = 2
SPECIFICATION Spec
INVARIANT BlocklistIsDurable

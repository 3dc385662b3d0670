\* Adds and DoH queries that overlap.
CONSTANTS
    Domain = {"ads", "evil"}
    Pattern = {}
    Covers <- Flat
    Feed = {"evil"}
    Proc = {"t1", "t2"}
    Ops <- AddOnly
    Blockable = {"ads"}
    Protos = {"doh"}
    Windows = {}
    SoftCap = 1
    HardCap = 2
    LearnCap = 1
SPECIFICATION Spec
INVARIANT AnswersMatchRules

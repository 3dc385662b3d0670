\* The console blocks a name and the list fills up.
CONSTANTS
    Domain = {"ads", "evil"}
    Pattern = {}
    Covers <- Flat
    Feed = {"evil"}
    Proc = {"t1"}
    Ops <- ConsoleBlock
    Blockable = {"ads", "evil"}
    Protos = {"doh"}
    Windows = {}
    SoftCap = 1
    HardCap = 2
    LearnCap = 1
SPECIFICATION Spec
INVARIANT AnswersMatchRules

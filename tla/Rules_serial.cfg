\* One thread: calls and queries never overlap.
CONSTANTS
    Domain = {"ads", "evil"}
    Pattern = {}
    Covers <- Flat
    Feed = {"evil"}
    Proc = {"t1"}
    Ops <- AddDelete
    Blockable = {"ads"}
    Protos = {"doh", "plain"}
    Windows = {}
    SoftCap = 1
    HardCap = 1
    LearnCap = 1
SPECIFICATION Spec
INVARIANT AnswersMatchRules RulesSurvive

\* A denial cached before blocking was switched off is still given after it.
SPECIFICATION AnswersSpec
CONSTANTS
    Task = {t1, t2}
    RebindOk = FALSE
    MaxChanges = 1
CHECK_DEADLOCK FALSE
INVARIANT OffMeansOpen

\* A client's subnet goes to the resolvers that are raced.
SPECIFICATION WireSpec
CONSTANTS
    Client = {"u", "s"}
    Udp = {"u"}
    Declared = {1, 3}
    Smart = {2, 3}
    MinFresh = 2
    Unanswered = 3
    PrefetchLife = 3
    Grace = 1
    StaleTtl = 1
    Limit = 4
    Notify = FALSE
    MaxAsks = 2
INVARIANT SubnetStaysHome
CHECK_DEADLOCK FALSE

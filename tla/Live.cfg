\* Five parts of the server, one after the other, with their fairness.
SPECIFICATION LiveSpec
CONSTANTS
    Part = {"flight", "hedge", "feeds", "listeners", "answers"}
    \* Singleflight
    Caller = {c1, c2, c3}
    Key = {k1, k2}
    Answer = {a1, a2}
    Nobody = Nobody
    NoKey = NoKey
    Empty = Empty
    Closed = Closed
    \* Feeds
    Loop = {1, 2}
    MaxVersion = 2
    MaxFail = 2
    MaxRestart = 1
    \* Listeners
    Kind = {"udp", "tcp", "dot", "doq", "doh3", "https"}
    Conn = {"c1"}
    Room = 1
    Depth = 1
    MaxAsk = 3
    \* Answers
    Task = {"t1"}
    RebindOk = FALSE
    MaxChanges = 1
INVARIANTS LiveTypeOK OneFlight HedgeSound
PROPERTIES Implements LookupsEnd FiltersKept AsksKept
    FeedsArrive AsksEnd CachedEnds
CHECK_DEADLOCK FALSE

\* Ten parts of the server, one after the other.
SPECIFICATION PartsSpec
CONSTANTS
    Part = {"answers", "wire", "names", "denial", "rates", "auth", "shield", "anchors",
            "update", "cron"}
    \* Answers
    Task = {"t1", "t2"}
    RebindOk = FALSE
    MaxChanges = 1
    \* Wire
    Client = {"u", "s"}
    Udp = {"u"}
    Declared = {1, 3}
    Smart = {2, 3}
    MinFresh = 2
    Unanswered = 3
    PrefetchLife = 3
    Grace = 1
    StaleTtl = 1
    Limit = 4
    Notify = FALSE
    MaxAsks = 2
    \* Denial
    Canon <- FourNames
    Alias <- Parent
    Asterisk = 0
    Collide = FALSE
    MaxRecords = 2
    \* RateLimit
    Identity = {"d1", "d2"}
    Checker = {"t1", "t2"}
    IdCap = 1
    IdRate = 1
    IpCap = 2
    IpRate = 1
    IdleTicks = 2
    MaxLag = 1
    MaxAge = 2
    \* Auth
    Machine = {1, 2}
    Skew = 1
    Path = {"a", "b"}
    Ttl = {0, 1, 2, 3}
    FieldLimit = 3
    LastTick = 5
    \* Shield
    Local = {"l"}
    Remote = {"u"}
    Admin = {"a1", "a2"}
    Ops = {"save", "sync", "clear", "toggle"}
    Overlap = {{"save"}, {"sync"}, {"clear"}, {"save", "toggle"}, {"clear", "toggle"},
               {"sync", "toggle"}, {"sync", "boot"}, {"boot", "toggle"}}
    MaxBoots = 1
    \* Anchors
    Syncer = {"boot", "cron"}
    MaxEdition = 3
    MaxRestart = 1
    \* Update
    Newest = 3
    Image = 2
    Host = {"always", "never"}
    Updater = {"a1"}
    Requests = {"install", "rollback", "remove", "drop", "prune"}
    Hasty = FALSE
    CrashIn = {"stage", "staging", "verify", "backup", "swap", "mirror", "mirroring",
               "installed"}
    \* Cron
    Day = 12
    Minute = 2
    Guard = 3
    Window = 3
    Target = 5
    Shift = {0}
    Late = 1
    Busy = 3
    Days = 3
    MaxReboots = 2
    \* Names
    Spelling <- ThreeLabels
    MaxLabels = 2
    MaxNames = 3
    Steps = 8
    Jumps = 3
    Octets = 13
INVARIANTS PartsTypeOK
    AnswersMatchPolicy MessagesWhole TtlsBounded NamesKept DenialsJudged BudgetHolds
    TokenTravels SavedIsStored UpdatesSafe OnceADay
PROPERTIES AnchorsLive
CHECK_DEADLOCK FALSE

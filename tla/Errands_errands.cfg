SPECIFICATION Spec
CONSTANTS
    Offers = {"o1", "o2"}
    Demands = {"d"}
    Contracts = {"c"}
    DailyBidLimit = 1
    MaxPosts = 2
    Syncs = {"s1", "s2"}
    Hashes = {"h1", "h2"}
    PerTx = 2
    MaxBlock = 3
    Backfill = 1
    Chunk = 2
    MinChunk = 1
    Waiters = {"a", "b", "c", "d", "e"}
    MaxCalls = 2
    Period = 2
    EndOfTime = 6
    Callers = {"a", "b"}
    Budget = 2
    MaxSales = 5
    Sheets = {"bounties", "letters"}
    Prints = {"p"}
    Addresses = {"a"}
    PerHour = 1
    MaxRows = 3
    Agents = {"a", "b"}
    MaxVisits = 1
    Torn = Torn
    Absent = Absent
    Containers = {"blue", "green"}
INVARIANTS
    SaidOnce
    NothingIsForgotten
    LimitsHold
CHECK_DEADLOCK FALSE

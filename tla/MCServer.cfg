CONSTANTS
    Queries <- MCQueries
    Batches <- MCBatches
    Budgets = {1, 3, 5, 8}
    Cost <- MCCost
    FileOf <- MCFileOf
    FairFloor = 2
    PagePool = 4
    MaxSeen = 3
    Edits = {"e1", "e2", "e3"}
    MaxRejected = 2
    MaxBatch = 2
    Tasks = {"check"}
    VerifyTask = "check"
    Runners = {"r"}
    Problems = {"p1", "p2"}
    MaxInterjections = 2
    MaxRequests = 3
    MaxChatter = 1
    Clients = {"c1", "c2"}
    Methods = {"call", "other"}
    Known = {"call"}
    Requests <- MCRequests
SPECIFICATION MCServerSpec
INVARIANTS AnswerFits BestAtTheEdges MemoryIsTrue RepliesMatch
PROPERTIES PagesGoOn CallsAreKept EveryCallReturns
CHECK_DEADLOCK FALSE

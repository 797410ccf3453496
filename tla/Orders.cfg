\* Four calls in two processes, stock 2/1/1; a circuit opens after two failures.
SPECIFICATION Spec
CONSTANTS
    c1 = c1
    c2 = c2
    c3 = c3
    c4 = c4
    agent = agent
    api = api
    Calls = {c1, c2, c3, c4}
    Processes = {agent, api}
    Tools = {"create", "cancel", "query", "search"}
    Threshold = 2
    ResetSeconds = 1
    MaxClock = 3
    Skus = {"x", "y", "z"}
    Currency <- MCCurrency
    InitialStock <- MCInitialStock
    NumberBound = 4
    Products <- MCProducts
    VectorHits <- MCVectorHits
    Cases <- MCCases
    Nothing = Nothing
    Before = Before
    Down = Down
    NoLimit = NoLimit
    Nowhere = Nowhere
INVARIANTS
    TypeOK
    StockMatchesAnswers
    AnswersMatchStore
    ReturnedOnce
    OpensOnlyAfterFailures
    SearchHonest
CHECK_DEADLOCK FALSE

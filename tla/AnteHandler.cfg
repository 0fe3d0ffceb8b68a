SPECIFICATION FamilySpec
CONSTANTS
    Accounts = {"a", "b"}
    SvmAddrs = {"x"}
    Txs <- MCTxs
    Funds = 3
    NumericChainID = TRUE
    SvmDecoratorEnabled = TRUE
    MaxPool = 2
    MaxBlock = 2
INVARIANTS TypeOK SequenceUsedOnce CheckTracksPool PoolExecutable SimulateMatchesCheck  SvmAuthorised
CHECK_DEADLOCK FALSE

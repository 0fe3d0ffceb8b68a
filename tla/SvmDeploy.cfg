SPECIFICATION MCSpec
CONSTANTS
    Addresses = {"a"}
    SolanaTxs <- MCAllSolanaTxs
    SignerLists <- MCSignerLists
    Budget = 1
    RawMsgs <- MCRawMsgs
    Sizes = {0, 1, 2, 3, 4, 5}
    InstructionSize = 2
    InstructionsPerTx = 2
    Deployer = "d"
    Rivals = {"r"}
    Accounts <- MCAccounts
    OwnKey <- MCOwnKey
    NoKey = NoKey
    NoProgram = NoProgram
    MaxFaults = 2
INVARIANTS VerdictRight CompiledAccepted EachByteOnce TransactionsFit ReturnedKeyLinked DeployedComplete
PROPERTY DeploymentSucceeds
CHECK_DEADLOCK FALSE

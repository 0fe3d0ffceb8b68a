SPECIFICATION Spec
CONSTANTS
    Addresses = {"a"}
    SolanaTxs <- MCSolanaTxs
    SignerLists <- MCSignerLists
    Budget = 1
    RawMsgs <- MCRawMsgs
INVARIANTS IndexesInRange
CHECK_DEADLOCK FALSE

SPECIFICATION Spec
CONSTANTS
    MsgTypes <- MCMsgTypes
    ToJSON <- AminoJSON
    WordSize = 4
    Depth = 9
    MaxPtrs = 2
    Docs <- MCDocs
INVARIANTS DependenciesComplete HashBindsDocument AcceptedExactly
CHECK_DEADLOCK FALSE

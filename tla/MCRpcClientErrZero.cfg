CONSTANTS
    Null = Null
    NotAnObject = NotAnObject
    ErrCodes <- MCEdgeErrCodes
    Statuses <- MCStatuses
    RequestErrors <- MCRequestErrors
    MaxTryTimes = 4
    ConfFile <- MCChainFiles
    DataDirs <- MCDataDirs
    DefaultDataDir = "home"
    RPCPort <- MCRPCPort
    atoi <- MCatoi
SPECIFICATION Spec
INVARIANT ErrorReturnsPositive

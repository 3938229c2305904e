CONSTANTS
    Null = Null
    NotAnObject = NotAnObject
    ErrCodes <- MCErrCodes
    Statuses <- MCStatuses
    RequestErrors <- MCRequestErrors
    MaxTryTimes = 4
    ConfFile <- MCChainFiles
    DataDirs <- MCDataDirs
    DefaultDataDir = "home"
    RPCPort <- MCRPCPort
    atoi <- MCatoi
SPECIFICATION Spec
INVARIANT ErrorCodeReachesResponse

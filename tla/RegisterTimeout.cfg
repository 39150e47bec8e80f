CONSTANTS
    Codes = {100, 200, 202, 486}
    Methods = {"REGISTER"}
    SendFromIoErrorCallback = FALSE
    MaxAlternates = 0
    MaxServers = 1
SPECIFICATION FairSpec
PROPERTY RegisterResolves
CHECK_DEADLOCK FALSE

CONSTANTS
    Codes = {100, 200, 202, 486}
    Methods = {"INVITE", "OTHER"}
    SendFromIoErrorCallback = TRUE
    MaxAlternates = 1
    MaxServers = 1
SPECIFICATION FairSpec
PROPERTIES TransactionsEnd ImplementsOutcome
CHECK_DEADLOCK FALSE

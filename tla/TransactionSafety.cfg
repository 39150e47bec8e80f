\* Every method, both kinds of transport, a late copy of the request.
CONSTANTS
    Codes = {100, 200, 486}
    Methods = {"INVITE", "REGISTER", "OTHER"}
    SendFromIoErrorCallback = TRUE
    MaxAlternates = 1
    MaxServers = 2
SPECIFICATION Spec
INVARIANTS OneOutcome AgreeOnFinal ConfirmedKnowsFailure WaitingIsTimed
PROPERTY QuietAfterEnd
CHECK_DEADLOCK FALSE

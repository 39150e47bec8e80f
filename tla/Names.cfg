SPECIFICATION Spec
CONSTANTS
    Records <- MCRecords
    SrvAnswers <- MCSrvAnswers
    Sendings <- MCSendings
    Ticks = 2
    PacketSize = 22
    DictSize = 3
    QuestionSet <- MCQuestions
    RecordSet <- MCPushed
    Family <- MCFamily
    ResolvLines <- MCResolvLines
    HostLines <- MCHostLines
    NsswitchLines <- MCNsswitchLines
    LookupNames <- MCLookupNames
    MaxLines = 4
    Zone <- MCZone
    Truncated <- MCTruncated
    Lame <- MCLame
    MaxDepth = 3
    Settings <- MCSettings
INVARIANTS
    ContextsReclaimed
    ToldInOrder
    PushedIsRead
    ConfiguredAsWritten
    AskedBeforeGivingUp
    AnswersTheQuestion
PROPERTIES
    ResolutionEnds
CHECK_DEADLOCK FALSE

SPECIFICATION Spec
CONSTANTS
    MAX_TO_STRING_SIZE = 8
    MinHint = 3
    ParamNames = {"lr", "tag"}
    MaxObjects = 2
    MaxEdits = 2
    Payloads <- AudioGiven
    VideoPayloads <- VideoGiven
    Methods = {"INVITE", "REGISTER"}
    Transports = {"udp", "tls"}
    LocalPorts = {5060, 6000}
    NatPorts = {5060, 7000}
    MaxProxies = 2
    MaxFills = 2
    Bodies <- SomeBodies
    Buffers = {8, 9, 11, 30}
    SEPARATOR = 2
    END = 3
    MaxTransfers = 2
    Streams <- SomeStreams
    BUFF_SIZE = 14
    Letters = {"a", "2", "5", " ", "%", "&", ";", "bquote"}
    MaxText = 4
    DisplaySize = 6
    MaxChanges = 3
    Peers = {p1}
    Chans = {c1, c2}
    MaxGen = 2
    MaxDeferred = 1
    SendsInCallback = FALSE
SYMMETRY ChanSymmetry
INVARIANTS
    SentWhole
    ReadsBack
    ResponseMatches
    ReachableBack
    ReceivedWhole
    ReleasedOnce
    SamePath
CHECK_DEADLOCK FALSE

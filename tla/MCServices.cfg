SPECIFICATION ServicesSpec
CONSTANTS
    Clients = {1, 2}
    Requests = {1, 2}
    Commands = {1, 2, 3}
    Logs = {1, 2}
    Lookups = {1, 2, 3}
    Environments = {1, 2, 3}
    Windows = {1, 2}
    MaxPermissions = 2
    MaxSessions = 2
    MaxChunks = 3
    MaxCalls = 5
    MaxHops = 2
    BlockSize = 3
    MaxSniff = 2
    MaxSize = 7
    Word = 1000
    Hosts = {1, 2, 3}
    Guids = {1, 2}
    Composite = {1, 2}
    Choosers = {1, 2}
    MaxPipe = 2
    Ports = {1, 2, 3, 4, 5}
    PipeEnds = {1, 2, 3, 4}
    PortMessages = {1, 2}
    MaxPortCalls = 4
    MaxUp = 3
    MaxDown = 3
    MaxReads = 2
INVARIANTS TypeOK ToldOnce AnswersAreDecided CommandsAreKept LogsAreTheirOwn
           BodyIsComplete OneThreadAtATime PageIsNotConfused SentBytesAreVerified
           ObjectsFollowTheirs ChoicesAreThere MessagesArriveInOrder
PROPERTIES RequestsAreAnsweredOnce WorkConcludes QuitsAreOrderly HeadersWaitForListeners
CHECK_DEADLOCK FALSE

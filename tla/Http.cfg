SPECIFICATION HttpSpec
CONSTANTS
    MaxBody = 3
    MaxHeader = 10
    BufferSize = 2
    WindowSize = 2
    ClientSetups <- MCClientSetups
    Replies <- MCReplies
    RecvBudget = 4
    Scratch = 3
    TxLen = 1
    Timeout = 1
    MaxRequests = 2
    Horizon = 2
    MaxLine = 2
    MaxHeaders = 10
    MaxRequestBody = 2
    ServerRecv = 6
    ServerSend = 12
    RequestTimeout = 2
    ServerSetups <- MCServerSetups
    Requests <- MCRequests
    Answers <- MCAnswers
INVARIANTS
    ResponseFaithful
    NothingHeld
    AnswersFaithful
PROPERTIES
    WorkEnds
CHECK_DEADLOCK FALSE

\* Two requests, longer than the server's window and than a packet; answers
\* shorter and longer than the client's window.  As in the code, the first
\* window is below the limit.
CONSTANTS
    WINDOWBASE = 4
    WINDOWLIMIT = 2
    InitialWindow = 1
    ServerWindow = 2
    MaxPacket = 2
    RequestLength = 3
    ReplyLengths = {2, 5}
    MaxCalls = 2
SPECIFICATION Spec
INVARIANTS
    TypeOK
    WindowsAgree
    Aligned
    OrderlyEnd
    FreedOnce
PROPERTIES
    AnswerNotDropped
    CallsReturn

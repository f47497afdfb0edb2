\* Two requests that do not fit into the window; the client asks for
\* new keys twice and the server once, so that exchanges cross and follow each
\* other.
CONSTANTS
    RequestParts = 3
    Window = 2
    MaxCalls = 2
    MaxRekeys = 2
    MaxServerRekeys = 1
    DisconnectsIn = {"kex", "work"}
SPECIFICATION Spec
INVARIANTS
    TypeOK
    NeverRefused
    QueueNotStranded
    HandlesReleased
PROPERTIES
    ExchangeEnds
    CallsReturn

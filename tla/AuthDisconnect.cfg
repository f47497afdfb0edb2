\* The server may send DISCONNECT while the client authenticates.
CONSTANTS
    RequestParts = 1
    Window = 1
    MaxCalls = 1
    MaxRekeys = 0
    MaxServerRekeys = 0
    DisconnectsIn = {"auth"}
SPECIFICATION Spec
PROPERTIES
    CallsReturn

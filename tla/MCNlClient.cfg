SPECIFICATION Spec
CONSTANTS
    kernel = kernel
    other = other
    Kernel <- kernel
    Others <- MCOthers
    Callers <- MCCallers
    MaxRequests = 3
    MaxForeign = 2
CHECK_DEADLOCK FALSE
INVARIANTS
    NoSocketLeft
    AsksKernel
PROPERTIES
    ImplementsRequest
    ComesBack

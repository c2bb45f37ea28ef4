SPECIFICATION Spec
CONSTANTS
    kernel = kernel
    other = other
    Kernel <- kernel
    Others <- MCOthers
    Callers <- Appends
    MaxRequests = 3
    MaxForeign = 2
INVARIANT
    WaitsForReply

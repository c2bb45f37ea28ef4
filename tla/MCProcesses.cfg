SPECIFICATION Spec
CONSTANTS
    Ops <- AllOps
    Failing <- AllCalls
    Lines = 3
    Capacity = 1
INVARIANTS
    ToolsHoldTheirEnd
    EndAfterAll
    ZeroMeansDone
PROPERTIES
    ToolsEnd
    ShellComesBack

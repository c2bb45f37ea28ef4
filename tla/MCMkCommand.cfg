SPECIFICATION Spec
CONSTANTS
    Nodes <- MkNodes
    Words <- MCWords
    Commands <- MkCommands
    Installed <- MkInstalled
    Pattern <- MkPattern
    Outcomes <- MkOutcomes
    Typed <- MCTyped
    MaxWords = 4
INVARIANTS
    RightCommandRuns
    RefusalTrue
    HelpAgrees
PROPERTIES
    TabKeepsCommand

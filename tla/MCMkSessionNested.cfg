SPECIFICATION Spec
CONSTANTS
    Names <- MCNames
    Versions <- MCVersions
    Projects <- NestedProjects
    Archs <- MCArchs
    Family <- MCFamily
    FwArgs <- MCFwArgs
    VersionAttr <- MCVersionAttr
    ProjectAttr <- NestedAttr
    Repo <- NestedRepo
    MkdirArgs <- MCMkdirArgs
    InitialTrees <- NestedTrees
    UserVars <- MCUserVars
    LaunchDir <- Home
PROPERTIES
    ExitGoesDown

SPECIFICATION Spec
CONSTANTS
    Names <- MCNames
    Versions <- MCVersions
    Projects <- FlatProjects
    Archs <- MCArchs
    Family <- MCFamily
    FwArgs <- MCFwArgs
    VersionAttr <- MCVersionAttr
    ProjectAttr <- FlatAttr
    Repo <- MCRepo
    MkdirArgs <- MCMkdirArgs
    InitialTrees <- MCTrees
    UserVars <- MCUserVars
    LaunchDir <- Home
INVARIANTS
    Typed
    DirectoryOfNode
    EnvironmentOfNode
    RegistryCoversDisk
PROPERTIES
    ImplementsWorkspace

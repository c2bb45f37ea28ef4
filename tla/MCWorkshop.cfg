SPECIFICATION ShopSpec
CONSTANTS
    Characters <- MCCharacters
    VersionWords <- MCVersionWords
    ProjectWords <- MCProjectWords
    Repository <- MCRepository
    VersionAttr <- MCVersionAttr
    ProjectAttr <- MCProjectAttr
    Disks <- MCDisks
    Words = {"all"}
    Archs <- MCArchs
    MkdirPaths <- MCMkdirPaths
    ByScript <- MCByScript
    Exports <- MCExports
INVARIANTS
    NoTwins
    Rebuilt
    LinksNearPrograms
    BackInProject

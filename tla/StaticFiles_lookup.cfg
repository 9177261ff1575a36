SPECIFICATION Spec
CONSTANTS
    Names <- MCNames
    FilePaths <- MCPaths
    Disks <- MCDisks
    Symlinks <- MCSymlinks
    DotNames <- MCDotNames
    Options <- Option
    Requests <- MCRequests
    IndexFiles <- MCIndexFiles
INVARIANTS
    BestVariant
    ListsOnlyWithoutIndex
    RelativeLinksResolve
    
    NotFoundTruthful
    ServedFromRoot

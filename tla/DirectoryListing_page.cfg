SPECIFICATION Spec
CONSTANTS
    Names <- MCNames
    Targets <- MCTargets
    Menu <- MCMenu
    Disks <- MCDisks
    Unreserved <- MCUnreserved
    Lowercase <- MCLowercase
    Options <- MCOptions
    Bases <- MCBases
    Queries <- MCQueries
    KIB = 4
    MaxChanges = 1
INVARIANTS
    ListingFaithful
    HeadersSort
    LinksLead
    SizeShown

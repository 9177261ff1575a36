SPECIFICATION Spec
CONSTANTS
    None = None
    IndexUri <- MCIndexUri
    Options <- MCOptions
    Requests <- MCRequests
    Resources <- MCResources
INVARIANTS
    ContentGated
    RewrittenRoot
    LengthTruthful
    
    NegotiatedVaries
    CorsAnnounced

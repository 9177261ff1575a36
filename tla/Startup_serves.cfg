SPECIFICATION FairSpec
CONSTANTS
    Ports = {80, 443}
    Scenarios <- MCScenarios
    Pem <- MCPem
    Origins = {"https://a"}
    HeaderNames = {"origin", "content-type", "authorization"}
    Clients = {c1, c2}
    Honest = {c1}
INVARIANTS
    AllOrNothing
    RedirectLeads
    SecureByDefault
    FailureReported
    StoppedMeansReleased
PROPERTIES
    ImplementsLife
    HonestSettled
    StopHonoured
CHECK_DEADLOCK FALSE

SPECIFICATION FairSpec
CONSTANTS
    Ports = {80, 443}
    Scenarios <- UnixHttps
    Pem <- MCPem
    Origins = {"https://a"}
    HeaderNames = {"origin", "content-type", "authorization"}
    Clients = {c1}
    Honest = {c1}
PROPERTIES
    TermStops
CHECK_DEADLOCK FALSE

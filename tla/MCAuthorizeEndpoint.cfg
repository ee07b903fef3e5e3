CONSTANTS
    Requests = {r1}
    ProviderClientId = "cid"
    URIs <- MCURIs
    Patterns = {}
    RegexMatches = {}
    BadPatterns = {}
    SchemeOf <- MCSchemeOf
    ProviderScopes <- MCProviderScopes
    SCOPE_GITHUB = {}
    InitialRedirectURIs <- MCInitialRedirectURIs
    RequestDomain <- MCRequestDomain
    NoState = NoState
    CodeValue = "c0de"
    TokenValue = "t0ken"
    TOKEN_TYPE = "Bearer"
    ExpiresIn = "3600"
    States <- MCStates
SPECIFICATION Spec
INVARIANTS
    IdTokenNonceBound
    CodeBindsRequest
CHECK_DEADLOCK FALSE

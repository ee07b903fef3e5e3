CONSTANTS
    Requests = {r1}
    ProviderClientId = "cid"
    URIs <- MCURIs
    Patterns <- MCPatterns
    RegexMatches <- MCRegexMatches
    BadPatterns <- MCBadPatterns
    SchemeOf <- MCSchemeOf
    ProviderScopes <- MCProviderScopes
    SCOPE_GITHUB <- MCScopeGithub
    InitialRedirectURIs <- MCInitialRedirectURIs
    RequestDomain <- MCRequestDomain
SPECIFICATION Spec
INVARIANTS
    TypeOK
    ValidationAgreesWithSpec
CHECK_DEADLOCK FALSE

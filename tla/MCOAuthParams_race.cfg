CONSTANTS
    Requests = {r1, r2}
    ProviderClientId = "cid"
    URIs <- MCURIs
    Patterns <- MCPatterns
    RegexMatches <- MCRegexMatches
    BadPatterns <- MCBadPatterns
    SchemeOf <- MCSchemeOf
    ProviderScopes <- MCProviderScopes
    SCOPE_GITHUB <- MCScopeGithub
    InitialRedirectURIs <- MCRaceInitial
    RequestDomain <- MCRaceDomain
SPECIFICATION Spec
INVARIANTS
    AcceptedRedirectRegistered
CHECK_DEADLOCK FALSE

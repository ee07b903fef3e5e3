CONSTANTS
    ParamsDomain <- MCParams
    NoState = NoState
    CodeValue = "c0de"
    TokenValue = "t0ken"
    TOKEN_TYPE = "Bearer"
    ExpiresIn = "3600"
SPECIFICATION Spec
INVARIANTS
    ResponseMatchesSpec
    DeliveredCredentialsSaved
CHECK_DEADLOCK FALSE

CONSTANTS
    ParamsDomain <- MCQueryWithoutCode
    NoState = NoState
    CodeValue = "c0de"
    TokenValue = "t0ken"
    TOKEN_TYPE = "Bearer"
    ExpiresIn = "3600"
SPECIFICATION Spec
INVARIANTS
    ResponseMatchesSpec
CHECK_DEADLOCK FALSE

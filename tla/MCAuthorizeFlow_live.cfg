CONSTANTS
    Requests = {r1, r2}
    LoginIds = {l1, l2, l3}
    PromptValues <- MCLoginPrompts
    MaxAgeValues <- MCMaxAgePositive
    MaxTime = 2
    NoMaxAge = NoMaxAge
    NoLogin = NoLogin
    Absent = Absent
SPECIFICATION FairSpec
PROPERTIES
    EveryRequestAnswered
CHECK_DEADLOCK FALSE

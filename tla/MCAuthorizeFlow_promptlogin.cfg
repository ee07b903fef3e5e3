CONSTANTS
    Requests = {r1, r2}
    LoginIds = {l1, l2, l3}
    PromptValues <- MCLoginPrompts
    MaxAgeValues <- MCMaxAgePositive
    MaxTime = 2
    NoMaxAge = NoMaxAge
    NoLogin = NoLogin
    Absent = Absent
SPECIFICATION Spec
SYMMETRY MCSymmetry
INVARIANT
    PromptLoginForcesReauth
CHECK_DEADLOCK FALSE

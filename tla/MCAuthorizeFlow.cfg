CONSTANTS
    Requests = {r1, r2}
    LoginIds = {l1, l2, l3}
    PromptValues <- MCAllPrompts
    MaxAgeValues <- MCMaxAgePositive
    MaxTime = 2
    NoMaxAge = NoMaxAge
    NoLogin = NoLogin
    Absent = Absent
SPECIFICATION Spec
SYMMETRY MCSymmetry
INVARIANTS
    TypeOK
PROPERTIES
    ServiceRefined
CHECK_DEADLOCK FALSE

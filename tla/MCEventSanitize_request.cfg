CONSTANTS
    Inputs <- MCRequestInLists
    HiddenKeys <- MCHiddenKeys
    AllowedKeys <- MCAllowedKeys
    NonStrKeys <- MCNonStrKeys
SPECIFICATION Spec
INVARIANTS
    ContextIsJson
CHECK_DEADLOCK FALSE

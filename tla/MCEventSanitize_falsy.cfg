CONSTANTS
    Inputs <- MCFalsyInLists
    HiddenKeys <- MCHiddenKeys
    AllowedKeys <- MCAllowedKeys
    NonStrKeys <- MCNonStrKeys
SPECIFICATION Spec
INVARIANTS
    SanitizeMatchesReference
CHECK_DEADLOCK FALSE

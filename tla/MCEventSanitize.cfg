CONSTANTS
    Inputs <- MCInputs
    HiddenKeys <- MCHiddenKeys
    AllowedKeys <- MCAllowedKeys
    NonStrKeys <- MCNonStrKeys
SPECIFICATION Spec
INVARIANTS
    SanitizeMatchesReference
    SecretsCleansed
CHECK_DEADLOCK FALSE

SPECIFICATION Spec
CONSTANTS
    Octets = {0, 1, 15, 40, 85, 128, 193, 255}
    MaxText = 2
INVARIANT UsesTheAlphabet
CHECK_DEADLOCK FALSE

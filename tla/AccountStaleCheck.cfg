INIT AccountInit
NEXT AccountNext
CONSTANTS
    MaxTokens = 2
    CallPlaces = {1, 2}
    MaxLogins = 1
    MaxLosses = 0
    CanRotate = FALSE
PROPERTIES NewerSignInStays
CHECK_DEADLOCK FALSE

SPECIFICATION Spec
CONSTANTS
    Prime = 65537
    Births <- MCBirths
    Citizens <- MCCitizens
    Ages <- MCAges
    FirstYear = 2095
    LastYear = 2155
INVARIANT
    ProvableExactly
CHECK_DEADLOCK FALSE

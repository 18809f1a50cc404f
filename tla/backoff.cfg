\* Pauses of 0 to 5 units, sound and unsound; with a deadline, it is reached.
SPECIFICATION Spec
CONSTANTS
    Configs <- MCConfigs
    MaxErrors = 15
    MaxThrottles = 1
INVARIANTS
    PanicsIffUnsound
    SleepsWithinDeadline
    GivesUpLate
    GivesUp

CONSTANTS
    Significands = 8
    Units <- MCUnits
    MaxPoints = 30
    Accel <- Spring
    Durations <- MCDurations
    Steps <- MCSteps
    Orbits <- MCOrbits
    MaxRuns = 1

SPECIFICATION Spec
INVARIANT RK4MatchesAlgorithm

CONSTANTS
    Significands = 8
    Units <- MCUnits
    MaxPoints = 30
    Accel <- Spring
    Durations <- MCDurations
    Steps <- MCSteps
    Orbits <- MCOrbits
    MaxRuns = 2

SPECIFICATION Spec
INVARIANTS TypeOK IInv TrajectorySpansDuration StopsUnlessAbsorbed NoAxisIsSpecial MapShowsOneTrack SavedUnlessDeviceFull TrackLagsBehindStars SegmentsPartAtDateline
PROPERTY FileReplacedByFullTrack

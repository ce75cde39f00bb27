SPECIFICATION Spec
CONSTANTS
    MaxStarts = 3
    MaxAcks = 2
    Autostart = TRUE
    PatientUser = TRUE
INVARIANTS NoOrphanWorker ViewExact AckedOfThisRun
PROPERTIES StopReachesView StoppingStops
CHECK_DEADLOCK FALSE

SPECIFICATION Spec
CONSTANTS
    MaxStarts = 2
    MaxAcks = 1
    Autostart = FALSE
    PatientUser = FALSE
PROPERTY StoppingStops
CHECK_DEADLOCK FALSE

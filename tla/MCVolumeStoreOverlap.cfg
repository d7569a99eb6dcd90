CONSTANTS
    Procs = {p1, p2}
    Payloads = {v1}
    NoFile = NoFile
    Empty = Empty
    Torn = Torn
    Exclusive = FALSE
    BarePath = FALSE
    IoFaults = TRUE
SPECIFICATION Spec
PROPERTY VolumeStays

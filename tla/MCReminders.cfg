CONSTANTS
    Count = 2
    Runners = {n1, n2}
    DevicesOf <- MCDevicesOf
    d1 = d1
    Batch = 1
    Attempts = 2
    MaxCrashes = 1
    NoReminder = NoReminder
SPECIFICATION Spec
INVARIANTS
    TypeOK
    RepeatHasCause
PROPERTIES
    LeaseSpec
    DroppedStaysDropped
    DueSettles

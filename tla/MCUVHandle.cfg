CONSTANTS
    timer = timer
    idle = idle
    signal = signal
    None = None
    Timers <- OneTimer
    Idles <- OneIdle
    Signals <- OneSignal
    MaxRefs = 1
    MaxTaken = 2
SPECIFICATION FairSpec
INVARIANTS
    RefCountExact
    ActiveIsHeld
    StrandedExplained
PROPERTIES
    UseOnlyBySelfStoppedSignal
    RecurringIsServed
CHECK_DEADLOCK FALSE

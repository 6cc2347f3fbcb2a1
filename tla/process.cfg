SPECIFICATION Spec
CONSTANTS
    MaxPid = 5
    KBD = 2
    Readers = {2, 3, 4}
    WaitsFor <- Waits
INVARIANTS RunsReady ScheduleReturns NothingLost ReadersWoken NoLostWakeup SelfSwitchOnlyInBoot WildOnlyWhileLinking
PROPERTY ZombieFinal
CHECK_DEADLOCK FALSE

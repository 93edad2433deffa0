SPECIFICATION LiveSpec
CONSTANTS
    LossConfirm = 1
    RecoveryConfirm = 1
    CorrectionWait = 1
    RetryCap = 2
    SelfGrace = 1
    Reprobe = 2
    Cooldown = 1
    ExportDebounce = 1
    MaxFailures = 2
    Refusals = 1
PROPERTIES LastingOutageFallsBack FalseYieldEnds Recovers
CHECK_DEADLOCK FALSE

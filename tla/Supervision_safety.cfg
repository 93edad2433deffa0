SPECIFICATION Spec
CONSTANTS
    LossConfirm = 2
    RecoveryConfirm = 1
    CorrectionWait = 2
    RetryCap = 3
    SelfGrace = 1
    Reprobe = 2
    Cooldown = 2
    ExportDebounce = 2
    MaxFailures = 2
INVARIANT UnaskedWritesAreSafe
PROPERTY WaitsAreServed
CHECK_DEADLOCK FALSE

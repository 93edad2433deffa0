SPECIFICATION Spec
CONSTANTS
    MinSoc = 20
    MaxSoc = 200
    StorePer = 4
    TakePer = 5
    ChargeEff = 89
    ChargeRate = 5
    BoostRate = 10
    SolarRate = 10
    DischargeRate = 8
    TaperStart = 180
    TaperMin = 50
    TaperSteps = 2
    Hour = 2
    Outlier = 4
    Spread = 3
    Separation = 1
    BlockMin = 4
    Headroom = 10
    MinSpill = 10
    Step = 20
    HardPenalty = 5000
    SoftPenalty = 100
    SalvageCap = 200
    FloorBand = 4
    FloorGain = 4
    MinLead = 3
    InView = 6
    Deadband = 10
    Hysteresis = 1
    Days <- MCDays
CHECK_DEADLOCK FALSE
INVARIANTS
    PlanIsOptimal
    EntryNeverDearerFuller
    NeverBuysToHoard
    ReserveKept
PROPERTY
    PromiseKept
    RunwayReaches

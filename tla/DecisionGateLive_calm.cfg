SPECIFICATION LiveSpec
CONSTANTS
  Contexts <- OnePrice
PROPERTY WantedChargeCommitted
PROPERTY ForcedBoostReleased
PROPERTY HandedBackModeDecided
PROPERTY OwedExportReleased
INVARIANT OneStart

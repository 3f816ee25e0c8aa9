SPECIFICATION FairSpec
CONSTANTS
  Languages = {"ko", "en"}
  Models = {"m1"}
  Flags <- SomeFlags
  Wanted <- KoreanFirst
  Refusals <- SomeRefusals
  Slots = {"collect", "cue", "micro", "timeline"}
  Serves <- OneSlotEach
  None = None
  MaxFaults = 1
  MaxSurprises = 1
INVARIANTS TypeOK
PROPERTIES StartsAfterItsSource StagesGetInStep
CHECK_DEADLOCK FALSE

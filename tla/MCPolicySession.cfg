SPECIFICATION Spec
CONSTANTS
  Gpus = 2
  OtherCards = {1}
  own = own
  foreign = foreign
  bad = bad
  Configs <- MCConfigs
  Width <- MCWidth
  Refused = {bad}
  Foreign = {foreign}
  Production = 1
  Campaigns <- MCCampaigns
  Straddle = {"launch", "bench", "contenders"}
INVARIANTS
  ValidationUndisturbed
  HeldForTheNight
PROPERTIES
  EveryContenderJudged
  
CHECK_DEADLOCK FALSE

SPECIFICATION Spec
CONSTANTS
  Sites <- AllSites
  MaxAttempts = 2
  Grace = 1
  Day = 4
INVARIANTS
  DoneIsComplete
  EvidenceBounded
  StoppedHoldsNothing
PROPERTIES
  NotOvertaken
  CampaignEnds

SPECIFICATION Spec
CONSTANTS
  Machines = {1}
  GpuCount = 3
  K8s = {}
  Pools = {}
  Campaigns = {10, 20}
  Candidates = {11, 12, 21}
  MaxRuns = 3
  MAX_ATTEMPTS_PER_CANDIDATE = 1
  SshFaults = {}
  Requests = {}
  Gpus <- MCGpus
  Share <- MCShare
  Pins <- MCPins
  Group <- MCGroup
  Leader <- MCLeader
  CampaignOf <- MCCampaignOf
  Cards <- MCCards
INVARIANTS
  CardsExclusive
  HardwareAccounted
  HeldIsReserved
  ReservedHasCause

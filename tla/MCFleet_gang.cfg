SPECIFICATION Spec
CONSTANTS
  Machines = {1, 2}
  GpuCount = 2
  K8s = {}
  Pools = {}
  Campaigns = {10, 30}
  Candidates = {11, 31}
  MaxRuns = 2
  MAX_ATTEMPTS_PER_CANDIDATE = 2
  SshFaults = {}
  Requests = {"restart", "retry", "state"}
  Gpus <- MCGpus
  Share <- MCShare
  Pins <- MCPins
  Group <- MCGroup
  Leader <- MCLeader
  CampaignOf <- MCCampaignOf
  Cards <- MCCards
INVARIANTS
  GangExclusive
  OneRunPerCandidate

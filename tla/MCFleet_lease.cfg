SPECIFICATION FairSpec
CONSTANTS
  Machines = {1}
  GpuCount = 0
  K8s = {}
  Pools = {}
  Campaigns = {10}
  Candidates = {11, 12}
  MaxRuns = 2
  MAX_ATTEMPTS_PER_CANDIDATE = 1
  SshFaults = {}
  Requests = {"lease", "end", "due"}
  Gpus <- MCGpus
  Share <- MCShare
  Pins <- MCPins
  Group <- MCGroup
  Leader <- MCLeader
  CampaignOf <- MCCampaignOf
  Cards <- MCCards
PROPERTIES
  DrainStartsNothing
  DrainCompletes
  TeardownResolves

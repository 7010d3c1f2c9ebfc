SPECIFICATION Spec
CONSTANTS
  Machines = {1}
  GpuCount = 1
  K8s = {1}
  Pools = {1}
  Campaigns = {10}
  Candidates = {11, 12}
  MaxRuns = 3
  MAX_ATTEMPTS_PER_CANDIDATE = 2
  SshFaults = {"timeout"}
  Requests = {"stop", "force_stop", "status", "window"}
  Gpus <- MCGpus
  Share <- MCShare
  Pins <- MCPins
  Group <- MCGroup
  Leader <- MCLeader
  CampaignOf <- MCCampaignOf
  Cards <- MCCards
INVARIANTS
  CandidateNotLost

  

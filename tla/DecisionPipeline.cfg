\* Every combination of policy features on every kind of finding.
CONSTANTS
  Packages <- MCPackages
  FindingSets <- MCFindingSets
  RepeatSets <- MCRepeatSets
  AdvisorySets <- MCAdvisorySets
  RepoFiles <- MCRepoFiles
  PolicyFiles <- MCPolicyFiles
  ModeFlags = {"", "block", "bogus"}
  Registries <- MCRegistries
  Environments = {"developer", "ci", "ai_agent"}
  Requesters = {"human", "ai_agent"}
SPECIFICATION Spec
INVARIANTS SecurityIsFinal SecurityFindingBlocks RescanWeakerOnlyByLoss BlockedRuleHolds
PROPERTIES ExceptionOnlySoftensBlock AgentAtLeastAsStrict
CHECK_DEADLOCK FALSE

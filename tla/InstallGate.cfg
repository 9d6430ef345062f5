\* One command of every form, under every kind of caller, with the registry moving.
CONSTANTS
  Names = {"lib", "tool", "evil"}
  MaxRelease = 2
  Verdict <- MCVerdict
  Commands <- MCCommands
  FlagSets <- MCFlagSets
  GatePolicies <- MCGatePolicies
  Paths = {"real", "wrapper", "none"}
  Manifests <- MCManifests
SPECIFICATION FairSpec
INVARIANTS EveryRiskIsAccepted NeverForcedHolds PinnedIsScanned LogIsHonest DryRunIsDry SuccessIsReal
PROPERTIES KeepsContract CommandEnds
CHECK_DEADLOCK FALSE

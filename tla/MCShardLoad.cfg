\* Layers 0 to 2, two of them at most in a shard, and one attachment to spare.
CONSTANTS
  Models = {1, 2}
  Config <- Configs
  NLayers = 3
  SHARD_MAX_LAYERS = 2
  NSHM = 3
  MaxLoads = 2
SPECIFICATION LoadSpec
INVARIANTS LoadedAsMapped HeadAsMapped
CHECK_DEADLOCK FALSE

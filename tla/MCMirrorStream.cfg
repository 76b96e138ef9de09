SPECIFICATION FairMirrorSpec
CONSTANTS
  Order <- MCOrder
  Chain <- MCChain
  Tag <- MCTag
  Assets <- MCAssets
  Script <- MCScript
  MaxSessions = 3
  NoDiff = {}
  InShadow = {}
  Viewer = {v1}
  MissLimit = 2
  Rules <- MCRules
INVARIANTS
  NoForeignOps
  LossIsCounted
  PostureIsUniform
PROPERTY
  ResyncCompletes

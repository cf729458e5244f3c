\* A resync or a payment resolution races the periodic sweep, over claims of two
\* wallets and a swap contract; a failure; a reorganisation.
SPECIFICATION HandleFairSpec
CONSTANTS
  Handles = {h1}
  Users = {u1, u2}
  Contracts = {c1}
  OneUser = u1
  Creator <- MCCreator
  Activation = 2
  Runner = Runner
  Requests = {r1}
  MaxBlocks = 2
  MaxPerBlock = 1
  MaxReorgs = 1
  MaxFaults = 1
INVARIANTS
  HandleTypeOK
  RebuildIsRightful
  MapIsRightful
  TableFollowsMap
PROPERTIES
  RegistryHeals

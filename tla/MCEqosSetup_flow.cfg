SPECIFICATION SetupSpec
CONSTANTS
  MacAddrCount = 3
  Groups = {"g1", "g2"}
  Filters <- MCFilters
  Jumbos = {0, 2000, 2041, 20000}
  FifoSizes = {9}
  Resets = {"done", "timeout"}
  Devices = {"d1", "d2"}
  Sets = {"mac", "debug"}
  Methods <- MCMethods
  Keys = {"k1", "k2"}
INVARIANTS UnpausedWhenMoreRemains

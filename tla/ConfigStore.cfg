SPECIFICATION ConfigSpec
CONSTANTS
  n1 = n1
  n2 = n2
  CONFIG_REGISTRY <- ALL_CONFIGS
  Nodes = {n1, n2}
  MaxKey = 2
  Workloads <- AllLoads
INVARIANTS NodesConverge SignaturesVerify PoliciesSound
CHECK_DEADLOCK FALSE

SPECIFICATION FairSpec
CONSTANTS
  n1 = n1
  n2 = n2
  NoNode = NoNode
  Nodes = {n1, n2}
  MaxMails = 2
  Workloads <- Loads
INVARIANTS RunsOnce RecordsTell
PROPERTIES DrainLeavesNothing MailSettles
CHECK_DEADLOCK FALSE

CONSTANTS
  org = org
  par = par
  tabO = tabO
  tabP = tabP
  Nobody = Nobody
  NoTab = NoTab
  Users <- MCUsers
  Tabs <- MCTabs
  UserOf <- MCUserOf
  InitRole <- MCInitRole
  Batches <- MCBatches
  Capacity = 2
  MaxReplay = 1
  SendBuffer = 2
  MaxSeq = 3
  MaxFaults = 2
SPECIFICATION FairSpec
CHECK_DEADLOCK FALSE
INVARIANTS ShownExactly AckAfterEvents
  DrainedShowsBoard DrainedKnowsRole ConnRoleIsFresh ReplayFits
PROPERTIES EventuallyCurrent ImplementsWindow

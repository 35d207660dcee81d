SPECIFICATION FairSpec
CONSTANTS
  a1 = a1
  a2 = a2
  d1 = d1
  d2 = d2
  d3 = d3
  None = None
  Apps = {a1, a2}
  Names = {"n1"}
  Deploys = {d1, d2, d3}
  ComposeApps = {a2}
  Events = {"shutdown", "slow", "crash", "expire", "db", "panic"}
  AppOf <- EitherApp
INVARIANTS
  TypeOK
  LockMatchesHolders
  DrainSeesWorkers
  OwnsContainer
  CurrentIsLive
  EdgeStaysClear
  SettledUnlessLost
PROPERTIES
  SuccessIsCurrent
  ContractSpec
  LockIsFreed
  AcceptedIsSettled

SPECIFICATION PaSpec
CONSTANTS
  AuTabs = {"t1", "t2"}
  AuLayouts <- MCLayouts
  AuRetries = 1
  AuExpiries = 1
  AuLogins = 1
  AuFaults = 1
  SeUsers = {u1, u2}
  SeFirst <- MCFirst
  SeChoices = 2
  SeVisits = 2
  SeFaults = 1
  RaClasses = {c1, c2}
  RaLoads = 4
  ClClasses = {c1, c2}
  ClStudent = s
  ClCalls = 4
  ClFlight = 2
  ClFaults = 1
  TdActs = {a1, a2}
  TdVisits = 5
  TdRuns = 2
  TdFaults = 1
  TaTabs = {t1, t2}
  TaEarned = 5
  TaClicks = 5
  TaFaults = 1
  MaxRuns = 2
  MaxWaves = 1
  MaxTries = 2
  MaxRows = 3
  MaxFaults = 1
INVARIANTS
  ReuseOnlyAfterFault AppliedOnce
  SettingsSaved
  ShownIsWanted
  RosterOfSelected
  OutcomeKept
  TalentsHold
  LatestAdopted NothingLeftActive
PROPERTY
  EndAfterPushes
SYMMETRY Symmetry
CHECK_DEADLOCK FALSE

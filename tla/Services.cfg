CONSTANTS
  Fleet = {1, 2}
  Capacities = {1}
  Hands = {h1}
  NoNode = noNode
  MaxNodeCalls = 2
  ProfileIds = {1, 2}
  InboundIds = {1, 2}
  PanelClients = {k1}
  Admins = {a1, a2}
  EditStatuses = {"disabled", "blocked"}
  NoInbound = 0
  MaxTpCalls = 3
  PanelCalls = {c1, c2}
  MaxLogins = 4
  MaxDrops = 2
  MaxApplies = 2
  Events = {e1}
  Reports = {r1, r2}
  Hours = {0, 2}
  DefaultHours = 1
  LongestHours = 2
  LastHalfHour = 3
  MaxSamples = 11
  Senders = {s1, s2}
  WindowLength = 2
  MaxInWindow = 2
  PruneEvery = 3
  LastMoment = 4
  MaxPassed = 4
  Offsets = {0, 60, 61, 300, 301}
  Templates = {t1, t2}
  Types <- CatalogueTypes
  Domains = {d1, d2}
  Urls = {"u1"}
  Editors = {e1, e2}
  NoTemplate = noTemplate
  MaxEdits = 3
  Callbacks = {x1, x2, x3}
  Payments = {p1}
  MaxRuns = 3
  Acts = {b1, b2}
  Pages = 2
  Lists <- ListsOfItems
  NoItem = noItem
  NoRequest = noRequest
  MaxMoves = 2
  PlanIds = {p1, p2}
  Subscribers = {b1}
  PlanCalls = {q1, q2}
  Absent = absent
  Terms = {"storage"}
  DeviceLimits = {1}
  MaxPlanCalls = 3
  RowIds = {w1, w2, w3}
  Identities <- InstalledTwice
  NoId = noId
  RowHandlers = {v1, v2}
  MaxRowCalls = 2
SPECIFICATION ServicesSpec
INVARIANTS
  ServicesTypeOK
  NodeObeysOperator LoadIsBacked SweepCountsAll
  RowAgreesWithPanel  ClientsSurviveApply
  RefusedOnlyIfDropped
  
  HourlyCountsOnce DecisionsAgree
  LimitHolds 
  ConfigsCarryChoice  PanelSettles ActiveHasPlan
  DeviceFollowsCalls

  
CHECK_DEADLOCK FALSE

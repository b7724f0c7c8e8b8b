SPECIFICATION FairSpec
CONSTANTS
  r1 = r1
  r2 = r2
  v1 = v1
  v2 = v2
  l1 = l1
  nolink = nolink
  NoLink = nolink
  Requests <- MCRequests
  Views <- MCViews
  Unnamed <- MCUnnamed
  Links <- MCLinks
  MaxUses <- MCOneTime
  MaxViews = 1
  Ttl = 1
  Horizon = 3
  Faults = TRUE
INVARIANTS
  LinkUsesHeld
  ReplayWasRendered
  LateStarterRefused
  ViewsAccounted
PROPERTIES
  ImplementsLedger
  TimerStartsOnce
  LimitDeletes

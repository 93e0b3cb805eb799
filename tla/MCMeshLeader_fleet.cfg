\* Three panels, one of them worse, and the end of one session.
SPECIFICATION ElectionFairSpec
CONSTANTS
  Panels <- ThreePanels
  Priority <- TwoEqualOneWorse
  Heartbeat = 2
  TickGap = 1
  Delay = 0
  MaxCrashes = 1
  MaxInbox = 3
INVARIANTS VacancyIsBounded DualLeadershipIsBrief
PROPERTY BestLeads

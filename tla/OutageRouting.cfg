SPECIFICATION NotificationsSpec
CONSTANTS
  NotifRows = {n1, n2, n3}
  Leads = {l1, l2, l3}
  SupportLead = l1
  ChangeLead = l2
  Emitters = {w1}
  Crons = {w2}
  Occasions = {"outageRouted", "outageNoted"}
  MaxEvents = 1
INVARIANTS
  OutageReachesLeads
CHECK_DEADLOCK FALSE

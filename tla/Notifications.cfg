SPECIFICATION NotificationsLiveSpec
CONSTANTS
  NotifRows = {n1, n2, n3}
  Leads = {l1}
  SupportLead = l1
  ChangeLead = l1
  Emitters = {w1}
  Crons = {w2}
  Occasions = {"triaged", "outageNoted"}
  MaxEvents = 1
PROPERTIES
  AckedIsSettled
  EscalationEnds
  PendingIsDelivered
CHECK_DEADLOCK FALSE

SPECIFICATION FairSpec
CONSTANTS
  Servers = {s1, s2}
  Clients = {c1, c2}
  Threaded = {s1}
  Tickets = {0, 1, 2}
  UINT = 4
INVARIANTS TypeOK TicketsSoldOnce PrintsOwnTickets
PROPERTY RequestIsAnswered
CHECK_DEADLOCK FALSE

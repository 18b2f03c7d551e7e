\* One request at a time, without verification, and locks left behind.
SPECIFICATION FairSpec
CONSTANTS
  errors = errors
  slow = slow
  other = other
  restart = restart
  scale = scale
  custom = custom
  look = look
  fp = fp
  checkout = checkout
  unknown = unknown
  inc = inc
  Services = {checkout}
  Tickets = {inc}
  Kind <- MCKindOf
  Target <- MCTarget
  TicketOf <- MCTicketOf
  Endpoint <- MCEndpoint
  NoAction = NoAction
  Actions = {errors, custom, fp}
  Names = {checkout}
  Workers = {w1}
  SimulateOnly = FALSE
  Verify = FALSE
  MaxFaults = 1
PROPERTIES
  RequestsAreAnswered
  LocksComeFree

\* One request and a rejection.
SPECIFICATION Spec
CONSTANTS
  errors = errors
  slow = slow
  other = other
  restart = restart
  scale = scale
  custom = custom
  look = look
  fp = fp
  checkout = checkout
  unknown = unknown
  inc = inc
  Services = {checkout}
  Tickets = {inc}
  Kind <- MCKindOf
  Target <- MCTarget
  TicketOf <- MCTicketOf
  Endpoint <- MCEndpoint
  NoAction = NoAction
  Actions = {errors}
  Names = {checkout}
  Workers = {w1}
  SimulateOnly = FALSE
  Verify = TRUE
  MaxFaults = 0
PROPERTIES
  RejectionStands

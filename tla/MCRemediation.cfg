\* Two requests, a reset and a restart of one service.
SPECIFICATION Spec
CONSTANTS
  errors = errors
  slow = slow
  other = other
  restart = restart
  scale = scale
  custom = custom
  look = look
  fp = fp
  checkout = checkout
  unknown = unknown
  inc = inc
  Services = {checkout}
  Tickets = {inc}
  Kind <- MCKindOf
  Target <- MCTarget
  TicketOf <- MCTicketOf
  Endpoint <- MCEndpoint
  NoAction = NoAction
  Actions = {slow, restart}
  Names = {checkout}
  Workers = {w1, w2}
  SimulateOnly = FALSE
  Verify = TRUE
  MaxFaults = 1
INVARIANTS
  MutualExclusion
  NoLockForgotten
  OutcomeIsTrue
  HighRiskNeedsApproval
SYMMETRY MCThreads

\* Safety, the refinement of Delivery and liveness, with up to four faults.
\* CHECK_DEADLOCK FALSE: the producer stops after N payloads and an idle
\* worker then only times out on its blocking pop.
SPECIFICATION FairSpec
CONSTANTS
  N = 4
  Poison <- MCPoison
  MaxRetries = 1
  RecoverLimit = 1
  MaxFaults = 4
  NoPayload = NoPayload
INVARIANTS
  TypeOK
  AckedWereHandled
  DeadLetterEarned
  NoLossBeforeFailure
  FifoWithoutFaults
PROPERTIES
  ImplementsDelivery
  EventuallySettled
CHECK_DEADLOCK FALSE

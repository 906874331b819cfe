SPECIFICATION Spec
CONSTANTS
  r1 = r1 r2 = r2 r3 = r3 own = own svc = svc
  Clients <- MCClients
  Requests <- MCRequests
  Dispatchers <- MCDispatchers
  Owner = own
  Svc = svc
  Cap = 1
  Cancelled = {r2, 1}
  RetryOf <- MCRetryOf
  SeqMod = 2
  DebugAssertions = TRUE
INVARIANTS
  TypeOK OwnResponse ClosedHasError DispatchUndisturbed DisconnectedIsBoth
PROPERTIES
  ErrorOncePerHalf RequestsResolve
CHECK_DEADLOCK FALSE

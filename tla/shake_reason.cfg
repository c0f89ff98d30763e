SPECIFICATION Spec
CONSTANTS
  Setups <- OldClients
INVARIANTS ReasonFrom38
CHECK_DEADLOCK FALSE

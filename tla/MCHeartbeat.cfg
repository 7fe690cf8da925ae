SPECIFICATION Spec
CONSTANTS
  Islands = {i1}
  Grace = 2
  MaxRestarts = 2
INVARIANTS TypeOK SilentIsSilent
PROPERTY StalledAlerted

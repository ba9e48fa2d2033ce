SPECIFICATION ProcessSpec
CONSTANTS
  MaxSpans = 2
INVARIANTS ProcessTypeOK ServesAsAsked RequestsAreTraced
CHECK_DEADLOCK FALSE

SPECIFICATION ProcessSpec
CONSTANTS
  MaxSpans = 1
INVARIANTS StdoutIsTheTransports
CHECK_DEADLOCK FALSE

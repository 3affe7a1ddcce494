\* Two threads log while the fopen of the day change fails.
CONSTANTS
  w1 = w1
  w2 = w2
  WRITERS = {w1, w2}
  MAIN = MAIN
  FLUSH = FLUSH
  NO_THREAD = NO_THREAD
  OPEN_MAY_FAIL = TRUE
  MAX_MSGS = 2
  MAX_FILES = 2
SPECIFICATION LogSpec
INVARIANTS OneInLog
CHECK_DEADLOCK FALSE

\* Two threads log four messages while the file is changed three times; fopen may fail.
CONSTANTS
  w1 = w1
  w2 = w2
  WRITERS = {w1, w2}
  MAIN = MAIN
  FLUSH = FLUSH
  NO_THREAD = NO_THREAD
  OPEN_MAY_FAIL = TRUE
  MAX_MSGS = 4
  MAX_FILES = 4
SPECIFICATION LogFairSpec
INVARIANTS WrittenInOrder KeptWhileOpen
PROPERTIES Flushed
CHECK_DEADLOCK FALSE

\* Two routers, a ring of four slots, TCP: all interleavings of three pushes each.
CONSTANTS
  TIME_INDEX = 4
  ROUTERS = 2
  LAST_CAP = 1
  REREADS = FALSE
  CAPPED = TRUE
  AGENT_LAG = 1
  PUSH_LAG = 1
  UINT_MAX = 255
  MAX_SEC = 5
  MAX_PUSHED = 3
SPECIFICATION Spec
INVARIANTS NoOverlap NothingLost SentBySecond SlotWithinCap
PROPERTIES ReliableQueue

\* Ethernet, two routers of two packets per slot: the schedule is timely, the ring wraps.
CONSTANTS
  TIME_INDEX = 4
  ROUTERS = 2
  PPS = 8
  PERCENT = 2
  CAP = 1
  SOLARFLARE = FALSE
  REREADS = TRUE
  HW_TIMESTAMP = FALSE
  NIC_BEHIND = 0
  NIC_AHEAD = 0
  ROUTER_LAG = 1
  LISTENER_LAG = 1
  UINT_MAX = 255
  MAX_SEC = 4
  MAX_STORED = 3
SPECIFICATION Spec
INVARIANTS
  NoOverlap
  NothingLost
  CounterSound
  FreshWhenDecoded
PROPERTIES
  ReliableQueue
  RefusedOnlyWhenFull

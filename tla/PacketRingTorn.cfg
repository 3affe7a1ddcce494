\* One router, a timely schedule, and the build of probe.mk, which reads the clock twice.
CONSTANTS
  TIME_INDEX = 4
  ROUTERS = 1
  PPS = 2
  PERCENT = 1
  CAP = 1
  SOLARFLARE = FALSE
  REREADS = TRUE
  HW_TIMESTAMP = FALSE
  NIC_BEHIND = 0
  NIC_AHEAD = 0
  ROUTER_LAG = 1
  LISTENER_LAG = 1
  UINT_MAX = 255
  MAX_SEC = 4
  MAX_STORED = 2
SPECIFICATION Spec
INVARIANTS
  WithinAllocation

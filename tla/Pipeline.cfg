\* One Solarflare router and TCP: two packets from the NIC to the socket, every interleaving.
CONSTANTS
  TIME_INDEX = 5
  ROUTERS = 1
  PPS = 2
  PERCENT = 1
  CAP = 1
  SOLARFLARE = TRUE
  REREADS = FALSE
  HW_TIMESTAMP = TRUE
  NIC_BEHIND = 1
  NIC_AHEAD = 1
  ROUTER_LAG = 1
  LISTENER_LAG = 0
  UINT_MAX = 255
  MAX_SEC = 9
  FIRST_SEC = 4
  MAX_STORED = 2
  LAST_CAP = 0
  CAPPED = TRUE
  AGENT_LAG = 1
SPECIFICATION FairSpec
INVARIANTS PushWithinLoop SentInTime
PROPERTIES ReliableRelay StoredIsSent

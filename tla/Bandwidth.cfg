\* One router, minutes of three seconds, hours of two: two packets anywhere, or one and
\* PROCESS_CDN switched twice; PROCESS_PEERING off.  The clock goes on until a kind that was
\* off over the first minute's end has been published three times.
CONSTANTS
  ROUTERS = 1
  MIN_SECS = 3
  HOUR_MINS = 2
  BW_TIME_INDEX = 8
  ROUTER_LAG = 1
  BW_LAG = 1
  PROCESSED = {"bw", "cdn"}
  SWITCHED = {"cdn"}
  MAX_SWITCHES = 2
  START = 5
  MAX_SEC = 15
  MAX_DECODED = 2
  MAX_EVENTS = 4
SPECIFICATION Spec
INVARIANTS MinuteExact PeakExact RowFresh

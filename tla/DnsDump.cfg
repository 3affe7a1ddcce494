\* Two routers; two addresses in one of two maps.
CONSTANTS
  r1 = r1
  r2 = r2
  ROUTERS = {r1, r2}
  NOBODY = NOBODY
  IPS = {1, 3}
  BUCKETS = 2
  DNS_ANSWER = 1
  DNS_DUMP_TIME = 2
SPECIFICATION DumpFairSpec
INVARIANTS OneInside NoLostWakeup
PROPERTIES PublishedWhole SomeoneParses CatchesUp

\* Two interfaces, the packets of the second followed, threads up to a tick late.
\* The program exits, and stops: no deadlock check.
CONSTANTS
  NO_OF_INTERFACES = 2
  FOLLOWED = 2
  GRACE = 2
  LISTENER_LAG = 1
  ROUTER_LAG = 1
  AGENT_LAG = 1
SPECIFICATION FairSpec
INVARIANTS RoutedBeforeStop SentBeforeExit AllPushOrNone PausedByOperator
PROPERTIES SignalledExits
CHECK_DEADLOCK FALSE

\* Four addresses, tables of up to two rows, two threads that reload it at any time.
CONSTANTS
  ADDRESS_BITS = 2
  MAX_IP_RANGE = 2
  LINES <- MCLines
  MAX_LINES = 2
  LOADERS = {admin, main}
  LISTERS = {admin}
  SOURCES = {0, 2}
  DESTINATIONS = {1}
SPECIFICATION Spec
INVARIANTS ScanSound
PROPERTIES Settles

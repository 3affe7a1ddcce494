SPECIFICATION ConfigFairSpec
CONSTANTS
  KEYS <- MCKeys
  CONFIGS <- MCConfigs
  EDITED <- MCEdited
  USER_FILES <- MCUserFiles
  MAX_LINES = 2
  FREQ_MIN = 2
  MAX_INTERFACE_SUPPORT = 3
  MAX_NUMBER = 2
  MAX_EDITS = 1
  MAX_LOADS = 2
INVARIANTS StartReadsLast
PROPERTIES LoadIsRestart UserRangesBack
CHECK_DEADLOCK FALSE

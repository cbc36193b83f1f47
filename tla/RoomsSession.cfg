CONSTANTS
  Participants = {"p", "q", "r"}
SPECIFICATION CallSpec
CHECK_DEADLOCK FALSE
INVARIANTS OneSessionEach

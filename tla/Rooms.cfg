CONSTANTS
  Participants = {"p", "q", "r"}
SPECIFICATION Spec
CHECK_DEADLOCK FALSE
INVARIANTS RequestsAnswered MembershipSafe CallsSafe
PROPERTY RoomsSettle

SPECIFICATION FairSpec
CONSTANTS
  FirewallTypes = {0, 1, 2, 3, 4, 5, 6, 7}
  Users = {"anonymous", "named"}
  AcctTypes = {0, 1}
  MaxDials = 2
  MaxOpens = 2
  MaxAsks = 1
  Greetings = {220, 120, 421, 500}
INVARIANTS
  Inv
  DialogueFollowed
  LoginComplete
  RejectedNotRetried
PROPERTY CallsReturn
CHECK_DEADLOCK FALSE

SPECIFICATION LiveSpec
CONSTANTS
  Uids = {1, 2}
INVARIANTS TypeOK IdentityUsable
PROPERTIES TimerRearms

SPECIFICATION SettledSpec
CONSTANTS
  Invocation = {a1}
  MaxCredentials = 1
  MaxGrants = 1
  Reissue = "same"
  Faults = {"crash"}
  Invalid = Invalid
PROPERTIES ConsumedTokenRemoved

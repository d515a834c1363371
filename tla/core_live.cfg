SPECIFICATION FairSpec
CONSTANTS
  Invocation = {a1}
  MaxCredentials = 1
  MaxGrants = 1
  Reissue = "same"
  Faults <- PassingFaults
  Invalid = Invalid
PROPERTIES EventuallyContacted NoLitter

SPECIFICATION Spec
CONSTANTS
  Invocation = {a1, a2}
  MaxCredentials = 1
  MaxGrants = 1
  Reissue = "same"
  Faults <- ProcessFaults
  Invalid = Invalid
INVARIANTS NeverStranded NeverStrandedOnDisk
PROPERTIES CredentialReachesDisk
SYMMETRY Interchangeable

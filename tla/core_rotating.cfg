SPECIFICATION Spec
CONSTANTS
  Invocation = {a1}
  MaxCredentials = 3
  MaxGrants = 2
  Reissue = "rotate"
  Faults <- PromptFaults
  Invalid = Invalid
INVARIANTS TypeOK NeverStranded SummaryCoherent
PROPERTIES InvalidStateRetained NeverTorn TokenSpentOnce KeepsIdentity

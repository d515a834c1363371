SPECIFICATION Spec
CONSTANTS
  Absent = Absent
  Null = Null
  Malformed = Malformed
  Missing = Missing
  Unreadable = Unreadable
  Error = Error
  Broken = Broken
  MaxID = 3
  MaxBearer = 1
  Files <- ConfigurationFiles
  Symbol = {"a", "b", ".", "%2e"}
  BasePaths <- EveryBasePath
  Responses <- RegistrationResponses
  References <- Endpoints
  Documents <- BothDocuments
  Hosts <- HostFiles
  Releases <- ReleaseFiles
  HealthFindings <- EveryHealthFinding
  ValidationFindings <- EveryValidationFinding
INVARIANTS
  AcceptedUsable NothingDefaultedSilently FitsStart RegistrationUsable
   DocumentsAgree FactsTruthful HealthTruthful
CHECK_DEADLOCK FALSE

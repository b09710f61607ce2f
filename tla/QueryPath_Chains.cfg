\* Chains of processors in front of the connector and behind it.
SPECIFICATION Spec
CONSTANTS
  None = None
  Signal = {"metrics", "logs"}
  Label = {"id", "secret", "email"}
  HeaderName = {"org", "user", "auth"}
  Config <- Configurations
  Request <- Requests
INVARIANTS
  TypeOK
  ReadsAsOwnTenant
  ReadsAreAdmitted
  EnforcementReachesStorage
  AnswersAreScrubbed

\* The policy in front of the connector, the rewrite behind it.
SPECIFICATION Spec
CONSTANTS
  None = None
  Signal = {"metrics", "logs"}
  Label = {"id", "secret", "email"}
  HeaderName = {"org", "user", "auth"}
  Config <- RewriteBehind
  Request <- Requests
INVARIANT SubjectsSeeWhatTheirRulesPermit

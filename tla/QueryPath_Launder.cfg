\* The response filter in front of the connector only.
SPECIFICATION Spec
CONSTANTS
  None = None
  Signal = {"metrics", "logs"}
  Label = {"id", "secret", "email"}
  HeaderName = {"org", "user", "auth"}
  Config <- FilterInFront
  Request <- Requests
INVARIANT JoinsLaunderNoLabel

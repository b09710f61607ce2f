\* A tenant processor of its own in front of one storage.
SPECIFICATION Spec
CONSTANTS
  None = None
  Signal = {"metrics", "logs"}
  Label = {"id", "secret", "email"}
  HeaderName = {"org", "user", "auth"}
  Config <- TenantBehind
  Request <- Requests
INVARIANT SidesCarryTheParentsTenant

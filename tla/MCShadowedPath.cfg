SPECIFICATION Spec
CONSTANTS
  ParamName = {"id", "tenant", "Tenant", "key", "body", "path_id", "Content-Type"}
  BodyArg = "body"   NoArg = noArg   Renamed <- MCRenamed   MaxSuffix = 2
  ArgName <- MCArgNames   Operation <- Shadowed
  HeaderName = {"tenant", "Tenant", "key", "Accept", "Signature",
                "content-type", "Content-Type"}   canonical <- MCCanonical
  Upstream <- Static   Calls <- ShadowedCalls
  NoSource = noSource   Hook = hook
INVARIANTS PlacedOnlyWhereDeclared

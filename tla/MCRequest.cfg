SPECIFICATION Spec
CONSTANTS
  ParamName = {"id", "tenant", "Tenant", "key", "body", "path_id", "Content-Type"}
  BodyArg = "body"   NoArg = noArg   Renamed <- MCRenamed   MaxSuffix = 2
  ArgName <- MCArgNames   Operation <- Operations
  HeaderName = {"tenant", "Tenant", "key", "Accept", "Signature",
                "content-type", "Content-Type"}   canonical <- MCCanonical
  Upstream <- Upstreams   Calls <- MCCalls
  NoSource = noSource   Hook = hook
INVARIANTS TypeOK NamesAreApart SchemaIsAccepted ArgumentsArrive
  CredentialPrevails SignatureCovers BodyIsDescribed

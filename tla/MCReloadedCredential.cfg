SPECIFICATION Spec
CONSTANTS
  SchemeId = {"in", "out", "gone"}
  Secret = {"s1", "s2", "s3"}   Ref = {"ref"}
  Blank = ""   Undefined = undefined   None = none   NotYet = notyet
  Configuration <- FromDirectory   Environments <- MCEnvironments
  Presentable <- MCPresentable   ValidToken = {"s3"}   MaxReloads = 1
INVARIANT CredentialsAreResolved

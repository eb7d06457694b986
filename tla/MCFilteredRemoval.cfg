SPECIFICATION Spec
CONSTANTS
  Path = {"/a", "/b"}   Method = {"GET", "POST"}
  Raw = {}   Text = {"original", "edited"}   Template = {}   Unset = unset
  RouteConfigs <- TwoRoutes   Opened <- MCOpened
  Terms <- PostOnly   Drafts = {"original", "edited"}
INVARIANT NoRouteIsLost

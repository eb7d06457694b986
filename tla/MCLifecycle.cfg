\* One service, on a socket or on the pipe, its document edited and reloaded.
SPECIFICATION LifecycleSpec
CONSTANTS
  Unnamed = unnamed   Name = {unnamed, hotel, flight}
  ExplicitName = {hotel}   DirName = {}   HasMain = FALSE   Modes = {"http", "sse", "stdio"}
  old = old   new = new   Doc = {old, new}
  list = list   book = book   cancel = cancel   Tool = {list, book, cancel}
  ToolsOf <- MCToolsOf   InitDisk <- StartingDisks   MaxEdits = 2
  Missing = missing   NoSpec = noSpec   Unbuildable = unbuildable
  NoServer = noServer   NoTool = noTool   NoEntry = noEntry   MaxInstances = 2
  Client = {c1}
INVARIANTS LifecycleTypeOK SessionsFollowReloads
PROPERTIES EveryRequestEnds EndsWhenItMust

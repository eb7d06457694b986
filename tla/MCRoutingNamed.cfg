\* Services found in services_dir only.
SPECIFICATION FairSpec
CONSTANTS
  Unnamed = unnamed   Name = {unnamed, hotel, flight}
  ExplicitName = {}   DirName = {hotel, flight}   HasMain = FALSE   Modes = {"http"}
  old = old   new = new   Doc = {old, new}
  list = list   book = book   cancel = cancel   Tool = {list, book, cancel}
  ToolsOf <- MCToolsOf   InitDisk <- WorkingDisks   MaxEdits = 2
  Missing = missing   NoSpec = noSpec   Unbuildable = unbuildable
  NoServer = noServer   NoTool = noTool   NoEntry = noEntry   MaxInstances = 2
  Client = {c1}
INVARIANTS TypeOK AppliedInFull
PROPERTIES ServersAreKept RefusalIsTrue HangupTakesEffect

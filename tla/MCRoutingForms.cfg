\* swagger_file and services_dir: a reload changes which form is in effect.
SPECIFICATION FairSpec
CONSTANTS
  Unnamed = unnamed   Name = {unnamed, hotel, flight}
  ExplicitName = {}   DirName = {hotel, flight}   HasMain = TRUE   Modes = {"http", "stdio"}
  old = old   new = new   Doc = {old, new}
  list = list   book = book   cancel = cancel   Tool = {list, book, cancel}
  ToolsOf <- MCToolsOf   InitDisk <- WorkingDisks   MaxEdits = 2
  Missing = missing   NoSpec = noSpec   Unbuildable = unbuildable
  NoServer = noServer   NoTool = noTool   NoEntry = noEntry   MaxInstances = 2
  Client = {c1}
INVARIANTS RoutesInStep OwnToolsOnly
PROPERTIES OpensOwnService KeepsContract

\* A socket may publish one service and then another.
SPECIFICATION Spec
CONSTANTS
  LocalNode = 1
  RemoteNodes = {}
  Ports = {1, 2}
  CtrlPort = 99
  Offers <- Changing
  Filters <- ObserveOne
  Clients = {}
  Strays = {}
  NoServer = NoServer
  MaxInbox = 2
  MayRestart = FALSE
INVARIANTS ToldCurrent

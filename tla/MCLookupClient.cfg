\* Runs of qrtr-lookup next to servers that come and go and a name server that
\* may restart.
SPECIFICATION FairClientSpec
CONSTANTS
  LocalNode = 1
  RemoteNodes = {0}
  Ports = {1, 2}
  CtrlPort = 99
  Offers <- Changing
  Filters <- Lookups
  Clients = {}
  Strays <- Misaddressed
  NoServer = NoServer
  MaxInbox = 2
  MayRestart = TRUE
  Asker = 2
  MaxMail = 2
INVARIANTS ClientTypeOK ListedWasRegistered ExactWhenFresh
PROPERTIES LookupEnds

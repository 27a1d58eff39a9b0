\* Two name servers started in any order, one of them again; fair event loops.
SPECIFICATION FairSpec
CONSTANTS
  Node = {1, 2}
  Ports = {1, 2}
  CtrlPort = 99
  Offers <- Changing
  Filters <- AllOfOne
  NoServer = NoServer
  MaxInbox = 2
  MaxStarts = 4
INVARIANTS TypeOK PeersAgree GreetingsBounded ObserversServed
PROPERTIES EventuallyTold

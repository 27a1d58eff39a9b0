\* Two adapters, calls that fail for a time and a process that may die.
SPECIFICATION FairSpec
CONSTANTS
  Dongles = {wlan1, wlan2}
  Onboard = wlan0
  Poll = poll
  MaxQueue = 1
  MayFail = TRUE
  MayCrash = TRUE
INVARIANTS TypeOK OnePoll
PROPERTIES OffersAppear OffersWithdrawn GuardedRevert

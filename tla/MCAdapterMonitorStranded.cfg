\* Is Wi-Fi always brought back to the onboard radio?
SPECIFICATION FairSpec
CONSTANTS
  Dongles = {wlan1, wlan2}
  Onboard = wlan0
  Poll = poll
  MaxQueue = 2
  MayFail = FALSE
  MayCrash = FALSE
PROPERTIES RemovalRestoresOnboard

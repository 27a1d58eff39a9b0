\* Is the poll loop running whenever the service is?
SPECIFICATION Spec
CONSTANTS
  Dongles = {wlan1}
  Onboard = wlan0
  Poll = poll
  MaxQueue = 2
  MayFail = FALSE
  MayCrash = TRUE
INVARIANTS MonitoringNeverStops

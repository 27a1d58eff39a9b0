\* Three tickets of any type, one of them with a callback.
SPECIFICATION FairSpec
CONSTANTS
  Tickets = {t1, t2, t3}
  Temp = temp
  Handled = {t1}
  Fds = {7}
  Intervals = {2}
  Chunk = 2
  MaxPending = 1
  MaxAge = 3
INVARIANTS TypeOK PollsetFits DueTogether
PROPERTIES DueIsServed TimeoutReturns

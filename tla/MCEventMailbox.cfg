\* Two threads, two windows, a channel of one place, two events.
CONSTANTS
  Threads = {"t1", "t2"}
  Windows = {"w1", "w2"}
  Interest <- Interests
  Capacity = 1
  MaxEvents = 2
SPECIFICATION FairSpec
INVARIANTS
  TypeOK
  NothingLost
PROPERTIES
  WaitersServed

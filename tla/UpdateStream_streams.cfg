\* Both streams: the events of two users in one channel, and a job of either.
SPECIFICATION Spec
CHECK_DEADLOCK FALSE
CONSTANTS
  Readers = {"follower"}
  Messages = {1, 2, 3, 4}
  Capacity = 2
  ListLimit = 2
  UserOf <- MCUsers
  EventOwner <- MCOwners
  Nothing = Nothing
INVARIANTS OnlyOwn  CountsAddUp NoSilentGap

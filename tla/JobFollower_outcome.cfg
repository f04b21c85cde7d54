\* A slow follower who connects, lags, reads and reconnects at any time.
SPECIFICATION FollowerSpec
CHECK_DEADLOCK FALSE
CONSTANTS
  r1 = r1
  NoBody = NoBody
  NoJob = NoJob
  NoProvider = NoProvider
  Nothing = Nothing
  Client = Client
  Job = r1
  Capacity = 2
  EventOwner <- MCEventOwner
  ConnectionOwner <- MCConnOwner
  ConnectionProvider <- MCConnProvider
  Bodies <- MCBodies
  Shapes = "several"
  Configured = {"meetup"}
  Providers = {"meetup", "craigslist"}
  Unreadable = {"a2"}
  Events = {"gala"}
  Users = {"ann"}
  Keys = {"k1"}
  Requests = {r1}
  Connections = {"a1", "a2", "a4"}
  MaxTargets = 2
  MaxFaults = 1
INVARIANTS ShownIsTrue AnswerFits ViewIsComplete

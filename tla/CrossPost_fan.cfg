\* A job of up to three targets.
SPECIFICATION Spec
CHECK_DEADLOCK FALSE
CONSTANTS
  r1 = r1
  r2 = r2
  r3 = r3
  NoBody = NoBody
  NoJob = NoJob
  NoProvider = NoProvider
  EventOwner <- MCOwner
  ConnectionOwner <- MCConnOwner
  ConnectionProvider <- MCConnProvider
  Bodies <- MCBodies
  Configured = {"meetup", "eventbrite"}
  Providers = {"meetup", "eventbrite", "craigslist"}
  Unreadable = {"a3"}
  Events = {"gala", "jam"}
  Users = {"ann", "bob"}
  Keys = {"k1"}
  Shapes = "fan"
  Requests = {r1}
  Connections = {"a1", "a2", "a3", "a4"}
  MaxTargets = 3
  MaxFaults = 1
INVARIANTS TypeOK RollupIsFaithful UntriedOnlyIfUnusable FinishedIsLast
 

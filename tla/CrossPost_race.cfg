\* Requests racing for a key, with crashes, drops and failing statements.
SPECIFICATION Spec
CHECK_DEADLOCK FALSE
SYMMETRY RequestSymmetry
CONSTANTS
  r1 = r1
  r2 = r2
  r3 = r3
  NoBody = NoBody
  NoJob = NoJob
  NoProvider = NoProvider
  EventOwner <- MCOwner
  ConnectionOwner <- MCConnOwner
  ConnectionProvider <- MCConnProvider
  Bodies <- MCBodies
  Configured = {"meetup", "eventbrite"}
  Providers = {"meetup", "eventbrite", "craigslist"}
  Unreadable = {"a3"}
  Events = {"gala", "jam"}
  Users = {"ann", "bob"}
  Keys = {"k1"}
  Shapes = "race"
  Requests = {r1, r2, r3}
  Connections = {"a1", "a3", "b1"}
  MaxTargets = 1
  MaxFaults = 2
INVARIANTS OneJobPerKey JobIsWhole ReplyIsOwn SingleDriver NotStrandedUnlessFault CallsOnRecord
PROPERTIES StrandedIsInert 

\* Under fair scheduling a filed job is finished, and a follower who stays learns it.
SPECIFICATION FairFollowerSpec
CHECK_DEADLOCK FALSE
CONSTANTS
  r1 = r1
  NoBody = NoBody
  NoJob = NoJob
  NoProvider = NoProvider
  Nothing = Nothing
  Client = Client
  Job = r1
  Capacity = 1
  EventOwner <- MCEventOwner
  ConnectionOwner <- MCConnOwner
  ConnectionProvider <- MCConnProvider
  Bodies <- MCBodies
  Shapes = "single"
  Configured = {"meetup"}
  Providers = {"meetup", "craigslist"}
  Unreadable = {}
  Events = {"gala"}
  Users = {"ann"}
  Keys = {"k1"}
  Requests = {r1}
  Connections = {"a1"}
  MaxTargets = 1
  MaxFaults = 1
PROPERTIES FollowerLearns JobSettles

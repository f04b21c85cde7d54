---------------------------- MODULE MCJobFollower ----------------------------
(***************************************************************************)
(* Small instances of JobFollower for TLC. Ann's job goes to meetup and to *)
(* craigslist, which has no adapter here, or to two groups of meetup, the  *)
(* tokens of one of which are unreadable.                                  *)
(***************************************************************************)
EXTENDS JobFollower

CONSTANTS r1, Shapes

MCEventOwner   == [e \in Events |-> "ann"]
MCConnOwner    == [c \in Connections |-> "ann"]
MCConnProvider == [c \in Connections |-> IF c = "a4" THEN "craigslist" ELSE "meetup"]

To(c, p) == [connection |-> c, provider |-> p]
Ask(ts)  == [user |-> "ann", key |-> "k1", event |-> "gala", targets |-> ts]

TwoProviders == Ask(<<To("a1", "meetup"), To("a4", "craigslist")>>)
TwoGroups    == Ask(<<To("a1", "meetup"), To("a2", "meetup")>>)
OneGroup     == Ask(<<To("a1", "meetup")>>)

MCBodies == CASE Shapes = "several" -> {TwoProviders, TwoGroups}
              [] Shapes = "single"  -> {OneGroup}
=============================================================================

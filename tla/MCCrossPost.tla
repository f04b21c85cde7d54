----------------------------- MODULE MCCrossPost -----------------------------
(***************************************************************************)
(* Small instances of CrossPost for TLC. Ann owns gala and the connections *)
(* a1 and a2 to meetup and a3, whose tokens are unreadable, to eventbrite; *)
(* bob owns jam and b1. Craigslist has no adapter here.                    *)
(***************************************************************************)
EXTENDS CrossPostProperties, TLC

CONSTANTS r1, r2, r3, Shapes

MCOwner      == [e \in {"gala", "jam"} |-> IF e = "gala" THEN "ann" ELSE "bob"]
MCConnOwner  == [c \in Connections |-> IF c \in {"b1"} THEN "bob" ELSE "ann"]
MCConnProvider ==
  [c \in Connections |-> CASE c = "a3" -> "eventbrite" [] c = "a4" -> "craigslist"
                           [] OTHER -> "meetup"]

To(c, p)  == [connection |-> c, provider |-> p]
Ask(u, k, e, ts) == [user |-> u, key |-> k, event |-> e, targets |-> ts]

\* Requests racing for one key with different targets, and a user who uses the
\* same key but may neither post ann's event nor use her connection.
RaceBodies == {
  Ask("ann", "k1", "gala", <<To("a1", "meetup")>>),
  Ask("ann", "k1", "gala", <<To("a3", "eventbrite")>>),
  Ask("bob", "k1", "jam",  <<To("a1", "meetup")>>),
  Ask("bob", "k1", "gala", <<To("b1", "meetup")>>) }

\* Several targets: two of one provider, an unreadable connection, a provider
\* without adapter, a connection that is not of the provider named.
FanBodies == {
  Ask("ann", "k1", "gala", <<To("a1", "meetup"), To("a2", "meetup")>>),
  Ask("ann", "k1", "gala", <<To("a3", "eventbrite"), To("a1", "meetup"), To("a4", "craigslist")>>),
  Ask("ann", "k1", "gala", <<To("a1", "meetup"), To("a2", "eventbrite")>>) }

MCBodies == CASE Shapes = "race" -> RaceBodies
              [] Shapes = "fan"  -> FanBodies

RequestSymmetry == Permutations(Requests)
=============================================================================

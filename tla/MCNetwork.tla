------------------------------ MODULE MCNetwork ------------------------------
(***************************************************************************)
(* Instances of Network for TLC.  In a square, stations of one device each *)
(* do not hear the opposite corner; two have unicast routes and two        *)
(* broadcast.  In a pair, each routes to the other.                        *)
(***************************************************************************)
EXTENDS Network, TLC

CONSTANTS a, b, c, d, asker, source

\* A station of one device is named as its device.
Own == [dev \in Dev |-> dev]
Ends == (asker :> a) @@ (source :> c)

Four == {a, b, c, d}
Square == {<<a, b>>, <<b, a>>, <<b, c>>, <<c, b>>, <<c, d>>, <<d, c>>, <<d, a>>, <<a, d>>}
Mixed == {<<a, Bcast>>, <<b, c>>, <<c, Bcast>>, <<d, a>>}

Two == {a, c}
Pair == {<<a, c>>, <<c, a>>}

\* They are among the networks that the theorem on answers is about.
ASSUME AnswerableAssumption == Answerable
==============================================================================

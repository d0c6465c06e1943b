-------------------------------- MODULE MCWsn --------------------------------
(***************************************************************************)
(* Instance of Wsn for TLC: few readings, each with two timestamps, so     *)
(* that two Data packets of one name may differ.                           *)
(***************************************************************************)
EXTENDS Wsn

CONSTANT MaxNotified    \* bound: readings of a sensor that notifies

TwoMoments == {1, 2}

\* Notifications can be under way for many readings at once, so they get fewer.
BoundedNext == Next /\ (m_mode = "NOTIFY" => sensorSeq' <= MaxNotified)
BoundedSpec == Init /\ [][BoundedNext]_vars /\ Fairness
==============================================================================

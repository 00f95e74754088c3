--------------------------- MODULE MCStateMachine ---------------------------
(***************************************************************************)
(* A small instance of StateMachine for TLC.                               *)
(***************************************************************************)
EXTENDS StateMachine

Track(id, names, dur) == [ID |-> id, Names |-> names, DurationMS |-> dur]

\* The same names without and with an ID: SameTrack has to look at the IDs first.
TracksOfOneName == {Track("", "x", 1), Track("t1", "x", 1)}
=============================================================================

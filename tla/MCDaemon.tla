------------------------------ MODULE MCDaemon ------------------------------
(***************************************************************************)
(* Small instances of Daemon for TLC: the two providers nowplayingd        *)
(* registers, in its order (cmd/nowplayingd/main.go).                      *)
(***************************************************************************)
EXTENDS Daemon

CONSTANTS spotify, stub

SpotifyThenStub == <<spotify, stub>>

\* All players play at first: one of the symmetric ways to begin.
PlayingInit == DaemonInit /\ \A p \in Providers : player[p] = "playing"
PlayingSpec == PlayingInit /\ [][DaemonNext]_vars /\ DaemonFairness
=============================================================================

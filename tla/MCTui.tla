-------------------------------- MODULE MCTui --------------------------------
(***************************************************************************)
(* Small instances, for TLC, of the parts of the TUI's process: the keys,  *)
(* dialogs and calls, the position and the widths, the visualizer, and one *)
(* connection to the daemon.  They share no state, so each behaviour is    *)
(* one of one part, and the others wait in their first state, where their  *)
(* fairness owes nothing.                                                  *)
(***************************************************************************)
EXTENDS Tui, TuiScreen, Visualizer, ConnClient

VARIABLE part

MCOffsets == {-100, 0, 490, 2100}

mcVars == <<part, tuiVars, screenVars, vars, connVars>>

MCInit ==
  /\ part \in {"keys", "screen", "visualizer", "connection"}
  /\ TuiInit /\ ScreenInit /\ VisualizerInit /\ ConnInit
  /\ part # "visualizer" => mode = "plain"

MCNext ==
  /\ UNCHANGED part
  /\ \/ part = "keys" /\ TuiNext /\ UNCHANGED <<screenVars, vars, connVars>>
     \/ part = "screen" /\ ScreenNext /\ UNCHANGED <<tuiVars, vars, connVars>>
     \/ part = "visualizer" /\ VisualizerNext /\ UNCHANGED <<tuiVars, screenVars, connVars>>
     \/ part = "connection" /\ ConnNext /\ UNCHANGED <<tuiVars, screenVars, vars>>

MCSpec == MCInit /\ [][MCNext]_mcVars /\ TuiFairness /\ ConnFairness
=============================================================================

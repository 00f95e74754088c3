------------------------------ MODULE TuiScreen ------------------------------
(***************************************************************************)
(* The position that the TUI shows and the widths it draws with            *)
(* (cmd/nowplaying/tui/model.go).  Between notifications the TUI moves the *)
(* position by its own 100 ms clock; notifications may be missing, so that *)
(* a position may belong to another track than the one that is shown.      *)
(***************************************************************************)
EXTENDS Integers

CONSTANTS
  WindowWidths,  \* of the terminal
  Durations,     \* of tracks, in ms; 0 if the player does not know
  Offsets        \* positions that the daemon sends, in ms

ASSUME TuiScreenAssumption ==
  WindowWidths \subseteq Nat /\ Durations \subseteq Nat /\ Offsets \subseteq Int

VARIABLES
  screenWidth,   \* m.width
  playing,       \* the status that is shown is playing, and there is a track
  duration, position

screenVars == <<screenWidth, playing, duration, position>>

ScreenInit ==
  /\ screenWidth = 0
  /\ playing = FALSE /\ duration = 0 /\ position = 0

Larger(a, b) == IF a > b THEN a ELSE b

-----------------------------------------------------------------------------
WindowSize ==
  /\ screenWidth' \in WindowWidths
  /\ UNCHANGED <<playing, duration, position>>

StateShown ==
  /\ playing' \in BOOLEAN /\ duration' \in Durations /\ position' \in Offsets
  /\ UNCHANGED screenWidth

ProgressShown ==
  /\ position' \in Offsets
  /\ UNCHANGED <<screenWidth, playing, duration>>

ScreenTick ==
  /\ playing
  /\ position' = IF position + 100 > duration THEN duration ELSE position + 100
  /\ UNCHANGED <<screenWidth, playing, duration>>

ScreenNext == WindowSize \/ StateShown \/ ProgressShown \/ ScreenTick

ScreenSpec == ScreenInit /\ [][ScreenNext]_screenVars

-----------------------------------------------------------------------------
BarWidth == Larger(screenWidth - 8, 10)

\* Mutant: a position past the end is not cut off.
FilledUncut ==
  IF duration = 0 THEN 0 ELSE (Larger(position, 0) * BarWidth) \div duration

\* The part of the bar that is filled, with its position cut to the track; up to the
\* rounding of the quotient.
Filled ==
  LET inTrack == IF position > duration THEN duration ELSE Larger(position, 0)
  IN  IF duration = 0 THEN 0 ELSE (inTrack * BarWidth) \div duration

\* A row of the results: a text of text bytes, cut to leave room for the duration
\* and an ellipsis of three bytes and one column, and the duration's digits.  Other
\* runes are counted as one column for each byte.
RowRoom == Larger(screenWidth - 12, 30)
Row(text, digits) ==
  LET room    == RowRoom - (digits + 2)
      isCut   == text > room
      bytes   == IF isCut THEN room - 1 + 3 ELSE text
      padding == Larger(RowRoom - bytes - digits, 1)
  IN  [cutAt |-> IF isCut THEN room - 1 ELSE text,
       columns |-> bytes - (IF isCut THEN 2 ELSE 0) + padding + digits]

\* The bar and the rows can be drawn: strings.Repeat gets no negative count
\* (model.go:520), a text is cut inside it (model.go:463), and no row is longer
\* than its room, wherever the position and the window are.
ScreenFits ==
  /\ Filled \in 0 .. BarWidth
  /\ \A text \in {0, 20, 27, 28, 200}, digits \in 4 .. 7 :
       /\ Row(text, digits).cutAt \in 0 .. text
       /\ Row(text, digits).columns <= RowRoom
=============================================================================

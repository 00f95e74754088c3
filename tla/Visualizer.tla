----------------------------- MODULE Visualizer -----------------------------
(***************************************************************************)
(* The visualizer of the TUI (cmd/nowplaying/tui/visualizer.go,            *)
(* viz_waterfall.go, viz_flame.go) under the messages of Model.Update that *)
(* reach it: the 100 ms tick, spectrum notifications, the window's size    *)
(* and the key that cycles the mode.                                       *)
(*                                                                         *)
(* The heights of the bars are abstracted to the tick that computed them   *)
(* and to what drove them, a stored spectrum to its length, the heat of    *)
(* the flame to its dimensions.  The modes that keep no such buffer are    *)
(* one.                                                                    *)
(***************************************************************************)
EXTENDS Integers, Sequences

CONSTANTS
  Widths,           \* the widths that the model passes to resize (at least 10)
  Heights,          \* the numbers of rows that it passes (at least 2)
  DotRows,          \* dot rows of a character (4)
  FeedStaleFrames,  \* 2
  MaxTicks          \* bound: ticks

ASSUME VisualizerAssumption ==
  /\ Widths \subseteq Nat \ (0 .. 3)
  /\ Heights \subseteq Nat \ {0, 1}
  /\ DotRows \in Nat \ {0}
  /\ FeedStaleFrames \in Nat
  /\ MaxTicks \in Nat

VARIABLES
  mode, frame, bars, vizRows,
  realBands,      \* the length of the stored spectrum
  hasRealData, lastFeedFrame,
  wfBuf,          \* the waterfall's ring of snapshots, <<>> before its first tick
  wfHead, wfLen,
  heat,           \* the dimensions of the flame's heat
  source,         \* what drove the bars in the last tick
  exceeded,       \* an index was out of range: the process is gone
  ticks,          \* counter of the bound
  sinceFeed,      \* history: ticks since the last feed
  cycled,         \* history: the mode has been cycled since the last feed
  painted         \* history: the waterfall's snapshots, the newest first

sizeVars == <<bars, vizRows>>
feedVars == <<realBands, hasRealData, lastFeedFrame>>
wfVars   == <<wfBuf, wfHead, wfLen>>
history  == <<sinceFeed, cycled, painted>>
vars == <<mode, frame, sizeVars, feedVars, wfVars, heat, source, exceeded, ticks, history>>

-----------------------------------------------------------------------------
Modes  == {"plain", "waterfall", "flame"}
NoSnap == [width |-> 0, tick |-> 0]
NoHeat == [rows |-> 0, cols |-> 0]

\* newVisualizer(20, 2), in any mode: each is reached by cycling.
VisualizerInit ==
  /\ mode \in Modes
  /\ frame = 0
  /\ bars = 20
  /\ vizRows = 2
  /\ realBands = 0 /\ hasRealData = FALSE /\ lastFeedFrame = 0
  /\ wfBuf = <<>> /\ wfHead = 0 /\ wfLen = 0
  /\ heat = NoHeat
  /\ source = "none"
  /\ exceeded = FALSE
  /\ ticks = 0
  /\ sinceFeed = 0
  /\ cycled = FALSE
  /\ painted = <<>>

-----------------------------------------------------------------------------
\* Mutant: the waterfall's ring survives a change of the width.
ResizeKeepsWaterfall ==
  /\ ~exceeded
  /\ \E width \in Widths, rows \in Heights :
       /\ bars' = width
       /\ vizRows' = rows
       /\ heat' = IF width # bars THEN NoHeat ELSE heat
  /\ UNCHANGED <<mode, frame, feedVars, wfVars, source, exceeded, ticks, history>>

\* Mutant: the flame's heat survives a change of the width.
ResizeKeepsHeat ==
  /\ ~exceeded
  /\ \E width \in Widths, rows \in Heights :
       /\ bars' = width
       /\ vizRows' = rows
       /\ IF width # bars THEN wfBuf' = <<>> /\ wfHead' = 0 /\ wfLen' = 0 ELSE UNCHANGED wfVars
  /\ UNCHANGED <<mode, frame, feedVars, heat, source, exceeded, ticks, history>>

\* The stored spectrum keeps its length.
Resize ==
  /\ ~exceeded
  /\ \E width \in Widths, rows \in Heights :
       /\ bars' = width
       /\ vizRows' = rows
       /\ IF width # bars
          THEN wfBuf' = <<>> /\ wfHead' = 0 /\ wfLen' = 0 /\ heat' = NoHeat
          ELSE UNCHANGED <<wfVars, heat>>
  /\ UNCHANGED <<mode, frame, feedVars, source, exceeded, ticks, history>>

\* Mutant: the frame of the feed is not noted.
FeedUnstamped ==
  /\ ~exceeded
  /\ realBands' = bars
  /\ hasRealData' = TRUE
  /\ sinceFeed' = 0
  /\ cycled' = FALSE
  /\ UNCHANGED <<mode, frame, sizeVars, lastFeedFrame, wfVars, heat, source, exceeded, ticks,
                 painted>>

\* A spectrum, resampled to the number of bars of this moment.
Feed ==
  /\ ~exceeded
  /\ realBands' = bars
  /\ hasRealData' = TRUE
  /\ lastFeedFrame' = frame
  /\ sinceFeed' = 0
  /\ cycled' = FALSE
  /\ UNCHANGED <<mode, frame, sizeVars, wfVars, heat, source, exceeded, ticks, painted>>

CycleMode ==
  /\ ~exceeded
  /\ \/ mode = "plain" /\ mode' \in {"plain", "waterfall", "flame"}
     \/ mode \in {"waterfall", "flame"} /\ mode' = "plain"
  /\ frame' = 0
  /\ cycled' = TRUE
  /\ UNCHANGED <<sizeVars, feedVars, wfVars, heat, source, exceeded, ticks, sinceFeed, painted>>

-----------------------------------------------------------------------------
(* A tick, in the frame that it has just counted.                          *)

FeedFresh == hasRealData /\ frame' - lastFeedFrame <= FeedStaleFrames

Source(playing) ==
  IF playing THEN IF FeedFresh THEN "real" ELSE "simulated" ELSE "paused"

\* tickRealSpectrum reads a band for every bar.
Overrun(playing) == Source(playing) = "real" /\ realBands < bars

Snap == [width |-> bars, tick |-> ticks']

\* Mutant: the head of the ring is not wrapped.
TickWaterfallNoWrap ==
  LET cap   == vizRows * DotRows
      renew == Len(wfBuf) # cap
      head  == IF renew THEN 0 ELSE wfHead
      len   == IF renew THEN 0 ELSE wfLen
  IN  /\ wfBuf' = [i \in 1 .. cap |-> IF i = head + 1 THEN Snap
                                      ELSE IF renew THEN NoSnap ELSE wfBuf[i]]
      /\ wfHead' = head + 1
      /\ wfLen' = IF len < cap THEN len + 1 ELSE len
      /\ painted' = <<Snap>> \o painted

\* A ring of another size is a new one.
TickWaterfall ==
  LET cap   == vizRows * DotRows
      renew == Len(wfBuf) # cap
      head  == IF renew THEN 0 ELSE wfHead
      len   == IF renew THEN 0 ELSE wfLen
  IN  /\ wfBuf' = [i \in 1 .. cap |-> IF i = head + 1 THEN Snap
                                      ELSE IF renew THEN NoSnap ELSE wfBuf[i]]
      /\ wfHead' = (head + 1) % cap
      /\ wfLen' = IF len < cap THEN len + 1 ELSE len
      /\ painted' = <<Snap>> \o painted

\* Heat is renewed for other dimensions, and has these in the end.
TickFlame == heat' = [rows |-> vizRows, cols |-> bars]

Tick ==
  /\ ~exceeded
  /\ ticks < MaxTicks
  /\ ticks' = ticks + 1
  /\ frame' = frame + 1
  /\ sinceFeed' = sinceFeed + 1
  /\ \E playing \in BOOLEAN :
    /\ source' = Source(playing)
    /\ \/ /\ Overrun(playing)
          /\ exceeded' = TRUE
          /\ UNCHANGED <<wfVars, heat, painted>>
       \/ /\ ~Overrun(playing)
          /\ IF mode = "waterfall" THEN TickWaterfall ELSE UNCHANGED <<wfVars, painted>>
          /\ IF mode = "flame" THEN TickFlame ELSE UNCHANGED heat
          /\ UNCHANGED exceeded
  /\ UNCHANGED <<mode, sizeVars, feedVars, cycled>>

VisualizerNext == Resize \/ Feed \/ CycleMode \/ Tick

VisualizerSpec == VisualizerInit /\ [][VisualizerNext]_vars

-----------------------------------------------------------------------------
(* What render draws.                                                      *)

\* Row r of the waterfall, counted from the newest, r < Drawn.
Drawn == IF wfLen < vizRows * DotRows THEN wfLen ELSE vizRows * DotRows
WaterfallRow(r) == wfBuf[((wfHead - 1 - r + Len(wfBuf)) % Len(wfBuf)) + 1]

\* renderFlame goes through all rows and bars if the number of rows is right.
FlameDrawn == heat.rows = vizRows

-----------------------------------------------------------------------------
(* Properties.                                                             *)

\* Every variable has its type, and the ring's head and length stay in the ring
\* (viz_waterfall.go:16 to 20), also when it is renewed.
VisualizerTypeOK ==
  /\ mode \in Modes
  /\ frame \in Nat /\ lastFeedFrame \in Nat /\ realBands \in Nat
  /\ bars \in Widths \cup {20} /\ vizRows \in Heights \cup {2}
  /\ hasRealData \in BOOLEAN /\ exceeded \in BOOLEAN /\ cycled \in BOOLEAN
  /\ wfBuf \in Seq([width : Nat, tick : Nat])
  /\ wfLen \in 0 .. Len(wfBuf)
  /\ wfHead \in 0 .. Len(wfBuf) /\ (wfBuf # <<>> => wfHead < Len(wfBuf))
  /\ heat \in [rows : Nat, cols : Nat]
  /\ source \in {"none", "real", "simulated", "paused"}
  /\ ticks \in 0 .. MaxTicks /\ sinceFeed \in 0 .. MaxTicks
  /\ painted \in Seq([width : Nat, tick : Nat])

\* The waterfall draws the newest snapshots, in their order and without a hole,
\* and each has the width of the window: resizes, changes of mode and the wrapping
\* of the ring never show an old row among new ones (viz_waterfall.go:38 to 41).
WaterfallShowsNewest ==
  \A r \in 0 .. Drawn - 1 :
    /\ r < Len(painted)
    /\ WaterfallRow(r) = painted[r + 1]
    /\ WaterfallRow(r).width = bars

\* Whatever is resized between a tick and the next render, the flame that is drawn
\* has a cell for every bar (viz_flame.go:63 and 75).
FlameFits == FlameDrawn => heat.cols = bars

\* The two modes that keep buffers of their own draw the present window from them.
BuffersFit == WaterfallShowsNewest /\ FlameFits

\* Bars are driven by the spectrum as long as it arrives (visualizer.go:136), and
\* by the simulation only when none has arrived for two frames.  Without a
\* change of mode in between they are left to the simulation as soon as that is so.
FollowsFeed ==
  /\ source = "simulated" => ~hasRealData \/ sinceFeed > FeedStaleFrames \/ sinceFeed = 0
  /\ source = "real" /\ ~cycled => sinceFeed <= FeedStaleFrames

\* HANDOFF.md:168 to 170: while the feed is fresh the bars are driven from
\* realBands.  A tick never runs past their end.
InRange == ~exceeded
=============================================================================
